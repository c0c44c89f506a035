SPECIFICATION FairSpec
CONSTANTS
    s1 = s1
    s2 = s2
    Chains = {1, 2}
    Inputs <- TwoQualifiers
    Deployer = Deployer
    Nobody = Nobody
    Eoa = Eoa
    NoConfig = NoConfig
    NoInput = NoInput
    MaxAddr = 20
    MaxFails = 1
INVARIANT TypeOK
PROPERTIES
    RecordComplete
    TransfersProposed
    NoForeignAccept
    EventuallyRecorded
