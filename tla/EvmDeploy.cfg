SPECIFICATION FairSpec
CONSTANTS
    q1 = q1
    s1 = s1
    s2 = s2
    Chains = {1, 2}
    Qualifiers = {q1}
    Signers = {s1}
    Delays = {1, 2}
    Inputs <- TwoChains
    Deployer = Deployer
    Deletable <- SomeRefs
    NoConfig = NoConfig
    MaxAddr = 10
    MaxFails = 1
    MaxLosses = 1
    MaxDeletes = 1
INVARIANTS
    TypeOK
    RecordedMCMConfigured
    AllOrNothing
    Wired
    AtMostOncePerInput
PROPERTIES RefinesRecord EventuallyRecorded
CHECK_DEADLOCK FALSE
