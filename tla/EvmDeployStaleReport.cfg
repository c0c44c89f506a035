SPECIFICATION Spec
CONSTANTS
    q1 = q1
    s1 = s1
    s2 = s2
    Chains = {1, 2}
    Qualifiers = {q1}
    Signers = {s1, s2}
    Delays = {1, 2}
    Inputs <- TwoChains
    Deployer = Deployer
    Deletable <- SomeRefs
    NoConfig = NoConfig
    MaxAddr = 8
    MaxFails = 1
    MaxLosses = 0
    MaxDeletes = 0
PROPERTY RecordedKept
CHECK_DEADLOCK FALSE
