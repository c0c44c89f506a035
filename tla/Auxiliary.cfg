SPECIFICATION Spec
CONSTANTS
    Ids <- MCIds
    Values = {1, 2}
    DSInputs <- MCDSInputs
    Absent = Absent
    MaxDSRuns = 4
    MaxDSBundles = 1
    JDInputs <- MCJDInputs
    EnvName = "env"
    Nothing = Nothing
    MaxJobs = 4
    MaxJDRuns = 4
    MaxJDFails = 2
    EVMChains = {1, 2}
    SolanaChains = {3, 4}
    LinkInputs <- MCLinkInputs
    Payments <- MCPayments
    Funds = 7
    GasCost = 1
    NoMint = NoMint
    m1 = m1
    m2 = m2
    m3 = m3
    MaxTkRuns = 3
    MaxTkFails = 2
    MaxTkBundles = 1
    MaxAdmin = 1
INVARIANTS UniqueKeys RecordedTokens PaidTwiceOnlyIfLost
PROPERTIES AppliedExactly ProposedEverywhere DeletedOrInactive
CHECK_DEADLOCK FALSE
