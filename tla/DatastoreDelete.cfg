SPECIFICATION Spec
CONSTANTS
    Ids <- MCIds
    Values = {1, 2}
    DSInputs <- MCDSInputs
    Absent = Absent
    MaxDSRuns = 4
    MaxDSBundles = 0
    JDInputs <- MCJDInputs
    EnvName = "env"
    Nothing = Nothing
    MaxJobs = 4
    MaxJDRuns = 0
    MaxJDFails = 1
    EVMChains = {1, 2}
    SolanaChains = {3, 4}
    LinkInputs <- MCLinkInputs
    Payments <- MCPayments
    Funds = 7
    GasCost = 1
    NoMint = NoMint
    m1 = m1
    m2 = m2
    m3 = m3
    MaxTkRuns = 0
    MaxTkFails = 0
    MaxTkBundles = 0
    MaxAdmin = 1
PROPERTY DeletionsMade
CHECK_DEADLOCK FALSE
