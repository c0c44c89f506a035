SPECIFICATION SolanaFairSpec
CONSTANTS
    Chains <- MCChains
    Quals <- MCQuals
    Inputs <- MCInputs
    Deletable <- MCDeletable
    MaxUint64 = 7
    None = None
    MaxRuns = 2
    MaxFails = 1
    MaxBundles = 1
    MaxDeletes = 1
    FundInputs <- MCFundInputs
    Balance = 6
    Fee = 1
    MaxFunds = 2
    MaxSpends = 1
INVARIANTS TypeOK GrantedConfigured Wired ShortOnlyByFees PaidOnce
PROPERTIES RecordComplete PdasFunded EventuallyRecorded
CHECK_DEADLOCK FALSE
