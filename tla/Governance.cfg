SPECIFICATION Spec
CONSTANTS
    c0 = c0
    c1 = c1
    x = x
    y = y
    m1 = m1
    m2 = m2
    Chains = {1, 2, 3}
    Family <- Families
    Governed <- TimelockOwns
    MCMs = {m1, m2}
    Configs = {c0, c1}
    Accounts = {x, y}
    RefsOf <- AllRefs
    Inputs <- AllInputs
    InitConfig = c0
    NoRoot = NoRoot
    NoInput = NoInput
    MaxRuns = 3
    MaxFails = 1
    MaxEnv = 1
INVARIANTS
    TypeOK
    RootSignedByCurrent
PROPERTIES
    DirectEffective
    ProposalEffective
CHECK_DEADLOCK FALSE
