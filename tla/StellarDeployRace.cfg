SPECIFICATION Spec
CONSTANTS
    q1 = q1
    s1 = s1
    s2 = s2
    Procs = {p1, p2}
    Chains = {1}
    Qualifiers = {q1}
    Configs = {s1, s2}
    Delays = {1}
    Inputs <- TwoConfigs
    Releases <- Current1
    Deployer = Deployer
    Governance = Governance
    NoOwner = NoOwner
    NoConfig = NoConfig
    NoWasm = NoWasm
    NoInit = NoInit
    NoRun = NoRun
    MaxAttempts = 2
    MaxFaults = 1
SYMMETRY ProcSymmetry
INVARIANTS
    TypeOK
    OneInstance
    RecordedInitialized
    Wired
