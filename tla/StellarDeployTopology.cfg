SPECIFICATION Spec
CONSTANTS
    q1 = q1
    s1 = s1
    s2 = s2
    Procs = {p1}
    Chains = {1}
    Qualifiers = {q1}
    Configs = {s1}
    Delays = {1}
    Inputs <- OneInput
    Releases <- NewMcms
    Deployer = Deployer
    Governance = Governance
    NoOwner = NoOwner
    NoConfig = NoConfig
    NoWasm = NoWasm
    NoInit = NoInit
    NoRun = NoRun
    MaxAttempts = 2
    MaxFaults = 2
INVARIANT TimelockTopology
