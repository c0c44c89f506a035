SPECIFICATION FairSpec
CONSTANTS
    q1 = q1
    s1 = s1
    s2 = s2
    Procs = {p1}
    Chains = {1, 2}
    Qualifiers = {q1}
    Configs = {s1}
    Delays = {1}
    Inputs <- TwoChains
    Releases <- NewMcms
    Deployer = Deployer
    Governance = Governance
    NoOwner = NoOwner
    NoConfig = NoConfig
    NoWasm = NoWasm
    NoInit = NoInit
    NoRun = NoRun
    MaxAttempts = 2
    MaxFaults = 1
INVARIANT OneInstance
PROPERTIES
    RefinesRecord
    EventuallyRecorded
