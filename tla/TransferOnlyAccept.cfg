SPECIFICATION Spec
CONSTANTS
    e1 = e1
    e2 = e2
    e3 = e3
    s1 = s1
    x1 = x1
    Chains = {1, 2, 3}
    Family <- ThreeFamilies
    Contracts = {x1}
    Bypassers = {x1}
    Fleets <- OneFleet
    Deployer = Deployer
    Timelock = Timelock
    Nobody = Nobody
    NoInput = NoInput
    MaxFails = 1
    Returnable = {}
    MaxReturns = 0
INVARIANTS
    OnlyAcceptRefused
