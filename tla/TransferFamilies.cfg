SPECIFICATION FairSpec
CONSTANTS
    e1 = e1
    e2 = e2
    e3 = e3
    s1 = s1
    x1 = x1
    Chains = {1, 2, 3}
    Family <- ThreeFamilies
    Contracts = {e1, e2, e3, s1, x1}
    Bypassers = {x1}
    Fleets <- TwoFleets
    Deployer = Deployer
    Timelock = Timelock
    Nobody = Nobody
    NoInput = NoInput
    MaxFails = 1
    Returnable = {e1, e2}
    MaxReturns = 1
INVARIANTS
    TypeOK
    ProposalCompletes
PROPERTIES
    EventuallyOwned
