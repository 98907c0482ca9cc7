SPECIFICATION FairSpec
CONSTANTS
    d1 = d1
    d2 = d2
    Deployer = {d1, d2}
    Schema <- Versions
    Modes = {TRUE, FALSE}
    Filled = {"tblPerson"}
    MaxFaults = 2
INVARIANTS
    Deployed
    HeardFirst
    RightsKnown
    Drawn
PROPERTIES
    Redeployed
