SPECIFICATION FairSpec
CONSTANTS
    Generators = {g1}
    Frontends = {f1}
    MaxRestarts = 2
    MaxFaults = 2
CHECK_DEADLOCK FALSE
INVARIANTS
    RegistryInv
PROPERTIES
    EverythingSettles
