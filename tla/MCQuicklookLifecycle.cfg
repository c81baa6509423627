SPECIFICATION Spec
CONSTANTS
    Jobs = {j1, j2}
    NoJob = NoJob
    NoRow = NoRow
    Generators = {g1, g2}
    MaxRequests = 2
    MaxAdminDeletes = 0
    MaxCrashes = 1
    MaxFaults = 1
    AllowErrors = TRUE
    AllowTimeouts = TRUE
    SlowRequests = FALSE
CHECK_DEADLOCK FALSE
SYMMETRY Symmetry
INVARIANTS
    LifecycleInv
PROPERTIES
    SuccessIsReady
