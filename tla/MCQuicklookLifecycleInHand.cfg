SPECIFICATION FairSpec
CONSTANTS
    Jobs = {j1, j2}
    NoJob = NoJob
    NoRow = NoRow
    Generators = {g1}
    MaxRequests = 2
    MaxAdminDeletes = 1
    MaxCrashes = 1
    MaxFaults = 0
    AllowErrors = TRUE
    AllowTimeouts = TRUE
    SlowRequests = FALSE
CHECK_DEADLOCK FALSE
INVARIANTS
    UnreadyIsInHand
PROPERTIES
    NotBlocked
