SPECIFICATION Spec
CONSTANTS
    NumCcds = 2
    Generators = {g1, g2}
    NoGenerator = NoGenerator
    NoCcd = NoCcd
    MaxAttempts = 1
    MaxConcurrent = 1
    MaxConnectRetries = 2
    MaxCrashes = 1
    MaxFaults = 1
    AllowErrors = FALSE
    AllowTimeout = TRUE
CHECK_DEADLOCK FALSE
INVARIANT
    LostCcdIsResubmittable
