SPECIFICATION FairSpec
CONSTANTS
    NoValue = NoValue
    MaxQueueSize = 2
    SlowRelay = FALSE
    MaxUnderWay = 3
    MaxJobs = 1
    MaxTraffic = 1
    MaxFaults = 1
INVARIANTS
    RelayInv
    ViewerIsCurrent
PROPERTIES
    NewsAreShown
CHECK_DEADLOCK FALSE
