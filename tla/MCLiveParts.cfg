SPECIFICATION LiveSpec
CONSTANTS
    Visits = {1, 2, 3}
    NumStages = 2
    Parallel <- TwoThenOne
    Bounded = {2}
    Capacity = 1
    Prioritised = {2}
    Checked = {1, 2}
    MaxEvents = 1
INVARIANTS
    QueueInv
    JobIsInOnePlace
PROPERTIES
    PartsEnd
CHECK_DEADLOCK FALSE
