CONSTANTS
    Viewers = {"a", "b"}
    ShownVisits = {1, 2}
    CheckedStages = 2
    MaxMoves = 2
SPECIFICATION VotesSpec
INVARIANT WaitingIsCounted
CHECK_DEADLOCK FALSE
