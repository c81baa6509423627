SPECIFICATION FairDispatcherSpec
CONSTANTS
    NumCcds = 3
    Generators = {g1, g2}
    NoGenerator = NoGenerator
    MaxAttempts = 2
INVARIANTS
    DispatcherTypeOK
    CompletionIsExact
    AttemptsBounded
PROPERTIES
    FirstCompletionWins
    NoStarvation
