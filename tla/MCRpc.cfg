SPECIFICATION FairSpec
CONSTANTS
    Calls = {c1, c2}
    Consumers = {c2}
    Workers = 1
    MaxYields <- YieldsOf
    MaxFaults = 1
CHECK_DEADLOCK FALSE
INVARIANTS
    TypeOK
PROPERTIES
    ImplementsRpcCall
    CallsEnd
