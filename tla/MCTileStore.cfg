SPECIFICATION Spec
SYMMETRY Symmetry
CONSTANTS
    c1 = c1
    c2 = c2
    p1 = p1
    p2 = p2
    p3 = p3
    q1 = q1
    Generators = {g1, g2}
    Ccds = {c1, c2}
    Positions = {p1, p2, p3}
    Packs = {q1}
    CcdsAt <- MCCcdsAt
    PackOf <- MCPackOf
    MaxFaults = 1
    MaxZombies = 1
    MaxRequests = 1
INVARIANTS
    StoreInv
    ShownThroughout
CHECK_DEADLOCK FALSE
