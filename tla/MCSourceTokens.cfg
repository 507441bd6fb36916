CONSTANTS
    Ingests = {r1, r2}
    Admins = {a1, a2}
    TTL = 1
    MaxStall = 1
    MaxTime = 4
SPECIFICATION Spec
SYMMETRY RequestSymmetry
INVARIANTS
    TypeOK
    ContradictionNeedsOverlap
PROPERTY DecidedInTime
CHECK_DEADLOCK FALSE
