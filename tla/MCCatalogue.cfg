CONSTANTS
    Names = {n1, n2}
    Requests = {q1, q2, q3}
    MaxRows = 3

SPECIFICATION Spec

INVARIANTS
    NamesAreUnique
PROPERTIES
    CollisionsHaveCause
    DeletedStaysDeleted
CHECK_DEADLOCK FALSE
