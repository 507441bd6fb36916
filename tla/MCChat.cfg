CONSTANTS
    Users = {u1, u2}
    Limit = 2
    MaxRequests = 4

SPECIFICATION MCSpec

INVARIANTS
    SessionsArePrivate
    NoEmptySession
    HistoryInOrder
    CountMissesOverlapping
PROPERTIES
    LoneRequestRepairsCount
    CounterRunsOut
    RequestsEnd
CHECK_DEADLOCK FALSE
