CONSTANTS
    Customers = {acme, globex}
    Jobs = {recompute, contact}
    Recompute = recompute
    Contact = contact
    Worker = worker
    None = none
    Senders = {acme}
    MaxEvents = 2
SPECIFICATION MCSpec
INVARIANTS
    LocksHaveNoCycle
    WorkerInsertsOnce
    RecountsLast
PROPERTIES
    SessionsEnd
CHECK_DEADLOCK FALSE
