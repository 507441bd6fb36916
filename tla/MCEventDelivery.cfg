CONSTANTS
    Events = {e1, e2}
    Workers = {data_store}
    KeyedWorkers = {data_store}
    MaxFaults = 3
SPECIFICATION FairSpec
INVARIANTS
    LossNeedsFault
    StoredOnce
PROPERTIES
    ImplementsFanout
    QueueDrains
CHECK_DEADLOCK FALSE
