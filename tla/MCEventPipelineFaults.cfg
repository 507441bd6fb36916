CONSTANTS
    e1 = e1
    e2 = e2
    Events = {e1, e2}
    DataStore = data_store
    Metrics = metrics
    Alerts = alerts
    Workers = {data_store, metrics}
    KeyedWorkers = {data_store}
    MaxFaults = 1
    DbErrors = {data_store}
    Acme = acme
    Globex = globex
    Customers = {acme, globex}
    Nobody = nobody
    ByName <- Names
    ByEmail <- Mails
    Tickets = {e1, e2}
    TicketLimit = 1
SPECIFICATION PipelineSpec
INVARIANTS
    PipelineTypeOK
    StaleOnlyWhenEarly
    CountsNeverRegress
CHECK_DEADLOCK FALSE
