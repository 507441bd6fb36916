CONSTANTS
    e1 = e1
    e2 = e2
    Events = {e1, e2}
    DataStore = data_store
    Metrics = metrics
    Alerts = alerts
    Workers = {data_store, metrics, alerts}
    KeyedWorkers = {data_store}
    MaxFaults = 0
    DbErrors = {metrics}
    Acme = acme
    Globex = globex
    Customers = {acme, globex}
    Nobody = nobody
    ByName <- Names
    ByEmail <- SharedMails
    Tickets = {e1, e2}
    TicketLimit = 0
SPECIFICATION PipelineSpec
INVARIANT WarningsAreDue
CHECK_DEADLOCK FALSE
