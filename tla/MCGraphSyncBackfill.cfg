SPECIFICATION FreshSpec
CONSTANTS
    i1 = i1
    i2 = i2
    exchange = exchange
    teams = teams
    None = None
    Issues = {i1}
    Services = {exchange}
    ServiceOf <- OneService
    ClassOf <- AllIncidents
    Versions <- Lifecycle
    Successors <- Forward
    Scheduled = scheduled
    Delayed = delayed
    Backfills = {b1}
    Aging = {}
    MaxVersions = 2
    MaxToggles = 1
    MaxFaults = 0
INVARIANTS
    OpenIncidentWasTold
