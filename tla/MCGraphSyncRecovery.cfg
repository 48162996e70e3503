SPECIFICATION FreshFairSpec
CONSTANTS
    i1 = i1
    i2 = i2
    exchange = exchange
    teams = teams
    None = None
    Issues = {i1}
    Services = {exchange, teams}
    ServiceOf <- OneService
    ClassOf <- AllIncidents
    Versions <- OpenThenResolved
    Successors <- OneWay
    Scheduled = scheduled
    Delayed = delayed
    Backfills = {b1}
    Aging = {}
    MaxVersions = 2
    MaxToggles = 2
    MaxFaults = 0
PROPERTIES
    CatchesUp
