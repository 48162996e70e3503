SPECIFICATION RunningFairSpec
CONSTANTS
    i1 = i1
    i2 = i2
    exchange = exchange
    teams = teams
    None = None
    Issues = {i1, i2}
    Services = {exchange, teams}
    ServiceOf <- TwoServices
    ClassOf <- IncidentAndMaintenance
    Versions <- Anything
    Successors <- AnyOrder
    Scheduled = scheduled
    Delayed = delayed
    Backfills = {}
    Aging = {i1}
    MaxVersions = 2
    MaxToggles = 0
    MaxFaults = 1
INVARIANTS
    OpenIncidentWasTold
PROPERTIES
    ImplementsMirror
    CatchesUp
