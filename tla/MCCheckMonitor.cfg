SPECIFICATION FairSpec
CONSTANTS
    site = site
    intranet = intranet
    siteHttp = siteHttp
    siteCert = siteCert
    siteApp = siteApp
    intranetCert = intranetCert
    hourly = hourly
    everyMinute = everyMinute
    sixHourly = sixHourly
    byHand = byHand
    www = www
    www2 = www2
    siteTls = siteTls
    intranetTls = intranetTls
    appId = appId
    None = None
    Services = {site, intranet}
    Checks = {siteHttp, siteCert, intranetCert}
    ServiceOf <- Owner
    KindOf <- Kind
    Targets = {www, www2, siteTls, intranetTls}
    TargetKind <- KindOfTarget
    FirstTarget <- Target1
    Conditions <- ConditionsOfKind
    Polls = {hourly, everyMinute, byHand}
    PollKind <- KindOfPoll
    Scheduled = {hourly, everyMinute}
    MaxEvents = 2
INVARIANTS
    TypeOK
    ResultsMatchIncidents
PROPERTIES
    ResultsAreNews
    IncidentsSettle
