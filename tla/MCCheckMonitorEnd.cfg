SPECIFICATION Spec
CONSTANTS
    site = site
    intranet = intranet
    siteHttp = siteHttp
    siteCert = siteCert
    siteApp = siteApp
    intranetCert = intranetCert
    hourly = hourly
    everyMinute = everyMinute
    sixHourly = sixHourly
    byHand = byHand
    www = www
    www2 = www2
    siteTls = siteTls
    intranetTls = intranetTls
    appId = appId
    None = None
    Services = {site}
    Checks = {siteApp}
    ServiceOf <- Owner
    KindOf <- Kind
    Targets = {appId}
    TargetKind <- KindOfTarget
    FirstTarget <- Target1
    Conditions <- ConditionsOfKind
    Polls = {sixHourly}
    PollKind <- KindOfPoll
    Scheduled = {sixHourly}
    MaxEvents = 3
INVARIANTS
    OpenHasNoEnd
