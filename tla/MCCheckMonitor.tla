---------------------------- MODULE MCCheckMonitor ----------------------------
(* Small instances of CheckMonitor for TLC. *)
EXTENDS CheckMonitor

CONSTANTS site, intranet, siteHttp, siteCert, intranetCert, siteApp,
          hourly, everyMinute, sixHourly, byHand,
          www, www2, siteTls, intranetTls, appId

\* One service with an HTTP check and a certificate or an app, and one with a certificate.
Owner == [c \in Checks |-> IF c = intranetCert THEN intranet ELSE site]
Kind == [c \in Checks |-> CASE c = siteHttp -> "http" [] c = siteApp -> "enterprise_app" [] OTHER -> "certificate"]
KindOfTarget == [t \in Targets |-> CASE t \in {www, www2} -> "http" [] t = appId -> "enterprise_app" [] OTHER -> "certificate"]
Target1 == [c \in Checks |-> CASE c = siteHttp -> www [] c = siteApp -> appId
                                [] c = siteCert -> siteTls [] OTHER -> intranetTls]

\* The scheduler's poll of each kind, and an HTTP poll started by hand.
KindOfPoll == [p \in Polls |-> CASE p = hourly -> "certificate" [] p = sixHourly -> "enterprise_app" [] OTHER -> "http"]

\* Each end of what an endpoint, a certificate and an app may come to.
ConditionsOfKind == [k \in Kinds |->
    CASE k = "http" -> {[answers |-> TRUE, expected |-> e] : e \in BOOLEAN}
      [] k = "certificate" -> {[read |-> TRUE, days |-> 30], [read |-> TRUE, days |-> 29], [read |-> FALSE, days |-> 0]}
      [] OTHER -> {[read |-> TRUE, enabled |-> TRUE, owners |-> 1, expiries |-> x, idle |-> i] :
                     x \in {{400}, {400, -1}}, i \in {None, 31}}]
=============================================================================
