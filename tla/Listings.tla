------------------------------- MODULE Listings --------------------------------
(***************************************************************************)
(* The pages and lists that read the same tables with queries of their     *)
(* own: the status page (routers/status.py), and the dashboard, the lists  *)
(* of incidents and maintenances, the counters beside them, the search and *)
(* the SLA tables of operators (routers/admin.py, dependencies.py).        *)
(***************************************************************************)
EXTENDS StatusPage

CONSTANTS
    Listed,     \* MONITORED_SERVICES: shown while no service is enabled
    Recent,     \* days a resolved incident stays on the page
    PerGroup,   \* most hits the search shows of a table
    TotalCap    \* and of all tables

\* The search never fills up with one group.
ASSUME ListingsAssumption ==
    /\ Listed \subseteq Names /\ Recent \in Nat
    /\ PerGroup \in Nat \ {0} /\ TotalCap \in Nat /\ PerGroup < TotalCap

IsMaintenance(i) == i.kind.class = "maintenance"

-----------------------------------------------------------------------------
(* What a visitor sees.                                                    *)

Shown == IF Enabled = {} THEN Listed ELSE Enabled

\* get_active_incidents of a service.
Active(n) == {i \in incs : i.of = n /\ ~i.resolved /\ ~IsMaintenance(i) /\ ~i.suppressed}

\* get_scheduled_maintenances, of all services and also suppressed ones.
Scheduled == {i \in incs : IsMaintenance(i) /\ ~i.resolved}

\* get_resolved_incidents: suppressed ones as well.
RecentlyResolved == {i \in incs : i.resolved /\ ~IsMaintenance(i) /\ i.changed + Recent >= day}

OnStatusPage == (UNION {Active(n) : n \in Shown}) \cup Scheduled \cup RecentlyResolved

-----------------------------------------------------------------------------
(* What operators see.                                                     *)

\* Mutant: the copy of get_service_current_status without its demotion.
OnDashboardBare(n) == Current(n)

\* get_enabled_services_with_status: one query for the newest rows, and then
\* one for each service that is degraded.
OnDashboard(n) ==
    LET backed == \E i \in incs : i.of = n /\ i.kind.class = "incident" /\ ~i.resolved /\ ~i.suppressed
    IN IF Current(n) # "degraded" \/ backed THEN Current(n) ELSE "operational"

\* get_all_incidents of a class, resolved ones included, and get_all_maintenances.
AllIncidents(class) == {i \in incs : ~IsMaintenance(i) /\ i.kind.class = class}
AllMaintenances == {i \in incs : IsMaintenance(i)}

\* admin_maintenances_all has no filter, and keeps those that are over.
MaintenancesPage == AllMaintenances

\* admin_incidents_all, filtered by a classification or by none.
IncidentsPage(filter) ==
    LET fetched(class) == IF filter \in {class, "none"} THEN AllIncidents(class) ELSE {}
        all == fetched("incident") \cup fetched("advisory")
    IN [incidents |-> {i \in fetched("incident") : ~i.suppressed},
        advisories |-> {i \in fetched("advisory") : ~i.suppressed},
        suppressed |-> {i \in all : i.suppressed}]

\* admin_nav_context.
NavIncidents == Cardinality({i \in incs : ~i.resolved /\ i.kind.class = "incident" /\ ~i.suppressed})
NavMaintenances == Cardinality({i \in incs : IsMaintenance(i) /\ ~i.resolved})

\* search_global, for the name of a service: its incidents, those changed last first, ...
Hits(n) ==
    LET found == {i \in incs : ~IsMaintenance(i) /\ i.of = n}
        sorted == CHOOSE s \in SetToSeqs(found) : \A a, b \in DOMAIN s : a < b => s[b].changed <= s[a].changed
    IN SubSeq(sorted, 1, Earliest({PerGroup, Len(sorted)}))

\* ... and its row, ...
ServiceHits(n) == IF svc[n].known THEN <<n>> ELSE <<>>

\* ... in groups, all of which together are cut off in order.
Kept(hits, before) == SubSeq(hits, 1, Earliest({Len(hits), TotalCap - before}))

Found(n) ==
    LET incidents == Kept(Hits(n), 0)
    IN [incidents |-> incidents, services |-> Kept(ServiceHits(n), Len(incidents))]

\* admin_sla and export_sla_csv, both from get_sla_for_month: a row for each
\* month, and in the table how many of them met the target.
SlaTable(n, target) ==
    LET cells == [m \in Months |-> 100 * Available(n, m) < target * 2 * Length(m)]
    IN [breach |-> cells, met |-> Cardinality({m \in Months : ~cells[m]})]

SlaExport(n, target) ==
    {[month |-> m, met |-> 100 * Available(n, m) >= target * 2 * Length(m), down |-> Downtime(n, m)] : m \in Months}

-----------------------------------------------------------------------------
\* Pages that read the tables by different queries agree: the dashboard shows a
\* service as the status page does, an amber badge has an incident to read below
\* it, the counters beside the lists count what the lists hold, each incident is
\* in one list of operators, and a visitor finds all of it that is open and not
\* suppressed: unless its service is not shown.
PagesAgree ==
    LET desk == IncidentsPage("none")
        lists == <<desk.incidents, desk.advisories, desk.suppressed, MaintenancesPage>>
    IN
    /\ \A n \in Enabled : OnDashboard(n) = Badge(n)
    /\ \A n \in Shown : Badge(n) = "degraded" => \E i \in Active(n) : i.kind.class = "incident"
    /\ NavIncidents = Cardinality({i \in desk.incidents : ~i.resolved})
    /\ NavMaintenances = Cardinality({i \in OnStatusPage : IsMaintenance(i)})
    /\ \A i \in incs : Cardinality({k \in DOMAIN lists : i \in lists[k]}) = 1
    /\ \A class \in {"incident", "advisory"} :
           LET filtered == IncidentsPage(class) IN
           AllIncidents(class) = filtered.incidents \cup filtered.advisories \cup filtered.suppressed
    /\ \A i \in incs : (i.of \in Shown /\ ~i.resolved /\ ~i.suppressed) => i \in OnStatusPage
    /\ \A i \in incs \ AllMaintenances :
           (\A j \in incs : (j.of = i.of /\ j # i) => j.changed < i.changed) => i \in ToSet(Found(i.of).incidents)
    /\ \A n \in Enabled : Found(n).services = <<n>>

\* An outage that goes over the end of a month is counted in each month for the
\* days it has there, none of them twice or not at all, and the table and the
\* export of the SLA judge the months alike.
MonthsAddUp ==
    \A n \in Affected :
        LET whole == [first |-> Earliest({m.first : m \in Months}), last |-> Latest({m.last : m \in Months})]
            DownIn(m) == Downtime(n, m)
            export == SlaExport(n, 99)
        IN /\ Forward(n) => MapThenSumSet(DownIn, Months) = Downtime(n, whole)
           /\ SlaTable(n, 99).met = Cardinality({r \in export : r.met})
=============================================================================
