------------------------------ MODULE StatusPage -------------------------------
(***************************************************************************)
(* What the status page and the SLA pages compute (crud.py) from the       *)
(* statuses of StatusEvents and the incidents, while both change.  An      *)
(* incident has here what these computations read of it: IncidentDesk and  *)
(* CheckMonitor have how it comes to be so.                                *)
(***************************************************************************)
EXTENDS StatusEvents, Integers, FiniteSetsExt

CONSTANTS
    Kinds,          \* combinations of severity, classification and phase of incidents
    Excluded,       \* classifications the SLA leaves out (sla_exclude_...)
    Months,         \* first and last days of the months, which follow each other
    Earlier,        \* services that may have an incident to begin with
    NoEnd           \* no end_datetime

\* Operators leave out what is no incident; months have days and leave no gap.
ASSUME PageAssumption ==
    /\ \A k \in Kinds : k.class \in {"incident", "advisory", "maintenance"}
    /\ Excluded \subseteq {"advisory", "maintenance"}
    /\ IsFiniteSet(Months) /\ Months # {} /\ Months \subseteq [first: Nat, last: Nat]
    /\ \A m \in Months : m.first <= m.last
    /\ \A a, b \in Months : a = b \/ a.last < b.first \/ b.last < a.first
    /\ \A a, b \in Months : a.last < b.first => \E c \in Months : c.last + 1 = b.first

VARIABLE incs       \* table incidents: at most one for each service, kind and first day

pageVars == <<eventVars, incs>>

Inc == [of: Names, kind: Kinds, from: Days, to: Days \cup {NoEnd}, resolved: BOOLEAN, changed: Days,
        suppressed: BOOLEAN]

Earliest(S) == CHOOSE d \in S : \A e \in S : d <= e
Latest(S) == CHOOSE d \in S : \A e \in S : e <= d

-----------------------------------------------------------------------------
(* Incidents.                                                              *)

\* create_manual_incident: from now on, and without an end.
Added(n, k) ==
    /\ Acts /\ svc[n].known /\ \A i \in incs : ~(i.of = n /\ i.kind = k)
    /\ incs' = incs \cup {[of |-> n, kind |-> k, from |-> day, to |-> NoEnd, resolved |-> FALSE,
                           changed |-> day, suppressed |-> FALSE]}
    /\ UNCHANGED <<catalogue, eventsOwn>>

\* By an operator, a check or Graph.
Report(n, k) == k.class # "maintenance" /\ Added(n, k)

CreateMaintenance(n, k) == k.class = "maintenance" /\ Added(n, k)

Change1(i, j) == incs' = (incs \ {i}) \cup {j}

\* By an operator or a check with an end, by Graph perhaps without.
Resolve(i, to) ==
    /\ Acts /\ ~i.resolved
    /\ Change1(i, [i EXCEPT !.resolved = TRUE, !.to = to, !.changed = day])
    /\ UNCHANGED <<catalogue, eventsOwn>>

\* A check that fails again: a new start, and the end of before.
Reopen(i) ==
    /\ Acts /\ i.resolved /\ i.kind.class = "incident"
    /\ Change1(i, [i EXCEPT !.resolved = FALSE, !.from = day, !.changed = day])
    /\ UNCHANGED <<catalogue, eventsOwn>>

Suppress(i) ==
    /\ Acts
    /\ Change1(i, [i EXCEPT !.suppressed = ~@])
    /\ UNCHANGED <<catalogue, eventsOwn>>

-----------------------------------------------------------------------------
(* The page.                                                               *)

Rank(s) == CASE s = "operational" -> 0 [] s = "degraded" -> 2 [] s = "interrupted" -> 3 [] OTHER -> 1

Worse(a, b) == IF Rank(a) >= Rank(b) THEN a ELSE b

\* A degraded service without an open incident counts as operational.
Badge(n) ==
    LET open == {i \in incs : i.of = n /\ i.kind.class = "incident" /\ ~i.resolved /\ ~i.suppressed}
    IN IF Current(n) = "degraded" /\ open = {} THEN "operational" ELSE Current(n)

Overall == Latest({Rank(Badge(n)) : n \in Enabled} \cup {0})

BarStatus(i) == IF i.kind.severity = "critical" THEN "interrupted" ELSE "degraded"

\* Mutant: an incident lasts until today, resolved or not.
BarEndToday(i) == Latest({day, i.from})

\* Mutant: an incident without an end lasts until it was last changed.
BarEndChanged(i) == Latest({i.from, IF i.to # NoEnd THEN i.to ELSE i.changed})

\* The last day an incident covers.
BarEnd(i) ==
    Latest({i.from, IF i.to # NoEnd THEN i.to ELSE IF i.resolved THEN i.changed ELSE day})

\* A day's bar: the worst of its row and the incidents that cover it.
Bar(n, d) ==
    LET painting == {i \in incs : /\ i.of = n /\ i.kind.class = "incident" /\ ~i.suppressed
                                  /\ i.from <= d /\ d <= BarEnd(i)}
        row == IF status[n][d] = Silent THEN "operational" ELSE status[n][d]
        worst == IF \E i \in painting : BarStatus(i) = "interrupted" THEN "interrupted" ELSE "degraded"
    IN IF painting = {} THEN row ELSE Worse(row, worst)

\* get_uptime_percentage: the bars that have a weight, in half days.
Uptime(n, window) ==
    LET bar == [d \in window |-> Bar(n, d)]
        weighted == {d \in window : bar[d] \in {"operational", "degraded", "interrupted"}}
        Score(d) == CASE bar[d] = "operational" -> 2 [] bar[d] = "degraded" -> 1 [] OTHER -> 0
    IN [total |-> Cardinality(weighted), score |-> MapThenSumSet(Score, weighted)]

-----------------------------------------------------------------------------
(* The SLA of a month, in half days.                                       *)

Length(m) == m.last - m.first + 1

Counted(n, m) ==
    {i \in incs : /\ i.of = n /\ ~i.suppressed
                  /\ i.to = NoEnd \/ i.to >= m.first
                  /\ i.from <= m.last}

SlaEnd(i, m) == IF i.to = NoEnd THEN m.last ELSE i.to

\* Mutant: from the first day to the last, without the last.
DaysDownShort(i, m) == Earliest({SlaEnd(i, m), m.last}) - Latest({i.from, m.first})

DaysDown(i, m) == Earliest({SlaEnd(i, m), m.last}) - Latest({i.from, m.first}) + 1

\* Only a phase named "degraded", which an operator may add, counts half.
Weight(i) == IF i.kind.severity # "critical" /\ i.kind.status = "degraded" THEN 1 ELSE 2

Downtime(n, m) ==
    LET Lost(i) == DaysDown(i, m) * Weight(i)
    IN MapThenSumSet(Lost, {i \in Counted(n, m) : i.kind.class \notin Excluded})

\* In half days of availability; negative sums are cut off.
Available(n, m) == Latest({0, 2 * Length(m) - Downtime(n, m)})

\* get_sla_breach_reasons: lower severities count nothing.
Reasons(n, m) == {i \in Counted(n, m) : i.kind.class \notin Excluded}

\* Mutant: in the copy of the computation, an incident without an end lasts until today.
ReasonWeightToday(i, m) ==
    (Earliest({IF i.to = NoEnd THEN day ELSE i.to, m.last}) - Latest({i.from, m.first}) + 1) * Weight(i)

ReasonWeight(i, m) == IF i.kind.severity \in {"critical", "high"} THEN DaysDown(i, m) * Weight(i) ELSE 0

-----------------------------------------------------------------------------
\* There may be an incident of the first day, open or resolved.
Init ==
    /\ EventsInit
    /\ incs \in {{}} \cup {{i} : i \in [of: Earlier, kind: {k \in Kinds : k.class = "incident"}, from: {0}, to: {0, NoEnd},
                                    resolved: BOOLEAN, changed: {0}, suppressed: {FALSE}]}
    /\ \A i \in incs : i.to = 0 => i.resolved

Next ==
    \/ EventsNext /\ UNCHANGED incs
    \/ \E n \in Names, k \in Kinds : Report(n, k) \/ CreateMaintenance(n, k)
    \/ \E i \in incs, to \in {day, NoEnd} : Resolve(i, to)
    \/ \E i \in incs : Reopen(i) \/ Suppress(i)

Spec == Init /\ [][Next]_pageVars

Fairness ==
    /\ WF_pageVars(GoUp /\ UNCHANGED incs)
    /\ \A b \in Pages : /\ WF_pageVars(Connect(b) /\ UNCHANGED incs)
                        /\ WF_pageVars(TimerFires(b) /\ UNCHANGED incs)
    /\ WF_pageVars((\E s \in bus : StreamStep(s)) /\ UNCHANGED incs)

-----------------------------------------------------------------------------
\* Two computations of the same outages: what incidents take from the bars of a
\* month, whose rows are all clean, they also take from its SLA, so that it never
\* promises more than the uptime below the bars, and it is a percentage: but for
\* an incident reopened after its end.
Affected == {i.of : i \in incs}
Forward(n) == \A i \in incs : i.of = n => i.to = NoEnd \/ i.from <= i.to
CleanDays(n, m) == {d \in Days : /\ m.first <= d /\ d <= m.last /\ d <= day
                                 /\ status[n][d] \in {"operational", Silent}}
SlaCoversBars ==
    \A n \in Affected, m \in Months :
        Forward(n) => LET shown == Uptime(n, CleanDays(n, m)) IN
            /\ Downtime(n, m) >= 2 * shown.total - shown.score
            /\ Available(n, m) <= 2 * Length(m)

\* The reasons an operator is shown for a breach account for all the downtime,
\* unless an incident of lower severity has caused some of it.
ReasonsAccount ==
    \A n \in Affected, m \in Months :
        LET Shown(i) == ReasonWeight(i, m) IN
        (\A i \in Reasons(n, m) : i.kind.severity \in {"critical", "high"}) =>
            MapThenSumSet(Shown, Reasons(n, m)) = Downtime(n, m)

\* A headline of "degraded" is never above bars that are all green today, though
\* the headline reads the newest rows and the open incidents, and the bars read
\* today's rows and the days incidents cover: but for an open incident with an
\* end that has passed, as a check leaves when it fails again.
HeadlineIsInBars ==
    (\A i \in incs : i.resolved \/ i.to = NoEnd \/ i.to >= day) =>
        (Overall = Rank("degraded") => \E n \in Enabled : Bar(n, day) # "operational")
=============================================================================
