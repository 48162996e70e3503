----------------------------- MODULE MCGraphSync -----------------------------
(* Small instances of GraphSync for TLC. *)
EXTENDS GraphSync

CONSTANTS i1, i2, exchange, teams

OneService == [i \in Issues |-> exchange]
TwoServices == [i \in Issues |-> IF i = i1 THEN exchange ELSE teams]
AllIncidents == [i \in Issues |-> "incident"]
IncidentAndMaintenance == [i \in Issues |-> IF i = i1 THEN "incident" ELSE "maintenance"]

Investigating == [raw |-> "investigating", resolved |-> FALSE]
Degraded == [raw |-> "serviceDegradation", resolved |-> FALSE]
Restored == [raw |-> "serviceRestored", resolved |-> TRUE]
Withdrawn == [raw |-> "falsePositive", resolved |-> TRUE]
Unmapped == [raw |-> "other", resolved |-> TRUE]

\* An incident is opened, identified and resolved.
Lifecycle == {Investigating, Degraded, Restored}
Forward == [v \in Lifecycle |->
    IF v = Investigating THEN {Degraded, Restored} ELSE IF v = Degraded THEN {Restored} ELSE {}]

\* It may be withdrawn, resolved with a status the code does not know, or reopened.
Anything == {Investigating, Unmapped, Withdrawn}
AnyOrder == [v \in Anything |-> Anything \ {v}]

\* Opened and resolved: enough for the tasks that overlap to set each other back.
OpenThenResolved == {Investigating, Restored}
OneWay == [v \in OpenThenResolved |-> IF v = Investigating THEN {Restored} ELSE {}]

\* A new installation: no service is enabled yet.
FreshInit == Init /\ enabled = {}
FreshSpec == FreshInit /\ [][Next]_vars
FreshFairSpec == FreshSpec /\ Fairness

\* An installation with all services enabled.
RunningInit == Init /\ enabled = Services
RunningFairSpec == RunningInit /\ [][Next]_vars /\ Fairness
=============================================================================
