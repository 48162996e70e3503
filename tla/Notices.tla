-------------------------------- MODULE Notices --------------------------------
(***************************************************************************)
(* The notifications that pass from the incidents to the subscribers: what *)
(* IncidentDesk creates with asyncio.create_task and Subscribers sends.    *)
(***************************************************************************)
EXTENDS Naturals, FiniteSets

CONSTANTS
    Issues,     \* incidents that Microsoft Graph has an issue for
    Manual,     \* incidents an operator may create
    Quiet,      \* advisories and maintenances: announced to nobody
    MaxEvents   \* bound: changes in Graph, acts of operators and visitors, failures

Incidents == Issues \cup Manual

ASSUME NoticesAssumption ==
    Issues \cap Manual = {} /\ Quiet \subseteq Incidents /\ MaxEvents \in Nat

VARIABLES
    outbox,     \* dispatches created that have not read the subscribers yet
    sent,       \* how many were created
    acts        \* number of bounded events so far

mail == <<outbox, sent>>

Status == {"active", "monitoring", "resolved"}

Notice == [n: Nat, of: Incidents, new: BOOLEAN, status: Status]

Acts == acts < MaxEvents /\ acts' = acts + 1

\* create_task(dispatch_incident_notifications(...)).
Post(i, new, status) ==
    /\ outbox' = outbox \cup {[n |-> sent, of |-> i, new |-> new, status |-> status]}
    /\ sent' = sent + 1

Notify(i, new, status) == IF i \in Quiet THEN UNCHANGED mail ELSE Post(i, new, status)
=============================================================================
