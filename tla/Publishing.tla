------------------------------ MODULE Publishing -------------------------------
(***************************************************************************)
(* IncidentDesk and Subscribers at work together: what the polls and the   *)
(* operators do to incidents is told to those who subscribed, by tasks     *)
(* that nothing joins to the transactions that caused them.                *)
(***************************************************************************)
EXTENDS IncidentDesk, Subscribers

deskOwn == <<graph, polled, tables, task, req, ghost>>
vars == <<deskOwn, mail, subsVars, acts>>

Init == DeskInit /\ SubsInit

\* The process stops: what was under way is gone, with the notices nobody began
\* or finished.  Only the edit forms stay, in the browsers.
Restart ==
    /\ Acts
    /\ task' = [t \in Tasks |-> IdleTask]
    /\ req' = [r \in Requests |-> IF req[r].at = "form" THEN req[r] ELSE IdleRequest]
    /\ ask' = [v \in Visitors |-> NoAsk]
    /\ outbox' = {} /\ running' = {}
    /\ lost' = lost \cup {n.of : n \in outbox} \cup {d.notice.of : d \in running}
    /\ UNCHANGED <<graph, polled, tables, ghost, sent, rows, addressed, told, missed, crossed>>

Next ==
    \/ DeskNext /\ UNCHANGED subsVars
    \/ SubsNext /\ UNCHANGED deskOwn
    \/ Restart

\* As in DeskFairness, with the tasks that send.
Fairness ==
    /\ \A i \in Issues : SF_vars(i \in polled /\ (\E t \in Tasks : Fetch(t, i, TRUE)) /\ UNCHANGED subsVars)
    /\ \A t \in Tasks : WF_vars(Proceed(t) /\ UNCHANGED subsVars)
    /\ \A r \in Requests : WF_vars(Answer(r) /\ UNCHANGED subsVars)

Spec == Init /\ [][Next]_vars

-----------------------------------------------------------------------------
\* When no notice of an incident is under way, the newest one told the phase
\* the row is in, and everybody it was for heard it after all the others: unless
\* the phase was edited, or written by two who did not see each other; a notice
\* broke off; or two were under way at once.
TheyKnowTheLatest ==
    \A a \in addressed :
        LET i == a.notice.of IN
        IsNewest(a) /\ i \notin lost =>
            /\ row[i] # NoRow /\ i \notin Quiet \cup raced \cup met \cup edited => a.notice.status = row[i].status
            /\ i \notin crossed =>
                   \A m \in a.to : <<a.notice.n, m>> \in missed \/ HeardLast(m, i, a.notice.n)
=============================================================================
