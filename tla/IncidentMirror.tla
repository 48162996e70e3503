---------------------------- MODULE IncidentMirror ----------------------------
(***************************************************************************)
(* What the incident poll promises its readers and subscribers while only  *)
(* one poll runs at a time: the status page is a mirror of Graph that may  *)
(* lag and may skip versions but never goes back, and a subscriber hears   *)
(* of an issue at most once per version that was shown - never before it   *)
(* was shown, and never again after a crash lost the message.              *)
(***************************************************************************)
EXTENDS Naturals

CONSTANT Issues

VARIABLES
    latest,   \* versions Graph has published of each issue
    shown,    \* the version the status page shows; 0 is none
    pending,  \* issues whose shown version is about to be announced
    told      \* announcements made of each issue

vars == <<latest, shown, pending, told>>

Init ==
    /\ latest = [i \in Issues |-> 0]
    /\ shown = [i \in Issues |-> 0]
    /\ pending = {}
    /\ told = [i \in Issues |-> 0]

Publish(i) ==
    /\ latest' = [latest EXCEPT ![i] = @ + 1]
    /\ UNCHANGED <<shown, pending, told>>

Show ==
    /\ pending = {}
    /\ shown' \in [Issues -> Nat]
    /\ \A i \in Issues :
            shown'[i] = shown[i] \/ (shown[i] < shown'[i] /\ shown'[i] <= latest[i])
    /\ pending' \subseteq {i \in Issues : shown'[i] # shown[i]}
    /\ UNCHANGED <<latest, told>>

Tell ==
    /\ told' = [i \in Issues |-> IF i \in pending THEN told[i] + 1 ELSE told[i]]
    /\ pending' = {}
    /\ UNCHANGED <<latest, shown>>

Lose ==
    /\ pending' = {}
    /\ UNCHANGED <<latest, shown, told>>

Next == (\E i \in Issues : Publish(i)) \/ Show \/ Tell \/ Lose

Spec == Init /\ [][Next]_vars

\* The mirror never shows what Graph has not published, and a subscriber never
\* gets more messages about an issue than versions of it were shown.
AtMostOncePerVersion ==
    \A i \in Issues : /\ shown[i] <= latest[i]
                      /\ told[i] + (IF i \in pending THEN 1 ELSE 0) <= shown[i]
=============================================================================
