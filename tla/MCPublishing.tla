---- MODULE MCPublishing ----
(* One issue, an incident and an advisory of the operators', two addresses beside
   the webhook. *)
EXTENDS Publishing, TLC
CONSTANTS i1, m1, m2, p1, t1, r1, v1, v2
FairSpec == Spec /\ Fairness
====
