---- MODULE MCStatusPage ----
(* Two services on the page and one that Graph shows later; a month ends
   after the first day. *)
EXTENDS Listings, TLC
CONSTANTS q1, p1, b1
MCKinds == {[severity |-> "critical", class |-> "incident", status |-> "active"],
            [severity |-> "low", class |-> "incident", status |-> "degraded"],
            [severity |-> "critical", class |-> "advisory", status |-> "active"],
            [severity |-> "", class |-> "maintenance", status |-> "scheduled"]}
MCOldOrder == [n \in {1, 2, 3} |-> IF n = 2 THEN 5 ELSE 0]
MCMonths == {[first |-> 0, last |-> 0], [first |-> 1, last |-> 2]}
FairSpec == Spec /\ Fairness
====
