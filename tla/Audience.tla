------------------------------- MODULE Audience --------------------------------
(***************************************************************************)
(* What the notifications promise: a member joins by a link sent to it, a  *)
(* notice addresses all members of the moment that want its incident, and  *)
(* each of those hears it once at most, and nobody else.                   *)
(***************************************************************************)
VARIABLES
    invited,    \* those a confirmation link was sent to: records with a field wants
    members,    \* those who confirmed and did not leave
    addressed,  \* the notices sent so far, each with its addressees
    told        \* who heard which notice

vars == <<invited, members, addressed, told>>

Init ==
    /\ invited = members
    /\ addressed = {} /\ told = {}

Invite(m) == invited' = invited \cup {m} /\ UNCHANGED <<members, addressed, told>>

Join(m) == m \in invited /\ members' = members \cup {m} /\ UNCHANGED <<invited, addressed, told>>

Leave(m) == members' = members \ {m} /\ UNCHANGED <<invited, addressed, told>>

Address(notice) ==
    /\ \A a \in addressed : a.notice.n # notice.n
    /\ addressed' = addressed \cup
           {[notice |-> notice, to |-> {m \in members : notice.of \in m.wants}]}
    /\ UNCHANGED <<invited, members, told>>

Tell(a, m) ==
    /\ m \in a.to /\ <<a.notice.n, m>> \notin told
    /\ told' = told \cup {<<a.notice.n, m>>}
    /\ UNCHANGED <<invited, members, addressed>>

Next ==
    \/ \E m \in invited' : Invite(m)
    \/ \E m \in invited : Join(m)
    \/ \E m \in members : Leave(m)
    \/ \E a \in addressed' : Address(a.notice)
    \/ \E a \in addressed : \E m \in a.to : Tell(a, m)

Spec == Init /\ [][Next]_vars
=============================================================================
