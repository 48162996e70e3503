--------------------------- MODULE PublishingProofs ----------------------------
(***************************************************************************)
(* The theorems about Publishing, for every set of addresses, visitors,    *)
(* incidents, tasks and requests: what holds of the subscriptions and the  *)
(* dispatches, each step of which keeps the promise of Audience, holds     *)
(* together with the invariants of the desk, through every interleaving    *)
(* and restart.                                                            *)
(***************************************************************************)
EXTENDS Publishing, IncidentDeskProofs, WellFoundedInduction

-----------------------------------------------------------------------------
(* The inductive invariant of subscriptions and dispatches.                *)

SubscriptionType == [token: 0..tokens, confirmed: BOOLEAN, wants: SUBSET Incidents]
LinkType == [who: Addresses, token: 0..tokens, wants: SUBSET Incidents]
AskType == [at: {"idle", "insert", "send"}, who: Addresses \cup {Hook}, token: 0..tokens, wants: SUBSET Incidents]
MemberType == [who: Nat, token: Nat, wants: SUBSET Incidents]

RowsOK ==
    /\ subs \in [Addresses -> SubscriptionType \cup {Absent}] /\ tokens \in Nat
    /\ links \subseteq LinkType /\ ask \in [Visitors -> AskType]

\* What a visitor asked for is in the row made for him, and in the link.
Agree(e, token, wants) == subs[e] # Absent /\ subs[e].token = token => subs[e].wants = wants

AskOK(v) ==
    ask[v].at # "idle" =>
        /\ ask[v].who \in Addresses
        /\ ask[v].at = "send" => Agree(ask[v].who, ask[v].token, ask[v].wants)

WantsOK ==
    /\ \A v \in Visitors : AskOK(v)
    /\ \A l \in links : Agree(l.who, l.token, l.wants)

\* Notices are numbered in the order they were created.
NumbersOK ==
    /\ sent \in Nat /\ outbox \subseteq Notice
    /\ \A n \in outbox : n.n < sent /\ \A o \in outbox : o.n = n.n => o = n
    /\ \A a \in addressed :
           /\ a.notice \in Notice /\ a.notice.n < sent /\ a.to \subseteq MemberType
           /\ \A n \in outbox : n.n # a.notice.n

ToldSet == {told[k] : k \in DOMAIN told}

ToldOK ==
    /\ told \in Seq(Nat \X MemberType)
    /\ \A x \in ToldSet : \E a \in addressed : x[1] = a.notice.n

\* A dispatch tells those it is for, and one at a time.
Pending(d) ==
    \E a \in addressed :
        /\ a.notice = d.notice /\ d.left \subseteq a.to
        /\ \A m \in d.left : <<d.notice.n, m>> \notin ToldSet

RunningOK ==
    /\ \A d \in running : d = [notice |-> d.notice, left |-> d.left] /\ d.left # {} /\ Pending(d)
    /\ \A d, c \in running : d.notice.n = c.notice.n => d = c

SubsInv == RowsOK /\ WantsOK /\ NumbersOK /\ ToldOK /\ RunningOK

Members == {HookMember} \cup {Member(e, subs[e]) : e \in {a \in Addresses : Reachable(a)}}

\* What a step may do to the links that work.
LinksStay == \A l \in links : HasRow(l) => HasRow(l)' \/ subs'[l.who] = Absent

\* What Audience allows.
AudienceStep == [Promise!Next]_Promise!vars

-----------------------------------------------------------------------------
(* The first of those left.                                                *)

LEMMA LessIsWellFounded == IsWellFoundedOn({p \in Nat \X Nat : p[1] < p[2]}, Nat)
  BY NatLessThanWellFounded DEF OpToRel

LEMMA Smallest ==
    ASSUME NEW S \in SUBSET Nat, S # {}
    PROVE  \E x \in S : \A y \in S : x <= y
<1> DEFINE R == {p \in Nat \X Nat : p[1] < p[2]}
<1>1. IsWellFoundedOn(R, Nat)
  BY LessIsWellFounded
<1> HIDE DEF R
<1>2. \E x \in S : \A y \in S : ~ (<<y, x>> \in R)
  BY <1>1, WFMin
<1>3. \A x, y \in Nat : <<y, x>> \in R <=> y < x
  BY DEF R
<1>4. PICK x \in S : \A y \in S : ~ (<<y, x>> \in R)
  BY <1>2
<1>5. ASSUME NEW y \in S PROVE x <= y
  <2>1. ~ (y < x)
    BY <1>3, <1>4
  <2>2. QED
    BY <2>1
<1>6. QED
  BY <1>5

LEMMA FirstIsLeft ==
    ASSUME NEW left \in SUBSET MemberType, left # {}
    PROVE  First(left) \in left
<1> DEFINE whos == {m.who : m \in left}
<1>1. whos \in SUBSET Nat /\ whos # {}
  BY DEF MemberType
<1>2. \E w \in whos : \A o \in whos : w <= o
  <2> HIDE DEF whos
  <2>1. QED
    BY <1>1, Smallest
<1>3. \E m \in left : \A o \in left : m.who <= o.who
  BY <1>2
<1>4. QED
  BY <1>3 DEF First

-----------------------------------------------------------------------------
(* The start, and steps that change nothing the subscribers would notice.  *)

LEMMA MembersOfType == ASSUME RowsOK PROVE Members \subseteq MemberType
<1>1. HookMember \in MemberType
  BY SubscribersAssumption DEF HookMember, MemberType
<1>2. ASSUME NEW e \in Addresses, Reachable(e) PROVE Member(e, subs[e]) \in MemberType
  BY <1>2, SubscribersAssumption DEF RowsOK, Reachable, SubscriptionType, Member, MemberType
<1>3. QED
  BY <1>1, <1>2 DEF Members

LEMMA InitSubs ==
    ASSUME SubsInit, outbox = {}, sent = 0
    PROVE  SubsInv /\ Promise!Init
<1>1. Subscription(0, TRUE, Incidents) \in SubscriptionType /\ tokens = 0
  BY DEF SubsInit, Subscription, SubscriptionType
<1>2. NoAsk \in AskType /\ NoAsk.at = "idle"
  BY <1>1 DEF NoAsk, AskType
<1>3. ASSUME NEW e \in Addresses, subs[e] # Absent
      PROVE  /\ subs[e] = Subscription(0, TRUE, Incidents) /\ Member(e, subs[e]) \in LinkType
             /\ Member(e, subs[e]).who = e /\ Member(e, subs[e]).wants = subs[e].wants /\ Reachable(e)
  <2>1. subs[e] = Subscription(0, TRUE, Incidents)
    BY <1>3 DEF SubsInit
  <2>2. QED
    BY <1>1, <1>3, <2>1 DEF Member, LinkType, Subscription, Reachable
<1>4. RowsOK
  <2>1. subs \in [Addresses -> SubscriptionType \cup {Absent}]
    BY <1>1 DEF SubsInit
  <2>2. links \subseteq LinkType
    BY <1>3 DEF SubsInit
  <2>3. ask \in [Visitors -> AskType] /\ tokens \in Nat
    BY <1>1, <1>2 DEF SubsInit
  <2>4. QED
    BY <2>1, <2>2, <2>3 DEF RowsOK
<1>5. WantsOK
  <2>1. \A v \in Visitors : ask[v].at = "idle"
    BY <1>2 DEF SubsInit
  <2>2. \A l \in links : Agree(l.who, l.token, l.wants)
    <3> SUFFICES ASSUME NEW l \in links PROVE Agree(l.who, l.token, l.wants)
      OBVIOUS
    <3>1. PICK e \in Addresses : subs[e] # Absent /\ l = Member(e, subs[e])
      BY DEF SubsInit
    <3>2. QED
      BY <1>3, <3>1 DEF Agree
  <2>3. QED
    BY <2>1, <2>2 DEF WantsOK, AskOK
<1>6. NumbersOK /\ ToldOK /\ RunningOK
  BY DEF SubsInit, NumbersOK, ToldOK, ToldSet, RunningOK
<1>7. {a \in Addresses : subs[a] # Absent} = {a \in Addresses : Reachable(a)}
  BY <1>3 DEF Reachable
<1>8. Promise!Init
  BY <1>7 DEF SubsInit, Promise!Init
<1>9. QED
  BY <1>4, <1>5, <1>6, <1>8 DEF SubsInv

\* The lines of the dispatches and what was told are as they were.
LEMMA DispatchesStay ==
    ASSUME ToldOK, RunningOK, UNCHANGED <<running, addressed, told>>
    PROVE  ToldOK' /\ RunningOK'
  BY DEF ToldOK, RunningOK, Pending, ToldSet

LEMMA NumbersStay ==
    ASSUME NumbersOK, UNCHANGED <<outbox, sent, addressed>>
    PROVE  NumbersOK'
  BY DEF NumbersOK

\* A step of which Audience sees nothing.
LEMMA Unheard ==
    ASSUME UNCHANGED <<links, addressed, told>>, Members' = Members
    PROVE  AudienceStep
  BY DEF AudienceStep, Promise!vars, Members

LEMMA SubsStay ==
    ASSUME SubsInv, UNCHANGED <<mail, subsVars>>
    PROVE  SubsInv' /\ LinksStay /\ AudienceStep
<1>1. UNCHANGED <<outbox, sent, subs, tokens, links, ask, running, addressed, told>>
  BY DEF mail, subsVars, rows, heard
<1>2. RowsOK' /\ WantsOK'
  BY <1>1 DEF SubsInv, RowsOK, WantsOK, AskOK, Agree, SubscriptionType, LinkType, AskType
<1>3. Members' = Members /\ LinksStay
  BY <1>1 DEF Members, Reachable, LinksStay, HasRow
<1>4. QED
  BY <1>1, <1>2, <1>3, NumbersStay, DispatchesStay, Unheard DEF SubsInv

-----------------------------------------------------------------------------
(* Subscriptions.                                                          *)

LEMMA SubscribeStep ==
    ASSUME SubsInv, NEW v \in Visitors, NEW e \in Addresses, NEW wants \in (SUBSET Incidents) \ {{}},
           Subscribe(v, e, wants)
    PROVE  SubsInv' /\ LinksStay /\ AudienceStep
<1> DEFINE new == [NoAsk EXCEPT !.at = "insert", !.who = e, !.wants = wants]
<1>1. NoAsk \in AskType
  BY DEF NoAsk, AskType, SubsInv, RowsOK
<1>2. new \in AskType /\ new.at = "insert" /\ new.who = e
  BY <1>1 DEF AskType
<1>3. ask' = [ask EXCEPT ![v] = new]
      /\ UNCHANGED <<outbox, sent, subs, tokens, links, running, addressed, told>>
  BY DEF Subscribe, mail, rows, heard
<1> HIDE DEF new
<1>4. RowsOK' /\ WantsOK'
  BY <1>2, <1>3 DEF SubsInv, RowsOK, WantsOK, AskOK, Agree, SubscriptionType, LinkType, AskType
<1>5. Members' = Members /\ LinksStay
  BY <1>3 DEF Members, Reachable, LinksStay, HasRow
<1>6. QED
  BY <1>3, <1>4, <1>5, NumbersStay, DispatchesStay, Unheard DEF SubsInv

LEMMA InsertStep ==
    ASSUME SubsInv, NEW v \in Visitors, InsertSubscriber(v)
    PROVE  SubsInv' /\ LinksStay /\ AudienceStep
<1> DEFINE e == ask[v].who
<1>1. UNCHANGED <<outbox, sent, links, running, addressed, told>> /\ ask[v].at = "insert"
  BY DEF InsertSubscriber, mail, heard
<1>2. e \in Addresses /\ ask[v] \in AskType /\ NoAsk \in AskType /\ tokens \in Nat
  BY <1>1 DEF SubsInv, RowsOK, WantsOK, AskOK, NoAsk, AskType
<1>3. CASE ~Vacant(e)
  <2>1. ask' = [ask EXCEPT ![v] = NoAsk] /\ UNCHANGED <<subs, tokens>>
    BY <1>3 DEF InsertSubscriber
  <2>2. NoAsk.at = "idle"
    BY DEF NoAsk
  <2>3. RowsOK' /\ WantsOK'
    BY <1>1, <1>2, <2>1, <2>2 DEF SubsInv, RowsOK, WantsOK, AskOK, Agree, SubscriptionType, LinkType, AskType
  <2>4. Members' = Members /\ LinksStay
    BY <1>1, <2>1 DEF Members, Reachable, LinksStay, HasRow
  <2>5. QED
    BY <1>1, <2>3, <2>4, NumbersStay, DispatchesStay, Unheard DEF SubsInv
<1>4. CASE Vacant(e)
  <2> DEFINE new == Subscription(tokens + 1, FALSE, ask[v].wants)
             asked == [ask[v] EXCEPT !.at = "send", !.token = tokens + 1]
  <2>1. tokens' = tokens + 1 /\ subs' = [subs EXCEPT ![e] = new] /\ ask' = [ask EXCEPT ![v] = asked]
        /\ subs[e] = Absent
    BY <1>2, <1>4 DEF InsertSubscriber, SubsInv, RowsOK, Vacant
  <2>2. new \in SubscriptionType' /\ ~new.confirmed /\ new.token = tokens + 1 /\ new.wants = ask[v].wants
    BY <1>2, <2>1 DEF Subscription, SubscriptionType, AskType
  <2>3. asked \in AskType' /\ asked.at = "send" /\ asked.who = e /\ asked.token = tokens + 1
        /\ asked.wants = ask[v].wants
    <3>1. tokens + 1 \in 0..tokens' /\ 0..tokens \subseteq 0..tokens'
      BY <1>2, <2>1
    <3>2. QED
      BY <1>2, <3>1 DEF AskType
  <2> HIDE DEF new, asked
  <2>4. SubscriptionType \subseteq SubscriptionType' /\ LinkType \subseteq LinkType' /\ AskType \subseteq AskType'
    <3>1. 0..tokens \subseteq 0..tokens'
      BY <1>2, <2>1
    <3>2. QED
      BY <3>1 DEF SubscriptionType, LinkType, AskType
  <2>5. RowsOK'
    <3>1. subs' \in [Addresses -> SubscriptionType' \cup {Absent}]
      BY <2>1, <2>2, <2>4 DEF SubsInv, RowsOK
    <3>2. ask' \in [Visitors -> AskType']
      BY <2>1, <2>3, <2>4 DEF SubsInv, RowsOK
    <3>3. links' \subseteq LinkType' /\ tokens' \in Nat
      BY <1>1, <1>2, <2>1, <2>4 DEF SubsInv, RowsOK
    <3>4. QED
      BY <3>1, <3>2, <3>3 DEF RowsOK
  <2>6. \A a \in Addresses : subs'[a] = IF a = e THEN new ELSE subs[a]
    BY <2>1 DEF SubsInv, RowsOK
  <2>7. ASSUME NEW a \in Addresses, NEW token \in 0..tokens, NEW wants, Agree(a, token, wants)
        PROVE  Agree(a, token, wants)'
    BY <1>2, <2>2, <2>6, <2>7 DEF Agree
  <2>8. WantsOK'
    <3>1. \A l \in links' : Agree(l.who, l.token, l.wants)'
      BY <1>1, <2>7 DEF SubsInv, RowsOK, WantsOK, LinkType
    <3>2. ASSUME NEW w \in Visitors PROVE AskOK(w)'
      <4>1. CASE w = v
        <5>1. ask'[w] = asked
          BY <2>1, <4>1 DEF SubsInv, RowsOK
        <5>2. subs'[e].wants = ask[v].wants
          BY <1>2, <2>2, <2>6
        <5>3. QED
          BY <1>2, <2>3, <5>1, <5>2 DEF AskOK, Agree
      <4>2. CASE w # v
        <5>1. ask'[w] = ask[w] /\ ask[w].token \in 0..tokens
          BY <2>1, <4>2 DEF SubsInv, RowsOK, AskType
        <5>2. AskOK(w)
          BY DEF SubsInv, WantsOK
        <5>3. ask[w].at = "send" => ask[w].who \in Addresses /\ Agree(ask[w].who, ask[w].token, ask[w].wants)
          BY <5>2 DEF AskOK
        <5>4. ask[w].at = "send" /\ subs'[ask[w].who] # Absent /\ subs'[ask[w].who].token = ask[w].token
                  => subs'[ask[w].who].wants = ask[w].wants
          BY <2>7, <5>1, <5>3 DEF Agree
        <5>5. QED
          BY <5>1, <5>2, <5>4 DEF AskOK, Agree
      <4>3. QED
        BY <4>1, <4>2
    <3>3. QED
      BY <3>1, <3>2 DEF WantsOK
  <2>9. Members' = Members
    <3>1. \A a \in Addresses : Reachable(a)' <=> Reachable(a)
      BY <2>1, <2>2, <2>6 DEF Reachable
    <3>2. \A a \in Addresses : Reachable(a) => subs'[a] = subs[a]
      BY <2>1, <2>6 DEF Reachable
    <3>3. QED
      BY <3>1, <3>2 DEF Members
  <2>10. LinksStay
    BY <1>1, <2>1, <2>6 DEF LinksStay, HasRow, SubsInv, RowsOK, LinkType
  <2>11. QED
    BY <1>1, <2>5, <2>8, <2>9, <2>10, NumbersStay, DispatchesStay, Unheard DEF SubsInv
<1>5. QED
  BY <1>3, <1>4

LEMMA SendStep ==
    ASSUME SubsInv, NEW v \in Visitors, NEW ok \in BOOLEAN, SendConfirmation(v, ok)
    PROVE  SubsInv' /\ LinksStay /\ AudienceStep
<1>1. /\ UNCHANGED <<outbox, sent, subs, tokens, running, addressed, told>>
      /\ ask' = [ask EXCEPT ![v] = NoAsk] /\ ask[v].at = "send"
      /\ links' = IF ok THEN links \cup {AskedMember(v)} ELSE links
  BY DEF SendConfirmation, mail, heard
<1>2. NoAsk \in AskType /\ NoAsk.at = "idle"
  BY DEF NoAsk, AskType, SubsInv, RowsOK
<1>3. /\ AskedMember(v) \in LinkType
      /\ Agree(AskedMember(v).who, AskedMember(v).token, AskedMember(v).wants)
  <2>1. ask[v] \in AskType /\ ask[v].who \in Addresses /\ Agree(ask[v].who, ask[v].token, ask[v].wants)
    BY <1>1 DEF SubsInv, RowsOK, WantsOK, AskOK
  <2>2. QED
    BY <2>1 DEF AskedMember, LinkType, AskType
<1>4. RowsOK'
  BY <1>1, <1>2, <1>3 DEF SubsInv, RowsOK, SubscriptionType, LinkType, AskType
<1>5. WantsOK'
  <2>1. \A w \in Visitors : AskOK(w)'
    BY <1>1, <1>2 DEF SubsInv, RowsOK, WantsOK, AskOK, Agree
  <2>2. \A l \in links' : Agree(l.who, l.token, l.wants)
    BY <1>1, <1>3 DEF SubsInv, WantsOK
  <2>3. QED
    BY <1>1, <2>1, <2>2 DEF WantsOK, Agree
<1>6. Members' = Members /\ LinksStay
  BY <1>1 DEF Members, Reachable, LinksStay, HasRow
<1>7. AudienceStep
  <2>1. CASE ok
    <3>1. Promise!Invite(AskedMember(v))
      BY <1>1, <1>6, <2>1 DEF Promise!Invite, Members
    <3>2. AskedMember(v) \in ({HookMember} \cup links)'
      BY <1>1, <2>1
    <3>3. QED
      BY <3>1, <3>2 DEF AudienceStep, Promise!Next
  <2>2. CASE ~ok
    BY <1>1, <1>6, <2>2, Unheard
  <2>3. QED
    BY <2>1, <2>2
<1>8. QED
  BY <1>1, <1>4, <1>5, <1>6, <1>7, NumbersStay, DispatchesStay DEF SubsInv

LEMMA ConfirmStep ==
    ASSUME SubsInv, NEW l \in links, Confirm(l)
    PROVE  SubsInv' /\ LinksStay /\ AudienceStep
<1> DEFINE e == l.who
           new == [subs[e] EXCEPT !.confirmed = TRUE]
<1>1. /\ UNCHANGED <<outbox, sent, tokens, links, ask, running, addressed, told>>
      /\ subs' = [subs EXCEPT ![e] = new] /\ HasRow(l) /\ ~subs[e].confirmed
  BY DEF Confirm, mail, heard, SubsInv, RowsOK
<1>2. e \in Addresses /\ subs[e] \in SubscriptionType /\ l \in LinkType
  BY <1>1 DEF SubsInv, RowsOK, LinkType, HasRow
<1>3. new \in SubscriptionType /\ new.token = subs[e].token /\ new.wants = subs[e].wants /\ new.confirmed
  BY <1>2 DEF SubscriptionType
<1> HIDE DEF new
<1>4. \A a \in Addresses : subs'[a] = IF a = e THEN new ELSE subs[a]
  BY <1>1, <1>2 DEF SubsInv, RowsOK
<1>5. RowsOK'
  BY <1>1, <1>2, <1>3 DEF SubsInv, RowsOK, SubscriptionType, LinkType, AskType
<1>6. ASSUME NEW a \in Addresses, NEW token, NEW wants, Agree(a, token, wants)
      PROVE  Agree(a, token, wants)'
  BY <1>6, <1>1, <1>3, <1>4 DEF Agree, HasRow
<1>7. WantsOK'
  <2>1. ASSUME NEW w \in Visitors PROVE AskOK(w)'
    <3>1. AskOK(w)
      BY DEF SubsInv, WantsOK
    <3>2. ask[w].at = "send" => ask[w].who \in Addresses /\ Agree(ask[w].who, ask[w].token, ask[w].wants)
      BY <3>1 DEF AskOK
    <3>3. ask[w].at = "send" /\ subs'[ask[w].who] # Absent /\ subs'[ask[w].who].token = ask[w].token
              => subs'[ask[w].who].wants = ask[w].wants
      BY <1>6, <3>2 DEF Agree
    <3>4. QED
      BY <1>1, <3>1, <3>3 DEF AskOK, Agree
  <2>2. \A k \in links' : Agree(k.who, k.token, k.wants)'
    BY <1>1, <1>6 DEF SubsInv, RowsOK, WantsOK, LinkType, Agree
  <2>3. QED
    BY <2>1, <2>2 DEF WantsOK
<1>8. LinksStay
  BY <1>1, <1>3, <1>4 DEF LinksStay, HasRow, SubsInv, RowsOK, LinkType
<1>9. AudienceStep
  <2>1. Member(e, subs[e]) = l
    <3>1. l.token = subs[e].token /\ l.wants = subs[e].wants
      BY <1>1 DEF SubsInv, WantsOK, Agree, HasRow
    <3>2. QED
      BY <1>2, <3>1 DEF Member, LinkType
  <2>2. CASE new = Absent
    <3>1. \A a \in Addresses : Reachable(a)' <=> Reachable(a)
      BY <1>1, <1>4, <2>2 DEF Reachable, HasRow
    <3>2. \A a \in Addresses : Reachable(a) => subs'[a] = subs[a]
      BY <1>1, <1>4 DEF Reachable
    <3>3. Members' = Members
      BY <3>1, <3>2 DEF Members
    <3>4. QED
      BY <1>1, <3>3, Unheard
  <2>3. CASE new # Absent
    <3>1. \A a \in Addresses : Reachable(a)' <=> Reachable(a) \/ a = e
      BY <1>3, <1>4, <2>3 DEF Reachable
    <3>2. Member(e, subs'[e]) = l
      BY <1>2, <1>3, <1>4, <2>1 DEF Member
    <3>3. \A a \in Addresses : a # e => subs'[a] = subs[a]
      BY <1>4
    <3>4. ~Reachable(e)
      BY <1>1 DEF Reachable
    <3>5. Members' = Members \cup {l}
      BY <1>2, <3>1, <3>2, <3>3, <3>4 DEF Members
    <3>6. Promise!Join(l)
      BY <1>1, <3>5 DEF Promise!Join, Members
    <3>7. QED
      BY <3>6 DEF AudienceStep, Promise!Next
  <2>4. QED
    BY <2>2, <2>3
<1>10. QED
  BY <1>1, <1>5, <1>7, <1>8, <1>9, NumbersStay, DispatchesStay DEF SubsInv

\* Unsubscribe and AdminDelete.
LEMMA DeletedStep ==
    ASSUME SubsInv, NEW e \in Addresses, subs[e] # Absent, Deleted(e),
           UNCHANGED <<outbox, sent, tokens, links, ask, running, addressed, told>>
    PROVE  SubsInv' /\ LinksStay /\ AudienceStep
<1>1. \A a \in Addresses : subs'[a] = IF a = e THEN Absent ELSE subs[a]
  BY DEF Deleted, SubsInv, RowsOK
<1>2. RowsOK'
  BY DEF Deleted, SubsInv, RowsOK, SubscriptionType, LinkType, AskType
<1>3. ASSUME NEW a \in Addresses, NEW token, NEW wants, Agree(a, token, wants)
      PROVE  Agree(a, token, wants)'
  BY <1>3, <1>1 DEF Agree
<1>4. WantsOK'
  <2>1. ASSUME NEW w \in Visitors PROVE AskOK(w)'
    <3>1. AskOK(w)
      BY DEF SubsInv, WantsOK
    <3>2. ask[w].at = "send" => ask[w].who \in Addresses /\ Agree(ask[w].who, ask[w].token, ask[w].wants)
      BY <3>1 DEF AskOK
    <3>3. ask[w].at = "send" /\ subs'[ask[w].who] # Absent /\ subs'[ask[w].who].token = ask[w].token
              => subs'[ask[w].who].wants = ask[w].wants
      BY <1>3, <3>2 DEF Agree
    <3>4. QED
      BY <3>1, <3>3 DEF AskOK, Agree
  <2>2. \A k \in links' : Agree(k.who, k.token, k.wants)'
    BY <1>3 DEF SubsInv, RowsOK, WantsOK, LinkType, Agree
  <2>3. QED
    BY <2>1, <2>2 DEF WantsOK
<1>5. LinksStay
  BY <1>1 DEF LinksStay, HasRow, SubsInv, RowsOK, LinkType
<1>6. AudienceStep
  <2>1. \A a \in Addresses : Reachable(a)' <=> Reachable(a) /\ a # e
    BY <1>1 DEF Reachable
  <2>2. \A a \in Addresses : a # e => subs'[a] = subs[a]
    BY <1>1
  <2>3. CASE ~Reachable(e)
    <3>1. Members' = Members
      BY <2>1, <2>2, <2>3 DEF Members
    <3>2. QED
      BY <3>1, Unheard
  <2>4. CASE Reachable(e)
    <3>1. \A a \in Addresses : Member(a, subs[a]).who = a
      BY DEF Member
    <3>2. HookMember.who = Hook /\ Hook # e
      BY SubscribersAssumption DEF HookMember
    <3> DEFINE m == Member(e, subs[e])
    <3>3. Members' = Members \ {m}
      <4>1. m \notin {Member(a, subs[a]) : a \in {b \in Addresses : Reachable(b) /\ b # e}} /\ HookMember # m
        BY <3>1, <3>2
      <4>2. {Member(a, subs[a]) : a \in {b \in Addresses : Reachable(b)}} =
            {m} \cup {Member(a, subs[a]) : a \in {b \in Addresses : Reachable(b) /\ b # e}}
        BY <2>4
      <4>3. Members' = {HookMember} \cup {Member(a, subs[a]) : a \in {b \in Addresses : Reachable(b) /\ b # e}}
        BY <2>1, <2>2 DEF Members
      <4>4. QED
        BY <4>1, <4>2, <4>3 DEF Members
    <3>4. m \in Members
      BY <2>4 DEF Members
    <3> HIDE DEF m
    <3>5. Promise!Leave(m)
      BY <3>3 DEF Promise!Leave, Members
    <3>6. QED
      BY <3>4, <3>5 DEF AudienceStep, Promise!Next, Members
  <2>5. QED
    BY <2>3, <2>4
<1>7. QED
  BY <1>2, <1>4, <1>5, <1>6, NumbersStay, DispatchesStay DEF SubsInv

-----------------------------------------------------------------------------
(* Dispatches.                                                             *)

\* The subscriptions are as they were.
LEMMA RowsStay ==
    ASSUME RowsOK, WantsOK, UNCHANGED <<subs, tokens, links, ask>>
    PROVE  RowsOK' /\ WantsOK' /\ Members' = Members /\ LinksStay
<1>1. RowsOK' /\ WantsOK'
  BY DEF RowsOK, WantsOK, AskOK, Agree, SubscriptionType, LinkType, AskType
<1>2. Members' = Members /\ LinksStay
  BY DEF Members, Reachable, LinksStay, HasRow
<1>3. QED
  BY <1>1, <1>2

LEMMA BeginStep ==
    ASSUME SubsInv, NEW n \in outbox, Begin(n)
    PROVE  SubsInv' /\ LinksStay /\ AudienceStep
<1>0. PICK to : to = Recipients(n.of)
  OBVIOUS
<1> DEFINE new == [notice |-> n, left |-> to]
           a == [notice |-> n, to |-> to]
<1>1. /\ outbox' = outbox \ {n} /\ running' = running \cup {new} /\ addressed' = addressed \cup {a}
      /\ UNCHANGED <<sent, subs, tokens, links, ask, told>>
  BY <1>0 DEF Begin, rows
<1>2. n \in Notice /\ n.n \in Nat /\ n.of \in Incidents /\ n.n < sent
  BY DEF SubsInv, NumbersOK, Notice
<1>3. to = {m \in Members : n.of \in m.wants} /\ HookMember \in to /\ to \subseteq MemberType
  <2>1. n.of \in HookMember.wants
    BY <1>2 DEF HookMember
  <2>2. to = {m \in Members : n.of \in m.wants} /\ HookMember \in to
    BY <1>0, <2>1 DEF Recipients, Members
  <2>3. QED
    BY <2>2, MembersOfType DEF SubsInv
<1>4. a.notice = n /\ a.to = to /\ new.notice = n /\ new.left = to
      /\ new = [notice |-> new.notice, left |-> new.left]
  OBVIOUS
<1> HIDE DEF new, a
<1>5. \A b \in addressed : b.notice.n # n.n
  BY DEF SubsInv, NumbersOK
<1>6. NumbersOK'
  BY <1>1, <1>2, <1>3, <1>4 DEF SubsInv, NumbersOK
<1>7. ToldSet' = ToldSet
  BY <1>1 DEF ToldSet
<1>8. ToldOK'
  BY <1>1, <1>7 DEF SubsInv, ToldOK
<1>9. \A d \in running : Pending(d)' /\ d.notice.n # n.n
  BY <1>1, <1>5, <1>7 DEF SubsInv, RunningOK, Pending
<1>10. Pending(new)'
  <2>1. \A m : <<n.n, m>> \notin ToldSet
    BY <1>5 DEF SubsInv, ToldOK
  <2>2. QED
    <3>1. a \in addressed' /\ a.notice = new.notice /\ new.left \subseteq a.to
      BY <1>1, <1>4
    <3>2. \A m \in new.left : <<new.notice.n, m>> \notin ToldSet'
      BY <1>4, <1>7, <2>1
    <3>3. QED
      BY <3>1, <3>2 DEF Pending
<1>11. RunningOK'
  <2>1. \A d \in running' : d = [notice |-> d.notice, left |-> d.left] /\ d.left # {}
    BY <1>1, <1>3, <1>4 DEF SubsInv, RunningOK
  <2>2. \A d \in running' : Pending(d)'
    BY <1>1, <1>9, <1>10
  <2>3. \A d, c \in running' : d.notice.n = c.notice.n => d = c
    BY <1>1, <1>4, <1>9 DEF SubsInv, RunningOK
  <2>4. QED
    BY <2>1, <2>2, <2>3 DEF RunningOK
<1>12. RowsOK' /\ WantsOK' /\ Members' = Members /\ LinksStay
  BY <1>1, RowsStay DEF SubsInv
<1>13. AudienceStep
  <2>1. Promise!Address(n)
    BY <1>1, <1>3, <1>5, <1>12 DEF Promise!Address, Members, a
  <2>2. a \in addressed'
    BY <1>1
  <2>3. Promise!Address(a.notice)
    BY <1>4, <2>1
  <2>4. QED
    BY <2>2, <2>3 DEF AudienceStep, Promise!Next
<1>14. QED
  BY <1>6, <1>8, <1>11, <1>12, <1>13 DEF SubsInv

LEMMA ToldGrows ==
    ASSUME ToldOK, NEW x \in Nat \X MemberType, told' = Append(told, x)
    PROVE  told' \in Seq(Nat \X MemberType) /\ ToldSet' = ToldSet \cup {x}
<1>1. told \in Seq(Nat \X MemberType)
  BY DEF ToldOK
<1>2. /\ told' \in Seq(Nat \X MemberType) /\ DOMAIN told' = DOMAIN told \cup {Len(told) + 1}
      /\ \A k \in DOMAIN told : told'[k] = told[k]
      /\ told'[Len(told) + 1] = x
  BY <1>1
<1>3. QED
  BY <1>2 DEF ToldSet

LEMMA TellStep ==
    ASSUME SubsInv, NEW d \in running, NEW ok \in BOOLEAN, Tell(d, ok)
    PROVE  SubsInv' /\ LinksStay /\ AudienceStep
<1> DEFINE m == First(d.left)
           rest == d.left \ {m}
           new == [d EXCEPT !.left = rest]
           x == <<d.notice.n, m>>
<1>1. /\ running' = (running \ {d}) \cup (IF rest = {} THEN {} ELSE {new})
      /\ told' = IF ok THEN Append(told, x) ELSE told
      /\ UNCHANGED <<outbox, sent, subs, tokens, links, ask, addressed>>
  BY DEF Tell, Rest, rows
<1>2. PICK a \in addressed : /\ a.notice = d.notice /\ d.left \subseteq a.to
                             /\ \A o \in d.left : <<d.notice.n, o>> \notin ToldSet
  BY DEF SubsInv, RunningOK, Pending
<1>3. d.notice \in Notice /\ d.notice.n \in Nat /\ a.to \subseteq MemberType /\ d.left # {}
  BY <1>2 DEF SubsInv, NumbersOK, RunningOK, Notice
<1>4. m \in d.left /\ m \in MemberType
  BY <1>2, <1>3, FirstIsLeft
<1>5. new.notice = d.notice /\ new.left = rest /\ new = [notice |-> new.notice, left |-> new.left]
  <2>1. d = [notice |-> d.notice, left |-> d.left]
    BY DEF SubsInv, RunningOK
  <2>2. new = [notice |-> d.notice, left |-> rest]
    BY <2>1
  <2>3. QED
    BY <2>2
<1> HIDE DEF m, new
<1>6. told' \in Seq(Nat \X MemberType) /\ ToldSet' = IF ok THEN ToldSet \cup {x} ELSE ToldSet
  <2>1. CASE ok
    <3>1. x \in Nat \X MemberType
      BY <1>3, <1>4
    <3>2. QED
      BY <1>1, <2>1, <3>1, ToldGrows DEF SubsInv
  <2>2. CASE ~ok
    BY <1>1, <2>2 DEF ToldSet, SubsInv, ToldOK
  <2>3. QED
    BY <2>1, <2>2
<1>7. ToldOK'
  BY <1>1, <1>2, <1>6 DEF SubsInv, ToldOK
<1>8. \A c \in running : c # d => Pending(c)' /\ c.notice.n # d.notice.n
  BY <1>1, <1>6 DEF SubsInv, RunningOK, Pending
<1>9. Pending(new)'
  BY <1>1, <1>2, <1>5, <1>6 DEF Pending
<1>10. RunningOK'
  BY <1>1, <1>5, <1>8, <1>9 DEF SubsInv, RunningOK
<1>11. RowsOK' /\ WantsOK' /\ Members' = Members /\ LinksStay
  BY <1>1, RowsStay DEF SubsInv
<1>12. AudienceStep
  <2>1. CASE ok
    <3>1. Promise!Tell(a, m)
      BY <1>1, <1>2, <1>4, <1>6, <1>11, <2>1 DEF Promise!Tell, ToldSet, Members
    <3>2. m \in a.to
      BY <1>2, <1>4
    <3>3. QED
      BY <3>1, <3>2 DEF AudienceStep, Promise!Next
  <2>2. CASE ~ok
    BY <1>1, <1>11, <2>2, Unheard
  <2>3. QED
    BY <2>1, <2>2
<1>13. QED
  BY <1>1, <1>7, <1>10, <1>11, <1>12, NumbersStay DEF SubsInv

\* Dispatches that end early, however many.
LEMMA FewerStep ==
    ASSUME SubsInv, running' \subseteq running, outbox' \subseteq outbox,
           UNCHANGED <<sent, subs, tokens, links, addressed, told>>,
           \A v \in Visitors : ask'[v] = ask[v] \/ ask'[v] = NoAsk, ask' \in [Visitors -> AskType]
    PROVE  SubsInv' /\ LinksStay /\ AudienceStep
<1>1. NoAsk.at = "idle"
  BY DEF NoAsk
<1>2. RowsOK'
  BY DEF SubsInv, RowsOK, SubscriptionType, LinkType, AskType
<1>3. WantsOK'
  BY <1>1 DEF SubsInv, WantsOK, AskOK, Agree
<1>4. NumbersOK' /\ ToldOK' /\ RunningOK'
  BY DEF SubsInv, NumbersOK, ToldOK, RunningOK, Pending, ToldSet
<1>5. Members' = Members /\ LinksStay
  BY DEF Members, Reachable, LinksStay, HasRow
<1>6. QED
  BY <1>2, <1>3, <1>4, <1>5, Unheard DEF SubsInv

\* A notification is created.
LEMMA PostStep ==
    ASSUME SubsInv, NEW i \in Incidents, NEW new \in BOOLEAN, NEW s \in Status, Post(i, new, s),
           UNCHANGED subsVars
    PROVE  SubsInv' /\ LinksStay /\ AudienceStep
<1> DEFINE n == [n |-> sent, of |-> i, new |-> new, status |-> s]
<1>1. outbox' = outbox \cup {n} /\ sent' = sent + 1
      /\ UNCHANGED <<subs, tokens, links, ask, running, addressed, told>>
  BY DEF Post, subsVars, rows, heard
<1>2. n \in Notice /\ n.n = sent /\ sent \in Nat
  BY DEF Notice, SubsInv, NumbersOK
<1> HIDE DEF n
<1>3. NumbersOK'
  <2>1. \A o \in outbox : o.n \in Nat /\ o.n < sent
    BY DEF SubsInv, NumbersOK, Notice
  <2>2. \A b \in addressed : b.notice.n \in Nat /\ b.notice.n < sent
    BY DEF SubsInv, NumbersOK, Notice
  <2>3. QED
    BY <1>1, <1>2, <2>1, <2>2 DEF SubsInv, NumbersOK
<1>4. QED
  BY <1>1, <1>3, RowsStay, DispatchesStay, Unheard DEF SubsInv

-----------------------------------------------------------------------------
(* Every step of the subscriptions and the dispatches.                     *)

LEMMA VisitStep ==
    ASSUME SubsInv, Visit
    PROVE  SubsInv' /\ LinksStay /\ AudienceStep
<1>1. ASSUME NEW v \in Visitors, NEW e \in Addresses, NEW wants \in (SUBSET Incidents) \ {{}}, Subscribe(v, e, wants)
      PROVE  SubsInv' /\ LinksStay /\ AudienceStep
  BY <1>1, SubscribeStep
<1>2. ASSUME NEW v \in Visitors, InsertSubscriber(v)
      PROVE  SubsInv' /\ LinksStay /\ AudienceStep
  BY <1>2, InsertStep
<1>3. ASSUME NEW v \in Visitors, NEW ok \in BOOLEAN, SendConfirmation(v, ok)
      PROVE  SubsInv' /\ LinksStay /\ AudienceStep
  BY <1>3, SendStep
<1>4. ASSUME NEW l \in links, Confirm(l)
      PROVE  SubsInv' /\ LinksStay /\ AudienceStep
  BY <1>4, ConfirmStep
<1>5. ASSUME NEW a \in addressed, NEW m \in a.to, Unsubscribe(m)
      PROVE  SubsInv' /\ LinksStay /\ AudienceStep
  <2>1. /\ Deleted(m.who) /\ subs[m.who] # Absent /\ m.who # Hook
        /\ UNCHANGED <<outbox, sent, tokens, links, ask, running, addressed, told>>
    BY <1>5 DEF Unsubscribe, HasRow, heard
  <2>2. CASE m.who \in Addresses
    BY <2>1, <2>2, DeletedStep
  <2>3. CASE m.who \notin Addresses
    <3>1. subs' = subs
      BY <2>1, <2>3 DEF Deleted, SubsInv, RowsOK
    <3>2. QED
      BY <2>1, <3>1, RowsStay, NumbersStay, DispatchesStay, Unheard DEF SubsInv
  <2>4. QED
    BY <2>2, <2>3
<1>6. ASSUME NEW e \in Addresses, AdminDelete(e)
      PROVE  SubsInv' /\ LinksStay /\ AudienceStep
  BY <1>6, DeletedStep DEF AdminDelete, heard
<1>7. QED
  BY <1>1, <1>2, <1>3, <1>4, <1>5, <1>6 DEF Visit

LEMMA DispatchStep ==
    ASSUME SubsInv, Dispatch
    PROVE  SubsInv' /\ LinksStay /\ AudienceStep
<1>1. ASSUME NEW n \in outbox, Begin(n)
      PROVE  SubsInv' /\ LinksStay /\ AudienceStep
  BY <1>1, BeginStep
<1>2. ASSUME NEW d \in running, NEW ok \in BOOLEAN, Tell(d, ok)
      PROVE  SubsInv' /\ LinksStay /\ AudienceStep
  BY <1>2, TellStep
<1>3. ASSUME NEW d \in running, Break(d)
      PROVE  SubsInv' /\ LinksStay /\ AudienceStep
  <2>1. running' \subseteq running /\ ask' \in [Visitors -> AskType]
        /\ UNCHANGED <<outbox, sent, subs, tokens, links, ask, addressed, told>>
    BY <1>3 DEF Break, rows, SubsInv, RowsOK
  <2>2. QED
    BY <2>1, FewerStep
<1>4. QED
  BY <1>1, <1>2, <1>3 DEF Dispatch

LEMMA SubsStep ==
    ASSUME SubsInv, SubsNext
    PROVE  SubsInv' /\ LinksStay /\ AudienceStep
  BY VisitStep, DispatchStep DEF SubsNext

LEMMA SubsActs == ASSUME acts \in Nat, SubsNext PROVE acts' \in Nat
<1>1. CASE Visit
  <2>1. \A v \in Visitors, e \in Addresses, wants \in (SUBSET Incidents) \ {{}} :
            Subscribe(v, e, wants) => acts' = acts + 1
    BY DEF Subscribe, Acts
  <2>2. \A v \in Visitors : InsertSubscriber(v) => acts' = acts
    BY DEF InsertSubscriber
  <2>3. \A v \in Visitors, ok \in BOOLEAN : SendConfirmation(v, ok) => acts' \in {acts, acts + 1}
    BY DEF SendConfirmation, Acts
  <2>4. \A l \in links : Confirm(l) => acts' = acts
    BY DEF Confirm
  <2>5. \A m : Unsubscribe(m) => acts' = acts + 1
    BY DEF Unsubscribe, Acts
  <2>6. \A e \in Addresses : AdminDelete(e) => acts' = acts + 1
    BY DEF AdminDelete, Acts
  <2>7. acts + 1 \in Nat
    OBVIOUS
  <2>8. QED
    BY <1>1, <2>1, <2>2, <2>3, <2>4, <2>5, <2>6, <2>7 DEF Visit
<1>2. CASE Dispatch
  BY <1>2 DEF Dispatch, Begin, Tell, Break, Acts
<1>3. QED
  BY <1>1, <1>2 DEF SubsNext

LEMMA SubsInvType == ASSUME SubsInv PROVE SubsTypeOK
<1>1. \A d \in running : d.notice \in Notice /\ d.left # {}
  BY DEF SubsInv, RunningOK, Pending, NumbersOK
<1>2. QED
  BY <1>1 DEF SubsInv, RowsOK, SubsTypeOK, SubscriptionType, LinkType, AskType

-----------------------------------------------------------------------------
(* The whole system.                                                       *)

\* The invariants of the two parts do not touch: a notification is all that
\* passes between them.
IInv == DeskInv /\ SubsInv /\ acts \in Nat

-----------------------------------------------------------------------------
(* The process stops.                                                      *)

LEMMA RestartDesk ==
    ASSUME DeskInv, Restart
    PROVE  DeskInv' /\ TitlesStay /\ MarksMarked
<1>1. /\ task' = [t \in Tasks |-> IdleTask]
      /\ req' = [r \in Requests |-> IF req[r].at = "form" THEN req[r] ELSE IdleRequest]
      /\ UNCHANGED <<graph, polled, row, phase, updates, born, raced, stale, met, reopened, edited, cleared, solved>>
  BY DEF Restart, tables, ghost
<1>2. OwnTypeOK'
  BY <1>1, IdleTypes DEF DeskInv, Shapes, OwnTypeOK
<1>3. TasksShape' /\ TasksMeet' /\ PostsKnown'
  BY <1>1 DEF DeskInv, Shapes, TasksShape, TasksMeet, PostsKnown, Busy, IdleTask
<1>4. RequestsShape'
  BY <1>1, IdleRequestOK DEF DeskInv, Shapes, RequestsShape, RequestOK
<1>5. QED
  BY <1>1, <1>2, <1>3, <1>4, KeepsPromises, RowStays DEF DeskInv, Shapes

LEMMA RestartSubs ==
    ASSUME SubsInv, Restart
    PROVE  SubsInv' /\ LinksStay /\ AudienceStep
<1>1. NoAsk \in AskType
  BY DEF NoAsk, AskType, SubsInv, RowsOK
<1>2. ask' = [v \in Visitors |-> NoAsk] /\ outbox' = {} /\ running' = {}
      /\ UNCHANGED <<sent, subs, tokens, links, addressed, told>>
  BY DEF Restart, rows
<1>3. QED
  BY <1>1, <1>2, FewerStep

-----------------------------------------------------------------------------
(* Every step of the system.                                               *)

LEMMA InitInv == ASSUME Init PROVE IInv /\ Promise!Init
<1>1. DeskInv /\ outbox = {} /\ sent = 0 /\ acts = 0
  BY InitDesk DEF Init, DeskInit
<1>2. SubsInv /\ Promise!Init
  BY <1>1, InitSubs DEF Init
<1>3. QED
  BY <1>1, <1>2 DEF IInv

LEMMA StepInv ==
    ASSUME IInv, [Next]_vars
    PROVE  IInv' /\ TitlesStay /\ MarksMarked /\ LinksStay /\ AudienceStep
<1>1. CASE DeskNext /\ UNCHANGED subsVars
  <2>1. DeskInv' /\ TitlesStay /\ MarksMarked /\ acts' \in Nat
    BY <1>1, DeskStep, DeskMail DEF IInv
  <2>2. UNCHANGED mail \/ \E i \in Incidents, new \in BOOLEAN, s \in Status : Post(i, new, s)
    BY <1>1, DeskMail DEF IInv
  <2>3. SubsInv' /\ LinksStay /\ AudienceStep
    BY <1>1, <2>2, PostStep, SubsStay DEF IInv
  <2>4. QED
    BY <2>1, <2>3 DEF IInv
<1>2. CASE SubsNext /\ UNCHANGED deskOwn
  <2>1. SubsInv' /\ LinksStay /\ AudienceStep /\ acts' \in Nat
    BY <1>2, SubsStep, SubsActs DEF IInv
  <2>2. DeskInv' /\ TitlesStay /\ MarksMarked
    BY <1>2, DeskStays DEF IInv, deskOwn, tables, ghost
  <2>3. QED
    BY <2>1, <2>2 DEF IInv
<1>3. CASE Restart
  <2>1. acts' \in Nat
    BY <1>3 DEF Restart, Acts, IInv
  <2>2. QED
    BY <1>3, <2>1, RestartDesk, RestartSubs DEF IInv
<1>4. CASE UNCHANGED vars
  BY <1>4, DeskStays, SubsStay DEF IInv, vars, deskOwn, tables, ghost
<1>5. QED
  BY <1>1, <1>2, <1>3, <1>4 DEF Next

\* The inductive invariant of the whole system: the tables, the syncs and the
\* requests under way, the subscriptions and the dispatches fit together after
\* every step of admin.py, scheduler.py, subscribers.py and notifications.py.
THEOREM PublishingInvariant == Spec => []IInv
<1>1. Init => IInv
  BY InitInv
<1>2. IInv /\ [Next]_vars => IInv'
  BY StepInv
<1>3. QED
  BY <1>1, <1>2, PTL DEF Spec

-----------------------------------------------------------------------------
(* Type correctness.                                                       *)

\* The incidents, their timeline and updates, and whatever a sync or a request
\* holds of them between two awaits keep their types.
THEOREM DeskTypes == Spec => []DeskTypeOK
<1>1. IInv => DeskTypeOK
  BY DEF IInv, DeskInv, Shapes, OwnTypeOK, TaskType, RequestType, DeskTypeOK, SubsInv, NumbersOK
<1>2. QED
  BY <1>1, PublishingInvariant, PTL

\* The subscribers and the dispatches keep their types; no dispatch goes on with nobody left.
THEOREM SubsTypes == Spec => []SubsTypeOK
<1>1. IInv => SubsTypeOK
  BY SubsInvType DEF IInv
<1>2. QED
  BY <1>1, PublishingInvariant, PTL

-----------------------------------------------------------------------------
(* Incidents.                                                              *)

\* For any number of polls, backfills and operators at once: a post Microsoft
\* wrote is public only after an operator approved it or the issue was resolved.
THEOREM DraftsPrivate == Spec => []DraftsStayPrivate
<1>1. IInv => DraftsStayPrivate
  BY DEF IInv, DeskInv, Promises
<1>2. QED
  BY <1>1, PublishingInvariant, PTL

\* For any number of syncs: a post is stored twice only if two of them were at
\* work on its incident at once.
THEOREM PostsOnce == Spec => []PostsAreStoredOnce
<1>1. IInv => PostsAreStoredOnce
  BY DEF IInv, DeskInv, Promises
<1>2. QED
  BY <1>1, PublishingInvariant, PTL

\* The phase bar of an incident ends in its phase after any number of syncs, edits,
\* stale forms and deletions, once it has an entry or if it was first stored as
\* active.  Left out are an incident that someone wrote who had loaded an older row,
\* and one a sync opened again without a move, until its next entry; one first
\* stored in another phase has the bar of an active one until its first entry.
THEOREM TimelineTrue == Spec => []TimelineMatchesRow
<1>1. IInv => TimelineMatchesRow
  BY DEF IInv, DeskInv, Promises
<1>2. QED
  BY <1>1, PublishingInvariant, PTL

\* No sync, edit or translation puts an English title back over a translation, unless
\* it had loaded the row, or its form had shown it, before that.
THEOREM TranslationsStay == Spec => TranslationSticks
<1>1. IInv /\ [Next]_vars => [TitlesStay]_deskVars
  BY StepInv
<1>2. Spec => [][TitlesStay]_deskVars
  BY <1>1, PublishingInvariant, PTL DEF Spec
<1>3. QED
  BY <1>2 DEF TranslationSticks, TitlesStay

\* Suppression and acknowledgement change by the operators' own actions only.
THEOREM MarksAreKept == Spec => MarksStay
<1>1. IInv /\ [Next]_vars => [MarksMarked]_deskVars
  BY StepInv
<1>2. Spec => [][MarksMarked]_deskVars
  BY <1>1, PublishingInvariant, PTL DEF Spec
<1>3. QED
  BY <1>2 DEF MarksStay, MarksMarked

-----------------------------------------------------------------------------
(* Subscribers.                                                            *)

\* A confirmation link works until its subscription is deleted, for any number
\* of visitors who ask for the same addresses at once.
THEOREM LinksKeepWorking == Spec => LinksWork
<1>1. IInv /\ [Next]_vars => [LinksStay]_subsVars
  BY StepInv
<1>2. Spec => [][LinksStay]_subsVars
  BY <1>1, PublishingInvariant, PTL DEF Spec
<1>3. QED
  BY <1>2 DEF LinksWork, LinksStay

\* The system implements Audience: whoever is told of an incident confirmed a
\* link sent to him, chose it, and is told once, for any number of subscribers
\* and dispatches and through restarts.
THEOREM PromiseKept == Spec => KeepsPromise
<1>1. Init => Promise!Init
  BY InitInv
<1>2. IInv /\ [Next]_vars => [Promise!Next]_Promise!vars
  BY StepInv DEF AudienceStep
<1>3. Spec => Promise!Init /\ [][Promise!Next]_Promise!vars
  BY <1>1, <1>2, PublishingInvariant, PTL DEF Spec
<1>4. QED
  BY <1>3 DEF KeepsPromise, Promise!Spec

-----------------------------------------------------------------------------
(* What the newest notice tells.                                           *)

\* The notices made of an incident, the ones nobody has begun included.
Made(i) == {o \in outbox : o.of = i} \cup {a.notice : a \in {b \in addressed : b.notice.of = i}}

\* The newest of them tells the phase the row is in.
NewestTells(i) ==
    row[i] # NoRow =>
        \A x \in Made(i) : (\A y \in Made(i) : y.n <= x.n) => x.status = row[i].status

RowsTold == \A i \in Incidents \ (Quiet \cup raced \cup met \cup edited \cup lost) : NewestTells(i)

\* A sync that saw no row, and then there is one: another sync made it.
LateIsMet ==
    \A t \in Tasks :
        task[t].at \in {"looked", "posting"} /\ task[t].seen = NoRow /\ row[task[t].of] # NoRow
            => task[t].of \in met

\* Every addressee of a notice has heard it, or missed it, or is still to be told.
AllTold ==
    \A a \in addressed : \A m \in a.to :
        \/ a.notice.of \in lost
        \/ <<a.notice.n, m>> \in missed \cup ToldSet
        \/ \E d \in running : d.notice = a.notice /\ m \in d.left

\* And nobody twice.
Apart ==
    /\ \A a, b \in addressed : a.notice.n = b.notice.n => a = b
    /\ \A j, k \in DOMAIN told : told[j] = told[k] => j = k

\* The k-th message told of incident i.
AboutIt(k, i) == \E a \in addressed : a.notice.n = told[k][1] /\ a.notice.of = i

\* Notices of an incident that never met are sent in the order they were made.
SentInOrder(i) ==
    /\ \A o \in outbox, a \in addressed : o.of = i /\ a.notice.of = i => a.notice.n < o.n
    /\ \A d \in running, a \in addressed : d.notice.of = i /\ a.notice.of = i => a.notice.n <= d.notice.n
    /\ \A j, k \in DOMAIN told : j < k /\ AboutIt(j, i) /\ AboutIt(k, i) => told[j][1] <= told[k][1]

InOrder == \A i \in Incidents \ crossed : SentInOrder(i)

HeardInv == AllTold /\ Apart /\ InOrder
LatestInv == RowsTold /\ LateIsMet /\ HeardInv

-----------------------------------------------------------------------------
(* That the newest notice tells the row's phase.                           *)

\* The row says nothing new.
SameNews(i) == row'[i] = NoRow \/ (row[i] # NoRow /\ row'[i].status = row[i].status)

\* A notice of it is created, and tells what the row says now.
Announced(i) ==
    \E new \in BOOLEAN, s \in Status : Post(i, new, s) /\ (row'[i] # NoRow => s = row'[i].status)

NothingSent(i) ==
    UNCHANGED mail \/ \E j \in Incidents \ {i}, new \in BOOLEAN, s \in Status : Post(j, new, s)

\* What a step of the desk does to an incident that nobody raced for.
TellsOf(i) == Announced(i) \/ (SameNews(i) /\ NothingSent(i))

DeskTells == \A i \in Incidents \ (Quiet \cup raced' \cup met' \cup edited') : TellsOf(i)

LEMMA NewsKept ==
    ASSUME NEW i \in Incidents, NewestTells(i), Made(i)' = Made(i), SameNews(i)
    PROVE  NewestTells(i)'
  BY DEF NewestTells, SameNews

LEMMA MadeNumbers ==
    ASSUME NumbersOK, NEW i PROVE \A x \in Made(i) : x.n \in Nat /\ x.n < sent
  BY DEF NumbersOK, Made, Notice

LEMMA NewsAnnounced ==
    ASSUME NumbersOK, NEW i \in Incidents, Announced(i), UNCHANGED addressed
    PROVE  NewestTells(i)'
<1>1. PICK new \in BOOLEAN, s \in Status : Post(i, new, s) /\ (row'[i] # NoRow => s = row'[i].status)
  BY DEF Announced
<1> DEFINE n == [n |-> sent, of |-> i, new |-> new, status |-> s]
<1>2. Made(i)' = Made(i) \cup {n} /\ n.n = sent /\ n.status = s
  BY <1>1 DEF Post, Made
<1> HIDE DEF n
<1>3. \A x \in Made(i) : x.n \in Nat /\ x.n < sent
  BY MadeNumbers
<1>4. \A x \in Made(i)' : (\A y \in Made(i)' : y.n <= x.n) => x = n
  <2> SUFFICES ASSUME NEW x \in Made(i), n.n <= x.n PROVE FALSE
    BY <1>2
  <2>1. QED
    BY <1>2, <1>3 DEF NumbersOK
<1>5. QED
  BY <1>1, <1>2, <1>4 DEF NewestTells

LEMMA NewsStep ==
    ASSUME NumbersOK, NEW i \in Incidents, NewestTells(i), TellsOf(i), UNCHANGED addressed
    PROVE  NewestTells(i)'
<1>1. CASE Announced(i)
  BY <1>1, NewsAnnounced
<1>2. CASE SameNews(i) /\ NothingSent(i)
  <2>1. Made(i)' = Made(i)
    BY <1>2 DEF NothingSent, Made, Post, mail
  <2>2. QED
    BY <1>2, <2>1, NewsKept
<1>3. QED
  BY <1>1, <1>2 DEF TellsOf

\* A step that changes one row, to say the same, and announces nothing.
LEMMA OneRowSilent ==
    ASSUME DeskInv, NEW i \in Incidents, NEW new, row' = [row EXCEPT ![i] = new], UNCHANGED mail,
           i \notin Quiet \cup raced' \cup met' \cup edited' => SameNews(i)
    PROVE  DeskTells
<1>1. \A j \in Incidents : j # i => row'[j] = row[j]
  BY DEF DeskInv, Shapes, OwnTypeOK
<1>2. QED
  BY <1>1 DEF DeskTells, TellsOf, SameNews, NothingSent

\* And one that announces it.
LEMMA OneRowAnnounced ==
    ASSUME DeskInv, NEW i \in Incidents, NEW new \in BOOLEAN, NEW s \in Status,
           \A j \in Incidents : j # i => row'[j] = row[j],
           Notify(i, new, s),
           i \notin Quiet \cup raced' \cup met' \cup edited' /\ row'[i] # NoRow => s = row'[i].status
    PROVE  DeskTells
<1>1. CASE i \in Quiet
  <2>1. UNCHANGED mail
    BY <1>1 DEF Notify
  <2>2. QED
    BY <1>1, <2>1 DEF DeskTells, TellsOf, SameNews, NothingSent
<1>2. CASE i \notin Quiet
  <2>1. Post(i, new, s)
    BY <1>2 DEF Notify
  <2> SUFFICES ASSUME NEW j \in Incidents \ (Quiet \cup raced' \cup met' \cup edited') PROVE TellsOf(j)
    BY DEF DeskTells
  <2>2. CASE j = i
    BY <2>1, <2>2 DEF TellsOf, Announced
  <2>3. CASE j # i
    BY <2>1, <2>3 DEF TellsOf, SameNews, NothingSent
  <2>4. QED
    BY <2>2, <2>3
<1>3. QED
  BY <1>1, <1>2

LEMMA RowsSilent == ASSUME UNCHANGED <<row, mail>> PROVE DeskTells
  BY DEF DeskTells, TellsOf, SameNews, NothingSent

\* A sync whose row nobody changed writes what Graph says, and announces it.
LEMMA SyncWritesTells ==
    ASSUME DeskInv, NEW t \in Tasks, SyncWrites(t)
    PROVE  DeskTells
<1> DEFINE i == task[t].of
           new == IF Base(t) = NoRow THEN Wanted(t) ELSE Merged(row[i], Base(t), Wanted(t))
           status == task[t].issue.status
           isNew == task[t].seen = NoRow
<1>1. Busy(t) /\ i \in Incidents /\ status \in Status /\ row \in [Incidents -> Row \cup {NoRow}]
  BY WantedFields DEF SyncWrites, Busy, DeskInv, Shapes, OwnTypeOK, TasksShape, Issue
<1>2. /\ row' = [row EXCEPT ![i] = new]
      /\ raced' = IF row[i] # task[t].seen THEN raced \cup {i} ELSE raced
      /\ IF isNew \/ task[t].seen.status # status THEN Notify(i, isNew, status) ELSE UNCHANGED mail
  BY DEF SyncWrites
<1>3. row'[i] = new /\ \A j \in Incidents : j # i => row'[j] = row[j]
  BY <1>1, <1>2
<1>4. /\ Wanted(t) \in Row /\ Wanted(t).status = status
      /\ Base(t) \in Row \cup {NoRow} /\ row[i] \in Row \cup {NoRow}
  BY <1>1, WantedFields DEF DeskInv
<1>5. ASSUME row[i] = task[t].seen PROVE new.status = status
  <2>1. CASE Base(t) = NoRow
    BY <1>4, <2>1
  <2>2. CASE Base(t) # NoRow
    <3>1. Base(t) = row[i] /\ row[i] \in Row
      BY <1>4, <1>5, <2>2 DEF Base
    <3>2. QED
      BY <1>4, <2>2, <3>1, MergedFields
  <2>3. QED
    BY <2>1, <2>2
<1> HIDE DEF new
<1>6. i \notin raced' => row'[i].status = status
  BY <1>2, <1>3, <1>5
<1>7. CASE isNew \/ task[t].seen.status # status
  BY <1>1, <1>2, <1>3, <1>6, <1>7, OneRowAnnounced
<1>8. CASE ~(isNew \/ task[t].seen.status # status)
  <2>1. i \notin raced' => SameNews(i)
    BY <1>2, <1>6, <1>8 DEF SameNews
  <2>2. UNCHANGED mail
    BY <1>2, <1>8
  <2>3. QED
    BY <1>1, <1>2, <2>1, <2>2, OneRowSilent
<1>9. QED
  BY <1>7, <1>8

LEMMA InsertPostsTells ==
    ASSUME DeskInv, LateIsMet, NEW t \in Tasks, InsertPosts(t)
    PROVE  DeskTells
<1> DEFINE i == task[t].of
<1>1. /\ task[t].at = "posting" /\ UNCHANGED <<row, met>>
      /\ IF task[t].seen = NoRow /\ row[i] # NoRow THEN Notify(i, TRUE, task[t].issue.status)
         ELSE UNCHANGED mail
  BY DEF InsertPosts, ghost
<1>2. i \in Incidents /\ task[t].issue.status \in Status
  BY <1>1, WantedFields DEF Busy, DeskInv, Shapes, TasksShape, Issue
<1>3. CASE task[t].seen = NoRow /\ row[i] # NoRow
  <2>1. i \in met'
    BY <1>1, <1>3 DEF LateIsMet
  <2>2. QED
    BY <1>1, <1>2, <1>3, <2>1, OneRowAnnounced
<1>4. CASE ~(task[t].seen = NoRow /\ row[i] # NoRow)
  BY <1>1, <1>4, RowsSilent
<1>5. QED
  BY <1>3, <1>4

LEMMA OperatorTells ==
    ASSUME DeskInv, Operator
    PROVE  DeskTells
<1> USE DEF Incidents
<1>0. row \in [Incidents -> Row \cup {NoRow}]
  BY DEF DeskInv, Shapes, OwnTypeOK
<1>1. ASSUME NEW i \in Manual, NEW resolved \in BOOLEAN, CreateIncident(i, resolved) PROVE DeskTells
  <2>1. /\ row' = [row EXCEPT ![i] = [NoRow EXCEPT !.marks = {}, !.resolved = resolved]]
        /\ Notify(i, TRUE, "active") /\ "active" \in Status /\ i \in Incidents
    BY <1>1 DEF CreateIncident, Status
  <2>2. row'[i].status = "active" /\ \A j \in Incidents : j # i => row'[j] = row[j]
    BY <1>0, <2>1 DEF NoRow
  <2>3. QED
    BY <2>1, <2>2, OneRowAnnounced
<1>2. ASSUME NEW r \in Requests, NEW i \in Incidents, NEW notify \in BOOLEAN, AddPost(r, i, notify)
      PROVE  DeskTells
  <2>1. UNCHANGED row /\ row[i] # NoRow /\ row[i].status \in Status
    BY <1>0, <1>2 DEF AddPost, Row
  <2>2. UNCHANGED mail \/ Post(i, FALSE, row[i].status)
    BY <1>2 DEF AddPost
  <2>3. CASE UNCHANGED mail
    BY <2>1, <2>3, RowsSilent
  <2>4. CASE Post(i, FALSE, row[i].status)
    <3> SUFFICES ASSUME NEW j \in Incidents PROVE TellsOf(j)
      BY DEF DeskTells
    <3>1. CASE j = i
      BY <2>1, <2>4, <3>1 DEF TellsOf, Announced
    <3>2. CASE j # i
      BY <2>1, <2>4, <3>2 DEF TellsOf, SameNews, NothingSent
    <3>3. QED
      BY <3>1, <3>2
  <2>5. QED
    BY <2>2, <2>3, <2>4
<1>3. ASSUME NEW u \in updates, PublishUpdate(u) PROVE DeskTells
  BY <1>3, RowsSilent DEF PublishUpdate
<1>4. ASSUME NEW i \in Incidents, NEW marks \in SUBSET {"suppressed", "acknowledged"}, Mark(i, marks)
      PROVE  DeskTells
  <2>1. row' = [row EXCEPT ![i] = [row[i] EXCEPT !.marks = marks]] /\ UNCHANGED mail /\ row[i] \in Row
    BY <1>0, <1>4 DEF Mark
  <2>2. SameNews(i)
    BY <1>0, <2>1, NoRowIsNone DEF SameNews, Row
  <2>3. QED
    BY <2>1, <2>2, OneRowSilent
<1>5. ASSUME NEW i \in Incidents, DeleteIncident(i) PROVE DeskTells
  <2>1. row' = [row EXCEPT ![i] = NoRow] /\ UNCHANGED mail
    BY <1>5 DEF DeleteIncident
  <2>2. SameNews(i)
    BY <1>0, <2>1 DEF SameNews
  <2>3. QED
    BY <2>1, <2>2, OneRowSilent
<1>6. ASSUME NEW r \in Requests, NEW i \in Incidents, OpenForm(r, i) \/ StartTranslation(r, i)
      PROVE  DeskTells
  BY <1>6, RowsSilent DEF OpenForm, StartTranslation, tables
<1>7. ASSUME NEW r \in Requests, NEW s \in Status, NEW resolved \in BOOLEAN, SubmitForm(r, s, resolved)
      PROVE  DeskTells
  BY <1>7, RowsSilent DEF SubmitForm, tables
<1>8. QED
  BY <1>1, <1>2, <1>3, <1>4, <1>5, <1>6, <1>7 DEF Operator

\* An edit of the phase is told to nobody, and noted; a translation leaves the phase.
LEMMA AnswerTells ==
    ASSUME DeskInv, NEW r \in Requests, Answer(r)
    PROVE  DeskTells
<1> DEFINE q == req[r]
           i == q.of
<1>0. row \in [Incidents -> Row \cup {NoRow}] /\ RequestOK(q) /\ q \in RequestType
  BY DEF DeskInv, Shapes, OwnTypeOK, RequestsShape
<1>1. CASE WriteEdit(r)
  <2>1. /\ q.at = "edit" /\ q.old # NoRow /\ row[i] # NoRow /\ row' = [row EXCEPT ![i] = Edited(r)]
        /\ UNCHANGED mail
        /\ edited' = IF q.new.status # q.old.status THEN edited \cup {i} ELSE edited
    BY <1>1 DEF WriteEdit
  <2>2. i \in Incidents /\ q.new \in Row /\ q.old \in Row /\ row[i] \in Row
    BY <1>0, <2>1 DEF RequestOK, RequestType
  <2> DEFINE merged == Merged(row[i], q.old, q.new)
  <2>3. merged \in Row /\ merged.status = IF q.new.status # q.old.status THEN q.new.status ELSE row[i].status
    BY <2>2, MergedFields
  <2>4. Edited(r) = [merged EXCEPT !.marks = row[i].marks, !.lang = row[i].lang]
    BY DEF Edited
  <2> HIDE DEF merged
  <2>5. Edited(r).status = merged.status
    BY <2>3, <2>4 DEF Row
  <2>6. i \notin edited' => SameNews(i)
    BY <1>0, <2>1, <2>2, <2>3, <2>5 DEF SameNews
  <2>7. QED
    BY <2>1, <2>2, <2>6, OneRowSilent
<1>2. ASSUME NEW ok \in BOOLEAN, WriteTranslation(r, ok) PROVE DeskTells
  <2>1. /\ q.at = "translate" /\ row[i] # NoRow /\ UNCHANGED mail
        /\ row' = [row EXCEPT ![i] = Merged(row[i], q.old, Translated(r, ok))]
    BY <1>2 DEF WriteTranslation
  <2>2. i \in Incidents /\ q.old \in Row /\ row[i] \in Row
    BY <1>0, <2>1 DEF RequestOK
  <2>3. Translated(r, ok) \in Row /\ Translated(r, ok).status = q.old.status
    BY <2>2 DEF Translated, Row, Title
  <2>4. Merged(row[i], q.old, Translated(r, ok)).status = row[i].status
    BY <2>2, <2>3, MergedFields
  <2>5. SameNews(i)
    BY <1>0, <2>1, <2>2, <2>4 DEF SameNews
  <2>6. QED
    BY <2>1, <2>2, <2>5, OneRowSilent
<1>3. CASE RequestFails(r)
  BY <1>3, RowsSilent DEF RequestFails, tables
<1>4. QED
  BY <1>1, <1>2, <1>3 DEF Answer

LEMMA DeskStepTells ==
    ASSUME DeskInv, LateIsMet, DeskNext
    PROVE  DeskTells
<1>1. CASE Microsoft
  BY <1>1, RowsSilent DEF Microsoft, GraphChanges, PollsChange, tables
<1>2. ASSUME NEW t \in Tasks, Sync(t) \/ SyncStops(t) PROVE DeskTells
  <2>1. CASE \/ \E i \in Issues, ok \in BOOLEAN : Fetch(t, i, ok)
             \/ Lookup(t) \/ SelectPosts(t) \/ SyncFails(t) \/ SyncStops(t)
    BY <2>1, RowsSilent DEF Fetch, Lookup, SelectPosts, SyncFails, SyncStops, tables
  <2>2. QED
    BY <1>2, <2>1, SyncWritesTells, InsertPostsTells DEF Sync, Proceed
<1>3. QED
  BY <1>1, <1>2, OperatorTells, AnswerTells DEF DeskNext

-----------------------------------------------------------------------------
(* A sync that saw no row.                                                 *)

\* No row appears, and tasks that have looked stay as they are, go on or end.
LEMMA LateKept ==
    ASSUME DeskInv, LateIsMet, met \subseteq met',
           \A i \in Issues : row'[i] # NoRow => row[i] # NoRow,
           \A u \in Tasks : task'[u].at \in {"looked", "posting"} =>
               task[u].at \in {"looked", "posting"} /\ task'[u].of = task[u].of /\ task'[u].seen = task[u].seen
    PROVE  LateIsMet'
<1>1. \A u \in Tasks : task[u].at \in {"looked", "posting"} => task[u].of \in Issues
  BY DEF DeskInv, Shapes, TasksShape, Busy
<1>2. QED
  BY <1>1 DEF LateIsMet

LEMMA LateWhileSyncing ==
    ASSUME DeskInv, LateIsMet, NEW t \in Tasks, Sync(t) \/ SyncStops(t)
    PROVE  LateIsMet'
<1>0. task \in [Tasks -> TaskType] /\ row \in [Incidents -> Row \cup {NoRow}] /\ IdleTask.at = "idle"
  BY DEF DeskInv, Shapes, OwnTypeOK, IdleTask
<1>1. ASSUME NEW i \in Issues, NEW ok \in BOOLEAN, Fetch(t, i, ok) PROVE LateIsMet'
  <2>1. UNCHANGED row /\ met \subseteq met' /\ task'[t].at = "fetched" /\ \A u \in Tasks \ {t} : task'[u] = task[u]
    BY <1>0, <1>1 DEF Fetch, tables, IdleTask
  <2>2. QED
    BY <2>1, LateKept
<1>2. CASE Lookup(t)
  <2>1. /\ UNCHANGED <<row, met>> /\ task'[t].seen = row[task'[t].of]
        /\ \A u \in Tasks \ {t} : task'[u] = task[u]
    BY <1>0, <1>2 DEF Lookup, tables, ghost, TaskType
  <2>2. QED
    BY <2>1 DEF LateIsMet
<1>3. CASE SelectPosts(t)
  <2>1. /\ UNCHANGED <<row, met>> /\ task[t].at = "looked" /\ task'[t].of = task[t].of /\ task'[t].seen = task[t].seen
        /\ \A u \in Tasks \ {t} : task'[u] = task[u]
    BY <1>0, <1>3 DEF SelectPosts, tables, ghost, TaskType
  <2>2. QED
    BY <2>1, LateKept
<1>4. CASE SyncWrites(t)
  <2> DEFINE i == task[t].of
  <2>1. /\ UNCHANGED met /\ task[t].at = "looked" /\ task' = [task EXCEPT ![t] = IdleTask]
        /\ \E new : row' = [row EXCEPT ![i] = new]
    BY <1>4 DEF SyncWrites, EndTask
  <2>2. task'[t].at = "idle" /\ \A u \in Tasks \ {t} : task'[u] = task[u]
    BY <1>0, <2>1
  <2>3. \A j \in Incidents : j # i => row'[j] = row[j]
    BY <1>0, <2>1
  <2> SUFFICES ASSUME NEW u \in Tasks \ {t}, task[u].at \in {"looked", "posting"},
                      task[u].seen = NoRow, row'[task[u].of] # NoRow
               PROVE  task[u].of \in met
    BY <2>1, <2>2 DEF LateIsMet
  <2>4. task[u].of \in Incidents /\ (task[u].of = i => i \in met)
    BY <2>1 DEF DeskInv, Shapes, TasksShape, TasksMeet, Busy, Incidents
  <2>5. QED
    BY <2>3, <2>4 DEF LateIsMet
<1>5. CASE InsertPosts(t) \/ SyncFails(t) \/ SyncStops(t)
  <2>1. UNCHANGED <<row, met>> /\ task' = [task EXCEPT ![t] = IdleTask]
    BY <1>5 DEF InsertPosts, SyncFails, SyncStops, EndTask, tables, ghost
  <2>2. task'[t].at = "idle" /\ \A u \in Tasks \ {t} : task'[u] = task[u]
    BY <1>0, <2>1
  <2>3. QED
    BY <2>1, <2>2, LateKept
<1>6. QED
  BY <1>1, <1>2, <1>3, <1>4, <1>5 DEF Sync, Proceed

LEMMA LateStep ==
    ASSUME DeskInv, LateIsMet, DeskNext
    PROVE  LateIsMet'
<1>0. row \in [Incidents -> Row \cup {NoRow}]
  BY DEF DeskInv, Shapes, OwnTypeOK
<1>1. CASE Microsoft
  <2>1. UNCHANGED <<row, task, met>>
    BY <1>1 DEF Microsoft, GraphChanges, PollsChange, tables, ghost
  <2>2. QED
    BY <2>1, LateKept
<1>2. CASE Operator
  <2>1. UNCHANGED <<task, met>>
    BY <1>2 DEF Operator, CreateIncident, AddPost, PublishUpdate, Mark, DeleteIncident, OpenForm,
                StartTranslation, SubmitForm, ghost
  <2>2. \A i \in Issues : row'[i] # NoRow => row[i] # NoRow
    <3>1. ASSUME NEW i \in Manual, NEW resolved \in BOOLEAN, CreateIncident(i, resolved)
          PROVE  \A j \in Issues : row'[j] = row[j]
      BY <1>0, <3>1, NoticesAssumption DEF CreateIncident, Incidents
    <3>2. ASSUME NEW i \in Incidents, NEW marks, Mark(i, marks)
          PROVE  \A j \in Incidents : j # i => row'[j] = row[j]
      BY <1>0, <3>2 DEF Mark
    <3>3. ASSUME NEW i \in Incidents, DeleteIncident(i)
          PROVE  \A j \in Incidents : row'[j] = NoRow \/ row'[j] = row[j]
      BY <1>0, <3>3 DEF DeleteIncident
    <3>4. \A i \in Incidents : \A marks : Mark(i, marks) => row[i] # NoRow
      BY DEF Mark
    <3>5. CASE UNCHANGED row
      BY <3>5
    <3>6. QED
      BY <1>2, <3>1, <3>2, <3>3, <3>4, <3>5
         DEF Operator, AddPost, PublishUpdate, OpenForm, StartTranslation, SubmitForm, tables, Incidents
  <2>3. QED
    BY <2>1, <2>2, LateKept
<1>3. ASSUME NEW t \in Tasks, Sync(t) \/ SyncStops(t) PROVE LateIsMet'
  BY <1>3, LateWhileSyncing
<1>4. ASSUME NEW r \in Requests, Answer(r) PROVE LateIsMet'
  <2>1. UNCHANGED <<task, met>>
    BY <1>4 DEF Answer, WriteEdit, WriteTranslation, RequestFails, ghost
  <2>2. row' = row \/ (row[req[r].of] # NoRow /\ \E new : row' = [row EXCEPT ![req[r].of] = new])
    BY <1>4 DEF Answer, WriteEdit, WriteTranslation, RequestFails, tables
  <2>3. \A i \in Issues : row'[i] # NoRow => row[i] # NoRow
    BY <1>0, <2>2 DEF Incidents
  <2>4. QED
    BY <2>1, <2>3, LateKept
<1>5. QED
  BY <1>1, <1>2, <1>3, <1>4 DEF DeskNext

-----------------------------------------------------------------------------
(* That everybody hears the newest notice last.                            *)

LEMMA AddressedNumbers ==
    ASSUME NumbersOK
    PROVE  /\ sent \in Nat
           /\ \A o \in outbox : o.n \in Nat /\ o.n < sent
           /\ \A a \in addressed : a.notice.n \in Nat /\ a.notice.n < sent
  BY DEF NumbersOK, Notice

\* Steps that begin nothing and tell nothing.
LEMMA HeardKept ==
    ASSUME HeardInv, UNCHANGED <<addressed, told, missed, crossed, outbox, running>>, lost \subseteq lost'
    PROVE  HeardInv'
<1>1. AllTold' /\ Apart'
  BY DEF HeardInv, AllTold, Apart, ToldSet
<1>2. InOrder'
  BY DEF HeardInv, InOrder, SentInOrder, AboutIt
<1>3. QED
  BY <1>1, <1>2 DEF HeardInv

LEMMA HeardPost ==
    ASSUME NumbersOK, HeardInv, NEW i \in Incidents, NEW new \in BOOLEAN, NEW s \in Status, Post(i, new, s),
           UNCHANGED subsVars
    PROVE  HeardInv'
<1> DEFINE n == [n |-> sent, of |-> i, new |-> new, status |-> s]
<1>1. /\ outbox' = outbox \cup {n} /\ n.n = sent
      /\ UNCHANGED <<addressed, told, missed, lost, crossed, running>>
  BY DEF Post, subsVars, heard
<1> HIDE DEF n
<1>2. AllTold' /\ Apart'
  BY <1>1 DEF HeardInv, AllTold, Apart, ToldSet
<1>3. InOrder'
  BY <1>1, AddressedNumbers DEF HeardInv, InOrder, SentInOrder, AboutIt
<1>4. QED
  BY <1>2, <1>3 DEF HeardInv

\* Notices that are dropped, and noted as lost.
LEMMA HeardDrop ==
    ASSUME SubsInv, HeardInv, outbox' \subseteq outbox, running' \subseteq running,
           \A d \in running \ running' : d.notice.of \in lost',
           lost \subseteq lost', UNCHANGED <<addressed, told, missed, crossed>>
    PROVE  HeardInv'
<1>0. ToldSet' = ToldSet
  BY DEF ToldSet
<1>1. AllTold'
  <2> SUFFICES ASSUME NEW a \in addressed, NEW m \in a.to, a.notice.of \notin lost',
                      <<a.notice.n, m>> \notin missed \cup ToldSet
               PROVE  \E d \in running' : d.notice = a.notice /\ m \in d.left
    BY <1>0 DEF AllTold
  <2>1. PICK d \in running : d.notice = a.notice /\ m \in d.left
    BY DEF HeardInv, AllTold
  <2>2. QED
    BY <2>1
<1>2. Apart'
  BY DEF HeardInv, Apart
<1>3. InOrder'
  BY DEF HeardInv, InOrder, SentInOrder, AboutIt
<1>4. QED
  BY <1>1, <1>2, <1>3 DEF HeardInv

LEMMA HeardBegin ==
    ASSUME SubsInv, HeardInv, NEW n \in outbox, Begin(n)
    PROVE  HeardInv'
<1> DEFINE to == Recipients(n.of)
           new == [notice |-> n, left |-> to]
           a == [notice |-> n, to |-> to]
<1>1. /\ outbox' = outbox \ {n} /\ running' = running \cup {new} /\ addressed' = addressed \cup {a}
      /\ crossed' = IF Overtakes(n) THEN crossed \cup {n.of} ELSE crossed
      /\ UNCHANGED <<told, missed, lost>>
  BY DEF Begin
<1>2. a.notice = n /\ a.to = to /\ new.notice = n /\ new.left = to
  OBVIOUS
<1> HIDE DEF to, new, a
<1>3. \A b \in addressed : b.notice.n # n.n
  BY DEF SubsInv, NumbersOK
<1>4. AllTold'
  <2>1. ToldSet' = ToldSet
    BY <1>1 DEF ToldSet
  <2>2. new \in running' /\ running \subseteq running'
    BY <1>1
  <2>3. ASSUME NEW b \in addressed', NEW m \in b.to, b.notice.of \notin lost,
               <<b.notice.n, m>> \notin missed \cup ToldSet
        PROVE  \E d \in running' : d.notice = b.notice /\ m \in d.left
    <3>1. CASE b = a
      BY <1>2, <2>2, <3>1
    <3>2. CASE b \in addressed
      BY <2>2, <2>3, <3>2 DEF HeardInv, AllTold
    <3>3. QED
      BY <1>1, <3>1, <3>2
  <2>4. QED
    BY <1>1, <2>1, <2>3 DEF AllTold
<1>5. Apart'
  BY <1>1, <1>2, <1>3 DEF HeardInv, Apart
<1>6. InOrder'
  <2> SUFFICES ASSUME NEW i \in Incidents, i \notin crossed' PROVE SentInOrder(i)'
    BY DEF InOrder
  <2>1. SentInOrder(i)
    BY <1>1 DEF HeardInv, InOrder
  <2>2. \A k \in DOMAIN told : AboutIt(k, i)' <=> AboutIt(k, i)
    <3> SUFFICES ASSUME NEW k \in DOMAIN told PROVE AboutIt(k, i)' <=> AboutIt(k, i)
      OBVIOUS
    <3>1. told[k][1] # n.n
      BY <1>3 DEF SubsInv, ToldOK, ToldSet
    <3>2. QED
      BY <1>1, <1>2, <3>1 DEF AboutIt
  <2>3. \A j, k \in DOMAIN told' :
            j < k /\ AboutIt(j, i)' /\ AboutIt(k, i)' => told'[j][1] <= told'[k][1]
    BY <1>1, <2>1, <2>2 DEF SentInOrder
  <2>4. CASE n.of # i
    BY <1>1, <1>2, <2>1, <2>3, <2>4 DEF SentInOrder
  <2>5. CASE n.of = i
    <3>1. (\A o \in outbox' : o.of # i) /\ \A d \in running : d.notice.of # i
      BY <1>1, <2>5 DEF Overtakes
    <3>2. \A b \in addressed' : b.notice.of = i => b.notice.n <= n.n
      BY <1>1, <1>2, <2>1, <2>5, AddressedNumbers DEF SentInOrder, SubsInv
    <3>3. QED
      BY <1>1, <1>2, <2>3, <3>1, <3>2 DEF SentInOrder
  <2>6. QED
    BY <2>4, <2>5
<1>7. QED
  BY <1>4, <1>5, <1>6 DEF HeardInv

LEMMA HeardTell ==
    ASSUME SubsInv, HeardInv, NEW d \in running, NEW ok \in BOOLEAN, Tell(d, ok)
    PROVE  HeardInv'
<1> DEFINE m == First(d.left)
           rest == d.left \ {m}
           new == [d EXCEPT !.left = rest]
           x == <<d.notice.n, m>>
<1>1. /\ running' = (running \ {d}) \cup (IF rest = {} THEN {} ELSE {new})
      /\ told' = IF ok THEN Append(told, x) ELSE told
      /\ missed' = IF ok THEN missed ELSE missed \cup {x}
      /\ UNCHANGED <<outbox, addressed, lost, crossed>>
  BY DEF Tell, Rest
<1>2. PICK a \in addressed : /\ a.notice = d.notice /\ d.left \subseteq a.to
                             /\ \A o \in d.left : <<d.notice.n, o>> \notin ToldSet
  BY DEF SubsInv, RunningOK, Pending
<1>3. d.notice.n \in Nat /\ m \in d.left /\ m \in MemberType
  <2>1. d.notice.n \in Nat /\ d.left \subseteq MemberType /\ d.left # {}
    BY <1>2 DEF SubsInv, NumbersOK, RunningOK, Notice
  <2>2. QED
    BY <2>1, FirstIsLeft
<1>4. new.notice = d.notice /\ new.left = rest
  <2>1. d = [notice |-> d.notice, left |-> d.left]
    BY DEF SubsInv, RunningOK
  <2>2. new = [notice |-> d.notice, left |-> rest]
    BY <2>1
  <2>3. QED
    BY <2>2
<1>5. /\ told \in Seq(Nat \X MemberType) /\ x \in Nat \X MemberType
      /\ x \notin ToldSet
  BY <1>2, <1>3 DEF SubsInv, ToldOK
<1> HIDE DEF m, new, x
<1>6. CASE ~ok
  <2>1. told' = told /\ missed' = missed \cup {x} /\ ToldSet' = ToldSet
    BY <1>1, <1>6 DEF ToldSet
  <2>2. AllTold'
    BY <1>1, <1>4, <2>1 DEF HeardInv, AllTold, x
  <2>3. InOrder'
    BY <1>1, <1>4, <2>1 DEF HeardInv, InOrder, SentInOrder, AboutIt
  <2>4. QED
    BY <1>1, <2>1, <2>2, <2>3 DEF HeardInv, Apart
<1>7. CASE ok
  <2>0. PICK len \in Nat : len = Len(told) + 1
    BY <1>5
  <2>1. /\ DOMAIN told = 1..Len(told) /\ DOMAIN told' = DOMAIN told \cup {len} /\ Len(told) \in Nat
        /\ \A k \in DOMAIN told : told'[k] = told[k] /\ k < len
        /\ told'[len] = x /\ missed' = missed
    BY <1>1, <1>5, <1>7, <2>0
  <2>2. ToldSet' = ToldSet \cup {x}
    BY <2>1 DEF ToldSet
  <2>3. AllTold'
    <3> SUFFICES ASSUME NEW b \in addressed, NEW o \in b.to, b.notice.of \notin lost,
                        <<b.notice.n, o>> \notin missed \cup ToldSet'
                 PROVE  \E c \in running' : c.notice = b.notice /\ o \in c.left
      BY <1>1, <2>1 DEF AllTold
    <3>1. PICK c \in running : c.notice = b.notice /\ o \in c.left
      BY <2>2 DEF HeardInv, AllTold
    <3>2. CASE c = d
      <4>1. o # m
        BY <2>2, <3>1, <3>2 DEF x
      <4>2. new \in running' /\ o \in new.left
        BY <1>1, <1>4, <3>1, <3>2, <4>1
      <4>3. QED
        BY <1>4, <3>1, <3>2, <4>2
    <3>3. CASE c # d
      BY <1>1, <3>1, <3>3
    <3>4. QED
      BY <3>2, <3>3
  <2>4. Apart'
    BY <1>1, <1>5, <2>1 DEF HeardInv, Apart, ToldSet
  <2>5. ASSUME NEW i \in Incidents \ crossed PROVE SentInOrder(i)'
    <3>1. SentInOrder(i)
      BY DEF HeardInv, InOrder
    <3>2. \A k \in DOMAIN told : AboutIt(k, i)' <=> AboutIt(k, i)
      BY <1>1, <2>1 DEF AboutIt
    <3>3. AboutIt(len, i)' => d.notice.of = i
      <4> SUFFICES ASSUME NEW b \in addressed, b.notice.n = x[1], b.notice.of = i
                   PROVE  d.notice.of = i
        BY <1>1, <2>1 DEF AboutIt
      <4>1. b = a
        BY <1>2 DEF HeardInv, Apart, x
      <4>2. QED
        BY <1>2, <4>1
    <3>4. \A j \in DOMAIN told : AboutIt(j, i) /\ d.notice.of = i => told[j][1] <= d.notice.n
      BY <3>1 DEF SentInOrder, AboutIt
    <3>5. \A j, k \in DOMAIN told' :
              j < k /\ AboutIt(j, i)' /\ AboutIt(k, i)' => told'[j][1] <= told'[k][1]
      <4> SUFFICES ASSUME NEW j \in DOMAIN told', NEW k \in DOMAIN told', j < k, AboutIt(j, i)', AboutIt(k, i)'
                   PROVE  told'[j][1] <= told'[k][1]
        OBVIOUS
      <4>1. j \in DOMAIN told
        <5>1. \A o \in DOMAIN told : o \in Nat
          BY <2>1
        <5>2. QED
          BY <2>1, <5>1
      <4>2. CASE k \in DOMAIN told
        BY <2>1, <3>1, <3>2, <4>1, <4>2 DEF SentInOrder
      <4>3. CASE k = len
        <5>1. told'[k][1] = d.notice.n
          BY <2>1, <4>3 DEF x
        <5>2. AboutIt(j, i) /\ d.notice.of = i /\ told'[j] = told[j]
          BY <2>1, <3>2, <3>3, <4>1, <4>3
        <5>3. QED
          BY <3>4, <4>1, <5>1, <5>2
      <4>4. QED
        BY <2>1, <4>2, <4>3
    <3>6. \A c \in running' : c.notice.of = i => \E e \in running : e.notice = c.notice
      BY <1>1, <1>4
    <3>7. QED
      BY <1>1, <3>1, <3>5, <3>6 DEF SentInOrder
  <2>6. QED
    BY <1>1, <2>3, <2>4, <2>5 DEF HeardInv, InOrder
<1>8. QED
  BY <1>6, <1>7

LEMMA HeardStep ==
    ASSUME SubsInv, HeardInv, SubsNext
    PROVE  HeardInv'
<1>1. CASE Visit
  <2>1. UNCHANGED <<addressed, told, missed, crossed, outbox, running, lost>>
    BY <1>1 DEF Visit, Subscribe, InsertSubscriber, SendConfirmation, Confirm, Unsubscribe, AdminDelete,
                mail, heard
  <2>2. QED
    BY <2>1, HeardKept
<1>2. ASSUME NEW d \in running, Break(d) PROVE HeardInv'
  BY <1>2, HeardDrop DEF Break
<1>3. QED
  BY <1>1, <1>2, HeardBegin, HeardTell DEF SubsNext, Dispatch

-----------------------------------------------------------------------------
(* Both, through every step of the system.                                 *)

LEMMA RowsKept ==
    ASSUME RowsTold, UNCHANGED <<row, raced, met, edited>>, lost \subseteq lost',
           \A i \in Incidents \ lost' : Made(i)' = Made(i)
    PROVE  RowsTold'
  BY NewsKept DEF RowsTold, SameNews, NewestTells

\* What a dispatch begins was made before.
LEMMA SubsTold ==
    ASSUME SubsInv, RowsTold, SubsNext, UNCHANGED deskOwn
    PROVE  RowsTold'
<1>1. UNCHANGED <<row, raced, met, edited>>
  BY DEF deskOwn, tables, ghost
<1>2. CASE Visit
  <2>1. UNCHANGED <<addressed, outbox, lost>>
    BY <1>2 DEF Visit, Subscribe, InsertSubscriber, SendConfirmation, Confirm, Unsubscribe, AdminDelete,
                mail, heard
  <2>2. QED
    BY <1>1, <2>1, RowsKept DEF Made
<1>3. ASSUME NEW n \in outbox, Begin(n) PROVE RowsTold'
  <2>1. PICK a : a.notice = n /\ addressed' = addressed \cup {a}
    BY <1>3 DEF Begin
  <2>2. outbox' = outbox \ {n} /\ UNCHANGED lost
    BY <1>3 DEF Begin
  <2>3. \A i : Made(i)' = Made(i)
    BY <2>1, <2>2 DEF Made
  <2>4. QED
    BY <1>1, <2>2, <2>3, RowsKept
<1>4. ASSUME NEW d \in running, NEW ok \in BOOLEAN, Tell(d, ok) \/ Break(d) PROVE RowsTold'
  <2>1. UNCHANGED <<addressed, outbox>> /\ lost \subseteq lost'
    BY <1>4 DEF Tell, Break
  <2>2. QED
    BY <1>1, <2>1, RowsKept DEF Made
<1>5. QED
  BY <1>2, <1>3, <1>4 DEF SubsNext, Dispatch

LEMMA GhostsGrow ==
    ASSUME DeskNext PROVE raced \subseteq raced' /\ met \subseteq met' /\ edited \subseteq edited'
<1>1. CASE Microsoft
  BY <1>1 DEF Microsoft, GraphChanges, PollsChange, ghost
<1>2. CASE Operator
  BY <1>2 DEF Operator, CreateIncident, AddPost, PublishUpdate, Mark, DeleteIncident, OpenForm,
              StartTranslation, SubmitForm, ghost
<1>3. ASSUME NEW t \in Tasks, Sync(t) \/ SyncStops(t)
      PROVE  raced \subseteq raced' /\ met \subseteq met' /\ edited \subseteq edited'
  BY <1>3 DEF Sync, Proceed, Fetch, Lookup, SyncWrites, SelectPosts, InsertPosts, SyncFails, SyncStops, ghost
<1>4. ASSUME NEW r \in Requests, Answer(r)
      PROVE  raced \subseteq raced' /\ met \subseteq met' /\ edited \subseteq edited'
  BY <1>4 DEF Answer, WriteEdit, WriteTranslation, RequestFails, ghost
<1>5. QED
  BY <1>1, <1>2, <1>3, <1>4 DEF DeskNext

LEMMA DeskLatest ==
    ASSUME IInv, LatestInv, DeskNext, UNCHANGED subsVars
    PROVE  LatestInv'
<1>1. UNCHANGED <<addressed, told, missed, lost, crossed, running>>
  BY DEF subsVars, heard
<1>2. RowsTold'
  <2>1. DeskTells
    BY DeskStepTells DEF IInv, LatestInv
  <2> SUFFICES ASSUME NEW i \in Incidents \ (Quiet \cup raced' \cup met' \cup edited' \cup lost)
               PROVE  NewestTells(i)'
    BY <1>1 DEF RowsTold
  <2>2. NewestTells(i)
    BY GhostsGrow DEF LatestInv, RowsTold
  <2>3. QED
    BY <1>1, <2>1, <2>2, NewsStep DEF DeskTells, IInv, SubsInv
<1>3. LateIsMet'
  BY LateStep DEF IInv, LatestInv
<1>4. HeardInv'
  <2>1. UNCHANGED mail \/ \E i \in Incidents, new \in BOOLEAN, s \in Status : Post(i, new, s)
    BY DeskMail DEF IInv
  <2>2. CASE UNCHANGED mail
    BY <1>1, <2>2, HeardKept DEF LatestInv, mail
  <2>3. QED
    BY <2>1, <2>2, HeardPost DEF IInv, SubsInv, LatestInv
<1>5. QED
  BY <1>2, <1>3, <1>4 DEF LatestInv

LEMMA RestartLatest ==
    ASSUME IInv, LatestInv, Restart
    PROVE  LatestInv'
<1>1. /\ UNCHANGED <<row, raced, met, edited, addressed, told, missed, crossed>>
      /\ outbox' = {} /\ running' = {} /\ task' = [t \in Tasks |-> IdleTask]
      /\ lost' = lost \cup {n.of : n \in outbox} \cup {d.notice.of : d \in running}
  BY DEF Restart, tables, ghost
<1>2. RowsTold'
  <2>1. \A i \in Incidents \ lost' : Made(i)' = Made(i)
    BY <1>1 DEF Made
  <2>2. QED
    BY <1>1, <2>1, RowsKept DEF LatestInv
<1>3. LateIsMet'
  BY <1>1 DEF LateIsMet, IdleTask
<1>4. HeardInv'
  BY <1>1, HeardDrop DEF LatestInv, IInv
<1>5. QED
  BY <1>2, <1>3, <1>4 DEF LatestInv

LEMMA InitLatest == ASSUME Init PROVE LatestInv
<1>1. /\ outbox = {} /\ addressed = {} /\ running = {} /\ told = <<>>
      /\ \A t \in Tasks : task[t].at = "idle"
  BY DEF Init, DeskInit, SubsInit, IdleTask
<1>2. RowsTold /\ LateIsMet
  BY <1>1 DEF RowsTold, NewestTells, Made, LateIsMet
<1>3. HeardInv
  BY <1>1 DEF HeardInv, AllTold, Apart, InOrder, SentInOrder
<1>4. QED
  BY <1>2, <1>3 DEF LatestInv

LEMMA StepLatest == ASSUME IInv, LatestInv, [Next]_vars PROVE LatestInv'
<1>1. CASE SubsNext /\ UNCHANGED deskOwn
  <2>1. LateIsMet'
    BY <1>1 DEF LatestInv, LateIsMet, deskOwn, tables, ghost
  <2>2. QED
    BY <1>1, <2>1, SubsTold, HeardStep DEF LatestInv, IInv
<1>2. CASE UNCHANGED vars
  <2>1. UNCHANGED <<row, raced, met, edited, task, outbox, running, addressed, told, missed, crossed, lost>>
    BY <1>2 DEF vars, deskOwn, tables, ghost, mail, subsVars, heard
  <2>2. RowsTold' /\ LateIsMet'
    BY <2>1, RowsKept DEF LatestInv, LateIsMet, Made
  <2>3. QED
    BY <2>1, <2>2, HeardKept DEF LatestInv
<1>3. QED
  BY <1>1, <1>2, DeskLatest, RestartLatest DEF Next

\* Once no notice of an incident is under way, whoever was addressed heard the
\* newest one last.
LEMMA NewestHeardLast ==
    ASSUME IInv, LatestInv, NEW a \in addressed, IsNewest(a), a.notice.of \notin lost,
           a.notice.of \notin crossed, NEW m \in a.to, <<a.notice.n, m>> \notin missed
    PROVE  HeardLast(m, a.notice.of, a.notice.n)
<1> DEFINE i == a.notice.of
           n == a.notice.n
           about == {k \in DOMAIN told : told[k][2] = m /\ AboutIt(k, i)}
<1>1. PICK k \in DOMAIN told : told[k] = <<n, m>>
  <2>1. ~ \E d \in running : d.notice = a.notice
    BY DEF IsNewest
  <2>2. QED
    BY <2>1 DEF LatestInv, HeardInv, AllTold, ToldSet
<1>2. k \in about /\ told[k][1] = n
  BY <1>1 DEF AboutIt
<1>3. ASSUME NEW j \in about PROVE j <= k
  <2>1. PICK b \in addressed : b.notice.n = told[j][1] /\ b.notice.of = i
    BY DEF AboutIt
  <2>2. b.notice.n <= n /\ b.notice.n \in Nat /\ n \in Nat
    BY <2>1, AddressedNumbers DEF IsNewest, IInv, SubsInv
  <2>3. told \in Seq(Nat \X MemberType) /\ j \in Nat /\ k \in Nat
    BY DEF IInv, SubsInv, ToldOK
  <2> SUFFICES ASSUME k < j PROVE FALSE
    BY <2>3
  <2>4. i \in Incidents
    BY DEF IInv, SubsInv, NumbersOK, Notice
  <2>5. told[k][1] <= told[j][1]
    BY <1>2, <2>4 DEF LatestInv, HeardInv, InOrder, SentInOrder
  <2>6. told[j][1] = n
    BY <1>2, <2>1, <2>2, <2>5
  <2>7. told[j] = <<n, m>>
    BY <2>3, <2>6
  <2>8. j = k
    BY <1>1, <2>7 DEF LatestInv, HeardInv, Apart
  <2>9. QED
    BY <2>3, <2>8
<1>4. QED
  BY <1>2, <1>3 DEF HeardLast, AboutIt

\* For any number of incidents, polls, operators and subscribers, and through
\* restarts: once no notice of an incident is under way, the newest told the phase
\* the row is in, and those it was for heard it after all others, with the
\* exceptions that TheyKnowTheLatest names and no other.
THEOREM LatestIsKnown == Spec => []TheyKnowTheLatest
<1>1. IInv /\ LatestInv => TheyKnowTheLatest
  <2> SUFFICES ASSUME IInv, LatestInv, NEW a \in addressed, IsNewest(a), a.notice.of \notin lost
               PROVE  LET i == a.notice.of IN
                      /\ row[i] # NoRow /\ i \notin Quiet \cup raced \cup met \cup edited
                             => a.notice.status = row[i].status
                      /\ i \notin crossed =>
                             \A m \in a.to : <<a.notice.n, m>> \in missed \/ HeardLast(m, i, a.notice.n)
    BY DEF TheyKnowTheLatest
  <2>1. ASSUME row[a.notice.of] # NoRow, a.notice.of \notin Quiet \cup raced \cup met \cup edited
        PROVE  a.notice.status = row[a.notice.of].status
    <3>1. a.notice.of \in Incidents
      BY DEF IInv, SubsInv, NumbersOK, Notice
    <3>2. a.notice \in Made(a.notice.of) /\ \A y \in Made(a.notice.of) : y.n <= a.notice.n
      BY DEF Made, IsNewest
    <3>3. QED
      BY <2>1, <3>1, <3>2 DEF LatestInv, RowsTold, NewestTells
  <2>2. QED
    BY <2>1, NewestHeardLast
<1>2. Init => LatestInv
  BY InitLatest
<1>3. IInv /\ LatestInv /\ [Next]_vars => LatestInv'
  BY StepLatest
<1>4. QED
  BY <1>1, <1>2, <1>3, PublishingInvariant, PTL DEF Spec
=============================================================================
