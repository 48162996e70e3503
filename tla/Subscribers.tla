------------------------------ MODULE Subscribers ------------------------------
(***************************************************************************)
(* Subscriptions with double opt-in (routers/subscribers.py) and the tasks *)
(* that send notifications (notifications.py): a dispatch reads whom to    *)
(* tell once, and then tells them one after the other, however long that   *)
(* takes and whatever becomes of the subscriptions meanwhile.              *)
(***************************************************************************)
EXTENDS Notices, Sequences

CONSTANTS
    Addresses,  \* numbered in the order a dispatch visits them: e-mail before Teams, then by address
    Visitors,   \* requests of /subscribe
    Hook,       \* the webhook of the administrators: told last, and whoever subscribed
    Absent      \* no row

ASSUME SubscribersAssumption == Addresses \subseteq Nat /\ Hook \in Nat /\ \A e \in Addresses : e < Hook

VARIABLES
    subs,       \* table subscribers, by address (a unique column)
    tokens,     \* tokens given out: one for each row ever made
    links,      \* confirmation links delivered
    ask,        \* the requests of /subscribe under way
    running,    \* the dispatches under way: their notice, and whom they have still to tell
    addressed,  \* history variable: the notices begun, with those they were for
    told,       \* history variable: who was told of which notice, in order
    missed,     \* history variable: messages that could not be sent, with whom they were for
    lost,       \* history variable: incidents one of whose notices broke off
    crossed     \* history variable: incidents two notices of which were under way at once

rows == <<subs, tokens, links>>
heard == <<addressed, told, missed, lost, crossed>>
subsVars == <<rows, ask, running, heard>>

Subscription(token, confirmed, wants) == [token |-> token, confirmed |-> confirmed, wants |-> wants]

Member(e, row) == [who |-> e, token |-> row.token, wants |-> row.wants]
HookMember == [who |-> Hook, token |-> 0, wants |-> Incidents]

NoAsk == [at |-> "idle", who |-> Hook, wants |-> {}, token |-> 0]

SubsInit ==
    /\ subs \in [Addresses -> {Absent, Subscription(0, TRUE, Incidents)}]
    /\ tokens = 0
    /\ links = {Member(e, subs[e]) : e \in {a \in Addresses : subs[a] # Absent}}
    /\ ask = [v \in Visitors |-> NoAsk]
    /\ running = {} /\ addressed = {} /\ told = <<>>
    /\ missed = {} /\ lost = {} /\ crossed = {}

-----------------------------------------------------------------------------
(* Subscriptions.                                                          *)

\* create_subscriber finds no row of that address.  (If it does, the page says
\* "ok" and nothing happens.)
Subscribe(v, e, wants) ==
    /\ Acts /\ ask[v].at = "idle" /\ subs[e] = Absent
    /\ ask' = [ask EXCEPT ![v] = [NoAsk EXCEPT !.at = "insert", !.who = e, !.wants = wants]]
    /\ UNCHANGED <<mail, rows, running, heard>>

\* Mutant: an upsert, so that asking again replaces the token.
VacantAlways(e) == TRUE

\* The unique constraint on the address, for a row that came in between.
Vacant(e) == subs[e] = Absent

InsertSubscriber(v) ==
    LET e == ask[v].who IN
    /\ ask[v].at = "insert"
    /\ IF Vacant(e)
       THEN /\ tokens' = tokens + 1
            /\ subs' = [subs EXCEPT ![e] = Subscription(tokens', FALSE, ask[v].wants)]
            /\ ask' = [ask EXCEPT ![v].at = "send", ![v].token = tokens']
       ELSE /\ ask' = [ask EXCEPT ![v] = NoAsk]
            /\ UNCHANGED <<subs, tokens>>
    /\ UNCHANGED <<mail, links, running, heard, acts>>

AskedMember(v) == [who |-> ask[v].who, token |-> ask[v].token, wants |-> ask[v].wants]

\* send_confirmation_email and send_teams_confirmation report a failure as
\* False, which nobody looks at.
SendConfirmation(v, ok) ==
    /\ ask[v].at = "send"
    /\ ok \/ Acts
    /\ ok => UNCHANGED acts
    /\ links' = IF ok THEN links \cup {AskedMember(v)} ELSE links
    /\ ask' = [ask EXCEPT ![v] = NoAsk]
    /\ UNCHANGED <<mail, subs, tokens, running, heard>>

\* Mutant: whoever has the address is confirmed, whichever row the link is of.
HasRowByAddress(l) == subs[l.who] # Absent

HasRow(l) == subs[l.who] # Absent /\ subs[l.who].token = l.token

Confirm(l) ==
    /\ l \in links /\ HasRow(l) /\ ~subs[l.who].confirmed
    /\ subs' = [subs EXCEPT ![l.who].confirmed = TRUE]
    /\ UNCHANGED <<mail, tokens, links, ask, running, heard, acts>>

Deleted(e) == subs' = [subs EXCEPT ![e] = Absent]

\* The link below each message.
Unsubscribe(m) ==
    /\ Acts /\ m.who # Hook /\ HasRow(m)
    /\ Deleted(m.who)
    /\ UNCHANGED <<outbox, sent, tokens, links, ask, running, heard>>

AdminDelete(e) ==
    /\ Acts /\ subs[e] # Absent
    /\ Deleted(e)
    /\ UNCHANGED <<outbox, sent, tokens, links, ask, running, heard>>

-----------------------------------------------------------------------------
(* Dispatches.                                                             *)

\* Mutant: pending subscribers are told too.
ReachablePending(e) == subs[e] # Absent

Reachable(e) == subs[e] # Absent /\ subs[e].confirmed

\* Mutant: the webhook is told only what a subscriber is told.
RecipientsAlone(i) ==
    {m \in {Member(e, subs[e]) : e \in {a \in Addresses : Reachable(a)}} : i \in m.wants}

\* get_confirmed_subscribers_for_service, and the webhook.
Recipients(i) ==
    {HookMember} \cup {m \in {Member(e, subs[e]) : e \in {a \in Addresses : Reachable(a)}} : i \in m.wants}

\* Another notice of that incident waits or is being sent.
Overtakes(n) ==
    \/ \E o \in outbox : o.of = n.of /\ o # n
    \/ \E d \in running : d.notice.of = n.of

Begin(n) ==
    /\ n \in outbox /\ outbox' = outbox \ {n}
    /\ running' = running \cup {[notice |-> n, left |-> Recipients(n.of)]}
    /\ addressed' = addressed \cup {[notice |-> n, to |-> Recipients(n.of)]}
    /\ crossed' = IF Overtakes(n) THEN crossed \cup {n.of} ELSE crossed
    /\ UNCHANGED <<sent, rows, ask, told, missed, lost, acts>>

\* In the order of the query.
First(left) == CHOOSE m \in left : \A o \in left : m.who <= o.who

\* Mutant: one message that fails ends the loop.
RestAfterFailure(left, ok) == IF ok THEN left \ {First(left)} ELSE {}

\* The senders catch what goes wrong with one message.
Rest(left, ok) == left \ {First(left)}

\* One message, and the end of the task after the last.
Tell(d, ok) ==
    LET m == First(d.left) rest == Rest(d.left, ok) IN
    /\ d \in running
    /\ ok \/ Acts
    /\ ok => UNCHANGED acts
    /\ running' = (running \ {d}) \cup (IF rest = {} THEN {} ELSE {[d EXCEPT !.left = rest]})
    /\ told' = IF ok THEN Append(told, <<d.notice.n, m>>) ELSE told
    /\ missed' = IF ok THEN missed ELSE missed \cup {<<d.notice.n, m>>}
    /\ UNCHANGED <<outbox, sent, rows, ask, addressed, lost, crossed>>

\* Reading the mail settings fails, or the subscribers: the task ends, those
\* left and the webhook are not told, and nothing tries again.
Break(d) ==
    /\ Acts /\ d \in running
    /\ running' = running \ {d}
    /\ lost' = lost \cup {d.notice.of}
    /\ UNCHANGED <<outbox, sent, rows, ask, addressed, told, missed, crossed>>

-----------------------------------------------------------------------------
Visit ==
    \/ \E v \in Visitors, e \in Addresses, wants \in (SUBSET Incidents) \ {{}} : Subscribe(v, e, wants)
    \/ \E v \in Visitors : InsertSubscriber(v)
    \/ \E v \in Visitors, ok \in BOOLEAN : SendConfirmation(v, ok)
    \/ \E l \in links : Confirm(l)
    \/ \E a \in addressed : \E m \in a.to : Unsubscribe(m)
    \/ \E e \in Addresses : AdminDelete(e)

Dispatch ==
    \/ \E n \in outbox : Begin(n)
    \/ \E d \in running, ok \in BOOLEAN : Tell(d, ok)
    \/ \E d \in running : Break(d)

SubsNext == Visit \/ Dispatch

-----------------------------------------------------------------------------
(* Properties.                                                             *)

SubsTypeOK ==
    /\ \A e \in Addresses : subs[e] # Absent =>
          subs[e] \in [token: 0..tokens, confirmed: BOOLEAN, wants: SUBSET Incidents]
    /\ DOMAIN subs = Addresses /\ tokens \in Nat
    /\ links \subseteq [who: Addresses, token: 0..tokens, wants: SUBSET Incidents]
    /\ ask \in [Visitors -> [at: {"idle", "insert", "send"}, who: Addresses \cup {Hook},
                             token: 0..tokens, wants: SUBSET Incidents]]
    /\ \A d \in running : d.notice \in Notice /\ d.left # {}

\* A link that was delivered confirms its subscription for as long as nobody
\* deletes that, whoever else asks for the same address at the same time.
LinksWork ==
    [][\A l \in links : HasRow(l) => HasRow(l)' \/ subs'[l.who] = Absent]_subsVars

\* Nobody is told who did not confirm, of what he did not choose, or twice; and
\* a dispatch addresses everybody who did when it began.
Promise == INSTANCE Audience WITH
    invited <- {HookMember} \cup links,
    members <- {HookMember} \cup {Member(e, subs[e]) : e \in {a \in Addresses : Reachable(a)}},
    told <- {told[k] : k \in DOMAIN told}
KeepsPromise == Promise!Spec

\* The newest notice of an incident, with none of that incident under way.
IsNewest(a) ==
    /\ \A b \in addressed : b.notice.of = a.notice.of => b.notice.n <= a.notice.n
    /\ \A o \in outbox : o.of # a.notice.of
    /\ \A d \in running : d.notice.of # a.notice.of

\* The last that m heard of an incident is notice n.
HeardLast(m, i, n) ==
    LET of(k) == \E a \in addressed : a.notice.n = told[k][1] /\ a.notice.of = i
        about == {k \in DOMAIN told : told[k][2] = m /\ of(k)}
    IN \E k \in about : told[k][1] = n /\ \A j \in about : j <= k
=============================================================================
