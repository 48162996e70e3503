----------------------------- MODULE StatusEvents ------------------------------
(***************************************************************************)
(* Phase 1 of scheduler.poll_graph_api, which stores the health of the     *)
(* enabled services day by day, and what becomes of the changes it finds:  *)
(* event_bus.py puts them into a queue for each open stream, routers/sse.py *)
(* sends them, and live-updates.js keeps a stream open.                    *)
(*                                                                         *)
(* Publishing never waits (the bus's lock is held across no await), nor    *)
(* does anything between the first UPSERT of a poll and its COMMIT let     *)
(* another write in, so each is one step.                                  *)
(***************************************************************************)
EXTENDS Catalogue, Sequences, SequencesExt

CONSTANTS
    Health,     \* statuses Graph may report
    Settable,   \* statuses an operator sets by hand
    Silent,     \* no status: Graph does not list the service, or there is no row
    Polls,      \* tasks that poll: the scheduled and the delayed one
    Pages,      \* status pages open in browsers
    LastDay,    \* bound: the last day
    MaxAttempts \* MAX_RECONNECT_ATTEMPTS

Statuses == {"operational", "degraded", "interrupted", "unknown"}

ASSUME EventsAssumption ==
    /\ "serviceOperational" \in Health /\ Settable \subseteq Statuses /\ Silent \notin Health \cup Statuses
    /\ LastDay \in Nat /\ MaxAttempts \in Nat

Days == 0..LastDay

\* GRAPH_STATUS_MAP, with its default.
Meaning(raw) ==
    CASE raw \in {"serviceOperational", "serviceRestored", "serviceInformation", "falsePositive"} -> "operational"
      [] raw \in {"degradedPerformance", "serviceDegradation", "extendedRecovery", "investigationSuspended"} -> "degraded"
      [] raw \in {"serviceInterruption", "restoringService"} -> "interrupted"
      [] OTHER -> "unknown"

VARIABLES
    day,        \* today
    health,     \* Graph's health overviews
    status,     \* table service_status: a row for each service and day
    poll,       \* the polls under way
    up,         \* the server answers
    page,       \* the connection of each page
    bus,        \* streams the server serves: those whose queues are on the bus
    excused     \* history variable: services whose status changed in a way no event tells

feed == <<page, bus>>
eventsOwn == <<day, health, status, poll, up, feed, excused>>
eventVars == <<catalogue, eventsOwn, acts>>

Enabled == {n \in Names : svc[n].enabled}

\* The newest row: what the page shows.
Current(n) ==
    LET rows == {d \in Days : status[n][d] # Silent}
    IN IF rows = {} THEN Silent ELSE status[n][CHOOSE d \in rows : \A e \in rows : e <= d]

NoPoll == [at |-> "idle", day |-> 0, names |-> {}, old |-> [n \in Names |-> Silent],
           found |-> [n \in Names |-> Silent], changes |-> {}]
NoPage == [at |-> "connecting", attempts |-> 0]

EventsInit ==
    /\ CatalogueInit
    /\ day = 0
    /\ health = [n \in Names |-> IF svc[n].known THEN "serviceOperational" ELSE Silent]
    /\ status = [n \in Names |-> [d \in Days |-> IF svc[n].enabled /\ d = 0 THEN "operational" ELSE Silent]]
    /\ poll = [p \in Polls |-> NoPoll]
    /\ up = TRUE
    /\ page = [b \in Pages |-> NoPage]
    /\ bus = {}
    /\ excused = {}

-----------------------------------------------------------------------------
(* Microsoft, and time.                                                    *)

HealthChanges(n, h) ==
    /\ Acts /\ health[n] # h
    /\ health' = [health EXCEPT ![n] = h]
    /\ UNCHANGED <<catalogue, day, status, poll, up, feed, excused>>

DayBegins ==
    /\ day < LastDay /\ day' = day + 1
    /\ UNCHANGED <<catalogue, health, status, poll, up, feed, excused, acts>>

\* refresh_services: an operator asks for the services Graph lists by now.
RefreshServices ==
    /\ Acts /\ svc' = Known(svc, {n \in Names : health[n] # Silent})
    /\ UNCHANGED <<mover, levels, labels, eventsOwn>>

-----------------------------------------------------------------------------
(* The poll.                                                               *)

\* The enabled services, the date, and the rows of that date: all read before
\* Graph is asked.
PollReads(p) ==
    /\ up /\ poll[p].at = "idle" /\ Enabled # {}
    /\ poll' = [poll EXCEPT ![p] = [NoPoll EXCEPT !.at = "asking", !.day = day, !.names = Enabled,
                                                  !.old = [n \in Names |-> status[n][day]]]]
    /\ excused' = IF \E o \in Polls \ {p} : poll[o].at # "idle" THEN Names ELSE excused
    /\ UNCHANGED <<catalogue, day, health, status, up, feed, acts>>

Overviews(p) ==
    /\ poll[p].at = "asking"
    /\ poll' = [poll EXCEPT ![p].at = "writing", ![p].found = health]
    /\ UNCHANGED <<catalogue, day, health, status, up, feed, excused, acts>>

\* Mutant: a service that Graph does not list has no default.
MappedBare(p, n) == IF poll[p].found[n] = Silent THEN Silent ELSE Meaning(poll[p].found[n])

\* An enabled service Graph does not list counts as operational.
Mapped(p, n) == IF poll[p].found[n] = Silent THEN "operational" ELSE Meaning(poll[p].found[n])

\* upsert_service_status: one row for a service and a day.
Upsert(s, names, d, to) == [n \in Names |-> IF n \in names THEN [s[n] EXCEPT ![d] = to[n]] ELSE s[n]]

\* Mutant: against the rows as they are after the UPSERT.
ChangesAfterUpsert(p) ==
    LET names == poll[p].names
        new == Upsert(status, names, poll[p].day, [n \in names |-> Mapped(p, n)])
    IN {n \in names : new[n][poll[p].day] \notin {Silent, Mapped(p, n)}}

\* Against the rows read at first, so a day's first row is no change.
Changes(p) == {n \in poll[p].names : poll[p].old[n] \notin {Silent, Mapped(p, n)}}

WriteOverviews(p) ==
    LET names == poll[p].names d == poll[p].day IN
    /\ poll[p].at = "writing"
    /\ svc' = Known(svc, {n \in Names : poll[p].found[n] # Silent})
    /\ status' = Upsert(status, names, d, [n \in names |-> Mapped(p, n)])
    /\ poll' = [poll EXCEPT ![p].at = "publishing",
                            ![p].changes = {[name |-> n, status |-> Mapped(p, n)] : n \in Changes(p)}]
    /\ excused' = excused \cup {n \in names : poll[p].old[n] = Silent}
    /\ UNCHANGED <<mover, levels, labels, day, health, up, feed, acts>>

\* Graph or the database fails: rolled back, and no event.
PollFails(p) ==
    /\ Acts /\ poll[p].at \in {"asking", "writing"}
    /\ poll' = [poll EXCEPT ![p] = NoPoll]
    /\ UNCHANGED <<catalogue, day, health, status, up, feed, excused>>

Publish(p) ==
    /\ poll[p].at = "publishing"
    /\ bus' = {[s EXCEPT !.queue = @ \o SetToSeq(poll[p].changes)] : s \in bus}
    /\ poll' = [poll EXCEPT ![p] = NoPoll]
    /\ UNCHANGED <<catalogue, day, health, status, up, page, excused, acts>>

\* set_service_status_manual: today's row.
SetManually(n, h) == Upsert(status, {n}, day, [m \in {n} |-> h])

\* Until the next poll of the day, and without an event.
SetStatus(n, h) ==
    /\ Acts /\ svc[n].known
    /\ status' = SetManually(n, h)
    /\ excused' = excused \cup {n}
    /\ UNCHANGED <<catalogue, day, health, poll, up, feed>>

-----------------------------------------------------------------------------
(* Streams.                                                                *)

\* EventSource connects, and event_stream subscribes.  "told" is what a client
\* knows that loaded the page at that moment.
Connect(b) ==
    /\ up /\ page[b].at = "connecting"
    /\ page' = [page EXCEPT ![b].at = "open"]
    /\ bus' = bus \cup {[of |-> b, n |-> acts, live |-> TRUE, queue |-> <<>>, told |-> [n \in Names |-> Current(n)]]}
    /\ UNCHANGED <<catalogue, day, health, status, poll, up, excused, acts>>

\* Mutant: a stream that breaks is not looked at again.
LeavesNever(s) == FALSE

\* After each message and each heartbeat: is_disconnected.
Leaves(s) == ~s.live

\* The next event, or after 30 seconds without one a heartbeat.
StreamStep(s) ==
    /\ s \in bus /\ (s.queue # <<>> \/ Leaves(s))
    /\ LET e == Head(s.queue)
           next == IF s.queue = <<>> THEN s ELSE [s EXCEPT !.queue = Tail(@), !.told[e.name] = e.status]
       IN bus' = (bus \ {s}) \cup (IF Leaves(s) THEN {} ELSE {next})
    /\ UNCHANGED <<catalogue, day, health, status, poll, up, page, excused, acts>>

Cut(b) == {IF s.of = b THEN [s EXCEPT !.live = FALSE] ELSE s : s \in bus}

\* The connection breaks, and the browser connects again by itself.
StreamBreaks(b) ==
    /\ Acts /\ page[b].at = "open"
    /\ page' = [page EXCEPT ![b].at = "connecting"]
    /\ bus' = Cut(b)
    /\ UNCHANGED <<catalogue, day, health, status, poll, up, excused>>

\* The process stops, with its polls and its bus, and a proxy answers for it.
GoDown ==
    /\ Acts /\ up /\ up' = FALSE
    /\ poll' = [p \in Polls |-> NoPoll]
    /\ bus' = {}
    /\ page' = [b \in Pages |-> IF page[b].at = "open" THEN [page[b] EXCEPT !.at = "connecting"] ELSE page[b]]
    /\ UNCHANGED <<catalogue, day, health, status>>
    /\ excused' = excused \cup UNION {{c.name : c \in poll[p].changes} : p \in Polls}

GoUp ==
    /\ ~up /\ up' = TRUE
    /\ UNCHANGED <<catalogue, day, health, status, poll, feed, excused, acts>>

\* An answer that is no stream closes the EventSource: attemptReconnect.
Refused(b) ==
    /\ ~up /\ page[b].at = "connecting"
    /\ page' = [page EXCEPT ![b] =
           IF @.attempts < MaxAttempts THEN [at |-> "waiting", attempts |-> @.attempts + 1]
           ELSE [@ EXCEPT !.at = "given up"]]
    /\ UNCHANGED <<catalogue, day, health, status, poll, up, bus, excused, acts>>

\* Mutant: the attempts are counted on.
AttemptsKept(n) == n

\* connect() counts from 0 again, before it knows whether it succeeds.
Attempts(n) == 0

TimerFires(b) ==
    /\ page[b].at = "waiting"
    /\ page' = [page EXCEPT ![b] = [at |-> "connecting", attempts |-> Attempts(@.attempts)]]
    /\ UNCHANGED <<catalogue, day, health, status, poll, up, bus, excused, acts>>

-----------------------------------------------------------------------------
Poll(p) == PollReads(p) \/ Overviews(p) \/ WriteOverviews(p) \/ PollFails(p) \/ Publish(p)

Page(b) == Connect(b) \/ StreamBreaks(b) \/ Refused(b) \/ TimerFires(b)

EventsNext ==
    \/ CatalogueNext /\ UNCHANGED eventsOwn
    \/ \E n \in Names, h \in Health \cup {Silent} : HealthChanges(n, h)
    \/ \E n \in Names, h \in Settable : SetStatus(n, h)
    \/ DayBegins
    \/ RefreshServices
    \/ \E p \in Polls : Poll(p)
    \/ \E s \in bus : StreamStep(s)
    \/ \E b \in Pages : Page(b)
    \/ GoDown
    \/ GoUp

\* The process is started again, browsers' timers fire and connections are
\* tried, and the event loop resumes streams.
EventsFairness ==
    /\ WF_eventVars(GoUp)
    /\ \A b \in Pages : WF_eventVars(Connect(b)) /\ WF_eventVars(TimerFires(b))
    /\ WF_eventVars(\E s \in bus : StreamStep(s))

-----------------------------------------------------------------------------
Change == [name: Names, status: Statuses]
Stream == [of: Pages, n: 0..MaxEvents, live: BOOLEAN, queue: Seq(Change), told: [Names -> Statuses \cup {Silent}]]

\* The seeded severities and phases stay as they are, a service on the page is in
\* its table, and statuses are the program's own, whatever Graph reports.
EventsTypeOK ==
    /\ CatalogueTypeOK
    /\ day \in Days
    /\ health \in [Names -> Health \cup {Silent}]
    /\ status \in [Names -> [Days -> Statuses \cup {Silent}]]
    /\ poll \in [Polls -> [at: {"idle", "asking", "writing", "publishing"}, day: Days, names: SUBSET Names,
                           old: [Names -> Statuses \cup {Silent}], found: [Names -> Health \cup {Silent}],
                           changes: SUBSET Change]]
    /\ up \in BOOLEAN
    /\ page \in [Pages -> [at: {"connecting", "open", "waiting", "given up"}, attempts: 0..MaxAttempts]]
    /\ bus \subseteq Stream
    /\ excused \subseteq Names

\* What a client learns that loads the page, opens a stream and reads on is what
\* the table says, but for what no event tells: statuses set by hand, the first
\* row of a day, polls that overlap, a process that stops before it publishes.
Told(s, n) ==
    LET about == {k \in DOMAIN s.queue : s.queue[k].name = n}
    IN IF about = {} THEN s.told[n] ELSE s.queue[CHOOSE k \in about : \A j \in about : j <= k].status

StreamsTell ==
    \A s \in bus, n \in Names \ excused :
        (\A p \in Polls : \A c \in poll[p].changes : c.name # n) => Told(s, n) = Current(n)

\* A stream whose client is gone leaves the bus, so no queue grows for ever.
DeadStreamsLeave == \A b \in Pages : <>[](\A s \in bus : s.of = b => s.live)

\* However long the server is away, an open page ends up connected again.
PagesReconnect == \A b \in Pages : <>[](page[b].at = "open")
=============================================================================
