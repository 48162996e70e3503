------------------------------ MODULE GraphSync ------------------------------
(***************************************************************************)
(* The incident half of the Graph poller: phases 2 and 3 of                *)
(* scheduler.poll_graph_api, the per-issue sync_issue_as_incident, the     *)
(* background task admin._backfill_service and the debounced               *)
(* admin._delayed_poll.  All of them run as coroutines of one event loop   *)
(* over one SQLite database, so every await is a point where another may   *)
(* run.                                                                    *)
(*                                                                         *)
(* The database follows what SQLAlchemy and pysqlite do: a SELECT before   *)
(* the first write of a session runs in autocommit, the first INSERT or    *)
(* UPDATE takes the single write lock until commit or rollback, an object  *)
(* already loaded by the session keeps its attributes when it is selected  *)
(* again, and an UPDATE writes the columns whose value differs from the    *)
(* one loaded.  Posts, titles and severities are left out (IncidentPosts   *)
(* has the posts); lastModifiedDateTime stands for the version number.     *)
(***************************************************************************)
EXTENDS Naturals, Sequences, FiniteSets

CONSTANTS
    Services,     \* service names the Graph API reports
    Issues,       \* Graph issue ids
    ServiceOf,    \* the service of an issue
    ClassOf,      \* its classification, as _GRAPH_CLASSIFICATION_MAP maps it
    Versions,     \* what Graph may say of an issue: [raw, resolved]
    Successors,   \* and what it may say after that
    Scheduled,    \* the scheduler's poll task (APScheduler: max_instances=1)
    Delayed,      \* the debounced poll task started by a service toggle
    Backfills,    \* slots for background backfill tasks
    Aging,        \* issues whose start may fall out of the 30-day query
    None,
    MaxVersions,  \* bound: versions Graph publishes of one issue
    MaxToggles,   \* bound: service toggles by an admin
    MaxFaults     \* bound: failed phases and process crashes

RawStatus == {"investigating", "serviceDegradation", "restoringService",
              "serviceRestored", "falsePositive", "other"}
Classes == {"incident", "advisory", "maintenance", "unknown"}
Window == {"before", "inside", "after"}
Workers == {Scheduled, Delayed} \cup Backfills

ASSUME ConstantsAssumption ==
    /\ ServiceOf \in [Issues -> Services]
    /\ ClassOf \in [Issues -> Classes]
    /\ Versions \subseteq [raw: RawStatus, resolved: BOOLEAN]
    /\ Successors \in [Versions -> SUBSET Versions]
    /\ Aging \subseteq Issues
    /\ None \notin Workers /\ None \notin Issues
    /\ Scheduled # Delayed /\ {Scheduled, Delayed} \cap Backfills = {}
    /\ {MaxVersions, MaxToggles, MaxFaults} \subseteq Nat

VARIABLES
    history,      \* Graph: the versions published of each issue, oldest first
    window,       \* Graph: where now lies in a maintenance window
    old,          \* Graph: issues whose startDateTime is over 30 days ago
    enabled,      \* table monitored_services: the enabled services
    rows,         \* table incidents, committed
    timeline,     \* table incident_updates: committed state_change entries
    lock,         \* the task whose session holds SQLite's write lock
    draftRows,    \* the lock holder's view of rows
    draftTimeline,
    phase,        \* which part of its work each task is in
    step,         \* and where in that part it is suspended
    monitored,    \* the services a poll read when it started
    todo,         \* versions fetched and still to sync; 0 is none
    cur,          \* the issue being synced
    seen,         \* the incident object the session has loaded for it
    isNew,        \* whether the first SELECT found nothing
    events,       \* _NotifyEvents collected by the phase
    toggling,     \* a service just enabled whose follow-up tasks are not started
    sent,         \* notifications handed to the dispatcher, per issue
    ever,         \* history variable: every status a row ever had, committed
    raced,        \* history variable: issues written from a stale read
    toggles, faults

graph == <<history, window, old>>
db == <<rows, timeline, lock, draftRows, draftTimeline, ever>>
task == <<phase, step, monitored, todo, cur, seen, isNew, events>>
vars == <<graph, enabled, toggling, db, task, sent, raced, toggles, faults>>

-----------------------------------------------------------------------------
(* What the code makes of an issue.                                        *)

Status == {"active", "acknowledged", "monitoring", "resolved",
           "scheduled", "in_progress", "completed"}
Row == [status: Status \cup {"none"}, resolved: BOOLEAN, modified: Nat]
NoRow == [status |-> "none", resolved |-> FALSE, modified |-> 0]
Event == [issue: Issues, status: Status, new: BOOLEAN]

\* _classify_issue returns None.
Skipped(i, v) == v.raw = "falsePositive" \/ ClassOf[i] = "unknown"

MaintenancePhase(i, v) ==
    IF v.resolved THEN "completed"
    ELSE IF window[i] = "inside" THEN "in_progress" ELSE "scheduled"

\* Mutant: Graph's status is stored as it comes.
IssueStatusUnmapped(i, v) == v.raw

IssueStatus(i, v) ==
    IF ClassOf[i] = "maintenance" THEN MaintenancePhase(i, v)
    ELSE CASE v.raw = "investigating"      -> "active"
           [] v.raw = "serviceDegradation" -> "acknowledged"
           [] v.raw = "restoringService"   -> "monitoring"
           [] v.raw = "serviceRestored"    -> "resolved"
           [] OTHER -> IF v.resolved THEN "resolved" ELSE "active"

Latest(i) == history[i][Len(history[i])]
RowFor(i, n) == [status   |-> IssueStatus(i, history[i][n]),
                 resolved |-> history[i][n].resolved,
                 modified |-> n]

-----------------------------------------------------------------------------
(* Sessions.  View is what a SELECT of task w returns: its own uncommitted *)
(* writes if it holds the write lock, the committed tables otherwise.      *)

Phases == {"idle", "sleeping", "active", "resolved", "backfill"}
Steps == {"idle", "fetch", "sync", "relook", "write", "dispatch"}

View(w) == IF lock = w THEN draftRows ELSE rows
CanWrite(w) == lock \in {None, w}

\* Where a task goes once the session of its current phase is closed.
AfterSession(w) == IF phase[w] = "backfill" THEN "idle" ELSE "dispatch"

Goto(w, p, s) ==
    /\ phase' = [phase EXCEPT ![w] = p]
    /\ step' = [step EXCEPT ![w] = s]

DropSession(w) ==
    /\ todo' = [todo EXCEPT ![w] = [i \in Issues |-> 0]]
    /\ cur' = [cur EXCEPT ![w] = None]
    /\ seen' = [seen EXCEPT ![w] = NoRow]
    /\ isNew' = [isNew EXCEPT ![w] = FALSE]

\* session.rollback() or closing a session that was not committed.
RollbackDB(ws) ==
    /\ lock' = IF lock \in ws THEN None ELSE lock
    /\ draftRows' = IF lock \in ws THEN rows ELSE draftRows
    /\ draftTimeline' = IF lock \in ws THEN timeline ELSE draftTimeline
    /\ UNCHANGED <<rows, timeline, ever>>

Init ==
    /\ history = [i \in Issues |-> <<>>]
    /\ window = [i \in Issues |-> "before"]
    /\ old = {}
    /\ enabled \in SUBSET Services
    /\ toggling = None
    /\ rows = [i \in Issues |-> NoRow]
    /\ timeline = [i \in Issues |-> <<>>]
    /\ lock = None
    /\ draftRows = rows
    /\ draftTimeline = timeline
    /\ phase = [w \in Workers |-> "idle"]
    /\ step = [w \in Workers |-> "idle"]
    /\ monitored = [w \in Workers |-> {}]
    /\ todo = [w \in Workers |-> [i \in Issues |-> 0]]
    /\ cur = [w \in Workers |-> None]
    /\ seen = [w \in Workers |-> NoRow]
    /\ isNew = [w \in Workers |-> FALSE]
    /\ events = [w \in Workers |-> {}]
    /\ sent = [i \in Issues |-> <<>>]
    /\ ever = [i \in Issues |-> {}]
    /\ raced = {}
    /\ toggles = 0
    /\ faults = 0

-----------------------------------------------------------------------------
(* The Graph API's side: Microsoft publishes, moves on, resolves, reopens. *)

GraphPublish(i, v) ==
    /\ Len(history[i]) < MaxVersions
    /\ history[i] # <<>> => v \in Successors[Latest(i)]
    /\ history' = [history EXCEPT ![i] = Append(@, v)]
    /\ UNCHANGED <<window, old, enabled, toggling, db, task, sent, raced, toggles, faults>>

\* A maintenance window opens and closes.
WindowMoves(i) ==
    /\ ClassOf[i] = "maintenance" /\ window[i] # "after"
    /\ window' = [window EXCEPT ![i] = IF @ = "before" THEN "inside" ELSE "after"]
    /\ UNCHANGED <<history, old, enabled, toggling, db, task, sent, raced, toggles, faults>>

\* An issue's startDateTime falls out of the 30 days phase 3 asks for.
GrowsOld(i) ==
    /\ history[i] # <<>> /\ i \in Aging \ old
    /\ old' = old \cup {i}
    /\ UNCHANGED <<history, window, enabled, toggling, db, task, sent, raced, toggles, faults>>

-----------------------------------------------------------------------------
(* poll_graph_api.                                                         *)

\* It starts by reading the enabled services, and stops there if there are none.
PollStarts(w) ==
    /\ \/ w = Scheduled /\ phase[w] = "idle"
       \/ w = Delayed /\ phase[w] = "sleeping"
    /\ monitored' = [monitored EXCEPT ![w] = enabled]
    /\ IF enabled = {} THEN Goto(w, "idle", "idle") ELSE Goto(w, "active", "fetch")
    /\ UNCHANGED <<graph, enabled, toggling, db, todo, cur, seen, isNew, events,
                   sent, raced, toggles, faults>>

\* Mutant: phase 3 asks for unresolved issues, too.
ReturnedUnresolved(w, i) == history[i] # <<>> /\ ~Latest(i).resolved

\* What each of the three Graph queries returns.
Returned(w, i) ==
    /\ history[i] # <<>>
    /\ CASE phase[w] = "active"   -> ~Latest(i).resolved
         [] phase[w] = "resolved" -> Latest(i).resolved /\ i \notin old
         [] OTHER                 -> TRUE

\* The filters of the loop over the issues.
Wanted(w, i) == ServiceOf[i] \in monitored[w] /\ ~Skipped(i, Latest(i))

Fetch(w) ==
    /\ step[w] = "fetch"
    /\ todo' = [todo EXCEPT ![w] = [i \in Issues |->
            IF Returned(w, i) /\ Wanted(w, i) THEN Len(history[i]) ELSE 0]]
    /\ Goto(w, phase[w], "sync")
    /\ UNCHANGED <<graph, enabled, toggling, db, monitored, cur, seen, isNew, events,
                   sent, raced, toggles, faults>>

\* sync_issue_as_incident: the SELECT of the existing incident.
Lookup(w, i) ==
    /\ step[w] = "sync" /\ cur[w] = None /\ todo[w][i] # 0
    /\ cur' = [cur EXCEPT ![w] = i]
    /\ seen' = [seen EXCEPT ![w] = View(w)[i]]
    /\ isNew' = [isNew EXCEPT ![w] = View(w)[i] = NoRow]
    /\ Goto(w, phase[w], IF View(w)[i] = NoRow THEN "relook" ELSE "write")
    /\ UNCHANGED <<graph, enabled, toggling, db, monitored, todo, events,
                   sent, raced, toggles, faults>>

\* upsert_incident selects again.  Only a row that was not there before can
\* be loaded: one already in the session keeps the attributes it was read with.
Relook(w) ==
    /\ step[w] = "relook"
    /\ seen' = [seen EXCEPT ![w] = View(w)[cur[w]]]
    /\ Goto(w, phase[w], "write")
    /\ UNCHANGED <<graph, enabled, toggling, db, monitored, todo, cur, isNew, events,
                   sent, raced, toggles, faults>>

\* Mutant: an existing incident keeps its is_resolved.
MergeKeepsResolved(loaded, stored, new) == [new EXCEPT !.resolved = stored.resolved]

\* The columns an UPDATE writes are those that differ from the loaded object.
Merge(loaded, stored, new) ==
    [status   |-> IF new.status # loaded.status THEN new.status ELSE stored.status,
     resolved |-> IF new.resolved # loaded.resolved THEN new.resolved ELSE stored.resolved,
     modified |-> IF new.modified # loaded.modified THEN new.modified ELSE stored.modified]

StatusChanged(w, new) == ~isNew[w] /\ seen[w].status # new.status
\* Mutants: an entry for every sync; an announcement for every event; phase 3 keeps all.
RecordsEverySync(w, new) == TRUE
AlwaysNew(w, i, new) ==
    IF ClassOf[i] = "incident" /\ (isNew[w] \/ StatusChanged(w, new))
    THEN {[issue |-> i, status |-> new.status, new |-> TRUE]} ELSE {}
KeepsAll(w) == phase[w] \in {"active", "resolved"}
KeepsTransitions(w) == phase[w] \in {"active", "resolved"} /\ ~isNew[w]

RecordsState(w, new) == StatusChanged(w, new) \/ (isNew[w] /\ new.status = "resolved")

\* The _NotifyEvent a sync returns, and which of them the caller keeps.
Notifies(w, i, new) == ClassOf[i] = "incident" /\ (isNew[w] \/ StatusChanged(w, new))
Keeps(w) == \/ phase[w] = "active"
            \/ phase[w] = "resolved" /\ ~isNew[w]

NewEvents(w, i, new) ==
    IF Notifies(w, i, new) /\ Keeps(w)
    THEN {[issue |-> i, status |-> new.status, new |-> isNew[w]]} ELSE {}

\* The loop goes on to the next issue.
NextIssue(w) ==
    /\ todo' = [todo EXCEPT ![w][cur[w]] = 0]
    /\ cur' = [cur EXCEPT ![w] = None]
    /\ seen' = [seen EXCEPT ![w] = NoRow]
    /\ isNew' = [isNew EXCEPT ![w] = FALSE]
    /\ Goto(w, phase[w], "sync")

\* upsert_incident and add_state_change_entry with something to flush.
Flush(w) ==
    LET i == cur[w]
        new == RowFor(i, todo[w][i])
        stored == View(w)[i]
    IN  /\ step[w] = "write" /\ CanWrite(w)
        /\ new # seen[w] \/ RecordsState(w, new)
        /\ seen[w] = NoRow => stored = NoRow
        /\ lock' = w
        /\ draftRows' = [draftRows EXCEPT ![i] =
                IF seen[w] = NoRow THEN new ELSE Merge(seen[w], stored, new)]
        /\ draftTimeline' = [draftTimeline EXCEPT ![i] =
                IF RecordsState(w, new) THEN Append(@, new.status) ELSE @]
        /\ events' = [events EXCEPT ![w] = @ \cup NewEvents(w, i, new)]
        /\ raced' = IF stored # seen[w] \/ (isNew[w] /\ seen[w] # NoRow)
                    THEN raced \cup {i} ELSE raced
        /\ NextIssue(w)
        /\ UNCHANGED <<graph, enabled, toggling, rows, timeline, ever, monitored,
                       sent, toggles, faults>>

\* Nothing differs from the loaded object: no statement is sent.
NothingToFlush(w) ==
    LET i == cur[w]
        new == RowFor(i, todo[w][i])
    IN  /\ step[w] = "write"
        /\ new = seen[w] /\ ~RecordsState(w, new)
        /\ events' = [events EXCEPT ![w] = @ \cup NewEvents(w, i, new)]
        /\ raced' = IF View(w)[i] # seen[w] \/ isNew[w] THEN raced \cup {i} ELSE raced
        /\ NextIssue(w)
        /\ UNCHANGED <<graph, enabled, toggling, db, monitored, sent, toggles, faults>>

\* The phase's transaction commits once every fetched issue is synced.
Commit(w) ==
    /\ step[w] = "sync" /\ cur[w] = None /\ \A i \in Issues : todo[w][i] = 0
    /\ rows' = IF lock = w THEN draftRows ELSE rows
    /\ timeline' = IF lock = w THEN draftTimeline ELSE timeline
    /\ lock' = IF lock = w THEN None ELSE lock
    /\ ever' = IF lock = w
               THEN [i \in Issues |-> ever[i] \cup ({draftRows[i].status} \ {"none"})]
               ELSE ever
    /\ Goto(w, IF phase[w] = "backfill" THEN "idle" ELSE phase[w], AfterSession(w))
    /\ UNCHANGED <<graph, enabled, toggling, draftRows, draftTimeline, monitored, todo, cur,
                   seen, isNew, events, sent, raced, toggles, faults>>

\* Mutant: the events of a phase that was rolled back are kept.
FailPhaseKeepsEvents(w) ==
    /\ RollbackDB({w})
    /\ DropSession(w)
    /\ Goto(w, IF phase[w] = "backfill" THEN "idle" ELSE phase[w], AfterSession(w))
    /\ UNCHANGED <<graph, enabled, toggling, events, monitored, sent, raced, toggles>>

\* The except branch: roll back, forget the phase's events, carry on with the next.
FailPhase(w) ==
    /\ RollbackDB({w})
    /\ DropSession(w)
    /\ events' = [events EXCEPT ![w] = {}]
    /\ Goto(w, IF phase[w] = "backfill" THEN "idle" ELSE phase[w], AfterSession(w))
    /\ UNCHANGED <<graph, enabled, toggling, monitored, sent, raced, toggles>>

\* Two sessions inserted the same graph_issue_id: IntegrityError.
InsertConflict(w) ==
    /\ step[w] = "write" /\ CanWrite(w)
    /\ seen[w] = NoRow /\ View(w)[cur[w]] # NoRow
    /\ FailPhase(w)
    /\ UNCHANGED faults

\* The Graph API or the database fails ("database is locked" included).
PhaseFails(w) ==
    /\ step[w] \in {"fetch", "sync", "relook", "write"}
    /\ faults < MaxFaults
    /\ faults' = faults + 1
    /\ FailPhase(w)

Announce(s, mine) ==
    IF mine = {} THEN s
    ELSE LET e == CHOOSE x \in mine : TRUE
         IN  Append(s, [status |-> e.status, new |-> e.new])

\* Mutant: the list of events is not fresh in the next phase.
DispatchTwice(w) ==
    /\ step[w] = "dispatch"
    /\ sent' = [i \in Issues |-> Announce(sent[i], {e \in events[w] : e.issue = i})]
    /\ IF phase[w] = "active" THEN Goto(w, "resolved", "fetch") ELSE Goto(w, "idle", "idle")
    /\ UNCHANGED <<graph, enabled, toggling, db, monitored, todo, cur, seen, isNew, events,
                   raced, toggles, faults>>

\* _dispatch_notifications, after the session is closed, then the next phase.
Dispatch(w) ==
    /\ step[w] = "dispatch"
    /\ sent' = [i \in Issues |-> Announce(sent[i], {e \in events[w] : e.issue = i})]
    /\ events' = [events EXCEPT ![w] = {}]
    /\ IF phase[w] = "active" THEN Goto(w, "resolved", "fetch") ELSE Goto(w, "idle", "idle")
    /\ UNCHANGED <<graph, enabled, toggling, db, monitored, todo, cur, seen, isNew,
                   raced, toggles, faults>>

-----------------------------------------------------------------------------
(* admin.toggle_service.                                                   *)

Toggle(s) ==
    /\ toggles < MaxToggles /\ toggling = None /\ lock = None
    /\ toggles' = toggles + 1
    /\ enabled' = IF s \in enabled THEN enabled \ {s} ELSE enabled \cup {s}
    /\ toggling' = IF s \in enabled THEN None ELSE s
    /\ UNCHANGED <<graph, db, task, sent, raced, faults>>

\* After the commit: start the backfill, cancel a pending or running delayed
\* poll (its session closes uncommitted) and put a new one to sleep.
ScheduleFollowUps(b) ==
    /\ toggling # None /\ phase[b] = "idle"
    /\ toggling' = None
    /\ RollbackDB({Delayed})
    /\ DropSession(Delayed)
    /\ events' = [events EXCEPT ![Delayed] = {}]
    /\ phase' = [phase EXCEPT ![b] = "backfill", ![Delayed] = "sleeping"]
    /\ step' = [step EXCEPT ![b] = "fetch", ![Delayed] = "idle"]
    /\ monitored' = [monitored EXCEPT ![b] = {toggling}]
    /\ UNCHANGED <<graph, enabled, sent, raced, toggles, faults>>

\* The process dies and is started again: only the database survives.
Crash ==
    /\ faults < MaxFaults
    /\ faults' = faults + 1
    /\ toggling' = None
    /\ RollbackDB(Workers)
    /\ phase' = [w \in Workers |-> "idle"]
    /\ step' = [w \in Workers |-> "idle"]
    /\ monitored' = [w \in Workers |-> {}]
    /\ todo' = [w \in Workers |-> [i \in Issues |-> 0]]
    /\ cur' = [w \in Workers |-> None]
    /\ seen' = [w \in Workers |-> NoRow]
    /\ isNew' = [w \in Workers |-> FALSE]
    /\ events' = [w \in Workers |-> {}]
    /\ UNCHANGED <<graph, enabled, sent, raced, toggles>>

-----------------------------------------------------------------------------
Poll(w) ==
    \/ PollStarts(w)
    \/ Fetch(w)
    \/ \E i \in Issues : Lookup(w, i)
    \/ Relook(w)
    \/ Flush(w)
    \/ NothingToFlush(w)
    \/ InsertConflict(w)
    \/ Commit(w)
    \/ Dispatch(w)

Environment ==
    \/ \E i \in Issues, v \in Versions : GraphPublish(i, v)
    \/ \E i \in Issues : WindowMoves(i) \/ GrowsOld(i)

Next ==
    \/ Environment
    \/ \E w \in Workers : Poll(w) \/ PhaseFails(w)
    \/ \E s \in Services : Toggle(s)
    \/ \E b \in Backfills : ScheduleFollowUps(b)
    \/ Crash

Spec == Init /\ [][Next]_vars

\* The event loop keeps running every task that can go on, and the scheduler
\* starts a poll at every interval.
Fairness == \A w \in Workers : WF_vars(Poll(w))

FairSpec == Spec /\ Fairness

-----------------------------------------------------------------------------
(* Properties.                                                             *)

TypeOK ==
    /\ history \in [Issues -> Seq([raw: RawStatus, resolved: BOOLEAN])]
    /\ window \in [Issues -> Window]
    /\ old \subseteq Issues
    /\ enabled \subseteq Services
    /\ toggling \in Services \cup {None}
    /\ rows \in [Issues -> Row] /\ draftRows \in [Issues -> Row]
    /\ timeline \in [Issues -> Seq(Status)] /\ draftTimeline \in [Issues -> Seq(Status)]
    /\ lock \in Workers \cup {None}
    /\ phase \in [Workers -> Phases] /\ step \in [Workers -> Steps]
    /\ monitored \in [Workers -> SUBSET Services]
    /\ todo \in [Workers -> [Issues -> Nat]]
    /\ cur \in [Workers -> Issues \cup {None}]
    /\ seen \in [Workers -> Row]
    /\ isNew \in [Workers -> BOOLEAN]
    /\ events \in [Workers -> SUBSET Event]
    /\ sent \in [Issues -> Seq([status: Status, new: BOOLEAN])]
    /\ ever \in [Issues -> SUBSET Status]
    /\ raced \subseteq Issues
    /\ toggles \in Nat /\ faults \in Nat

\* Subscribers never see a notification for an incident state that was rolled
\* back: whatever was dispatched had been committed (scheduler.py 354-356).
NotifiedWasCommitted ==
    \A i \in Issues : \A k \in 1..Len(sent[i]) : sent[i][k].status \in ever[i]

\* Syncing the history of resolved incidents floods nobody: an issue Graph
\* never reported as unresolved is never announced as a new incident.
HistoryIsSilent ==
    \A i \in Issues :
        (\A k \in 1..Len(history[i]) : history[i][k].resolved)
            => \A k \in 1..Len(sent[i]) : ~sent[i][k].new

\* Unless a session wrote from a row another one had changed since it was
\* read, every incident is one version Graph published, with all its columns.
RowIsAVersion ==
    \A i \in Issues \ raced :
        rows[i] # NoRow /\ ClassOf[i] # "maintenance" =>
            /\ rows[i].modified \in 1..Len(history[i])
            /\ rows[i] = RowFor(i, rows[i].modified)

\* Under the same condition the phase bar of an incident that has an entry ends in
\* its state, and no state is entered twice in a row.  One first seen in a later
\* state has no entry, and a bar that starts as active.
TimelineFollowsRow ==
    \A i \in Issues \ raced :
        LET t == timeline[i] IN
        /\ t # <<>> => t[Len(t)] = rows[i].status
        /\ \A k \in 2..Len(t) : t[k] # t[k - 1]

\* And an incident is announced as new at most once, by whichever task saw it first.
AnnouncedOnce ==
    \A i \in Issues \ raced :
        \A j, k \in 1..Len(sent[i]) : sent[i][j].new /\ sent[i][k].new => j = k

\* Fires on first detection: an open incident on the page has been announced
\* once all tasks rest and nothing failed (scheduler.py 239-242).
OpenIncidentWasTold ==
    faults = 0 /\ toggling = None /\ (\A w \in Workers : phase[w] = "idle") =>
        \A i \in Issues :
            ClassOf[i] = "incident" /\ rows[i] # NoRow /\ ~rows[i].resolved => sent[i] # <<>>

\* While the scheduler's poll is the only task, the incident table mirrors Graph.
Mirror == INSTANCE IncidentMirror WITH
    latest <- [i \in Issues |-> Len(history[i])],
    shown <- [i \in Issues |-> rows[i].modified],
    pending <- {e.issue : e \in IF step[Scheduled] = "dispatch" THEN events[Scheduled] ELSE {}},
    told <- [i \in Issues |-> Len(sent[i])]
ImplementsMirror == Mirror!Spec

\* With Graph quiet, an incident of an enabled service that the poll can still
\* fetch ends up as Graph last described it, whatever raced before.
CatchesUp ==
    \A i \in Issues :
        <>[](/\ ServiceOf[i] \in enabled /\ history[i] # <<>> /\ ~Skipped(i, Latest(i))
             /\ ~(Latest(i).resolved /\ i \in old)
             => rows[i] = RowFor(i, Len(history[i])))
=============================================================================
