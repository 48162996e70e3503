--------------------------- MODULE GraphSyncProofs ---------------------------
(***************************************************************************)
(* Theorems about GraphSync for every set of issues, services and tasks    *)
(* and every bound: its type invariant, that no notification speaks of a   *)
(* state that was never committed, and that history floods nobody.         *)
(***************************************************************************)
EXTENDS GraphSync, TLAPS

-----------------------------------------------------------------------------
(* The inductive invariant.                                                *)

\* A task rests, sleeps or waits for Graph without a session or events.
Resting ==
    \A w \in Workers :
        /\ phase[w] \in {"idle", "sleeping"} => step[w] = "idle"
        /\ step[w] \in {"idle", "fetch"} => events[w] = {}
        /\ phase[w] = "backfill" => events[w] = {}

\* What is still to sync was fetched, and the issue being synced is among it.
Fetched ==
    /\ \A w \in Workers, i \in Issues : todo[w][i] <= Len(history[i])
    /\ \A w \in Workers : step[w] \in {"relook", "write"} =>
            cur[w] \in Issues /\ todo[w][cur[w]] # 0

\* Without a writer the draft is the committed state.
DraftIsCommitted == lock = None => draftRows = rows /\ draftTimeline = timeline

RowsRemembered == \A i \in Issues : rows[i].status # "none" => rows[i].status \in ever[i]

\* A status is safe to announce once committed if it was committed before or
\* is what the task's own open transaction holds.
Committable(w, i, s) == s \in ever[i] \/ (lock = w /\ draftRows[i].status = s)

SeenIsCommittable ==
    \A w \in Workers : step[w] = "write" /\ seen[w].status # "none" =>
        Committable(w, cur[w], seen[w].status)

\* Events of an open session concern issues it has finished; those of a closed
\* session were committed with it.
EventsAreCommittable ==
    \A w \in Workers : \A e \in events[w] :
        /\ step[w] = "dispatch" => e.status \in ever[e.issue]
        /\ step[w] # "dispatch" => /\ Committable(w, e.issue, e.status)
                                   /\ todo[w][e.issue] = 0

SafeInv == /\ Resting /\ Fetched /\ DraftIsCommitted /\ RowsRemembered
           /\ SeenIsCommittable /\ EventsAreCommittable /\ NotifiedWasCommitted

IInv == TypeOK /\ SafeInv
-----------------------------------------------------------------------------
(* Lemmas about the operators.                                             *)

\* The row made of a fetched version is a row with a real status.
LEMMA RowForType ==
    ASSUME TypeOK, NEW i \in Issues, NEW n \in 1..Len(history[i])
    PROVE  /\ RowFor(i, n) \in Row
           /\ RowFor(i, n).status \in Status
           /\ RowFor(i, n) # NoRow
<1> DEFINE V == [raw : RawStatus, resolved : BOOLEAN]
<1>1. history[i][n] \in V
  <2>1. history[i] \in Seq(V)
    BY DEF TypeOK
  <2> HIDE DEF V
  <2>2. QED
    BY <2>1
<1>2. IssueStatus(i, history[i][n]) \in Status
  BY <1>1 DEF IssueStatus, MaintenancePhase, Status
<1>3. QED
  BY <1>1, <1>2 DEF RowFor, Row, NoRow, Status

\* NoRow is a row, and it has no status.
LEMMA NoRowType == NoRow \in Row /\ NoRow.status = "none"
  BY DEF NoRow, Row

\* A merged row is a row; its status is the new or the stored one.
LEMMA MergeType ==
    ASSUME NEW loaded \in Row, NEW stored \in Row, NEW new \in Row
    PROVE  /\ Merge(loaded, stored, new) \in Row
           /\ loaded.status # new.status => Merge(loaded, stored, new).status = new.status
           /\ loaded.status = new.status => Merge(loaded, stored, new).status = stored.status
  BY DEF Merge, Row

\* The events of a sync are about the issue synced and the status written.
LEMMA NewEventsType ==
    ASSUME TypeOK, NEW w \in Workers, NEW i \in Issues, NEW new \in Row, new.status \in Status
    PROVE  /\ NewEvents(w, i, new) \subseteq Event
           /\ \A e \in NewEvents(w, i, new) : e.issue = i /\ e.status = new.status /\ e.new = isNew[w]
           /\ NewEvents(w, i, new) # {} => isNew[w] \/ seen[w].status # new.status
           /\ phase[w] = "backfill" => NewEvents(w, i, new) = {}
           /\ isNew[w] /\ NewEvents(w, i, new) # {} => phase[w] = "active"
  BY DEF NewEvents, Notifies, Keeps, StatusChanged, Event, TypeOK

\* Dispatching appends at most one notification, taken from the issue's events.
LEMMA AnnounceType ==
    ASSUME NEW s \in Seq([status : Status, new : BOOLEAN]), NEW mine \in SUBSET Event
    PROVE  /\ Announce(s, mine) \in Seq([status : Status, new : BOOLEAN])
           /\ \A k \in 1..Len(Announce(s, mine)) :
                 \/ k \in 1..Len(s) /\ Announce(s, mine)[k] = s[k]
                 \/ \E e \in mine : Announce(s, mine)[k] = [status |-> e.status, new |-> e.new]
<1>1. CASE mine = {}
  BY <1>1 DEF Announce
<1>2. CASE mine # {}
  <2> DEFINE e == CHOOSE x \in mine : TRUE
             n == [status |-> e.status, new |-> e.new]
  <2>1. e \in mine
    BY <1>2
  <2>2. n \in [status : Status, new : BOOLEAN]
    BY <2>1 DEF Event
  <2>3. Announce(s, mine) = Append(s, n)
    BY <1>2 DEF Announce
  <2> HIDE DEF e, n
  <2>4. QED
    BY <2>1, <2>2, <2>3 DEF n
<1>3. QED
  BY <1>1, <1>2

\* What is fetched and about to be written is a version of the issue.
LEMMA WritesAVersion ==
    ASSUME TypeOK, Fetched, NEW w \in Workers, step[w] \in {"relook", "write"}
    PROVE  /\ cur[w] \in Issues
           /\ todo[w][cur[w]] \in 1..Len(history[cur[w]])
<1>1. cur[w] \in Issues /\ todo[w][cur[w]] # 0
  BY DEF Fetched
<1>2. todo[w][cur[w]] \in Nat /\ todo[w][cur[w]] <= Len(history[cur[w]])
  BY <1>1 DEF TypeOK, Fetched
<1>3. Len(history[cur[w]]) \in Nat
  BY <1>1 DEF TypeOK
<1>4. QED
  BY <1>1, <1>2, <1>3

-----------------------------------------------------------------------------
(* Type correctness.                                                       *)

LEMMA InitType == Init => TypeOK
<1> SUFFICES ASSUME Init PROVE TypeOK
  OBVIOUS
<1> USE NoRowType, ConstantsAssumption
<1>1. <<>> \in Seq([raw: RawStatus, resolved: BOOLEAN]) /\ <<>> \in Seq(Status)
      /\ <<>> \in Seq([status : Status, new : BOOLEAN])
  OBVIOUS
<1>2. QED
  BY <1>1 DEF Init, TypeOK, Window, Phases, Steps

LEMMA TypeStep ==
    ASSUME TypeOK, Fetched, [Next]_vars
    PROVE  TypeOK'
<1> USE ConstantsAssumption
<1>1. ASSUME NEW i \in Issues, NEW v \in Versions, GraphPublish(i, v)
      PROVE  TypeOK'
  <2> DEFINE V == [raw : RawStatus, resolved : BOOLEAN]
  <2>1. history' \in [Issues -> Seq(V)]
    <3>1. v \in V
      OBVIOUS
    <3>2. history \in [Issues -> Seq(V)]
      BY DEF TypeOK
    <3> HIDE DEF V
    <3>3. Append(history[i], v) \in Seq(V)
      BY <3>1, <3>2
    <3>4. QED
      BY <1>1, <3>2, <3>3 DEF GraphPublish
  <2>2. QED
    BY <1>1, <2>1 DEF GraphPublish, TypeOK, db, task
<1>2. ASSUME NEW i \in Issues, WindowMoves(i)
      PROVE  TypeOK'
  BY <1>2 DEF WindowMoves, TypeOK, db, task, Window
<1>3. ASSUME NEW i \in Issues, GrowsOld(i)
      PROVE  TypeOK'
  BY <1>3 DEF GrowsOld, TypeOK, db, task
<1>4. ASSUME NEW w \in Workers, PollStarts(w)
      PROVE  TypeOK'
  BY <1>4 DEF PollStarts, Goto, TypeOK, db, graph, Phases, Steps
<1>5. ASSUME NEW w \in Workers, Fetch(w)
      PROVE  TypeOK'
  <2>1. \A i \in Issues : Len(history[i]) \in Nat
    BY DEF TypeOK
  <2>2. todo' \in [Workers -> [Issues -> Nat]]
    BY <1>5, <2>1 DEF Fetch, TypeOK
  <2>3. QED
    BY <1>5, <2>2 DEF Fetch, Goto, TypeOK, db, graph, Phases, Steps
<1>6. ASSUME NEW w \in Workers, NEW i \in Issues, Lookup(w, i)
      PROVE  TypeOK'
  BY <1>6 DEF Lookup, Goto, View, TypeOK, db, graph, Phases, Steps
<1>7. ASSUME NEW w \in Workers, Relook(w)
      PROVE  TypeOK'
  <2>1. cur[w] \in Issues
    BY <1>7 DEF Relook, Fetched
  <2>2. QED
    BY <1>7, <2>1 DEF Relook, Goto, View, TypeOK, db, graph, Phases, Steps
<1>8. ASSUME NEW w \in Workers, Flush(w)
      PROVE  TypeOK'
  <2> DEFINE i == cur[w]
             new == RowFor(i, todo[w][i])
             stored == View(w)[i]
  <2>1. i \in Issues /\ todo[w][i] \in 1..Len(history[i])
    BY <1>8, WritesAVersion DEF Flush
  <2>2. new \in Row /\ new.status \in Status
    BY <2>1, RowForType
  <2>3. stored \in Row /\ seen[w] \in Row
    BY <2>1 DEF TypeOK, View
  <2>4. Merge(seen[w], stored, new) \in Row
    BY <2>2, <2>3, MergeType
  <2>5. NewEvents(w, i, new) \subseteq Event
    BY <2>1, <2>2, NewEventsType
  <2> HIDE DEF new, stored
  <2>6. draftRows' \in [Issues -> Row]
    <3>1. draftRows' = [draftRows EXCEPT ![i] =
                IF seen[w] = NoRow THEN new ELSE Merge(seen[w], stored, new)]
      BY <1>8 DEF Flush, new, stored
    <3>2. QED
      BY <2>1, <2>2, <2>4, <3>1 DEF TypeOK
  <2>7. draftTimeline' \in [Issues -> Seq(Status)]
    <3>1. draftTimeline' = [draftTimeline EXCEPT ![i] =
                IF RecordsState(w, new) THEN Append(@, new.status) ELSE @]
      BY <1>8 DEF Flush, new
    <3>2. QED
      BY <2>1, <2>2, <3>1 DEF TypeOK
  <2>8. events' \in [Workers -> SUBSET Event]
    <3>1. events' = [events EXCEPT ![w] = @ \cup NewEvents(w, i, new)]
      BY <1>8 DEF Flush, new
    <3>2. QED
      BY <2>5, <3>1 DEF TypeOK
  <2>9. raced' \subseteq Issues
    BY <1>8, <2>1 DEF Flush, TypeOK
  <2>10. QED
    BY <1>8, <2>1, <2>6, <2>7, <2>8, <2>9, NoRowType
       DEF Flush, NextIssue, Goto, TypeOK, graph, Phases, Steps
<1>9. ASSUME NEW w \in Workers, NothingToFlush(w)
      PROVE  TypeOK'
  <2> DEFINE i == cur[w]
             new == RowFor(i, todo[w][i])
  <2>1. i \in Issues /\ todo[w][i] \in 1..Len(history[i])
    BY <1>9, WritesAVersion DEF NothingToFlush
  <2>2. new \in Row /\ new.status \in Status
    BY <2>1, RowForType
  <2>3. NewEvents(w, i, new) \subseteq Event
    BY <2>1, <2>2, NewEventsType
  <2> HIDE DEF new
  <2>4. events' \in [Workers -> SUBSET Event]
    <3>1. events' = [events EXCEPT ![w] = @ \cup NewEvents(w, i, new)]
      BY <1>9 DEF NothingToFlush, new
    <3>2. QED
      BY <2>3, <3>1 DEF TypeOK
  <2>5. raced' \subseteq Issues
    BY <1>9, <2>1 DEF NothingToFlush, TypeOK
  <2>6. QED
    BY <1>9, <2>1, <2>4, <2>5, NoRowType
       DEF NothingToFlush, NextIssue, Goto, TypeOK, db, graph, Phases, Steps
<1>10. ASSUME NEW w \in Workers, Commit(w)
      PROVE  TypeOK'
  <2>1. rows' \in [Issues -> Row] /\ timeline' \in [Issues -> Seq(Status)]
    BY <1>10 DEF Commit, TypeOK
  <2>2. ever' \in [Issues -> SUBSET Status]
    <3>1. \A i \in Issues : draftRows[i].status \in Status \cup {"none"}
      BY DEF TypeOK, Row
    <3>2. QED
      BY <1>10, <3>1 DEF Commit, TypeOK
  <2>3. QED
    BY <1>10, <2>1, <2>2 DEF Commit, AfterSession, Goto, TypeOK, graph, Phases, Steps
<1>11. ASSUME NEW w \in Workers, FailPhase(w), faults' \in Nat
      PROVE  TypeOK'
  BY <1>11, NoRowType DEF FailPhase, RollbackDB, DropSession, AfterSession, Goto, TypeOK,
       graph, Phases, Steps
<1>12. ASSUME NEW w \in Workers, Dispatch(w)
      PROVE  TypeOK'
  <2>1. \A i \in Issues : Announce(sent[i], {e \in events[w] : e.issue = i})
                              \in Seq([status : Status, new : BOOLEAN])
    <3>1. ASSUME NEW i \in Issues
          PROVE  /\ sent[i] \in Seq([status : Status, new : BOOLEAN])
                 /\ {e \in events[w] : e.issue = i} \in SUBSET Event
      BY DEF TypeOK
    <3>2. QED
      BY <3>1, AnnounceType
  <2>2. sent' \in [Issues -> Seq([status : Status, new : BOOLEAN])]
    BY <1>12, <2>1 DEF Dispatch
  <2>3. QED
    BY <1>12, <2>2 DEF Dispatch, Goto, TypeOK, db, graph, Phases, Steps
<1>13. ASSUME NEW s \in Services, Toggle(s)
      PROVE  TypeOK'
  <2>1. toggling' \in Services \cup {None} /\ enabled' \subseteq Services
    BY <1>13 DEF Toggle, TypeOK
  <2>2. toggles' \in Nat
    BY <1>13 DEF Toggle, TypeOK
  <2>3. QED
    BY <1>13, <2>1, <2>2 DEF Toggle, TypeOK, db, task, graph
<1>14. ASSUME NEW b \in Backfills, ScheduleFollowUps(b)
      PROVE  TypeOK'
  <2>1. b \in Workers /\ Delayed \in Workers /\ toggling \in Services
    BY <1>14 DEF ScheduleFollowUps, Workers, TypeOK
  <2>2. QED
    BY <1>14, <2>1, NoRowType DEF ScheduleFollowUps, RollbackDB, DropSession, TypeOK,
         graph, Phases, Steps
<1>15. CASE Crash
  <2>1. faults' \in Nat
    BY <1>15 DEF Crash, TypeOK
  <2>2. draftRows' \in [Issues -> Row] /\ draftTimeline' \in [Issues -> Seq(Status)]
    BY <1>15 DEF Crash, RollbackDB, TypeOK
  <2>3. lock' \in Workers \cup {None} /\ toggling' = None
    BY <1>15 DEF Crash, RollbackDB, TypeOK
  <2>4. QED
    BY <1>15, <2>1, <2>2, <2>3, NoRowType DEF Crash, RollbackDB, TypeOK, graph, Phases, Steps
<1>16. CASE UNCHANGED vars
  BY <1>16 DEF vars, graph, db, task, TypeOK
<1>17. ASSUME NEW w \in Workers, InsertConflict(w)
      PROVE  TypeOK'
  BY <1>11, <1>17 DEF InsertConflict, TypeOK
<1>18. ASSUME NEW w \in Workers, PhaseFails(w)
      PROVE  TypeOK'
  <2>1. faults' \in Nat
    BY <1>18 DEF PhaseFails, TypeOK
  <2>2. QED
    BY <1>11, <1>18, <2>1 DEF PhaseFails
<1>19. QED
  BY <1>1, <1>2, <1>3, <1>4, <1>5, <1>6, <1>7, <1>8, <1>9, <1>10, <1>12, <1>13, <1>14,
     <1>15, <1>16, <1>17, <1>18 DEF Next, Environment, Poll

-----------------------------------------------------------------------------
(* The steps, sorted by what they may disturb.                             *)

\* Only Graph's or the admin's side moves; no version is taken back.
Quiet == /\ UNCHANGED <<db, task, sent>>
         /\ \A i \in Issues :
                /\ Len(history'[i]) >= Len(history[i])
                /\ \A k \in 1..Len(history[i]) : history'[i][k] = history[i][k]

Working(w) == step[w] \in {"fetch", "sync", "relook", "write"}

LEMMA StepCases ==
    ASSUME TypeOK, [Next]_vars
    PROVE  \/ Quiet
           \/ \E w \in Workers :
                \/ PollStarts(w) \/ Fetch(w) \/ (\E i \in Issues : Lookup(w, i)) \/ Relook(w)
                \/ Flush(w) \/ NothingToFlush(w) \/ Commit(w) \/ Dispatch(w)
                \/ Working(w) /\ FailPhase(w)
           \/ \E b \in Backfills : ScheduleFollowUps(b)
           \/ Crash
<1>1. ASSUME NEW i \in Issues, NEW v \in Versions, GraphPublish(i, v)
      PROVE  Quiet
  <2> DEFINE V == [raw : RawStatus, resolved : BOOLEAN]
  <2>1. v \in V
    BY ConstantsAssumption
  <2>2. history \in [Issues -> Seq(V)] /\ history' = [history EXCEPT ![i] = Append(@, v)]
    BY <1>1 DEF GraphPublish, TypeOK
  <2> HIDE DEF V
  <2>3. /\ Len(Append(history[i], v)) = Len(history[i]) + 1
        /\ \A k \in 1..Len(history[i]) : Append(history[i], v)[k] = history[i][k]
    BY <2>1, <2>2
  <2>4. \A j \in Issues : Len(history[j]) \in Nat
    BY <2>2
  <2>5. \A j \in Issues : j # i => history'[j] = history[j]
    BY <2>2
  <2>6. history'[i] = Append(history[i], v)
    BY <2>2
  <2>7. UNCHANGED <<db, task, sent>>
    BY <1>1 DEF GraphPublish
  <2>8. QED
    BY <2>3, <2>4, <2>5, <2>6, <2>7 DEF Quiet
<1>2. ASSUME UNCHANGED <<history, db, task, sent>>
      PROVE  Quiet
  <2>1. \A j \in Issues : Len(history[j]) \in Nat
    BY DEF TypeOK
  <2>2. QED
    BY <1>2, <2>1 DEF Quiet
<1>3. ASSUME NEW i \in Issues, WindowMoves(i) \/ GrowsOld(i)
      PROVE  Quiet
  BY <1>2, <1>3 DEF WindowMoves, GrowsOld
<1>4. ASSUME NEW s \in Services, Toggle(s)
      PROVE  Quiet
  BY <1>2, <1>4 DEF Toggle, graph
<1>5. CASE UNCHANGED vars
  BY <1>2, <1>5 DEF vars, graph
<1>6. ASSUME NEW w \in Workers, InsertConflict(w) \/ PhaseFails(w)
      PROVE  Working(w) /\ FailPhase(w)
  BY <1>6 DEF InsertConflict, PhaseFails, Working
<1>7. QED
  BY <1>1, <1>3, <1>4, <1>5, <1>6 DEF Next, Environment, Poll

\* Resting is kept by every step.
LEMMA RestingStep ==
    ASSUME TypeOK, Fetched, Resting, [Next]_vars
    PROVE  Resting'
<1> USE ConstantsAssumption
<1>1. CASE Quiet
  BY <1>1 DEF Quiet, Resting, task
<1>2. ASSUME NEW w \in Workers, PollStarts(w)
      PROVE  Resting'
  BY <1>2 DEF PollStarts, Goto, Resting, TypeOK
<1>3. ASSUME NEW w \in Workers, Fetch(w)
      PROVE  Resting'
  BY <1>3 DEF Fetch, Goto, Resting, TypeOK
<1>4. ASSUME NEW w \in Workers, NEW i \in Issues, Lookup(w, i)
      PROVE  Resting'
  BY <1>4 DEF Lookup, Goto, Resting, TypeOK
<1>5. ASSUME NEW w \in Workers, Relook(w)
      PROVE  Resting'
  BY <1>5 DEF Relook, Goto, Resting, TypeOK
<1>6. ASSUME NEW w \in Workers, NEW new \in Row, new.status \in Status, step[w] = "write",
             events' = [events EXCEPT ![w] = @ \cup NewEvents(w, cur[w], new)],
             Goto(w, phase[w], "sync")
      PROVE  Resting'
  <2>1. cur[w] \in Issues
    BY <1>6 DEF Fetched
  <2>2. phase[w] = "backfill" => NewEvents(w, cur[w], new) = {}
    BY <1>6, <2>1, NewEventsType
  <2>3. QED
    BY <1>6, <2>2 DEF Goto, Resting, TypeOK
<1>7. ASSUME NEW w \in Workers, Flush(w) \/ NothingToFlush(w)
      PROVE  Resting'
  <2> DEFINE new == RowFor(cur[w], todo[w][cur[w]])
  <2>1. step[w] = "write" /\ Goto(w, phase[w], "sync")
        /\ events' = [events EXCEPT ![w] = @ \cup NewEvents(w, cur[w], new)]
    BY <1>7 DEF Flush, NothingToFlush, NextIssue
  <2>2. new \in Row /\ new.status \in Status
    BY <2>1, WritesAVersion, RowForType
  <2> HIDE DEF new
  <2>3. QED
    BY <1>6, <2>1, <2>2
<1>8. ASSUME NEW w \in Workers, Commit(w)
      PROVE  Resting'
  BY <1>8 DEF Commit, AfterSession, Goto, Resting, TypeOK
<1>9. ASSUME NEW w \in Workers, Working(w), FailPhase(w)
      PROVE  Resting'
  BY <1>9 DEF Working, FailPhase, AfterSession, Goto, Resting, TypeOK
<1>10. ASSUME NEW w \in Workers, Dispatch(w)
      PROVE  Resting'
  BY <1>10 DEF Dispatch, Goto, Resting, TypeOK
<1>11. ASSUME NEW b \in Backfills, ScheduleFollowUps(b)
      PROVE  Resting'
  <2>1. b \in Workers /\ Delayed \in Workers /\ b # Delayed
    BY DEF Workers
  <2>2. QED
    BY <1>11, <2>1 DEF ScheduleFollowUps, Resting, TypeOK
<1>12. CASE Crash
  BY <1>12 DEF Crash, Resting
<1>13. QED
  BY StepCases, <1>1, <1>2, <1>3, <1>4, <1>5, <1>7, <1>8, <1>9, <1>10, <1>11, <1>12

\* What a task has fetched stays within what Graph published.
LEMMA FetchedStep ==
    ASSUME TypeOK, Fetched, [Next]_vars
    PROVE  Fetched'
<1> USE ConstantsAssumption
<1> \A i \in Issues : Len(history[i]) \in Nat
  BY DEF TypeOK
<1>1. CASE Quiet
  BY <1>1, TypeStep DEF Quiet, Fetched, task, TypeOK
<1>2. ASSUME NEW w \in Workers, PollStarts(w)
      PROVE  Fetched'
  BY <1>2 DEF PollStarts, Goto, Fetched, TypeOK, graph
<1>3. ASSUME NEW w \in Workers, Fetch(w)
      PROVE  Fetched'
  BY <1>3 DEF Fetch, Goto, Fetched, TypeOK, graph
<1>4. ASSUME NEW w \in Workers, NEW i \in Issues, Lookup(w, i)
      PROVE  Fetched'
  BY <1>4 DEF Lookup, Goto, Fetched, TypeOK, graph
<1>5. ASSUME NEW w \in Workers, Relook(w)
      PROVE  Fetched'
  BY <1>5 DEF Relook, Goto, Fetched, TypeOK, graph
<1>6. ASSUME NEW w \in Workers, Flush(w) \/ NothingToFlush(w)
      PROVE  Fetched'
  <2>1. NextIssue(w) /\ UNCHANGED history /\ cur[w] \in Issues
    BY <1>6 DEF Flush, NothingToFlush, graph, Fetched
  <2>2. \A v \in Workers, i \in Issues : todo'[v][i] = todo[v][i] \/ todo'[v][i] = 0
    BY <2>1 DEF NextIssue, TypeOK
  <2>3. \A v \in Workers, i \in Issues : todo'[v][i] <= Len(history'[i])
    <3> SUFFICES ASSUME NEW v \in Workers, NEW i \in Issues
                 PROVE  todo'[v][i] <= Len(history'[i])
      OBVIOUS
    <3>1. history'[i] = history[i] /\ Len(history[i]) \in Nat
      BY <2>1
    <3>2. todo[v][i] <= Len(history[i])
      BY DEF Fetched
    <3>3. QED
      BY <2>2, <3>1, <3>2
  <2>4. \A v \in Workers : v # w => todo'[v] = todo[v] /\ cur'[v] = cur[v] /\ step'[v] = step[v]
    BY <2>1 DEF NextIssue, Goto, TypeOK
  <2>5. step'[w] = "sync"
    BY <2>1 DEF NextIssue, Goto, TypeOK
  <2>6. QED
    BY <2>3, <2>4, <2>5 DEF Fetched
<1>7. ASSUME NEW w \in Workers, Commit(w)
      PROVE  Fetched'
  BY <1>7 DEF Commit, AfterSession, Goto, Fetched, TypeOK, graph
<1>8. ASSUME NEW w \in Workers, FailPhase(w)
      PROVE  Fetched'
  BY <1>8 DEF FailPhase, DropSession, AfterSession, Goto, Fetched, TypeOK, graph
<1>9. ASSUME NEW w \in Workers, Dispatch(w)
      PROVE  Fetched'
  BY <1>9 DEF Dispatch, Goto, Fetched, TypeOK, graph
<1>10. ASSUME NEW b \in Backfills, ScheduleFollowUps(b)
      PROVE  Fetched'
  <2>1. b \in Workers /\ Delayed \in Workers /\ b # Delayed
    BY DEF Workers
  <2>2. QED
    BY <1>10, <2>1 DEF ScheduleFollowUps, DropSession, Fetched, TypeOK, graph
<1>11. CASE Crash
  BY <1>11 DEF Crash, Fetched, graph
<1>12. QED
  BY StepCases, <1>1, <1>2, <1>3, <1>4, <1>5, <1>6, <1>7, <1>8, <1>9, <1>10, <1>11

\* The draft equals the committed tables whenever nobody writes.
LEMMA DraftStep ==
    ASSUME TypeOK, Fetched, DraftIsCommitted, [Next]_vars
    PROVE  DraftIsCommitted'
<1> USE ConstantsAssumption DEF DraftIsCommitted
<1>1. CASE Quiet
  BY <1>1 DEF Quiet, db
<1>2. ASSUME NEW w \in Workers,
             \/ PollStarts(w) \/ Fetch(w) \/ (\E i \in Issues : Lookup(w, i)) \/ Relook(w)
             \/ NothingToFlush(w) \/ Dispatch(w)
      PROVE  DraftIsCommitted'
  BY <1>2 DEF PollStarts, Fetch, Lookup, Relook, NothingToFlush, Dispatch, db
<1>3. ASSUME NEW w \in Workers, Flush(w)
      PROVE  DraftIsCommitted'
  BY <1>3 DEF Flush
<1>4. ASSUME NEW w \in Workers, Commit(w)
      PROVE  DraftIsCommitted'
  BY <1>4 DEF Commit
<1>5. ASSUME NEW w \in Workers, FailPhase(w)
      PROVE  DraftIsCommitted'
  BY <1>5 DEF FailPhase, RollbackDB
<1>6. ASSUME NEW b \in Backfills, ScheduleFollowUps(b)
      PROVE  DraftIsCommitted'
  BY <1>6 DEF ScheduleFollowUps, RollbackDB
<1>7. CASE Crash
  BY <1>7 DEF Crash, RollbackDB, TypeOK
<1>8. QED
  BY StepCases, <1>1, <1>2, <1>3, <1>4, <1>5, <1>6, <1>7

\* A committed status stays remembered.
LEMMA RowsRememberedStep ==
    ASSUME TypeOK, RowsRemembered, [Next]_vars
    PROVE  RowsRemembered' /\ (\A i \in Issues : ever[i] \subseteq ever'[i])
<1> DEFINE Goal == RowsRemembered' /\ (\A i \in Issues : ever[i] \subseteq ever'[i])
<1>1. ASSUME UNCHANGED <<rows, ever>>
      PROVE  Goal
  BY <1>1 DEF RowsRemembered
<1>2. ASSUME NEW w \in Workers, Commit(w)
      PROVE  Goal
  <2>1. CASE lock = w
    <3>1. rows' = draftRows
          /\ ever' = [i \in Issues |-> ever[i] \cup ({draftRows[i].status} \ {"none"})]
      BY <1>2, <2>1 DEF Commit
    <3>2. QED
      BY <3>1 DEF RowsRemembered
  <2>2. CASE lock # w
    BY <1>1, <1>2, <2>2 DEF Commit
  <2>3. QED
    BY <2>1, <2>2
<1>3. CASE Quiet
  BY <1>1, <1>3 DEF Quiet, db
<1>4. ASSUME NEW w \in Workers,
             \/ PollStarts(w) \/ Fetch(w) \/ (\E i \in Issues : Lookup(w, i)) \/ Relook(w)
             \/ Flush(w) \/ NothingToFlush(w) \/ FailPhase(w) \/ Dispatch(w)
      PROVE  Goal
  BY <1>1, <1>4 DEF PollStarts, Fetch, Lookup, Relook, Flush, NothingToFlush, FailPhase,
       RollbackDB, Dispatch, db
<1>5. ASSUME NEW b \in Backfills, ScheduleFollowUps(b)
      PROVE  Goal
  BY <1>1, <1>5 DEF ScheduleFollowUps, RollbackDB
<1>6. CASE Crash
  BY <1>1, <1>6 DEF Crash, RollbackDB
<1>7. QED
  BY StepCases, <1>2, <1>3, <1>4, <1>5, <1>6

-----------------------------------------------------------------------------
(* What is loaded and what is to be announced can be relied on.            *)

\* Committable statuses stay so while nobody touches the task's transaction.
LEMMA CommittableKept ==
    ASSUME NEW w \in Workers, NEW i \in Issues, NEW s \in Status, Committable(w, i, s),
           ever[i] \subseteq ever'[i],
           lock = w => lock' = w /\ draftRows'[i].status = draftRows[i].status
    PROVE  Committable(w, i, s)'
  BY DEF Committable

\* What a task selects is committed, or its own.
LEMMA ViewIsCommittable ==
    ASSUME TypeOK, RowsRemembered, NEW w \in Workers, NEW i \in Issues,
           View(w)[i].status # "none"
    PROVE  Committable(w, i, View(w)[i].status)
  BY DEF View, Committable, RowsRemembered, TypeOK

\* A flush of one task: the others hold no lock, and the row written carries
\* the status that is announced.
LEMMA FlushEffect ==
    ASSUME TypeOK, Fetched, DraftIsCommitted, RowsRemembered, SeenIsCommittable,
           NEW w \in Workers, Flush(w)
    PROVE  LET new == RowFor(cur[w], todo[w][cur[w]]) IN
           /\ cur[w] \in Issues /\ new \in Row /\ new.status \in Status
           /\ lock \in {None, w} /\ lock' = w
           /\ \A i \in Issues \ {cur[w]} : draftRows'[i] = draftRows[i]
           /\ NewEvents(w, cur[w], new) # {} =>
                 \/ new.status \in ever[cur[w]]
                 \/ draftRows'[cur[w]].status = new.status
<1> DEFINE i == cur[w]
           new == RowFor(i, todo[w][i])
           stored == View(w)[i]
<1>1. i \in Issues /\ todo[w][i] \in 1..Len(history[i])
  BY WritesAVersion DEF Flush
<1>2. new \in Row /\ new.status \in Status
  BY <1>1, RowForType
<1>3. stored \in Row /\ seen[w] \in Row
  BY <1>1 DEF TypeOK, View
<1>4. /\ lock \in {None, w} /\ lock' = w /\ step[w] = "write"
      /\ draftRows' = [draftRows EXCEPT ![i] =
                IF seen[w] = NoRow THEN new ELSE Merge(seen[w], stored, new)]
  BY DEF Flush, CanWrite
<1> HIDE DEF new, stored
<1>5. \A j \in Issues \ {i} : draftRows'[j] = draftRows[j]
  BY <1>1, <1>4 DEF TypeOK
<1>6. draftRows'[i] = IF seen[w] = NoRow THEN new ELSE Merge(seen[w], stored, new)
  BY <1>1, <1>4 DEF TypeOK
<1>7. CASE seen[w] = NoRow \/ seen[w].status # new.status
  BY <1>1, <1>2, <1>3, <1>4, <1>5, <1>6, <1>7, MergeType DEF new
<1>8. CASE seen[w] # NoRow /\ seen[w].status = new.status
  <2>1. Committable(w, i, new.status)
    BY <1>2, <1>4, <1>8 DEF SeenIsCommittable, Status
  <2>2. draftRows'[i].status = stored.status
    BY <1>2, <1>3, <1>6, <1>8, MergeType
  <2>3. lock = w => stored = draftRows[i]
    BY DEF View, stored
  <2>4. new.status \in ever[i] \/ draftRows'[i].status = new.status
    BY <2>1, <2>2, <2>3 DEF Committable
  <2>5. QED
    BY <1>1, <1>2, <1>4, <1>5, <2>4 DEF new
<1>9. QED
  BY <1>7, <1>8

\* A step of one task leaves the others' work alone.
LEMMA OthersKept ==
    ASSUME TypeOK, NEW w \in Workers, NEW v \in Workers \ {w},
           \/ PollStarts(w) \/ Fetch(w) \/ (\E i \in Issues : Lookup(w, i)) \/ Relook(w)
           \/ Flush(w) \/ NothingToFlush(w) \/ Commit(w) \/ Dispatch(w) \/ FailPhase(w)
    PROVE  /\ step'[v] = step[v] /\ cur'[v] = cur[v] /\ seen'[v] = seen[v]
           /\ todo'[v] = todo[v] /\ events'[v] = events[v]
           /\ lock = v => lock' = v /\ draftRows' = draftRows
<1>1. CASE PollStarts(w)
  BY <1>1 DEF PollStarts, Goto, TypeOK, db
<1>2. CASE Fetch(w)
  BY <1>2 DEF Fetch, Goto, TypeOK, db
<1>3. ASSUME NEW i \in Issues, Lookup(w, i)
      PROVE  /\ step'[v] = step[v] /\ cur'[v] = cur[v] /\ seen'[v] = seen[v]
             /\ todo'[v] = todo[v] /\ events'[v] = events[v]
             /\ lock = v => lock' = v /\ draftRows' = draftRows
  BY <1>3 DEF Lookup, Goto, TypeOK, db
<1>4. CASE Relook(w)
  BY <1>4 DEF Relook, Goto, TypeOK, db
<1>5. CASE Flush(w)
  <2>1. lock # v
    BY <1>5, ConstantsAssumption DEF Flush, CanWrite
  <2>2. QED
    BY <1>5, <2>1 DEF Flush, NextIssue, Goto, TypeOK
<1>6. CASE NothingToFlush(w)
  BY <1>6 DEF NothingToFlush, NextIssue, Goto, TypeOK, db
<1>7. CASE Commit(w)
  BY <1>7 DEF Commit, Goto, TypeOK
<1>8. CASE Dispatch(w)
  BY <1>8 DEF Dispatch, Goto, TypeOK, db
<1>9. CASE FailPhase(w)
  BY <1>9 DEF FailPhase, RollbackDB, DropSession, Goto, TypeOK
<1>10. QED
  BY <1>1, <1>2, <1>3, <1>4, <1>5, <1>6, <1>7, <1>8, <1>9

\* Enabling a service rolls back the delayed poll and no other task.
LEMMA OthersKeptByToggle ==
    ASSUME TypeOK, NEW b \in Backfills, ScheduleFollowUps(b)
    PROVE  /\ b \in Workers /\ Delayed \in Workers /\ b # Delayed
           /\ events'[Delayed] = {} /\ events'[b] = events[b] /\ phase[b] = "idle"
           /\ step'[Delayed] = "idle" /\ step'[b] = "fetch"
           /\ \A v \in Workers \ {b, Delayed} :
                /\ step'[v] = step[v] /\ cur'[v] = cur[v] /\ seen'[v] = seen[v]
                /\ todo'[v] = todo[v] /\ events'[v] = events[v]
                /\ lock = v => lock' = v /\ draftRows' = draftRows
<1>1. b \in Workers /\ Delayed \in Workers /\ b # Delayed
  BY ConstantsAssumption DEF Workers
<1>2. QED
  BY <1>1 DEF ScheduleFollowUps, RollbackDB, DropSession, TypeOK

\* The row a session has loaded was committed or written by that session.
LEMMA SeenStep ==
    ASSUME TypeOK, Fetched, RowsRemembered, SeenIsCommittable, [Next]_vars
    PROVE  SeenIsCommittable'
<1> SUFFICES ASSUME NEW v \in Workers, step'[v] = "write", seen'[v].status # "none"
             PROVE  Committable(v, cur[v], seen[v].status)'
  BY DEF SeenIsCommittable
<1>1. \A i \in Issues : ever[i] \subseteq ever'[i]
  BY RowsRememberedStep
<1>2. ASSUME step'[v] = step[v], cur'[v] = cur[v], seen'[v] = seen[v],
             lock = v => lock' = v /\ draftRows' = draftRows
      PROVE  Committable(v, cur[v], seen[v].status)'
  <2>1. Committable(v, cur[v], seen[v].status) /\ cur[v] \in Issues
    BY <1>2 DEF SeenIsCommittable, Fetched
  <2>2. QED
    BY <1>1, <1>2, <2>1 DEF Committable
<1>3. CASE Quiet
  BY <1>2, <1>3 DEF Quiet, db, task
<1>4. ASSUME NEW w \in Workers,
             \/ PollStarts(w) \/ Fetch(w) \/ (\E i \in Issues : Lookup(w, i)) \/ Relook(w)
             \/ Flush(w) \/ NothingToFlush(w) \/ Commit(w) \/ Dispatch(w)
             \/ Working(w) /\ FailPhase(w)
      PROVE  Committable(v, cur[v], seen[v].status)'
  <2>1. CASE v # w
    BY <1>2, <1>4, <2>1, OthersKept
  <2>2. ASSUME v = w, NEW i \in Issues, cur'[w] = i, seen'[w] = View(w)[i],
               UNCHANGED db
        PROVE  Committable(v, cur[v], seen[v].status)'
    <3>1. Committable(w, i, View(w)[i].status)
      BY <2>2, ViewIsCommittable
    <3>2. QED
      BY <2>2, <3>1 DEF Committable, db
  <2>3. ASSUME v = w, NEW i \in Issues, Lookup(w, i)
        PROVE  Committable(v, cur[v], seen[v].status)'
    <3>1. cur'[w] = i /\ seen'[w] = View(w)[i] /\ UNCHANGED db
      BY <2>3 DEF Lookup, TypeOK
    <3>2. QED
      BY <2>2, <2>3, <3>1
  <2>4. CASE v = w /\ Relook(w)
    <3>1. cur[w] \in Issues /\ cur'[w] = cur[w]
          /\ seen'[w] = View(w)[cur[w]] /\ UNCHANGED db
      BY <2>4 DEF Relook, TypeOK, Fetched
    <3>2. QED
      BY <2>2, <2>4, <3>1
  <2>5. CASE v = w /\ (\/ PollStarts(w) \/ Fetch(w) \/ Flush(w) \/ NothingToFlush(w)
                       \/ Commit(w) \/ Dispatch(w) \/ FailPhase(w))
    <3>1. step'[w] # "write"
      BY <2>5 DEF PollStarts, Fetch, Flush, NothingToFlush, NextIssue, Commit, Dispatch,
           FailPhase, AfterSession, Goto, TypeOK
    <3>2. QED
      BY <2>5, <3>1
  <2>6. QED
    BY <1>4, <2>1, <2>3, <2>4, <2>5
<1>5. ASSUME NEW b \in Backfills, ScheduleFollowUps(b)
      PROVE  Committable(v, cur[v], seen[v].status)'
  BY <1>2, <1>5, OthersKeptByToggle
<1>6. CASE Crash
  BY <1>6 DEF Crash
<1>7. QED
  BY StepCases, <1>3, <1>4, <1>5, <1>6

\* What waits to be announced was committed, or will be with its own session.
LEMMA EventsStep ==
    ASSUME TypeOK, SafeInv, [Next]_vars
    PROVE  EventsAreCommittable'
<1> DEFINE Safe(v, e) ==
        /\ step[v] = "dispatch" => e.status \in ever[e.issue]
        /\ step[v] # "dispatch" => /\ Committable(v, e.issue, e.status)
                                   /\ todo[v][e.issue] = 0
<1> SUFFICES ASSUME NEW v \in Workers, NEW e \in events'[v]
             PROVE  Safe(v, e)'
  BY DEF EventsAreCommittable
<1> USE DEF SafeInv
<1>1. \A i \in Issues : ever[i] \subseteq ever'[i]
  BY RowsRememberedStep
<1>2. \A x \in events[v] : x \in Event /\ x.issue \in Issues /\ x.status \in Status
  BY DEF TypeOK, Event
<1>3. ASSUME step'[v] = step[v], todo'[v] = todo[v], events'[v] = events[v],
             lock = v => lock' = v /\ draftRows' = draftRows
      PROVE  Safe(v, e)'
  <2>1. e \in events[v] /\ Safe(v, e) /\ e.issue \in Issues
    BY <1>2, <1>3 DEF EventsAreCommittable
  <2>2. QED
    BY <1>1, <1>3, <2>1 DEF Committable
<1>4. CASE Quiet
  BY <1>3, <1>4 DEF Quiet, db, task
<1>5. ASSUME NEW w \in Workers,
             \/ PollStarts(w) \/ Fetch(w) \/ (\E i \in Issues : Lookup(w, i)) \/ Relook(w)
             \/ Flush(w) \/ NothingToFlush(w) \/ Commit(w) \/ Dispatch(w)
             \/ Working(w) /\ FailPhase(w)
      PROVE  Safe(v, e)'
  <2>1. CASE v # w
    BY <1>3, <1>5, <2>1, OthersKept
  <2>2. CASE v = w /\ (PollStarts(w) \/ Fetch(w))
    <3>1. events[w] = {}
      BY <2>2 DEF PollStarts, Fetch, Resting
    <3>2. QED
      BY <2>2, <3>1 DEF PollStarts, Fetch
  <2>3. CASE v = w /\ ((\E i \in Issues : Lookup(w, i)) \/ Relook(w))
    <3>1. /\ step[w] # "dispatch" /\ step'[w] # "dispatch"
          /\ UNCHANGED <<db, todo, events>>
      BY <2>3 DEF Lookup, Relook, Goto, TypeOK
    <3>2. Safe(v, e) /\ e.issue \in Issues
      BY <1>2, <2>3, <3>1 DEF EventsAreCommittable
    <3>3. QED
      BY <2>3, <3>1, <3>2 DEF Committable, db
  <2> DEFINE new == RowFor(cur[w], todo[w][cur[w]])
  <2>4. ASSUME v = w, Flush(w) \/ NothingToFlush(w),
               lock = w => lock' = w,
               \A i \in Issues \ {cur[w]} : draftRows'[i] = draftRows[i],
               NewEvents(w, cur[w], new) # {} =>
                    \/ new.status \in ever'[cur[w]]
                    \/ lock' = w /\ draftRows'[cur[w]].status = new.status
        PROVE  Safe(v, e)'
    <3>1. /\ step[w] = "write" /\ step'[w] = "sync"
          /\ events'[w] = events[w] \cup NewEvents(w, cur[w], new)
          /\ todo' = [todo EXCEPT ![w][cur[w]] = 0]
      BY <2>4 DEF Flush, NothingToFlush, NextIssue, Goto, TypeOK
    <3>2. cur[w] \in Issues /\ todo[w][cur[w]] # 0 /\ new \in Row /\ new.status \in Status
      BY <3>1, WritesAVersion, RowForType DEF Fetched
    <3>3. \A i \in Issues : todo'[w][i] = IF i = cur[w] THEN 0 ELSE todo[w][i]
      BY <3>1, <3>2 DEF TypeOK
    <3> HIDE DEF new
    <3>4. CASE e \in events[w]
      <4>1. Committable(w, e.issue, e.status) /\ todo[w][e.issue] = 0 /\ e.issue \in Issues
        BY <1>2, <2>4, <3>1, <3>4 DEF EventsAreCommittable
      <4>2. e.issue # cur[w]
        BY <3>2, <4>1
      <4>3. Committable(w, e.issue, e.status)'
        BY <1>1, <2>4, <4>1, <4>2 DEF Committable, db
      <4>4. QED
        BY <2>4, <3>1, <3>3, <4>1, <4>3
    <3>5. CASE e \in NewEvents(w, cur[w], new)
      <4>1. e.issue = cur[w] /\ e.status = new.status
        BY <3>2, <3>5, NewEventsType
      <4>2. Committable(w, e.issue, e.status)'
        BY <2>4, <3>5, <4>1 DEF Committable
      <4>3. QED
        BY <2>4, <3>1, <3>2, <3>3, <4>1, <4>2
    <3>6. QED
      BY <2>4, <3>1, <3>4, <3>5
  <2>5. CASE v = w /\ Flush(w)
    <3>1. /\ cur[w] \in Issues /\ lock \in {None, w} /\ lock' = w
          /\ \A i \in Issues \ {cur[w]} : draftRows'[i] = draftRows[i]
          /\ NewEvents(w, cur[w], new) # {} =>
                \/ new.status \in ever[cur[w]]
                \/ draftRows'[cur[w]].status = new.status
      BY <2>5, FlushEffect
    <3>2. NewEvents(w, cur[w], new) # {} =>
                new.status \in ever'[cur[w]] \/ draftRows'[cur[w]].status = new.status
      BY <1>1, <3>1
    <3> HIDE DEF new
    <3>3. QED
      BY <2>4, <2>5, <3>1, <3>2
  <2>6. CASE v = w /\ NothingToFlush(w)
    <3>1. step[w] = "write" /\ new = seen[w] /\ UNCHANGED db
      BY <2>6 DEF NothingToFlush
    <3>2. cur[w] \in Issues /\ new.status \in Status
      BY <3>1, WritesAVersion, RowForType
    <3> HIDE DEF new
    <3>3. Committable(w, cur[w], new.status)
      BY <3>1, <3>2 DEF SeenIsCommittable, Status
    <3>4. QED
      BY <2>4, <2>6, <3>1, <3>3 DEF Committable, db
  <2>7. CASE v = w /\ Commit(w)
    <3>1. /\ step[w] = "sync" /\ events' = events
          /\ step'[w] = AfterSession(w)
          /\ ever' = IF lock = w
               THEN [i \in Issues |-> ever[i] \cup ({draftRows[i].status} \ {"none"})]
               ELSE ever
      BY <2>7 DEF Commit, Goto, TypeOK
    <3>2. e \in events[w] /\ Committable(w, e.issue, e.status) /\ e.issue \in Issues
          /\ e.status \in Status
      BY <1>2, <2>7, <3>1 DEF EventsAreCommittable
    <3>3. step'[w] = "dispatch"
      BY <3>1, <3>2 DEF Resting, AfterSession
    <3>4. e.status \in ever'[e.issue]
      BY <3>1, <3>2 DEF Committable, Status
    <3>5. QED
      BY <2>7, <3>3, <3>4
  <2>8. CASE v = w /\ (Dispatch(w) \/ FailPhase(w))
    BY <2>8 DEF Dispatch, FailPhase, TypeOK
  <2>9. QED
    BY <1>5, <2>1, <2>2, <2>3, <2>5, <2>6, <2>7, <2>8
<1>6. ASSUME NEW b \in Backfills, ScheduleFollowUps(b)
      PROVE  Safe(v, e)'
  <2>1. events[b] = {}
    BY <1>6, OthersKeptByToggle DEF Resting
  <2>2. CASE v \in {b, Delayed}
    BY <1>6, <2>1, <2>2, OthersKeptByToggle
  <2>3. CASE v \notin {b, Delayed}
    BY <1>3, <1>6, <2>3, OthersKeptByToggle
  <2>4. QED
    BY <2>2, <2>3
<1>7. CASE Crash
  BY <1>7 DEF Crash
<1>8. QED
  BY StepCases, <1>4, <1>5, <1>6, <1>7

\* Only what was committed is dispatched.
LEMMA NotifiedStep ==
    ASSUME TypeOK, SafeInv, [Next]_vars
    PROVE  NotifiedWasCommitted'
<1> USE DEF SafeInv
<1>1. \A i \in Issues : ever[i] \subseteq ever'[i]
  BY RowsRememberedStep
<1>2. ASSUME UNCHANGED sent
      PROVE  NotifiedWasCommitted'
  BY <1>1, <1>2 DEF NotifiedWasCommitted
<1>3. ASSUME NEW w \in Workers, Dispatch(w)
      PROVE  NotifiedWasCommitted'
  <2> SUFFICES ASSUME NEW i \in Issues, NEW k \in 1..Len(sent'[i])
               PROVE  sent'[i][k].status \in ever'[i]
    BY DEF NotifiedWasCommitted
  <2> DEFINE mine == {e \in events[w] : e.issue = i}
  <2>1. sent'[i] = Announce(sent[i], mine)
    BY <1>3 DEF Dispatch
  <2>2. sent[i] \in Seq([status : Status, new : BOOLEAN]) /\ mine \in SUBSET Event
    BY DEF TypeOK
  <2>3. \A e \in mine : e.status \in ever[i]
    BY <1>3 DEF Dispatch, EventsAreCommittable
  <2> HIDE DEF mine
  <2>4. \A n \in 1..Len(Announce(sent[i], mine)) :
            \/ n \in 1..Len(sent[i]) /\ Announce(sent[i], mine)[n] = sent[i][n]
            \/ \E e \in mine : Announce(sent[i], mine)[n] = [status |-> e.status, new |-> e.new]
    BY <2>2, AnnounceType
  <2>5. sent'[i][k].status \in ever[i]
    <3>1. CASE k \in 1..Len(sent[i]) /\ sent'[i][k] = sent[i][k]
      BY <3>1 DEF NotifiedWasCommitted
    <3>2. ASSUME NEW e \in mine, sent'[i][k] = [status |-> e.status, new |-> e.new]
          PROVE  sent'[i][k].status \in ever[i]
      BY <2>3, <3>2
    <3>3. QED
      BY <2>1, <2>4, <3>1, <3>2
  <2>6. QED
    BY <1>1, <2>5
<1>4. ASSUME NEW w \in Workers,
             \/ PollStarts(w) \/ Fetch(w) \/ (\E i \in Issues : Lookup(w, i)) \/ Relook(w)
             \/ Flush(w) \/ NothingToFlush(w) \/ Commit(w) \/ FailPhase(w)
      PROVE  NotifiedWasCommitted'
  BY <1>2, <1>4 DEF PollStarts, Fetch, Lookup, Relook, Flush, NothingToFlush, Commit, FailPhase
<1>5. CASE Quiet
  BY <1>2, <1>5 DEF Quiet
<1>6. ASSUME NEW b \in Backfills, ScheduleFollowUps(b)
      PROVE  NotifiedWasCommitted'
  BY <1>2, <1>6 DEF ScheduleFollowUps
<1>7. CASE Crash
  BY <1>2, <1>7 DEF Crash
<1>8. QED
  BY StepCases, <1>3, <1>4, <1>5, <1>6, <1>7

\* The invariant holds when the process is first started.
LEMMA InitSafe == Init => IInv
<1> SUFFICES ASSUME Init PROVE IInv
  OBVIOUS
<1>1. Len(<<>>) = 0
  OBVIOUS
<1>2. TypeOK
  BY InitType
<1>3. Resting /\ DraftIsCommitted /\ SeenIsCommittable /\ EventsAreCommittable
  BY DEF Init, Resting, DraftIsCommitted, SeenIsCommittable, EventsAreCommittable
<1>4. Fetched
  BY <1>1 DEF Init, Fetched
<1>5. RowsRemembered /\ NotifiedWasCommitted
  BY <1>1 DEF Init, RowsRemembered, NoRow, NotifiedWasCommitted
<1>6. QED
  BY <1>2, <1>3, <1>4, <1>5 DEF IInv, SafeInv

\* And every step of every task keeps it.
LEMMA StepSafe == IInv /\ [Next]_vars => IInv'
  BY TypeStep, RestingStep, FetchedStep, DraftStep, RowsRememberedStep, SeenStep, EventsStep,
     NotifiedStep DEF IInv, SafeInv

-----------------------------------------------------------------------------
(* The theorems.                                                           *)

\* Every variable of the poller stays in its type, for every number of
\* issues, services, tasks and failures.
THEOREM TypeCorrect == Spec => []TypeOK
<1>1. IInv => TypeOK
  BY DEF IInv
<1>2. QED
  BY <1>1, InitSafe, StepSafe, PTL DEF Spec

\* Subscribers are never told of an incident state that was rolled back,
\* whatever polls, backfills, toggles, failures and crashes interleave
\* (poll_graph_api dispatches after the commit, and drops a failed phase's events).
THEOREM NotifiedOnlyCommitted == Spec => []NotifiedWasCommitted
<1>1. IInv => NotifiedWasCommitted
  BY DEF IInv, SafeInv
<1>2. QED
  BY <1>1, InitSafe, StepSafe, PTL DEF Spec

-----------------------------------------------------------------------------
(* History floods nobody.                                                  *)

Unresolved(i) == \E k \in 1..Len(history[i]) : ~history[i][k].resolved

\* What phase 2 is syncing was unresolved when it was fetched.
ActiveIsUnresolved ==
    \A w \in Workers, i \in Issues :
        phase[w] = "active" /\ step[w] \in {"sync", "relook", "write"} /\ todo[w][i] # 0
            => ~history[i][todo[w][i]].resolved

NewsWasUnresolved == \A w \in Workers : \A e \in events[w] : e.new => Unresolved(e.issue)
SentWasUnresolved ==
    \A i \in Issues : \A k \in 1..Len(sent[i]) : sent[i][k].new => Unresolved(i)

SilentInv == IInv /\ ActiveIsUnresolved /\ NewsWasUnresolved /\ SentWasUnresolved

\* Graph takes no version back.
LEMMA HistoryGrows ==
    ASSUME TypeOK, [Next]_vars, NEW i \in Issues
    PROVE  /\ Len(history[i]) \in Nat /\ Len(history'[i]) \in Nat
           /\ Len(history'[i]) >= Len(history[i])
           /\ \A k \in 1..Len(history[i]) : history'[i][k] = history[i][k]
           /\ Unresolved(i) => Unresolved(i)'
<1>1. Len(history[i]) \in Nat /\ Len(history'[i]) \in Nat
      /\ Len(history'[i]) >= Len(history[i])
      /\ \A k \in 1..Len(history[i]) : history'[i][k] = history[i][k]
  <2>1. Len(history[i]) \in Nat
    BY DEF TypeOK
  <2>2. CASE UNCHANGED history
    BY <2>1, <2>2
  <2>3. CASE \E j \in Issues, v \in Versions : GraphPublish(j, v)
    <3>1. PICK j \in Issues, v \in Versions : GraphPublish(j, v)
      BY <2>3
    <3> DEFINE V == [raw : RawStatus, resolved : BOOLEAN]
    <3>2. v \in V /\ history \in [Issues -> Seq(V)] /\ history' = [history EXCEPT ![j] = Append(@, v)]
      BY <3>1, ConstantsAssumption DEF GraphPublish, TypeOK
    <3> HIDE DEF V
    <3>3. CASE i = j
      <4>1. history'[i] = Append(history[i], v) /\ history[i] \in Seq(V)
        BY <3>2, <3>3
      <4>2. QED
        BY <3>2, <4>1
    <3>4. CASE i # j
      BY <2>1, <3>2, <3>4
    <3>5. QED
      BY <3>3, <3>4
  <2>4. QED
    BY <2>2, <2>3 DEF Next, Environment, Poll, WindowMoves, GrowsOld, PollStarts, Fetch, Lookup,
       Relook, Flush, NothingToFlush, InsertConflict, PhaseFails, FailPhase, Commit, Dispatch,
       Toggle, ScheduleFollowUps, Crash, vars, graph
<1>2. QED
  BY <1>1 DEF Unresolved

\* Phase 2 fetches unresolved issues only, and a fetched version does not change.
LEMMA ActiveStep ==
    ASSUME IInv, ActiveIsUnresolved, [Next]_vars
    PROVE  ActiveIsUnresolved'
<1> SUFFICES ASSUME NEW v \in Workers, NEW i \in Issues,
                    phase'[v] = "active", step'[v] \in {"sync", "relook", "write"},
                    todo'[v][i] # 0
             PROVE  ~history'[i][todo'[v][i]].resolved
  BY DEF ActiveIsUnresolved
<1> USE ConstantsAssumption DEF IInv, SafeInv
<1>1. /\ Len(history[i]) \in Nat /\ todo[v][i] \in Nat /\ todo[v][i] <= Len(history[i])
      /\ \A k \in 1..Len(history[i]) : history'[i][k] = history[i][k]
  <2>1. \A k \in 1..Len(history[i]) : history'[i][k] = history[i][k]
    BY HistoryGrows
  <2>2. Len(history[i]) \in Nat /\ todo[v][i] \in Nat
    BY DEF TypeOK
  <2>3. QED
    BY <2>1, <2>2 DEF Fetched
<1>2. ASSUME phase[v] = phase'[v], step[v] \in {"sync", "relook", "write"},
             todo'[v][i] = todo[v][i]
      PROVE  ~history'[i][todo'[v][i]].resolved
  <2>1. todo[v][i] \in 1..Len(history[i]) /\ ~history[i][todo[v][i]].resolved
    BY <1>1, <1>2 DEF ActiveIsUnresolved
  <2>2. QED
    BY <1>1, <1>2, <2>1
<1>3. CASE Quiet
  BY <1>2, <1>3 DEF Quiet, task
<1>4. ASSUME NEW w \in Workers, Fetch(w)
      PROVE  ~history'[i][todo'[v][i]].resolved
  <2>1. CASE v = w
    <3>1. phase[w] = "active" /\ UNCHANGED history
          /\ todo'[w][i] = IF Returned(w, i) /\ Wanted(w, i) THEN Len(history[i]) ELSE 0
      BY <1>4, <2>1 DEF Fetch, Goto, graph, TypeOK
    <3>2. ~Latest(i).resolved /\ todo'[w][i] = Len(history[i])
      BY <2>1, <3>1 DEF Returned
    <3>3. QED
      BY <2>1, <3>1, <3>2 DEF Latest
  <2>2. CASE v # w
    BY <1>2, <1>4, <2>2 DEF Fetch, Goto, TypeOK
  <2>3. QED
    BY <2>1, <2>2
<1>5. ASSUME NEW w \in Workers, PollStarts(w)
      PROVE  ~history'[i][todo'[v][i]].resolved
  BY <1>2, <1>5 DEF PollStarts, Goto, TypeOK
<1>6. ASSUME NEW w \in Workers, (\E j \in Issues : Lookup(w, j)) \/ Relook(w)
      PROVE  ~history'[i][todo'[v][i]].resolved
  BY <1>2, <1>6 DEF Lookup, Relook, Goto, TypeOK
<1>7. ASSUME NEW w \in Workers, Flush(w) \/ NothingToFlush(w)
      PROVE  ~history'[i][todo'[v][i]].resolved
  <2>1. step[w] = "write" /\ NextIssue(w)
    BY <1>7 DEF Flush, NothingToFlush
  <2>2. todo'[v][i] = todo[v][i] \/ todo'[v][i] = 0
    BY <2>1 DEF NextIssue, TypeOK
  <2>3. phase' = phase /\ step[v] \in {"sync", "relook", "write"}
    BY <2>1 DEF NextIssue, Goto, TypeOK
  <2>4. QED
    BY <1>2, <2>2, <2>3
<1>8. ASSUME NEW w \in Workers, Commit(w)
      PROVE  ~history'[i][todo'[v][i]].resolved
  BY <1>2, <1>8 DEF Commit, AfterSession, Goto, TypeOK
<1>9. ASSUME NEW w \in Workers, FailPhase(w)
      PROVE  ~history'[i][todo'[v][i]].resolved
  BY <1>2, <1>9 DEF FailPhase, DropSession, AfterSession, Goto, TypeOK
<1>10. ASSUME NEW w \in Workers, Dispatch(w)
      PROVE  ~history'[i][todo'[v][i]].resolved
  BY <1>2, <1>10 DEF Dispatch, Goto, TypeOK
<1>11. ASSUME NEW b \in Backfills, ScheduleFollowUps(b)
      PROVE  ~history'[i][todo'[v][i]].resolved
  <2>1. b \in Workers /\ Delayed \in Workers /\ b # Delayed
    BY DEF Workers
  <2>2. QED
    BY <1>2, <1>11, <2>1 DEF ScheduleFollowUps, DropSession, TypeOK
<1>12. CASE Crash
  BY <1>12 DEF Crash
<1>13. QED
  BY StepCases, <1>3, <1>4, <1>5, <1>6, <1>7, <1>8, <1>9, <1>10, <1>11, <1>12

\* A new incident is announced for a version that was unresolved.
LEMMA NewsStep ==
    ASSUME IInv, ActiveIsUnresolved, NewsWasUnresolved, [Next]_vars
    PROVE  NewsWasUnresolved'
<1> USE DEF IInv, SafeInv
<1> SUFFICES ASSUME NEW v \in Workers, NEW e \in events'[v], e.new
             PROVE  Unresolved(e.issue)'
  BY DEF NewsWasUnresolved
<1>1. CASE e \in events[v]
  <2>1. e.issue \in Issues /\ Unresolved(e.issue)
    BY <1>1 DEF TypeOK, Event, NewsWasUnresolved
  <2>2. QED
    BY <2>1, HistoryGrows
<1>2. CASE e \notin events[v]
  <2>1. ASSUME NEW w \in Workers, Flush(w) \/ NothingToFlush(w)
        PROVE  Unresolved(e.issue)'
    <3> DEFINE new == RowFor(cur[w], todo[w][cur[w]])
    <3>1. step[w] = "write" /\ events' = [events EXCEPT ![w] = @ \cup NewEvents(w, cur[w], new)]
      BY <2>1 DEF Flush, NothingToFlush
    <3>2. cur[w] \in Issues /\ todo[w][cur[w]] \in 1..Len(history[cur[w]])
          /\ new \in Row /\ new.status \in Status
      BY <3>1, WritesAVersion, RowForType
    <3> HIDE DEF new
    <3>3. e \in NewEvents(w, cur[w], new)
      BY <1>2, <3>1 DEF TypeOK
    <3>4. e.issue = cur[w] /\ phase[w] = "active"
      BY <3>2, <3>3, NewEventsType
    <3>5. todo[w][cur[w]] # 0 /\ ~history[cur[w]][todo[w][cur[w]]].resolved
      BY <3>1, <3>2, <3>4 DEF ActiveIsUnresolved
    <3>6. Unresolved(e.issue) /\ e.issue \in Issues
      BY <3>2, <3>4, <3>5 DEF Unresolved
    <3>7. QED
      BY <3>6, HistoryGrows
  <2>2. CASE \E w \in Workers : Flush(w) \/ NothingToFlush(w)
    BY <2>1, <2>2
  <2>3. ASSUME NEW w \in Workers,
               \/ PollStarts(w) \/ Fetch(w) \/ (\E i \in Issues : Lookup(w, i)) \/ Relook(w)
               \/ Commit(w) \/ Dispatch(w) \/ FailPhase(w)
        PROVE  FALSE
    BY <1>2, <2>3 DEF PollStarts, Fetch, Lookup, Relook, Commit, Dispatch, FailPhase, TypeOK
  <2>4. ASSUME NEW b \in Backfills, ScheduleFollowUps(b)
        PROVE  FALSE
    BY <1>2, <2>4 DEF ScheduleFollowUps, TypeOK
  <2>5. CASE Quiet
    BY <1>2, <2>5 DEF Quiet, task
  <2>6. CASE Crash
    BY <1>2, <2>6 DEF Crash
  <2>7. QED
    BY StepCases, <2>2, <2>3, <2>4, <2>5, <2>6
<1>3. QED
  BY <1>1, <1>2

\* And only such announcements are dispatched.
LEMMA SentStep ==
    ASSUME IInv, NewsWasUnresolved, SentWasUnresolved, [Next]_vars
    PROVE  SentWasUnresolved'
<1> USE DEF IInv, SafeInv
<1> SUFFICES ASSUME NEW i \in Issues, NEW k \in 1..Len(sent'[i]), sent'[i][k].new
             PROVE  Unresolved(i)'
  BY DEF SentWasUnresolved
<1>1. ASSUME Unresolved(i)
      PROVE  Unresolved(i)'
  BY <1>1, HistoryGrows
<1>2. CASE UNCHANGED sent
  BY <1>1, <1>2 DEF SentWasUnresolved
<1>3. ASSUME NEW w \in Workers, Dispatch(w)
      PROVE  Unresolved(i)'
  <2> DEFINE mine == {e \in events[w] : e.issue = i}
  <2>1. sent'[i] = Announce(sent[i], mine)
    BY <1>3 DEF Dispatch
  <2>2. sent[i] \in Seq([status : Status, new : BOOLEAN]) /\ mine \in SUBSET Event
    BY DEF TypeOK
  <2>3. \A e \in mine : e.new => Unresolved(i)
    BY DEF NewsWasUnresolved
  <2> HIDE DEF mine
  <2>4. \A n \in 1..Len(Announce(sent[i], mine)) :
            \/ n \in 1..Len(sent[i]) /\ Announce(sent[i], mine)[n] = sent[i][n]
            \/ \E e \in mine : Announce(sent[i], mine)[n] = [status |-> e.status, new |-> e.new]
    BY <2>2, AnnounceType
  <2>5. CASE k \in 1..Len(sent[i]) /\ sent'[i][k] = sent[i][k]
    BY <1>1, <2>5 DEF SentWasUnresolved
  <2>6. ASSUME NEW e \in mine, sent'[i][k] = [status |-> e.status, new |-> e.new]
        PROVE  Unresolved(i)'
    BY <1>1, <2>3, <2>6
  <2>7. QED
    BY <2>1, <2>4, <2>5, <2>6
<1>4. ASSUME ~\E w \in Workers : Dispatch(w)
      PROVE  UNCHANGED sent
  BY <1>4, StepCases DEF Quiet, PollStarts, Fetch, Lookup, Relook, Flush, NothingToFlush, Commit,
     FailPhase, ScheduleFollowUps, Crash
<1>5. QED
  BY <1>2, <1>3, <1>4

\* Syncing years of resolved incidents announces none of them as new: an
\* announcement needs a version Graph published unresolved
\* (poll_graph_api's phase 3 keeps only the events of transitions).
THEOREM HistoryFloodsNobody == Spec => []HistoryIsSilent
<1>1. Init => SilentInv
  <2> SUFFICES ASSUME Init PROVE SilentInv
    OBVIOUS
  <2>1. IInv
    BY InitSafe
  <2>2. ActiveIsUnresolved /\ NewsWasUnresolved /\ SentWasUnresolved
    BY DEF Init, ActiveIsUnresolved, NewsWasUnresolved, SentWasUnresolved
  <2>3. QED
    BY <2>1, <2>2 DEF SilentInv
<1>2. SilentInv /\ [Next]_vars => SilentInv'
  BY StepSafe, ActiveStep, NewsStep, SentStep DEF SilentInv
<1>3. SilentInv => HistoryIsSilent
  BY DEF SilentInv, SentWasUnresolved, HistoryIsSilent, Unresolved
<1>4. QED
  BY <1>1, <1>2, <1>3, PTL DEF Spec

=============================================================================
