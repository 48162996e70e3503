------------------------- MODULE IncidentMirrorProofs -------------------------
(***************************************************************************)
(* What the incident table owes to Graph, for every set of issues,         *)
(* services and tasks: a row that no stale write touched is one version    *)
(* Graph published, its phase bar ends in its state, and its opening is    *)
(* announced once; and the poll that runs alone implements IncidentMirror. *)
(***************************************************************************)
EXTENDS GraphSyncProofs

-----------------------------------------------------------------------------
(* How a step changes the incident tables.                                 *)

\* A stale write is never forgotten.
LEMMA RacedGrows == [Next]_vars => raced \subseteq raced'
  BY DEF Next, Environment, Poll, GraphPublish, WindowMoves, GrowsOld, PollStarts, Fetch, Lookup,
     Relook, Flush, NothingToFlush, InsertConflict, PhaseFails, FailPhase, Commit, Dispatch,
     Toggle, ScheduleFollowUps, Crash, vars

tables == <<rows, timeline, draftRows, draftTimeline>>

\* One task writes to its draft, commits it, or rolls it back.
LEMMA TableCases ==
    ASSUME TypeOK, [Next]_vars
    PROVE  \/ UNCHANGED tables
           \/ \E w \in Workers : Flush(w)
           \/ /\ rows' = draftRows /\ timeline' = draftTimeline
              /\ UNCHANGED <<draftRows, draftTimeline>>
           \/ /\ draftRows' = rows /\ draftTimeline' = timeline
              /\ UNCHANGED <<rows, timeline>>
<1> USE DEF tables
<1>1. CASE Quiet
  BY <1>1 DEF Quiet, db
<1>2. ASSUME NEW w \in Workers,
             \/ PollStarts(w) \/ Fetch(w) \/ (\E i \in Issues : Lookup(w, i)) \/ Relook(w)
             \/ NothingToFlush(w) \/ Dispatch(w)
      PROVE  UNCHANGED tables
  BY <1>2 DEF PollStarts, Fetch, Lookup, Relook, NothingToFlush, Dispatch, db
<1>3. ASSUME NEW w \in Workers, Commit(w)
      PROVE  \/ UNCHANGED tables
             \/ /\ rows' = draftRows /\ timeline' = draftTimeline
                /\ UNCHANGED <<draftRows, draftTimeline>>
  BY <1>3 DEF Commit
<1>4. ASSUME NEW ws, RollbackDB(ws)
      PROVE  \/ UNCHANGED tables
             \/ /\ draftRows' = rows /\ draftTimeline' = timeline
                /\ UNCHANGED <<rows, timeline>>
  BY <1>4 DEF RollbackDB
<1>5. QED
  BY StepCases, <1>1, <1>2, <1>3, <1>4 DEF FailPhase, ScheduleFollowUps, Crash

\* A flush that raced with nobody: the row it replaces is the one it had
\* loaded, and what it leaves behind is the version it had fetched.
LEMMA FlushUnraced ==
    ASSUME TypeOK, Fetched, DraftIsCommitted, NEW w \in Workers, Flush(w), cur[w] \notin raced'
    PROVE  LET i == cur[w]
               new == RowFor(i, todo[w][i])
           IN  /\ draftRows[i] = seen[w]
               /\ isNew[w] => seen[w] = NoRow
               /\ draftRows'[i] = new
               /\ draftTimeline'[i] = IF RecordsState(w, new)
                                      THEN Append(draftTimeline[i], new.status)
                                      ELSE draftTimeline[i]
<1> DEFINE i == cur[w]
           new == RowFor(i, todo[w][i])
           stored == View(w)[i]
<1>1. i \in Issues /\ todo[w][i] \in 1..Len(history[i])
  BY WritesAVersion DEF Flush
<1>2. new \in Row
  BY <1>1, RowForType
<1>3. stored = draftRows[i]
  BY DEF Flush, CanWrite, View, DraftIsCommitted
<1>4. stored = seen[w] /\ (isNew[w] => seen[w] = NoRow)
  BY DEF Flush
<1>5. draftRows' = [draftRows EXCEPT ![i] =
            IF seen[w] = NoRow THEN new ELSE Merge(seen[w], stored, new)]
  BY DEF Flush
<1>6. draftTimeline' = [draftTimeline EXCEPT ![i] =
            IF RecordsState(w, new) THEN Append(@, new.status) ELSE @]
  BY DEF Flush
<1>7. stored \in Row
  BY <1>1 DEF View, TypeOK
<1> HIDE DEF new, stored
<1>8. Merge(seen[w], stored, new) = new
  BY <1>2, <1>4, <1>7 DEF Merge, Row
<1>9. draftRows'[i] = new
  BY <1>1, <1>5, <1>8 DEF TypeOK
<1>10. draftTimeline'[i] = IF RecordsState(w, new)
                           THEN Append(draftTimeline[i], new.status) ELSE draftTimeline[i]
  BY <1>1, <1>6 DEF TypeOK
<1>11. QED
  BY <1>3, <1>4, <1>9, <1>10 DEF new

\* A flush writes the row and the phase bar of one issue.
LEMMA FlushOthers ==
    ASSUME TypeOK, NEW w \in Workers, Flush(w), NEW j \in Issues, j # cur[w]
    PROVE  draftRows'[j] = draftRows[j] /\ draftTimeline'[j] = draftTimeline[j]
  BY DEF Flush, TypeOK

-----------------------------------------------------------------------------
(* Rows and phase bars.                                                    *)

IsVersion(i, r) ==
    r # NoRow /\ ClassOf[i] # "maintenance" =>
        r.modified \in 1..Len(history[i]) /\ r = RowFor(i, r.modified)

EndsIn(t, s) ==
    /\ t # <<>> => t[Len(t)] = s
    /\ \A k \in 2..Len(t) : t[k] # t[k - 1]

\* The committed tables and the draft of the open transaction alike.
RowsInv ==
    \A i \in Issues \ raced :
        /\ IsVersion(i, rows[i]) /\ IsVersion(i, draftRows[i])
        /\ EndsIn(timeline[i], rows[i].status) /\ EndsIn(draftTimeline[i], draftRows[i].status)

\* A version Graph has published keeps its row, whatever Graph publishes next.
LEMMA VersionKept ==
    ASSUME TypeOK, [Next]_vars, NEW i \in Issues, NEW r \in Row, IsVersion(i, r)
    PROVE  IsVersion(i, r)'
<1> SUFFICES ASSUME r # NoRow, ClassOf[i] # "maintenance"
             PROVE  r.modified \in 1..Len(history'[i]) /\ r = RowFor(i, r.modified)'
  BY DEF IsVersion
<1>1. r.modified \in 1..Len(history[i]) /\ r = RowFor(i, r.modified)
  BY DEF IsVersion
<1>2. /\ Len(history[i]) \in Nat /\ Len(history'[i]) \in Nat
      /\ Len(history'[i]) >= Len(history[i])
      /\ \A k \in 1..Len(history[i]) : history'[i][k] = history[i][k]
  BY HistoryGrows
<1>3. history'[i][r.modified] = history[i][r.modified]
  BY <1>1, <1>2
<1>4. QED
  BY <1>1, <1>2, <1>3 DEF RowFor, IssueStatus

\* Appending another state than the last one keeps a phase bar in order.
LEMMA EndsInAppend ==
    ASSUME NEW t \in Seq(Status), NEW s, NEW r \in Status, EndsIn(t, s), t = <<>> \/ s # r
    PROVE  EndsIn(Append(t, r), r)
<1> DEFINE u == Append(t, r)
<1>1. Len(u) = Len(t) + 1 /\ u[Len(t) + 1] = r /\ Len(t) \in Nat
      /\ \A k \in 1..Len(t) : u[k] = t[k]
  OBVIOUS
<1>2. t # <<>> => Len(t) \in 1..Len(t)
  BY <1>1
<1>3. ASSUME NEW k \in 2..Len(u)
      PROVE  u[k] # u[k - 1]
  <2>1. CASE k = Len(t) + 1
    <3>1. t # <<>> /\ u[k - 1] = t[Len(t)]
      BY <1>1, <2>1
    <3>2. QED
      BY <1>1, <2>1, <3>1 DEF EndsIn
  <2>2. CASE k # Len(t) + 1
    <3>1. k \in 2..Len(t) /\ u[k] = t[k] /\ u[k - 1] = t[k - 1]
      BY <1>1, <2>2
    <3>2. QED
      BY <3>1 DEF EndsIn
  <2>3. QED
    BY <2>1, <2>2
<1>4. QED
  BY <1>1, <1>3 DEF EndsIn

\* An empty phase bar belongs to whatever state.
LEMMA NoRowNoTimeline ==
    ASSUME NEW t \in Seq(Status), EndsIn(t, "none")
    PROVE  t = <<>>
<1>1. SUFFICES ASSUME t # <<>> PROVE FALSE
  OBVIOUS
<1>2. Len(t) \in 1..Len(t)
  BY <1>1
<1>3. t[Len(t)] \in Status
  BY <1>2
<1>4. QED
  BY <1>1, <1>3 DEF EndsIn, Status

\* What a flush leaves in the draft of an issue nobody raced for.
LEMMA FlushKeepsRows ==
    ASSUME TypeOK, Fetched, DraftIsCommitted, RowsInv, NEW w \in Workers, Flush(w),
           cur[w] \notin raced'
    PROVE  /\ IsVersion(cur[w], draftRows'[cur[w]])
           /\ EndsIn(draftTimeline'[cur[w]], draftRows'[cur[w]].status)
<1> DEFINE i == cur[w]
           n == todo[w][i]
           new == RowFor(i, n)
           t == draftTimeline[i]
<1>1. i \in Issues /\ n \in 1..Len(history[i])
  BY WritesAVersion DEF Flush
<1>2. new \in Row /\ new.status \in Status
  BY <1>1, RowForType
<1>3. /\ draftRows[i] = seen[w] /\ (isNew[w] => seen[w] = NoRow) /\ draftRows'[i] = new
      /\ draftTimeline'[i] = IF RecordsState(w, new) THEN Append(t, new.status) ELSE t
  BY FlushUnraced
<1>4. IsVersion(i, new)
  <2>1. new.modified = n
    BY DEF RowFor
  <2>2. QED
    BY <1>1, <2>1 DEF IsVersion
<1>5. EndsIn(t, seen[w].status) /\ t \in Seq(Status)
  BY <1>1, <1>3 DEF RowsInv, Flush, TypeOK
<1> HIDE DEF new, t
<1>6. isNew[w] => t = <<>>
  BY <1>3, <1>5, NoRowType, NoRowNoTimeline
<1>7. CASE RecordsState(w, new)
  <2>1. t = <<>> \/ seen[w].status # new.status
    BY <1>6, <1>7 DEF RecordsState, StatusChanged
  <2>2. EndsIn(Append(t, new.status), new.status)
    BY <1>2, <1>5, <2>1, EndsInAppend
  <2>3. QED
    BY <1>3, <1>4, <1>7, <2>2
<1>8. CASE ~RecordsState(w, new)
  <2>1. t = <<>> \/ seen[w].status = new.status
    BY <1>6, <1>8 DEF RecordsState, StatusChanged
  <2>2. EndsIn(t, new.status)
    BY <1>5, <2>1 DEF EndsIn
  <2>3. QED
    BY <1>3, <1>4, <1>8, <2>2
<1>9. QED
  BY <1>7, <1>8

LEMMA RowsStep ==
    ASSUME IInv, RowsInv, [Next]_vars
    PROVE  RowsInv'
<1> SUFFICES ASSUME NEW i \in Issues \ raced'
             PROVE  /\ IsVersion(i, rows[i])' /\ IsVersion(i, draftRows[i])'
                    /\ EndsIn(timeline[i], rows[i].status)'
                    /\ EndsIn(draftTimeline[i], draftRows[i].status)'
  BY DEF RowsInv
<1> USE DEF IInv, SafeInv
<1>1. i \in Issues \ raced
  BY RacedGrows
<1>2. /\ IsVersion(i, rows[i]) /\ IsVersion(i, draftRows[i])
      /\ EndsIn(timeline[i], rows[i].status) /\ EndsIn(draftTimeline[i], draftRows[i].status)
  BY <1>1 DEF RowsInv
<1>3. rows[i] \in Row /\ draftRows[i] \in Row
  BY DEF TypeOK
<1>4. ASSUME NEW r \in Row, IsVersion(i, r), r # NoRow, ClassOf[i] # "maintenance"
      PROVE  r.modified \in 1..Len(history'[i]) /\ r = RowFor(i, r.modified)'
  BY <1>4, VersionKept DEF IsVersion
<1>5. CASE UNCHANGED tables
  BY <1>2, <1>3, <1>4, <1>5 DEF tables, IsVersion, EndsIn
<1>6. CASE /\ rows' = draftRows /\ timeline' = draftTimeline
           /\ UNCHANGED <<draftRows, draftTimeline>>
  BY <1>2, <1>3, <1>4, <1>6 DEF IsVersion, EndsIn
<1>7. CASE /\ draftRows' = rows /\ draftTimeline' = timeline
           /\ UNCHANGED <<rows, timeline>>
  BY <1>2, <1>3, <1>4, <1>7 DEF IsVersion, EndsIn
<1>8. ASSUME NEW w \in Workers, Flush(w)
      PROVE  /\ IsVersion(i, rows[i])' /\ IsVersion(i, draftRows[i])'
             /\ EndsIn(timeline[i], rows[i].status)'
             /\ EndsIn(draftTimeline[i], draftRows[i].status)'
  <2>1. UNCHANGED <<rows, timeline, history, window>>
    BY <1>8 DEF Flush, graph
  <2>2. IsVersion(i, draftRows'[i]) /\ EndsIn(draftTimeline'[i], draftRows'[i].status)
    <3>1. CASE i = cur[w]
      BY <1>8, <3>1, FlushKeepsRows
    <3>2. CASE i # cur[w]
      BY <1>2, <1>8, <3>2, FlushOthers
    <3>3. QED
      BY <3>1, <3>2
  <2>3. QED
    BY <1>2, <2>1, <2>2 DEF IsVersion, EndsIn, RowFor, IssueStatus, MaintenancePhase
<1>9. QED
  BY TableCases, <1>5, <1>6, <1>7, <1>8

LEMMA InitRows == Init => RowsInv
<1> SUFFICES ASSUME Init PROVE RowsInv
  OBVIOUS
<1>1. \A i \in Issues : rows[i] = NoRow /\ draftRows[i] = NoRow
                        /\ timeline[i] = <<>> /\ draftTimeline[i] = <<>>
  BY DEF Init
<1>2. Len(<<>>) = 0
  OBVIOUS
<1>3. QED
  BY <1>1, <1>2 DEF RowsInv, IsVersion, EndsIn

LEMMA RowsInvariant == Spec => [](IInv /\ RowsInv)
<1>1. Init => IInv /\ RowsInv
  BY InitSafe, InitRows
<1>2. IInv /\ RowsInv /\ [Next]_vars => (IInv /\ RowsInv)'
  BY StepSafe, RowsStep
<1>3. QED
  BY <1>1, <1>2, PTL DEF Spec

\* Whatever overlaps, fails or crashes, an incident whose row no session wrote
\* from a stale read is one version Graph published, with all its columns
\* (upsert_incident writes them all, and an UPDATE those that differ).
THEOREM RowsAreVersions == Spec => []RowIsAVersion
<1>1. IInv /\ RowsInv => RowIsAVersion
  BY DEF RowsInv, IsVersion, RowIsAVersion
<1>2. QED
  BY <1>1, RowsInvariant, PTL

\* And the phase bar of such an incident, once it has an entry, ends in the
\* incident's state and enters no state twice in a row (sync_issue_as_incident adds an entry exactly
\* when the status it loaded differs from the one it writes).
THEOREM PhaseBarFollowsRow == Spec => []TimelineFollowsRow
<1>1. IInv /\ RowsInv => TimelineFollowsRow
  BY DEF RowsInv, EndsIn, TimelineFollowsRow
<1>2. QED
  BY <1>1, RowsInvariant, PTL

-----------------------------------------------------------------------------
(* Announced once.                                                         *)

\* Task w is going to announce issue i as new; subscribers have heard it.
News(w, i) == \E e \in events[w] : e.issue = i /\ e.new
Heard(i) == \E k \in 1..Len(sent[i]) : sent[i][k].new

\* An incident never leaves the table, not even in a draft.
RowsStay == \A i \in Issues \ raced : rows[i] # NoRow => draftRows[i] # NoRow

HeardHasRow == \A i \in Issues \ raced : Heard(i) => rows[i] # NoRow

\* News of an open session goes with a row in its own draft, news of a closed
\* session with a committed row; nobody else has or had the same news.
NewsIsFirst ==
    \A i \in Issues \ raced, w \in Workers : News(w, i) =>
        /\ ~Heard(i)
        /\ step[w] = "dispatch" => rows[i] # NoRow
        /\ step[w] # "dispatch" => lock = w /\ draftRows[i] # NoRow
        /\ \A v \in Workers \ {w} : ~News(v, i)

OnceInv == RowsStay /\ HeardHasRow /\ NewsIsFirst /\ AnnouncedOnce

\* Dispatching sends one notification of an issue the phase has events of.
LEMMA AnnounceAppends ==
    ASSUME NEW s, NEW mine \in SUBSET Event
    PROVE  /\ mine = {} => Announce(s, mine) = s
           /\ mine # {} => \E e \in mine :
                Announce(s, mine) = Append(s, [status |-> e.status, new |-> e.new])
  BY DEF Announce

\* Somebody hears of a new incident only by a dispatch of its news.
LEMMA HeardCases ==
    ASSUME TypeOK, [Next]_vars
    PROVE  \/ UNCHANGED sent
           \/ \E w \in Workers : Dispatch(w)
  BY StepCases DEF Quiet, PollStarts, Fetch, Lookup, Relook, Flush, NothingToFlush, Commit,
     FailPhase, ScheduleFollowUps, Crash

\* What a dispatch does to the notifications of one issue.
LEMMA DispatchEffect ==
    ASSUME TypeOK, NEW w \in Workers, Dispatch(w), NEW i \in Issues
    PROVE  /\ \/ sent'[i] = sent[i]
              \/ \E e \in events[w] :
                    /\ e \in Event /\ e.issue = i
                    /\ sent'[i] = Append(sent[i], [status |-> e.status, new |-> e.new])
           /\ events'[w] = {} /\ step[w] = "dispatch"
           /\ UNCHANGED db
<1> DEFINE mine == {e \in events[w] : e.issue = i}
<1>1. sent'[i] = Announce(sent[i], mine) /\ mine \in SUBSET Event
  BY DEF Dispatch, TypeOK
<1>2. events'[w] = {} /\ step[w] = "dispatch" /\ UNCHANGED db
  BY DEF Dispatch, TypeOK
<1>3. mine # {} => \E e \in mine :
            Announce(sent[i], mine) = Append(sent[i], [status |-> e.status, new |-> e.new])
  BY <1>1, AnnounceAppends
<1>4. mine = {} => Announce(sent[i], mine) = sent[i]
  BY <1>1, AnnounceAppends
<1>5. QED
  BY <1>1, <1>2, <1>3, <1>4

\* News of an unraced issue arises when its row is first written.
LEMMA NewsArises ==
    ASSUME IInv, [Next]_vars, NEW v \in Workers, NEW i \in Issues \ raced',
           News(v, i)', ~News(v, i)
    PROVE  /\ Flush(v) /\ lock \in {None, v} /\ lock' = v
           /\ draftRows[i] = NoRow /\ draftRows'[i] # NoRow
<1> USE DEF IInv, SafeInv
<1>1. ~(events'[v] \subseteq events[v])
  BY DEF News
<1>2. Flush(v) \/ NothingToFlush(v)
  <2>1. ASSUME NEW w \in Workers,
               \/ PollStarts(w) \/ Fetch(w) \/ (\E j \in Issues : Lookup(w, j)) \/ Relook(w)
               \/ Commit(w) \/ Dispatch(w) \/ FailPhase(w)
        PROVE  FALSE
    BY <1>1, <2>1 DEF PollStarts, Fetch, Lookup, Relook, Commit, Dispatch, FailPhase, TypeOK
  <2>2. ASSUME NEW b \in Backfills, ScheduleFollowUps(b)
        PROVE  FALSE
    BY <1>1, <2>2 DEF ScheduleFollowUps, TypeOK
  <2>3. ~Quiet /\ ~Crash
    BY <1>1 DEF Quiet, task, Crash
  <2>4. ASSUME NEW w \in Workers, w # v, Flush(w) \/ NothingToFlush(w)
        PROVE  FALSE
    BY <1>1, <2>4 DEF Flush, NothingToFlush, TypeOK
  <2>5. QED
    BY StepCases, <2>1, <2>2, <2>3, <2>4
<1> DEFINE new == RowFor(cur[v], todo[v][cur[v]])
<1>3. /\ step[v] = "write"
      /\ events' = [events EXCEPT ![v] = @ \cup NewEvents(v, cur[v], new)]
  BY <1>2 DEF Flush, NothingToFlush
<1>4. cur[v] \in Issues /\ new \in Row /\ new.status \in Status /\ new # NoRow
  BY <1>3, WritesAVersion, RowForType
<1>5. \A e \in NewEvents(v, cur[v], new) : e.issue = cur[v] /\ e.new = isNew[v]
  <2> HIDE DEF new
  <2>1. QED
    BY <1>4, NewEventsType
<1>6. cur[v] = i /\ isNew[v]
  <2> HIDE DEF new
  <2>1. QED
    BY <1>3, <1>5 DEF News, TypeOK
<1>7. ~NothingToFlush(v)
  BY <1>6 DEF NothingToFlush
<1>8. Flush(v) /\ lock \in {None, v} /\ lock' = v
  BY <1>2, <1>7 DEF Flush, CanWrite
<1>9. draftRows[i] = NoRow /\ draftRows'[i] = new
  BY <1>6, <1>8, FlushUnraced
<1>10. QED
  BY <1>4, <1>8, <1>9

\* A row stays once it is there.
LEMMA RowsStayStep ==
    ASSUME IInv, RowsStay, [Next]_vars
    PROVE  RowsStay' /\ \A i \in Issues \ raced' : rows[i] # NoRow => rows'[i] # NoRow
<1> USE DEF IInv, SafeInv, tables, RowsStay
<1>1. raced \subseteq raced'
  BY RacedGrows
<1>2. ASSUME NEW w \in Workers, Flush(w), NEW i \in Issues \ raced', draftRows[i] # NoRow
      PROVE  draftRows'[i] # NoRow
  <2>1. CASE i = cur[w]
    <3>1. draftRows'[i] = RowFor(i, todo[w][i])
      BY <1>2, <2>1, FlushUnraced
    <3>2. todo[w][i] \in 1..Len(history[i])
      BY <1>2, <2>1, WritesAVersion DEF Flush
    <3>3. QED
      BY <3>1, <3>2, RowForType
  <2>2. CASE i # cur[w]
    BY <1>2, <2>2, FlushOthers
  <2>3. QED
    BY <2>1, <2>2
<1>3. ASSUME NEW w \in Workers, Flush(w)
      PROVE  UNCHANGED rows
  BY <1>3 DEF Flush
<1>4. QED
  BY TableCases, <1>1, <1>2, <1>3

\* What is heard is in the table.
LEMMA HeardStep ==
    ASSUME IInv, RowsStay, HeardHasRow, NewsIsFirst, [Next]_vars
    PROVE  HeardHasRow'
<1> USE DEF IInv, SafeInv
<1> SUFFICES ASSUME NEW i \in Issues \ raced', Heard(i)'
             PROVE  rows'[i] # NoRow
  BY DEF HeardHasRow
<1>1. i \in Issues \ raced
  BY RacedGrows
<1>2. CASE Heard(i)
  BY <1>1, <1>2, RowsStayStep DEF HeardHasRow
<1>3. CASE ~Heard(i)
  <2>1. PICK w \in Workers : Dispatch(w)
    BY <1>3, HeardCases DEF Heard
  <2>2. PICK e \in events[w] :
            /\ e \in Event /\ e.issue = i
            /\ sent'[i] = Append(sent[i], [status |-> e.status, new |-> e.new])
    BY <1>3, <2>1, DispatchEffect DEF Heard
  <2>3. e.new
    <3> DEFINE n == [status |-> e.status, new |-> e.new]
               N == [status : Status, new : BOOLEAN]
    <3>1. sent[i] \in Seq(N) /\ n \in N
      BY <2>2 DEF TypeOK, Event
    <3>2. n.new = e.new
      OBVIOUS
    <3> HIDE DEF n, N
    <3>3. PICK k \in 1..Len(Append(sent[i], n)) : Append(sent[i], n)[k].new
      BY <2>2 DEF Heard, n
    <3>4. ~(k \in 1..Len(sent[i]))
      BY <1>3, <3>1, <3>3 DEF Heard
    <3>5. Append(sent[i], n)[k] = n
      BY <3>1, <3>3, <3>4
    <3>6. QED
      BY <3>2, <3>3, <3>5
  <2>4. News(w, i)
    BY <2>2, <2>3 DEF News
  <2>5. rows[i] # NoRow /\ UNCHANGED rows
    BY <1>1, <2>1, <2>4, DispatchEffect DEF NewsIsFirst, db
  <2>6. QED
    BY <2>5
<1>4. QED
  BY <1>2, <1>3

\* While a task has news of an open session, its draft keeps the row.
LEMMA NewsKeepsDraft ==
    ASSUME IInv, RowsStay, [Next]_vars, NEW w \in Workers, NEW i \in Issues \ raced',
           News(w, i), News(w, i)', lock = w, draftRows[i] # NoRow, step[w] # "dispatch"
    PROVE  IF step'[w] = "dispatch" THEN rows'[i] # NoRow
           ELSE lock' = w /\ draftRows'[i] # NoRow
<1> USE DEF IInv, SafeInv
<1>1. events[w] # {} /\ events'[w] # {}
  BY DEF News
<1>2. ASSUME step'[w] = step[w], lock' = lock, draftRows' = draftRows
      PROVE  IF step'[w] = "dispatch" THEN rows'[i] # NoRow
             ELSE lock' = w /\ draftRows'[i] # NoRow
  BY <1>2
<1>3. CASE Quiet
  BY <1>2, <1>3 DEF Quiet, db, task
<1>4. ASSUME NEW v \in Workers \ {w},
             \/ PollStarts(v) \/ Fetch(v) \/ (\E j \in Issues : Lookup(v, j)) \/ Relook(v)
             \/ Flush(v) \/ NothingToFlush(v) \/ Commit(v) \/ Dispatch(v) \/ FailPhase(v)
      PROVE  IF step'[w] = "dispatch" THEN rows'[i] # NoRow
             ELSE lock' = w /\ draftRows'[i] # NoRow
  BY <1>2, <1>4, OthersKept
<1>5. ~PollStarts(w) /\ ~Fetch(w)
  BY <1>1 DEF PollStarts, Fetch, Resting
<1>6. CASE (\E j \in Issues : Lookup(w, j)) \/ Relook(w) \/ NothingToFlush(w)
  <2>1. UNCHANGED db /\ step'[w] # "dispatch"
    BY <1>6 DEF Lookup, Relook, NothingToFlush, NextIssue, Goto, TypeOK
  <2>2. QED
    BY <2>1 DEF db
<1>7. CASE Flush(w)
  <2>1. lock' = w /\ step'[w] = "sync"
    BY <1>7 DEF Flush, NextIssue, Goto, TypeOK
  <2>2. draftRows'[i] # NoRow
    <3>1. CASE i = cur[w]
      <4>1. draftRows'[i] = RowFor(i, todo[w][i])
        BY <1>7, <3>1, FlushUnraced
      <4>2. todo[w][i] \in 1..Len(history[i])
        BY <1>7, <3>1, WritesAVersion DEF Flush
      <4>3. QED
        BY <4>1, <4>2, RowForType
    <3>2. CASE i # cur[w]
      BY <1>7, <3>2, FlushOthers
    <3>3. QED
      BY <3>1, <3>2
  <2>3. QED
    BY <2>1, <2>2
<1>8. CASE Commit(w)
  <2>1. rows' = draftRows /\ events' = events
    BY <1>8 DEF Commit
  <2>2. step'[w] = "dispatch"
    BY <1>1, <1>8 DEF Commit, AfterSession, Goto, Resting, TypeOK
  <2>3. QED
    BY <2>1, <2>2
<1>9. ~Dispatch(w) /\ ~FailPhase(w) /\ ~Crash
  BY <1>1 DEF Dispatch, FailPhase, Crash, TypeOK
<1>10. ASSUME NEW b \in Backfills, ScheduleFollowUps(b)
       PROVE  IF step'[w] = "dispatch" THEN rows'[i] # NoRow
              ELSE lock' = w /\ draftRows'[i] # NoRow
  <2>1. w # Delayed
    BY <1>1, <1>10, OthersKeptByToggle
  <2>2. w # b
    BY <1>1, <1>10, OthersKeptByToggle DEF Resting
  <2>3. QED
    BY <1>2, <1>10, <2>1, <2>2, OthersKeptByToggle
<1>11. QED
  BY StepCases, <1>3, <1>4, <1>5, <1>6, <1>7, <1>8, <1>9, <1>10

\* News of a closed session waits in dispatch.
LEMMA NewsWaits ==
    ASSUME IInv, [Next]_vars, NEW w \in Workers, NEW i \in Issues,
           News(w, i)', step[w] = "dispatch"
    PROVE  step'[w] = "dispatch"
<1> USE DEF IInv, SafeInv
<1>1. events'[w] # {}
  BY DEF News
<1>2. CASE Quiet
  BY <1>2 DEF Quiet, task
<1>3. ASSUME NEW v \in Workers \ {w},
             \/ PollStarts(v) \/ Fetch(v) \/ (\E j \in Issues : Lookup(v, j)) \/ Relook(v)
             \/ Flush(v) \/ NothingToFlush(v) \/ Commit(v) \/ Dispatch(v) \/ FailPhase(v)
      PROVE  step'[w] = "dispatch"
  BY <1>3, OthersKept
<1>4. ~(\/ PollStarts(w) \/ Fetch(w) \/ (\E j \in Issues : Lookup(w, j)) \/ Relook(w)
        \/ Flush(w) \/ NothingToFlush(w) \/ Commit(w))
  BY DEF PollStarts, Resting, Fetch, Lookup, Relook, Flush, NothingToFlush, Commit
<1>5. ~Dispatch(w) /\ ~FailPhase(w) /\ ~Crash
  BY <1>1 DEF Dispatch, FailPhase, Crash, TypeOK
<1>6. ASSUME NEW b \in Backfills, ScheduleFollowUps(b)
      PROVE  step'[w] = "dispatch"
  BY <1>1, <1>6, OthersKeptByToggle DEF Resting
<1>7. QED
  BY StepCases, <1>2, <1>3, <1>4, <1>5, <1>6

\* Only one task ever has the news of an issue, and only before it was heard.
LEMMA NewsFirstStep ==
    ASSUME IInv, RowsStay, HeardHasRow, NewsIsFirst, [Next]_vars
    PROVE  NewsIsFirst'
<1> USE DEF IInv, SafeInv
<1> SUFFICES ASSUME NEW i \in Issues \ raced', NEW w \in Workers, News(w, i)'
             PROVE  /\ ~Heard(i)'
                    /\ step'[w] = "dispatch" => rows'[i] # NoRow
                    /\ step'[w] # "dispatch" => lock' = w /\ draftRows'[i] # NoRow
                    /\ \A v \in Workers \ {w} : ~News(v, i)'
  BY DEF NewsIsFirst
<1>1. i \in Issues \ raced /\ None \notin Workers
  BY RacedGrows, ConstantsAssumption
<1>2. \A v \in Workers : News(v, i) =>
        /\ ~Heard(i)
        /\ step[v] = "dispatch" => rows[i] # NoRow
        /\ step[v] # "dispatch" => lock = v /\ draftRows[i] # NoRow
        /\ \A u \in Workers \ {v} : ~News(u, i)
  BY <1>1 DEF NewsIsFirst
<1>3. CASE ~News(w, i)
  <2>1. /\ Flush(w) /\ lock \in {None, w} /\ lock' = w
        /\ draftRows[i] = NoRow /\ draftRows'[i] # NoRow
    BY <1>3, NewsArises
  <2>2. rows[i] = NoRow /\ ~Heard(i)
    BY <1>1, <2>1 DEF RowsStay, HeardHasRow
  <2>3. /\ sent' = sent /\ step'[w] = "sync"
        /\ \A v \in Workers \ {w} : events'[v] = events[v]
    BY <2>1 DEF Flush, NextIssue, Goto, TypeOK
  <2>4. ASSUME NEW v \in Workers \ {w}, News(v, i)'
        PROVE  FALSE
    <3>1. News(v, i)
      BY <2>3, <2>4 DEF News
    <3>2. QED
      BY <1>1, <1>2, <2>1, <2>2, <3>1
  <2>5. QED
    BY <2>1, <2>2, <2>3, <2>4 DEF Heard
<1>4. CASE News(w, i)
  <2>1. ~Heard(i) /\ \A v \in Workers \ {w} : ~News(v, i)
    BY <1>2, <1>4
  <2>2. ~Heard(i)'
    <3> SUFFICES ASSUME Heard(i)' PROVE FALSE
      OBVIOUS
    <3>1. PICK v \in Workers : Dispatch(v)
      BY <2>1, HeardCases DEF Heard
    <3>2. v # w
      BY <3>1, DispatchEffect DEF News
    <3>3. PICK e \in events[v] :
                /\ e \in Event /\ e.issue = i
                /\ sent'[i] = Append(sent[i], [status |-> e.status, new |-> e.new])
      BY <2>1, <3>1, DispatchEffect DEF Heard
    <3>4. ~e.new
      BY <2>1, <3>2, <3>3 DEF News
    <3> DEFINE n == [status |-> e.status, new |-> e.new]
               N == [status : Status, new : BOOLEAN]
    <3>5. sent[i] \in Seq(N) /\ n \in N /\ ~n.new
      BY <3>3, <3>4 DEF TypeOK, Event
    <3> HIDE DEF n, N
    <3>6. PICK k \in 1..Len(Append(sent[i], n)) : Append(sent[i], n)[k].new
      BY <3>3 DEF Heard, n
    <3>7. k \in 1..Len(sent[i]) /\ Append(sent[i], n)[k] = sent[i][k]
      BY <3>5, <3>6
    <3>8. QED
      BY <2>1, <3>6, <3>7 DEF Heard
  <2>3. ASSUME NEW v \in Workers \ {w}, News(v, i)'
        PROVE  FALSE
    <3>1. lock \in {None, v} /\ draftRows[i] = NoRow
      BY <2>1, <2>3, NewsArises
    <3>2. QED
      BY <1>1, <1>2, <1>4, <3>1 DEF RowsStay
  <2>4. CASE step[w] = "dispatch"
    <3>1. step'[w] = "dispatch"
      BY <2>4, NewsWaits
    <3>2. rows'[i] # NoRow
      BY <1>2, <1>4, <2>4, RowsStayStep
    <3>3. QED
      BY <2>2, <2>3, <3>1, <3>2
  <2>5. CASE step[w] # "dispatch"
    <3>1. lock = w /\ draftRows[i] # NoRow
      BY <1>2, <1>4, <2>5
    <3>2. IF step'[w] = "dispatch" THEN rows'[i] # NoRow
          ELSE lock' = w /\ draftRows'[i] # NoRow
      BY <1>4, <2>5, <3>1, NewsKeepsDraft
    <3>3. QED
      BY <2>2, <2>3, <3>2
  <2>6. QED
    BY <2>4, <2>5
<1>5. QED
  BY <1>3, <1>4

\* A notification of a new incident is only added where there was none.
LEMMA OnceStep ==
    ASSUME IInv, NewsIsFirst, AnnouncedOnce, [Next]_vars
    PROVE  AnnouncedOnce'
<1> USE DEF IInv, SafeInv
<1> SUFFICES ASSUME NEW i \in Issues \ raced',
                    NEW j \in 1..Len(sent'[i]), NEW k \in 1..Len(sent'[i]),
                    sent'[i][j].new, sent'[i][k].new
             PROVE  j = k
  BY DEF AnnouncedOnce
<1>1. i \in Issues \ raced
  BY RacedGrows
<1>2. CASE sent'[i] = sent[i]
  BY <1>1, <1>2 DEF AnnouncedOnce
<1>3. CASE sent'[i] # sent[i]
  <2>1. PICK w \in Workers : Dispatch(w)
    BY <1>3, HeardCases
  <2>2. PICK e \in events[w] :
            /\ e \in Event /\ e.issue = i
            /\ sent'[i] = Append(sent[i], [status |-> e.status, new |-> e.new])
    BY <1>3, <2>1, DispatchEffect
  <2>3. e.new => ~Heard(i)
    BY <1>1, <2>2 DEF News, NewsIsFirst
  <2> DEFINE n == [status |-> e.status, new |-> e.new]
             N == [status : Status, new : BOOLEAN]
  <2>4. sent[i] \in Seq(N) /\ n \in N /\ n.new = e.new
    BY <2>2 DEF TypeOK, Event
  <2>5. sent'[i] = Append(sent[i], n)
    BY <2>2
  <2> HIDE DEF n, N
  <2>6. \A m \in 1..Len(sent'[i]) :
            \/ m \in 1..Len(sent[i]) /\ sent'[i][m] = sent[i][m]
            \/ m = Len(sent[i]) + 1 /\ sent'[i][m] = n
    BY <2>4, <2>5
  <2>7. QED
    BY <1>1, <2>3, <2>4, <2>6 DEF Heard, AnnouncedOnce
<1>4. QED
  BY <1>2, <1>3

\* Whatever overlaps, an incident is announced as new at most once, by
\* whichever task inserted its row (sync_issue_as_incident returns is_new, and
\* the write lock lets one session insert at a time).
THEOREM NewIsAnnouncedOnce == Spec => []AnnouncedOnce
<1>1. Init => IInv /\ OnceInv
  <2> SUFFICES ASSUME Init PROVE IInv /\ OnceInv
    OBVIOUS
  <2>1. \A i \in Issues : rows[i] = NoRow /\ sent[i] = <<>>
    BY DEF Init
  <2>2. \A w \in Workers : events[w] = {}
    BY DEF Init
  <2>3. QED
    BY <2>1, <2>2, InitSafe DEF OnceInv, RowsStay, HeardHasRow, Heard, NewsIsFirst, News,
       AnnouncedOnce
<1>2. IInv /\ OnceInv /\ [Next]_vars => (IInv /\ OnceInv)'
  BY StepSafe, RowsStayStep, HeardStep, NewsFirstStep, OnceStep DEF OnceInv
<1>3. OnceInv => AnnouncedOnce
  BY DEF OnceInv
<1>4. QED
  BY <1>1, <1>2, <1>3, PTL DEF Spec

-----------------------------------------------------------------------------
(* The poll alone implements IncidentMirror.                               *)

\* No service has just been enabled: the admin starts no task of his own.
NoneEnabled == toggling = None

\* Then only the scheduler's poll works, holds the lock and loads rows.
Alone ==
    /\ \A w \in Workers \ {Scheduled} : phase[w] = "idle"
    /\ phase[Scheduled] \in {"idle", "active", "resolved"}
    /\ lock \in {None, Scheduled}
    /\ lock = Scheduled => step[Scheduled] \in {"sync", "relook", "write"}

\* What it has loaded is what the table still holds, so nothing races.
Loaded ==
    /\ raced = {}
    /\ step[Scheduled] \in {"relook", "write"} =>
            /\ seen[Scheduled] = draftRows[cur[Scheduled]]
            /\ isNew[Scheduled] <=> seen[Scheduled] = NoRow

\* The draft is no older than the table and no newer than Graph.
Between ==
    \A i \in Issues :
        rows[i].modified <= draftRows[i].modified /\ draftRows[i].modified <= Len(history[i])

\* An issue still to sync is as it was when the phase fetched it.
Untouched ==
    \A i \in Issues : todo[Scheduled][i] # 0 =>
        /\ step[Scheduled] \in {"sync", "relook", "write"}
        /\ draftRows[i] = rows[i] /\ rows[i].modified <= todo[Scheduled][i]

\* What is to be announced will show a newer version.
NewsIsNewer ==
    step[Scheduled] # "dispatch" =>
        \A e \in events[Scheduled] : rows[e.issue].modified < draftRows[e.issue].modified

MirrorInv == Alone /\ Loaded /\ Between /\ Untouched /\ NewsIsNewer

LEMMA RacedByWrites ==
    ASSUME [Next]_vars
    PROVE  raced' = raced \/ \E w \in Workers : Flush(w) \/ NothingToFlush(w)
  BY DEF Next, Environment, Poll, GraphPublish, WindowMoves, GrowsOld, PollStarts, Fetch, Lookup,
     Relook, InsertConflict, PhaseFails, FailPhase, Commit, Dispatch, Toggle, ScheduleFollowUps,
     Crash, vars

\* Steps of the scheduler's poll.
PollStep ==
    \/ PollStarts(Scheduled) \/ Fetch(Scheduled) \/ (\E i \in Issues : Lookup(Scheduled, i))
    \/ Relook(Scheduled) \/ Flush(Scheduled) \/ NothingToFlush(Scheduled) \/ Commit(Scheduled)
    \/ Dispatch(Scheduled)
    \/ Working(Scheduled) /\ FailPhase(Scheduled)

\* While no service gets enabled, no other task takes a step.
LEMMA AloneCases ==
    ASSUME IInv, Alone, NoneEnabled, [Next]_vars
    PROVE  (Quiet /\ raced' = raced) \/ PollStep \/ Crash
<1> USE ConstantsAssumption DEF IInv, SafeInv
<1>1. Scheduled \in Workers
  BY DEF Workers
<1>2. \A w \in Workers \ {Scheduled} : step[w] = "idle" /\ phase[w] = "idle"
  BY DEF Alone, Resting
<1>3. ASSUME NEW w \in Workers \ {Scheduled},
             \/ PollStarts(w) \/ Fetch(w) \/ (\E i \in Issues : Lookup(w, i)) \/ Relook(w)
             \/ Flush(w) \/ NothingToFlush(w) \/ Commit(w) \/ Dispatch(w)
             \/ Working(w) /\ FailPhase(w)
      PROVE  FALSE
  BY <1>2, <1>3 DEF PollStarts, Fetch, Lookup, Relook, Flush, NothingToFlush, Commit, Dispatch,
     Working
<1>4. ~\E b \in Backfills : ScheduleFollowUps(b)
  BY DEF ScheduleFollowUps, NoneEnabled
<1>5. QED
  BY <1>1, <1>3, <1>4, StepCases, RacedByWrites DEF PollStep

\* So it stays alone.
LEMMA AloneStep ==
    ASSUME IInv, Alone, NoneEnabled, [Next]_vars
    PROVE  Alone'
<1> USE ConstantsAssumption DEF IInv, SafeInv, Alone
<1>1. Scheduled \in Workers
  BY DEF Workers
<1>2. CASE Quiet
  BY <1>2 DEF Quiet, db, task
<1>3. CASE PollStarts(Scheduled) \/ Fetch(Scheduled)
  BY <1>1, <1>3 DEF PollStarts, Fetch, Resting, Goto, TypeOK, db
<1>4. ASSUME NEW i \in Issues, Lookup(Scheduled, i)
      PROVE  Alone'
  BY <1>1, <1>4 DEF Lookup, Goto, TypeOK, db
<1>5. CASE Relook(Scheduled)
  BY <1>1, <1>5 DEF Relook, Goto, TypeOK, db
<1>6. CASE Flush(Scheduled) \/ NothingToFlush(Scheduled)
  BY <1>1, <1>6 DEF Flush, NothingToFlush, NextIssue, Goto, TypeOK, db
<1>7. CASE Commit(Scheduled)
  BY <1>1, <1>7 DEF Commit, AfterSession, Goto, TypeOK
<1>8. CASE Dispatch(Scheduled)
  BY <1>1, <1>8 DEF Dispatch, Goto, TypeOK, db
<1>9. CASE Working(Scheduled) /\ FailPhase(Scheduled)
  BY <1>1, <1>9 DEF FailPhase, RollbackDB, AfterSession, Goto, TypeOK
<1>10. CASE Crash
  BY <1>1, <1>10 DEF Crash, RollbackDB, TypeOK
<1>11. QED
  BY AloneCases, <1>2, <1>3, <1>4, <1>5, <1>6, <1>7, <1>8, <1>9, <1>10 DEF PollStep

\* Its view is the draft.
LEMMA AloneView ==
    ASSUME DraftIsCommitted, Alone
    PROVE  View(Scheduled) = draftRows
  BY DEF View, Alone, DraftIsCommitted

\* A task that holds the row it loaded does not race.
LEMMA WriteUnraced ==
    ASSUME IInv, Alone, Loaded, Flush(Scheduled) \/ NothingToFlush(Scheduled)
    PROVE  raced' = {}
<1> USE DEF IInv, SafeInv
<1>1. Scheduled \in Workers
  BY DEF Workers
<1>2. /\ step[Scheduled] = "write" /\ seen[Scheduled] = draftRows[cur[Scheduled]]
      /\ isNew[Scheduled] <=> seen[Scheduled] = NoRow
  BY DEF Flush, NothingToFlush, Loaded
<1>3. View(Scheduled) = draftRows
  BY AloneView
<1>4. CASE Flush(Scheduled)
  BY <1>2, <1>3, <1>4 DEF Flush, Loaded
<1>5. CASE NothingToFlush(Scheduled)
  <2>1. seen[Scheduled] # NoRow
    BY <1>1, <1>2, <1>5, WritesAVersion, RowForType DEF NothingToFlush
  <2>2. QED
    BY <1>2, <1>3, <1>5, <2>1 DEF NothingToFlush, Loaded
<1>6. QED
  BY <1>4, <1>5

LEMMA LoadedStep ==
    ASSUME IInv, Alone, Loaded, NoneEnabled, [Next]_vars
    PROVE  Loaded'
<1> USE ConstantsAssumption DEF IInv, SafeInv
<1>1. Scheduled \in Workers
  BY DEF Workers
<1>2. CASE Quiet /\ raced' = raced
  BY <1>2 DEF Quiet, db, task, Loaded
<1>3. CASE Flush(Scheduled) \/ NothingToFlush(Scheduled)
  <2>1. step'[Scheduled] = "sync"
    BY <1>1, <1>3 DEF Flush, NothingToFlush, NextIssue, Goto, TypeOK
  <2>2. QED
    BY <1>3, <2>1, WriteUnraced DEF Loaded
<1>4. CASE PollStarts(Scheduled) \/ Fetch(Scheduled)
  <2>1. step'[Scheduled] \notin {"relook", "write"} /\ raced' = raced
    BY <1>1, <1>4 DEF PollStarts, Fetch, Goto, TypeOK
  <2>2. QED
    BY <2>1 DEF Loaded
<1>5. CASE Commit(Scheduled) \/ Dispatch(Scheduled) \/ FailPhase(Scheduled)
  <2>1. step'[Scheduled] \notin {"relook", "write"} /\ raced' = raced
    BY <1>1, <1>5 DEF Commit, Dispatch, FailPhase, AfterSession, Goto, TypeOK
  <2>2. QED
    BY <2>1 DEF Loaded
<1>6. ASSUME NEW i \in Issues, Lookup(Scheduled, i)
      PROVE  Loaded'
  <2>1. /\ cur'[Scheduled] = i /\ seen'[Scheduled] = draftRows[i]
        /\ isNew'[Scheduled] = (draftRows[i] = NoRow)
        /\ draftRows' = draftRows /\ raced' = raced
    BY <1>1, <1>6, AloneView DEF Lookup, TypeOK, db
  <2>2. QED
    BY <2>1 DEF Loaded
<1>7. CASE Relook(Scheduled)
  <2>1. /\ cur'[Scheduled] = cur[Scheduled] /\ seen'[Scheduled] = draftRows[cur[Scheduled]]
        /\ isNew' = isNew /\ draftRows' = draftRows /\ raced' = raced
        /\ step[Scheduled] = "relook"
    BY <1>1, <1>7, AloneView DEF Relook, TypeOK, db
  <2>2. QED
    BY <2>1 DEF Loaded
<1>8. CASE Crash
  BY <1>1, <1>8 DEF Crash, Loaded
<1>9. QED
  BY AloneCases, <1>2, <1>3, <1>4, <1>5, <1>6, <1>7, <1>8 DEF PollStep

\* A sync writes the version it fetched over a row that is no newer; when it
\* has something to announce, over one that is older.
LEMMA WriteEffect ==
    ASSUME IInv, RowsInv, MirrorInv, Flush(Scheduled) \/ NothingToFlush(Scheduled)
    PROVE  LET i == cur[Scheduled]
               n == todo[Scheduled][i]
           IN  /\ i \in Issues /\ n \in 1..Len(history[i])
               /\ draftRows[i] = rows[i] /\ rows[i].modified <= n
               /\ draftRows'[i].modified = n
               /\ \A j \in Issues \ {i} : draftRows'[j] = draftRows[j]
               /\ NewEvents(Scheduled, i, RowFor(i, n)) # {} => rows[i].modified < n
<1> USE ConstantsAssumption DEF IInv, SafeInv, MirrorInv
<1> DEFINE i == cur[Scheduled]
           n == todo[Scheduled][i]
           new == RowFor(i, n)
<1>1. Scheduled \in Workers /\ step[Scheduled] = "write"
  BY DEF Workers, Flush, NothingToFlush
<1>2. i \in Issues /\ n \in 1..Len(history[i]) /\ n \in Nat \ {0}
  BY <1>1, WritesAVersion
<1>3. draftRows[i] = rows[i] /\ rows[i].modified <= n /\ rows[i].modified \in Nat
  BY <1>1, <1>2 DEF Untouched, TypeOK, Row
<1>4. seen[Scheduled] = draftRows[i] /\ (isNew[Scheduled] <=> seen[Scheduled] = NoRow)
  BY <1>1 DEF Loaded
<1>5. new \in Row /\ new # NoRow /\ new.status \in Status /\ new.modified = n
  BY <1>2, RowForType DEF RowFor
<1>6. draftRows'[i].modified = n /\ \A j \in Issues \ {i} : draftRows'[j] = draftRows[j]
  <2>1. CASE Flush(Scheduled)
    <3>1. draftRows'[i] = new
      BY <1>1, <1>2, <2>1, FlushUnraced, WriteUnraced
    <3>2. \A j \in Issues \ {i} : draftRows'[j] = draftRows[j]
      BY <1>1, <2>1, FlushOthers
    <3>3. QED
      BY <1>5, <3>1, <3>2
  <2>2. CASE NothingToFlush(Scheduled)
    BY <1>4, <1>5, <2>2 DEF NothingToFlush, db
  <2>3. QED
    BY <2>1, <2>2
<1>7. ASSUME NewEvents(Scheduled, i, new) # {}
      PROVE  rows[i].modified < n
  <2>1. ClassOf[i] = "incident" /\ (isNew[Scheduled] \/ StatusChanged(Scheduled, new))
    BY <1>7 DEF NewEvents, Notifies
  <2>2. CASE isNew[Scheduled]
    <3>1. rows[i].modified = 0
      BY <1>3, <1>4, <2>2 DEF NoRow
    <3>2. QED
      BY <1>2, <3>1
  <2>3. CASE StatusChanged(Scheduled, new)
    <3>1. rows[i] # NoRow /\ rows[i].status # new.status
      BY <1>3, <1>4, <2>3 DEF StatusChanged
    <3>2. rows[i] = RowFor(i, rows[i].modified)
      BY <1>2, <2>1, <3>1 DEF Loaded, RowsInv, IsVersion
    <3>3. rows[i].modified # n
      BY <3>1, <3>2
    <3> HIDE DEF i, n
    <3>4. QED
      BY <1>2, <1>3, <3>3
  <2>4. QED
    BY <2>1, <2>2, <2>3
<1>8. QED
  BY <1>2, <1>3, <1>6, <1>7

\* The table catches up with the draft or the draft falls back to the table;
\* in between a sync brings the draft forward.
LEMMA BetweenStep ==
    ASSUME IInv, RowsInv, MirrorInv, NoneEnabled, [Next]_vars
    PROVE  Between'
<1> USE DEF IInv, SafeInv, MirrorInv
<1> SUFFICES ASSUME NEW j \in Issues
             PROVE  /\ rows'[j].modified <= draftRows'[j].modified
                    /\ draftRows'[j].modified <= Len(history'[j])
  BY DEF Between
<1>1. /\ Len(history[j]) \in Nat /\ Len(history'[j]) \in Nat
      /\ Len(history[j]) <= Len(history'[j])
  BY HistoryGrows
<1>2. /\ rows[j].modified \in Nat /\ draftRows[j].modified \in Nat
      /\ rows[j].modified <= draftRows[j].modified
      /\ draftRows[j].modified <= Len(history[j])
  BY DEF TypeOK, Row, Between
<1>3. CASE UNCHANGED tables
  BY <1>1, <1>2, <1>3 DEF tables
<1>4. CASE rows' = draftRows /\ draftRows' = draftRows
  BY <1>1, <1>2, <1>4
<1>5. CASE draftRows' = rows /\ rows' = rows
  BY <1>1, <1>2, <1>5
<1>6. CASE Flush(Scheduled)
  <2> DEFINE i == cur[Scheduled]
             n == todo[Scheduled][i]
  <2>1. /\ i \in Issues /\ n \in 1..Len(history[i])
        /\ draftRows[i] = rows[i] /\ rows[i].modified <= n
        /\ draftRows'[i].modified = n
        /\ \A k \in Issues \ {i} : draftRows'[k] = draftRows[k]
    BY <1>6, WriteEffect
  <2>2. rows' = rows /\ history' = history
    BY <1>6 DEF Flush, graph
  <2> HIDE DEF i, n
  <2>3. QED
    BY <1>1, <1>2, <2>1, <2>2
<1>7. ASSUME NEW w \in Workers, Flush(w)
      PROVE  w = Scheduled
  BY <1>7 DEF Flush, Alone, Resting
<1>8. QED
  BY TableCases, <1>3, <1>4, <1>5, <1>6, <1>7

LEMMA UntouchedStep ==
    ASSUME IInv, RowsInv, MirrorInv, NoneEnabled, [Next]_vars
    PROVE  Untouched'
<1> USE ConstantsAssumption DEF IInv, SafeInv, MirrorInv
<1> SUFFICES ASSUME NEW j \in Issues, todo'[Scheduled][j] # 0
             PROVE  /\ step'[Scheduled] \in {"sync", "relook", "write"}
                    /\ draftRows'[j] = rows'[j] /\ rows'[j].modified <= todo'[Scheduled][j]
  BY DEF Untouched
<1>1. Scheduled \in Workers
  BY DEF Workers
<1>2. ASSUME todo'[Scheduled][j] = todo[Scheduled][j], UNCHANGED <<rows, draftRows>>,
             step'[Scheduled] = step[Scheduled] \/ step'[Scheduled] \in {"sync", "relook", "write"}
      PROVE  /\ step'[Scheduled] \in {"sync", "relook", "write"}
             /\ draftRows'[j] = rows'[j] /\ rows'[j].modified <= todo'[Scheduled][j]
  BY <1>2 DEF Untouched
<1>3. CASE Quiet
  BY <1>2, <1>3 DEF Quiet, db, task
<1>4. CASE Fetch(Scheduled)
  <2>1. lock = None
    BY <1>4 DEF Alone, Fetch
  <2>2. draftRows[j] = rows[j] /\ rows[j].modified <= Len(history[j])
    BY <2>1 DEF DraftIsCommitted, Between
  <2>3. todo'[Scheduled][j] = Len(history[j]) /\ step'[Scheduled] = "sync"
        /\ UNCHANGED <<rows, draftRows>>
    BY <1>1, <1>4 DEF Fetch, Goto, TypeOK, db
  <2>4. QED
    BY <2>2, <2>3
<1>5. CASE PollStarts(Scheduled)
  <2>1. step[Scheduled] = "idle" /\ todo' = todo
    BY <1>1, <1>5 DEF PollStarts, Resting
  <2>2. QED
    BY <2>1 DEF Untouched
<1>6. CASE (\E i \in Issues : Lookup(Scheduled, i)) \/ Relook(Scheduled)
  BY <1>1, <1>2, <1>6 DEF Lookup, Relook, Goto, TypeOK, db
<1>7. CASE Flush(Scheduled) \/ NothingToFlush(Scheduled)
  <2> DEFINE i == cur[Scheduled]
  <2>1. /\ i \in Issues
        /\ \A k \in Issues \ {i} : draftRows'[k] = draftRows[k]
    BY <1>7, WriteEffect
  <2>2. /\ todo' = [todo EXCEPT ![Scheduled][i] = 0] /\ step'[Scheduled] = "sync"
        /\ rows' = rows
    BY <1>1, <1>7 DEF Flush, NothingToFlush, NextIssue, Goto, TypeOK, db
  <2> HIDE DEF i
  <2>3. j # i /\ todo'[Scheduled][j] = todo[Scheduled][j]
    BY <1>1, <2>1, <2>2 DEF TypeOK
  <2>4. QED
    BY <2>1, <2>2, <2>3 DEF Untouched
<1>8. CASE Commit(Scheduled)
  BY <1>8 DEF Commit
<1>9. CASE Dispatch(Scheduled)
  BY <1>9 DEF Dispatch, Untouched
<1>10. CASE FailPhase(Scheduled)
  BY <1>1, <1>10 DEF FailPhase, DropSession, TypeOK
<1>11. CASE Crash
  BY <1>1, <1>11 DEF Crash
<1>12. QED
  BY AloneCases, <1>3, <1>4, <1>5, <1>6, <1>7, <1>8, <1>9, <1>10, <1>11 DEF PollStep

LEMMA NewsIsNewerStep ==
    ASSUME IInv, RowsInv, MirrorInv, NoneEnabled, [Next]_vars
    PROVE  NewsIsNewer'
<1> USE ConstantsAssumption DEF IInv, SafeInv, MirrorInv
<1> SUFFICES ASSUME step'[Scheduled] # "dispatch", NEW e \in events'[Scheduled]
             PROVE  rows'[e.issue].modified < draftRows'[e.issue].modified
  BY DEF NewsIsNewer
<1>1. Scheduled \in Workers
  BY DEF Workers
<1>2. ASSUME events' = events, UNCHANGED <<rows, draftRows>>, step[Scheduled] # "dispatch"
      PROVE  rows'[e.issue].modified < draftRows'[e.issue].modified
  BY <1>2 DEF NewsIsNewer
<1>3. CASE Quiet
  BY <1>2, <1>3 DEF Quiet, db, task
<1>4. CASE PollStarts(Scheduled) \/ Fetch(Scheduled)
  BY <1>1, <1>2, <1>4 DEF PollStarts, Fetch, Resting, db
<1>5. CASE (\E i \in Issues : Lookup(Scheduled, i)) \/ Relook(Scheduled)
  BY <1>2, <1>5 DEF Lookup, Relook, db
<1>6. CASE Flush(Scheduled) \/ NothingToFlush(Scheduled)
  <2> DEFINE i == cur[Scheduled]
             n == todo[Scheduled][i]
             new == RowFor(i, n)
  <2>1. /\ i \in Issues /\ n \in 1..Len(history[i])
        /\ draftRows[i] = rows[i] /\ rows[i].modified <= n
        /\ draftRows'[i].modified = n
        /\ \A k \in Issues \ {i} : draftRows'[k] = draftRows[k]
        /\ NewEvents(Scheduled, i, new) # {} => rows[i].modified < n
    BY <1>6, WriteEffect
  <2>2. new \in Row /\ new.status \in Status
    BY <2>1, RowForType
  <2>3. step[Scheduled] = "write" /\ rows' = rows
        /\ events'[Scheduled] = events[Scheduled] \cup NewEvents(Scheduled, i, new)
    BY <1>1, <1>6 DEF Flush, NothingToFlush, TypeOK, db
  <2> HIDE DEF new
  <2>4. CASE e \in NewEvents(Scheduled, i, new)
    <3>1. e.issue = i
      BY <1>1, <2>1, <2>2, <2>4, NewEventsType
    <3>2. QED
      BY <2>1, <2>3, <2>4, <3>1
  <2>5. CASE e \in events[Scheduled]
    <3>1. e.issue \in Issues /\ todo[Scheduled][e.issue] = 0
      BY <1>1, <2>3, <2>5 DEF EventsAreCommittable, TypeOK, Event
    <3>2. e.issue # i
      BY <2>1, <3>1
    <3>3. QED
      BY <2>1, <2>3, <2>5, <3>1, <3>2 DEF NewsIsNewer
  <2>6. QED
    BY <2>3, <2>4, <2>5
<1>7. CASE Commit(Scheduled)
  <2>1. step'[Scheduled] = "dispatch"
    <3>1. phase[Scheduled] # "backfill"
      BY DEF Alone
    <3>2. QED
      BY <1>1, <1>7, <3>1 DEF Commit, AfterSession, Goto, TypeOK
  <2>2. QED
    BY <2>1
<1>8. CASE Dispatch(Scheduled) \/ FailPhase(Scheduled)
  BY <1>1, <1>8 DEF Dispatch, FailPhase, TypeOK
<1>9. CASE Crash
  BY <1>1, <1>9 DEF Crash
<1>10. QED
  BY AloneCases, <1>3, <1>4, <1>5, <1>6, <1>7, <1>8, <1>9 DEF PollStep

LEMMA InitMirror == Init => MirrorInv
<1> SUFFICES ASSUME Init PROVE MirrorInv
  OBVIOUS
<1>1. Scheduled \in Workers
  BY DEF Workers
<1>2. Alone /\ Loaded
  BY <1>1, ConstantsAssumption DEF Init, Alone, Loaded
<1>3. Between
  <2>1. \A i \in Issues : rows[i] = NoRow /\ draftRows[i] = NoRow /\ Len(history[i]) = 0
    BY DEF Init
  <2>2. QED
    BY <2>1 DEF Between, NoRow
<1>4. Untouched /\ NewsIsNewer
  BY <1>1 DEF Init, Untouched, NewsIsNewer
<1>5. QED
  BY <1>2, <1>3, <1>4 DEF MirrorInv

LEMMA MirrorInvariant ==
    Spec /\ []NoneEnabled => [](IInv /\ RowsInv /\ MirrorInv)
<1>1. Init => IInv /\ RowsInv /\ MirrorInv
  BY InitSafe, InitRows, InitMirror
<1>2. IInv /\ RowsInv /\ MirrorInv /\ NoneEnabled /\ [Next]_vars
        => (IInv /\ RowsInv /\ MirrorInv)'
  <2> SUFFICES ASSUME IInv, RowsInv, MirrorInv, NoneEnabled, [Next]_vars
               PROVE  (IInv /\ RowsInv /\ MirrorInv)'
    OBVIOUS
  <2>1. IInv' /\ RowsInv'
    BY StepSafe, RowsStep
  <2>2. Alone' /\ Loaded'
    BY AloneStep, LoadedStep DEF MirrorInv
  <2>3. Between' /\ Untouched' /\ NewsIsNewer'
    BY BetweenStep, UntouchedStep, NewsIsNewerStep
  <2>4. QED
    BY <2>1, <2>2, <2>3 DEF MirrorInv
<1>3. QED
  BY <1>1, <1>2, PTL DEF Spec

\* The variables of IncidentMirror, as GraphSync has them.
mLatest == [i \in Issues |-> Len(history[i])]
mShown == [i \in Issues |-> rows[i].modified]
mPending == {e.issue : e \in IF step[Scheduled] = "dispatch" THEN events[Scheduled] ELSE {}}
mTold == [i \in Issues |-> Len(sent[i])]

\* A step of Graph's or the admin's side: Microsoft publishes, or nothing the
\* mirror shows changes.
LEMMA MirrorPublishes ==
    ASSUME TypeOK, Quiet, [Next]_vars
    PROVE  \/ \E i \in Issues : mLatest' = [mLatest EXCEPT ![i] = @ + 1]
           \/ mLatest' = mLatest
<1>1. CASE UNCHANGED history
  BY <1>1 DEF mLatest
<1>2. ASSUME NEW i \in Issues, NEW v \in Versions, GraphPublish(i, v)
      PROVE  mLatest' = [mLatest EXCEPT ![i] = @ + 1]
  <2> DEFINE V == [raw : RawStatus, resolved : BOOLEAN]
  <2>1. v \in V /\ history \in [Issues -> Seq(V)] /\ history' = [history EXCEPT ![i] = Append(@, v)]
    BY <1>2, ConstantsAssumption DEF GraphPublish, TypeOK
  <2> HIDE DEF V
  <2>2. Len(Append(history[i], v)) = Len(history[i]) + 1
    BY <2>1
  <2>3. QED
    BY <2>1, <2>2 DEF mLatest
<1>3. QED
  BY <1>1, <1>2 DEF Next, Environment, Poll, WindowMoves, GrowsOld, PollStarts, Fetch, Lookup,
     Relook, Flush, NothingToFlush, InsertConflict, PhaseFails, FailPhase, Commit, Dispatch,
     Toggle, ScheduleFollowUps, Crash, vars, graph

\* Committing a phase shows newer versions and leaves only issues it changed to announce.
LEMMA MirrorShows ==
    ASSUME IInv, MirrorInv, Commit(Scheduled)
    PROVE  /\ mPending = {} /\ mLatest' = mLatest /\ mTold' = mTold
           /\ mShown' \in [Issues -> Nat]
           /\ \A i \in Issues :
                \/ mShown'[i] = mShown[i]
                \/ mShown[i] < mShown'[i] /\ mShown'[i] <= mLatest[i]
           /\ mPending' \subseteq {i \in Issues : mShown'[i] # mShown[i]}
<1> USE ConstantsAssumption DEF IInv, SafeInv, MirrorInv
<1>1. Scheduled \in Workers /\ step[Scheduled] = "sync" /\ step'[Scheduled] = "dispatch"
  BY DEF Workers, Commit, AfterSession, Alone, Goto, TypeOK
<1>2. UNCHANGED <<history, sent, events>>
  BY DEF Commit, graph
<1>3. \A i \in Issues :
        /\ rows[i].modified \in Nat /\ draftRows[i].modified \in Nat /\ Len(history[i]) \in Nat
        /\ rows[i].modified <= draftRows[i].modified /\ draftRows[i].modified <= Len(history[i])
  BY DEF Between, TypeOK, Row
<1>4. rows' = draftRows
  BY DEF Commit, Alone, DraftIsCommitted
<1>5. mPending = {}
  BY <1>1 DEF mPending
<1>6. \A i \in Issues :
        /\ mShown'[i] \in Nat
        /\ \/ mShown'[i] = mShown[i]
           \/ mShown[i] < mShown'[i] /\ mShown'[i] <= mLatest[i]
  BY <1>3, <1>4 DEF mShown, mLatest
<1>7. mPending' \subseteq {i \in Issues : mShown'[i] # mShown[i]}
  <2> SUFFICES ASSUME NEW e \in events[Scheduled]
               PROVE  e.issue \in Issues /\ mShown'[e.issue] # mShown[e.issue]
    BY <1>1, <1>2 DEF mPending
  <2>1. e.issue \in Issues
    BY <1>1 DEF TypeOK, Event
  <2>2. rows[e.issue].modified < draftRows[e.issue].modified
    BY <1>1 DEF NewsIsNewer
  <2>3. QED
    BY <1>3, <1>4, <2>1, <2>2 DEF mShown
<1>8. QED
  BY <1>2, <1>5, <1>6, <1>7 DEF mShown, mLatest, mTold

\* A dispatch tells each issue pending once.
LEMMA MirrorTells ==
    ASSUME IInv, MirrorInv, Dispatch(Scheduled)
    PROVE  /\ mTold' = [i \in Issues |-> IF i \in mPending THEN mTold[i] + 1 ELSE mTold[i]]
           /\ mPending' = {} /\ mLatest' = mLatest /\ mShown' = mShown
<1> USE ConstantsAssumption DEF IInv, SafeInv
<1>1. Scheduled \in Workers /\ step[Scheduled] = "dispatch" /\ events'[Scheduled] = {}
      /\ UNCHANGED <<history, rows>>
  BY DEF Workers, Dispatch, TypeOK, graph, db
<1>2. mPending = {e.issue : e \in events[Scheduled]}
  BY <1>1 DEF mPending
<1>3. ASSUME NEW i \in Issues
      PROVE  Len(sent'[i]) = IF i \in mPending THEN Len(sent[i]) + 1 ELSE Len(sent[i])
  <2> DEFINE mine == {e \in events[Scheduled] : e.issue = i}
             N == [status : Status, new : BOOLEAN]
  <2>1. sent'[i] = Announce(sent[i], mine) /\ mine \in SUBSET Event /\ sent[i] \in Seq(N)
    BY <1>1 DEF Dispatch, TypeOK
  <2>2. i \in mPending <=> mine # {}
    BY <1>2
  <2>3. CASE mine = {}
    BY <2>1, <2>2, <2>3, AnnounceAppends
  <2>4. CASE mine # {}
    <3>1. PICK e \in mine :
            Announce(sent[i], mine) = Append(sent[i], [status |-> e.status, new |-> e.new])
      BY <2>1, <2>4, AnnounceAppends
    <3> DEFINE n == [status |-> e.status, new |-> e.new]
    <3>2. n \in N
      BY <2>1 DEF Event
    <3>3. Announce(sent[i], mine) = Append(sent[i], n)
      BY <3>1
    <3> HIDE DEF n, N, mine
    <3>4. QED
      BY <2>1, <2>2, <2>4, <3>2, <3>3
  <2>5. QED
    BY <2>3, <2>4
<1>4. mPending' = {}
  BY <1>1 DEF mPending
<1>5. QED
  BY <1>1, <1>3, <1>4 DEF mTold, mLatest, mShown

\* Everything else the poll does leaves the mirror alone, or loses what was pending.
LEMMA MirrorStays ==
    ASSUME IInv, MirrorInv, PollStep \/ Crash, ~Commit(Scheduled), ~Dispatch(Scheduled)
    PROVE  /\ mLatest' = mLatest /\ mShown' = mShown /\ mTold' = mTold
           /\ mPending' = {} \/ mPending' = mPending
<1> USE ConstantsAssumption DEF IInv, SafeInv, MirrorInv
<1>1. Scheduled \in Workers
  BY DEF Workers
<1>2. UNCHANGED <<history, rows, sent>>
  BY DEF PollStep, PollStarts, Fetch, Lookup, Relook, Flush, NothingToFlush, FailPhase, Crash,
     RollbackDB, graph, db
<1>3. CASE FailPhase(Scheduled) \/ Crash
  <2>1. events'[Scheduled] = {}
    BY <1>1, <1>3 DEF FailPhase, Crash, TypeOK
  <2>2. QED
    BY <1>2, <2>1 DEF mLatest, mShown, mTold, mPending
<1>4. CASE ~FailPhase(Scheduled) /\ ~Crash
  <2>1. step'[Scheduled] # "dispatch"
    BY <1>1, <1>4 DEF PollStep, PollStarts, Fetch, Lookup, Relook, Flush, NothingToFlush,
       NextIssue, Goto, TypeOK
  <2>2. QED
    BY <1>2, <2>1 DEF mLatest, mShown, mTold, mPending
<1>5. QED
  BY <1>3, <1>4

\* While no service gets enabled, the incident poll implements IncidentMirror:
\* the page may lag and skip versions but never goes back, and subscribers hear
\* of an issue at most once per version shown, never before it was shown and
\* never again after a failure or a crash lost the message.
THEOREM PollImplementsMirror == Spec /\ []NoneEnabled => ImplementsMirror
<1> USE DEF mLatest, mShown, mPending, mTold
<1>1. Init => Mirror!Init
  <2> SUFFICES ASSUME Init PROVE Mirror!Init
    OBVIOUS
  <2>1. Scheduled \in Workers
    BY DEF Workers
  <2>2. \A i \in Issues : Len(history[i]) = 0 /\ rows[i].modified = 0 /\ Len(sent[i]) = 0
    BY DEF Init, NoRow
  <2>3. events[Scheduled] = {}
    BY <2>1 DEF Init
  <2>4. QED
    BY <2>2, <2>3 DEF Mirror!Init
<1>2. IInv /\ RowsInv /\ MirrorInv /\ NoneEnabled /\ [Next]_vars
        => [Mirror!Next]_(Mirror!vars)
  <2> SUFFICES ASSUME IInv, RowsInv, MirrorInv, NoneEnabled, [Next]_vars
               PROVE  [Mirror!Next]_(Mirror!vars)
    OBVIOUS
  <2> USE DEF IInv, MirrorInv
  <2>1. CASE Quiet
    <3>1. mShown' = mShown /\ mPending' = mPending /\ mTold' = mTold
      BY <2>1 DEF Quiet, db, task
    <3>2. \/ \E i \in Issues : mLatest' = [mLatest EXCEPT ![i] = @ + 1]
          \/ mLatest' = mLatest
      BY <2>1, MirrorPublishes
    <3>3. QED
      BY <3>1, <3>2 DEF Mirror!Next, Mirror!vars, Mirror!Publish
  <2>2. CASE Commit(Scheduled)
    BY <2>2, MirrorShows DEF Mirror!Next, Mirror!Show
  <2>3. CASE Dispatch(Scheduled)
    BY <2>3, MirrorTells DEF Mirror!Next, Mirror!Tell
  <2>4. CASE (PollStep \/ Crash) /\ ~Commit(Scheduled) /\ ~Dispatch(Scheduled)
    BY <2>4, MirrorStays DEF Mirror!Next, Mirror!Lose, Mirror!vars
  <2>5. QED
    BY <2>1, <2>2, <2>3, <2>4, AloneCases
<1>3. QED
  BY <1>1, <1>2, MirrorInvariant, PTL DEF Spec, Mirror!Spec, ImplementsMirror

MirrorType ==
    /\ mLatest \in [Issues -> Nat] /\ mShown \in [Issues -> Nat] /\ mTold \in [Issues -> Nat]

\* What IncidentMirror promises follows from its actions alone.
LEMMA MirrorPromise == Mirror!Spec => [](MirrorType /\ Mirror!AtMostOncePerVersion)
<1> USE DEF mLatest, mShown, mPending, mTold, MirrorType
<1> DEFINE Promise == MirrorType /\ Mirror!AtMostOncePerVersion
<1>1. Mirror!Init => Promise
  <2> SUFFICES ASSUME Mirror!Init PROVE Promise
    OBVIOUS
  <2>1. /\ mLatest = [i \in Issues |-> 0] /\ mShown = [i \in Issues |-> 0]
        /\ mTold = [i \in Issues |-> 0] /\ mPending = {}
    BY DEF Mirror!Init
  <2> HIDE DEF mLatest, mShown, mPending, mTold
  <2>2. \A i \in Issues : mShown[i] <= mLatest[i]
                          /\ mTold[i] + (IF i \in mPending THEN 1 ELSE 0) <= mShown[i]
    BY <2>1
  <2>3. MirrorType
    BY <2>1
  <2>4. QED
    BY <2>2, <2>3 DEF Mirror!AtMostOncePerVersion, mLatest, mShown, mPending, mTold
<1>2. Promise /\ [Mirror!Next]_(Mirror!vars) => Promise'
  <2> SUFFICES ASSUME Promise, [Mirror!Next]_(Mirror!vars)
               PROVE  Promise'
    OBVIOUS
  <2>1. \A i \in Issues : mShown[i] <= mLatest[i]
                          /\ mTold[i] + (IF i \in mPending THEN 1 ELSE 0) <= mShown[i]
    BY DEF Mirror!AtMostOncePerVersion
  <2>2. \/ \E i \in Issues : /\ mLatest' = [mLatest EXCEPT ![i] = @ + 1]
                             /\ UNCHANGED <<mShown, mPending, mTold>>
        \/ /\ mPending = {} /\ mShown' \in [Issues -> Nat]
           /\ \A i \in Issues : \/ mShown'[i] = mShown[i]
                                \/ mShown[i] < mShown'[i] /\ mShown'[i] <= mLatest[i]
           /\ mPending' \subseteq {i \in Issues : mShown'[i] # mShown[i]}
           /\ UNCHANGED <<mLatest, mTold>>
        \/ /\ mTold' = [i \in Issues |-> IF i \in mPending THEN mTold[i] + 1 ELSE mTold[i]]
           /\ mPending' = {} /\ UNCHANGED <<mLatest, mShown>>
        \/ mPending' = {} /\ UNCHANGED <<mLatest, mShown, mTold>>
        \/ UNCHANGED <<mLatest, mShown, mPending, mTold>>
    BY DEF Mirror!Next, Mirror!Publish, Mirror!Show, Mirror!Tell, Mirror!Lose, Mirror!vars
  <2> HIDE DEF mLatest, mShown, mPending, mTold
  <2>3. MirrorType'
    BY <2>2
  <2>4. \A i \in Issues : mShown'[i] <= mLatest'[i]
                          /\ mTold'[i] + (IF i \in mPending' THEN 1 ELSE 0) <= mShown'[i]
    BY <2>1, <2>2
  <2>5. QED
    BY <2>3, <2>4 DEF Mirror!AtMostOncePerVersion, mLatest, mShown, mPending, mTold
<1>3. QED
  BY <1>1, <1>2, PTL DEF Mirror!Spec

\* So the page never shows what Graph has not published, and a subscriber
\* never gets more messages of an issue than versions of it were shown.
THEOREM NoMoreMessagesThanVersions ==
    Spec /\ []NoneEnabled => []Mirror!AtMostOncePerVersion
  BY PollImplementsMirror, MirrorPromise, PTL DEF ImplementsMirror

-----------------------------------------------------------------------------
(* Open incidents have been announced.                                     *)

\* Graph's isResolved agrees with its status as the code maps it.
ResolvedAgrees ==
    \A v \in Versions :
        IF v.resolved
        THEN v.raw \notin {"investigating", "serviceDegradation", "restoringService"}
        ELSE v.raw # "serviceRestored"

\* What phase 3 is syncing was resolved when it was fetched.
ResolvedIsResolved ==
    \A i \in Issues :
        phase[Scheduled] = "resolved" /\ todo[Scheduled][i] # 0
            => history[i][todo[Scheduled][i]].resolved

Published == \A i \in Issues : \A k \in 1..Len(history[i]) : history[i][k] \in Versions

IsOpen(i, r) == ClassOf[i] = "incident" /\ r # NoRow /\ ~r.resolved
Told(i) == sent[i] # <<>> \/ \E e \in events[Scheduled] : e.issue = i

OpenIsTold ==
    faults = 0 => \A i \in Issues : IsOpen(i, rows[i]) \/ IsOpen(i, draftRows[i]) => Told(i)

ToldInv == ResolvedIsResolved /\ Published /\ OpenIsTold

\* Phase 3 fetches resolved issues only, and a fetched version does not change.
LEMMA ResolvedStep ==
    ASSUME IInv, RowsInv, MirrorInv, ResolvedIsResolved, NoneEnabled, [Next]_vars
    PROVE  ResolvedIsResolved'
<1> USE ConstantsAssumption DEF IInv, SafeInv, MirrorInv
<1> SUFFICES ASSUME NEW i \in Issues, phase'[Scheduled] = "resolved", todo'[Scheduled][i] # 0
             PROVE  history'[i][todo'[Scheduled][i]].resolved
  BY DEF ResolvedIsResolved
<1>1. Scheduled \in Workers
  BY DEF Workers
<1>2. /\ Len(history[i]) \in Nat /\ todo[Scheduled][i] \in Nat
      /\ todo[Scheduled][i] <= Len(history[i])
      /\ \A k \in 1..Len(history[i]) : history'[i][k] = history[i][k]
  <2>1. /\ Len(history[i]) \in Nat
        /\ \A k \in 1..Len(history[i]) : history'[i][k] = history[i][k]
    BY HistoryGrows
  <2>2. todo[Scheduled][i] \in Nat /\ todo[Scheduled][i] <= Len(history[i])
    BY <1>1 DEF Fetched, TypeOK
  <2>3. QED
    BY <2>1, <2>2
<1>3. ASSUME phase[Scheduled] = "resolved", todo'[Scheduled][i] = todo[Scheduled][i]
      PROVE  history'[i][todo'[Scheduled][i]].resolved
  <2>1. todo[Scheduled][i] \in 1..Len(history[i]) /\ history[i][todo[Scheduled][i]].resolved
    BY <1>2, <1>3 DEF ResolvedIsResolved
  <2>2. QED
    BY <1>2, <1>3, <2>1
<1>4. CASE Quiet
  BY <1>3, <1>4 DEF Quiet, task
<1>5. CASE PollStarts(Scheduled)
  BY <1>1, <1>5 DEF PollStarts, Goto, TypeOK
<1>6. CASE Fetch(Scheduled)
  <2>1. phase[Scheduled] = "resolved" /\ UNCHANGED history
        /\ todo'[Scheduled][i] = IF Returned(Scheduled, i) /\ Wanted(Scheduled, i)
                                 THEN Len(history[i]) ELSE 0
    BY <1>1, <1>6 DEF Fetch, Goto, graph, TypeOK
  <2>2. Latest(i).resolved /\ todo'[Scheduled][i] = Len(history[i])
    BY <2>1 DEF Returned
  <2>3. QED
    BY <2>1, <2>2 DEF Latest
<1>7. CASE (\E j \in Issues : Lookup(Scheduled, j)) \/ Relook(Scheduled)
  BY <1>1, <1>3, <1>7 DEF Lookup, Relook, Goto, TypeOK
<1>8. CASE Flush(Scheduled) \/ NothingToFlush(Scheduled)
  <2>1. /\ todo' = [todo EXCEPT ![Scheduled][cur[Scheduled]] = 0]
        /\ phase'[Scheduled] = phase[Scheduled]
    BY <1>1, <1>8 DEF Flush, NothingToFlush, NextIssue, Goto, TypeOK
  <2>2. todo'[Scheduled][i] = todo[Scheduled][i]
    BY <1>1, <2>1 DEF TypeOK
  <2>3. QED
    BY <1>3, <2>1, <2>2
<1>9. CASE Commit(Scheduled)
  BY <1>9 DEF Commit
<1>10. CASE Dispatch(Scheduled)
  BY <1>10 DEF Dispatch, Untouched
<1>11. CASE FailPhase(Scheduled)
  BY <1>1, <1>11 DEF FailPhase, DropSession, TypeOK
<1>12. CASE Crash
  BY <1>1, <1>12 DEF Crash
<1>13. QED
  BY AloneCases, <1>4, <1>5, <1>6, <1>7, <1>8, <1>9, <1>10, <1>11, <1>12 DEF PollStep

\* Graph publishes versions of the kinds it has.
LEMMA PublishedStep ==
    ASSUME TypeOK, Published, [Next]_vars
    PROVE  Published'
<1>1. CASE UNCHANGED history
  BY <1>1 DEF Published
<1>2. ASSUME NEW j \in Issues, NEW v \in Versions, GraphPublish(j, v)
      PROVE  Published'
  <2> SUFFICES ASSUME NEW i \in Issues, NEW k \in 1..Len(history'[i])
               PROVE  history'[i][k] \in Versions
    BY DEF Published
  <2> DEFINE V == [raw : RawStatus, resolved : BOOLEAN]
  <2>1. v \in V /\ history \in [Issues -> Seq(V)] /\ history' = [history EXCEPT ![j] = Append(@, v)]
    BY <1>2, ConstantsAssumption DEF GraphPublish, TypeOK
  <2> HIDE DEF V
  <2>2. CASE i = j
    <3>1. history'[i] = Append(history[i], v) /\ history[i] \in Seq(V)
      BY <2>1, <2>2
    <3>2. \/ k \in 1..Len(history[i]) /\ history'[i][k] = history[i][k]
          \/ history'[i][k] = v
      BY <2>1, <3>1
    <3>3. QED
      BY <3>2 DEF Published
  <2>3. CASE i # j
    BY <2>1, <2>3 DEF Published
  <2>4. QED
    BY <2>2, <2>3
<1>3. QED
  BY <1>1, <1>2 DEF Next, Environment, Poll, WindowMoves, GrowsOld, PollStarts, Fetch, Lookup,
     Relook, Flush, NothingToFlush, InsertConflict, PhaseFails, FailPhase, Commit, Dispatch,
     Toggle, ScheduleFollowUps, Crash, vars, graph

\* A fault is counted: without one, no phase of a poll that runs alone fails.
LEMMA NoFaultNoFailure ==
    ASSUME IInv, Alone, Loaded, NoneEnabled, [Next]_vars, faults' = 0
    PROVE  /\ faults = 0
           /\ \/ Quiet
              \/ PollStarts(Scheduled) \/ Fetch(Scheduled) \/ Relook(Scheduled)
              \/ \E i \in Issues : Lookup(Scheduled, i)
              \/ Flush(Scheduled) \/ NothingToFlush(Scheduled)
              \/ Commit(Scheduled) \/ Dispatch(Scheduled)
<1> USE ConstantsAssumption DEF IInv, SafeInv
<1>1. ~Crash /\ \A w \in Workers : ~PhaseFails(w)
  BY DEF Crash, PhaseFails, TypeOK
<1>2. faults' = faults
  BY <1>1 DEF Next, Environment, Poll, GraphPublish, WindowMoves, GrowsOld, PollStarts, Fetch,
     Lookup, Relook, Flush, NothingToFlush, InsertConflict, Commit, Dispatch, Toggle,
     ScheduleFollowUps, vars
<1>3. ASSUME NEW w \in Workers, InsertConflict(w)
      PROVE  FALSE
  <2>1. w = Scheduled /\ step[w] = "write"
    BY <1>3 DEF InsertConflict, Alone, Resting
  <2>2. View(Scheduled) = draftRows /\ seen[Scheduled] = draftRows[cur[Scheduled]]
    BY <2>1, AloneView DEF Loaded
  <2>3. QED
    BY <1>3, <2>1, <2>2 DEF InsertConflict
<1>4. \/ Environment \/ UNCHANGED vars \/ \E s \in Services : Toggle(s)
      \/ \E b \in Backfills : ScheduleFollowUps(b)
      \/ \E w \in Workers :
            \/ PollStarts(w) \/ Fetch(w) \/ (\E i \in Issues : Lookup(w, i)) \/ Relook(w)
            \/ Flush(w) \/ NothingToFlush(w) \/ Commit(w) \/ Dispatch(w)
  BY <1>1, <1>3 DEF Next, Poll
<1>5. ASSUME NEW w \in Workers,
             \/ PollStarts(w) \/ Fetch(w) \/ (\E i \in Issues : Lookup(w, i)) \/ Relook(w)
             \/ Flush(w) \/ NothingToFlush(w) \/ Commit(w) \/ Dispatch(w)
      PROVE  w = Scheduled
  BY <1>5 DEF PollStarts, Fetch, Lookup, Relook, Flush, NothingToFlush, Commit, Dispatch, Alone,
     Resting
<1>6. ASSUME Environment \/ UNCHANGED vars \/ \E s \in Services : Toggle(s)
      PROVE  Quiet
  <2>1. UNCHANGED <<db, task, sent>>
    BY <1>6 DEF Environment, GraphPublish, WindowMoves, GrowsOld, Toggle, vars
  <2>2. \A i \in Issues :
            /\ Len(history'[i]) >= Len(history[i])
            /\ \A k \in 1..Len(history[i]) : history'[i][k] = history[i][k]
    BY HistoryGrows
  <2>3. QED
    BY <2>1, <2>2 DEF Quiet
<1>7. ~\E b \in Backfills : ScheduleFollowUps(b)
  BY DEF ScheduleFollowUps, NoneEnabled
<1>8. QED
  BY <1>2, <1>4, <1>5, <1>6, <1>7

\* A sync that leaves an open incident behind has announced it now or before.
LEMMA WriteTells ==
    ASSUME ResolvedAgrees, IInv, RowsInv, MirrorInv, ResolvedIsResolved, Published,
           Flush(Scheduled), IsOpen(cur[Scheduled], draftRows'[cur[Scheduled]])
    PROVE  \/ IsOpen(cur[Scheduled], draftRows[cur[Scheduled]])
           \/ \E e \in events'[Scheduled] : e.issue = cur[Scheduled]
<1> USE ConstantsAssumption DEF IInv, SafeInv, MirrorInv
<1> DEFINE i == cur[Scheduled]
           n == todo[Scheduled][i]
           new == RowFor(i, n)
<1>1. Scheduled \in Workers /\ step[Scheduled] = "write"
  BY DEF Workers, Flush
<1>2. i \in Issues /\ n \in 1..Len(history[i]) /\ n # 0
  BY <1>1, WritesAVersion
<1>3. draftRows[i] = seen[Scheduled] /\ (isNew[Scheduled] <=> seen[Scheduled] = NoRow)
      /\ draftRows'[i] = new
  BY <1>1, FlushUnraced, WriteUnraced DEF Loaded
<1>4. ClassOf[i] = "incident" /\ ~new.resolved
  BY <1>3 DEF IsOpen
<1>5. phase[Scheduled] \in {"active", "resolved"}
  BY <1>1 DEF Alone, Resting
<1>6. events'[Scheduled] = events[Scheduled] \cup NewEvents(Scheduled, i, new)
  BY <1>1 DEF Flush, TypeOK
<1>7. isNew[Scheduled] => phase[Scheduled] = "active"
  BY <1>2, <1>4, <1>5 DEF ResolvedIsResolved, RowFor
<1>8. CASE isNew[Scheduled] \/ StatusChanged(Scheduled, new)
  <2> DEFINE e == [issue |-> i, status |-> new.status, new |-> isNew[Scheduled]]
  <2>1. NewEvents(Scheduled, i, new) = {e}
    BY <1>4, <1>5, <1>7, <1>8 DEF NewEvents, Notifies, Keeps, StatusChanged
  <2>2. e.issue = i
    OBVIOUS
  <2> HIDE DEF e, new, i
  <2>3. e \in events'[Scheduled]
    BY <1>6, <2>1
  <2>4. QED
    BY <2>2, <2>3 DEF i
<1>9. CASE ~isNew[Scheduled] /\ ~StatusChanged(Scheduled, new)
  <2> DEFINE m == draftRows[i].modified
  <2>1. draftRows[i] # NoRow /\ draftRows[i].status = new.status
    BY <1>3, <1>9 DEF StatusChanged
  <2>2. m \in 1..Len(history[i]) /\ draftRows[i] = RowFor(i, m)
    BY <1>2, <1>4, <2>1 DEF Loaded, RowsInv, IsVersion
  <2>3. history[i][m] \in Versions /\ history[i][n] \in Versions
    BY <1>2, <2>2 DEF Published
  <2>4. /\ draftRows[i].status = IssueStatus(i, history[i][m])
        /\ draftRows[i].resolved = history[i][m].resolved
        /\ new.status = IssueStatus(i, history[i][n]) /\ ~history[i][n].resolved
    BY <1>4, <2>2 DEF RowFor
  <2>5. IssueStatus(i, history[i][n]) # "resolved"
    BY <1>4, <2>3, <2>4 DEF IssueStatus, ResolvedAgrees
  <2>6. history[i][m].resolved => IssueStatus(i, history[i][m]) = "resolved"
    BY <1>4, <2>3 DEF IssueStatus, ResolvedAgrees
  <2>7. ~draftRows[i].resolved
    BY <2>1, <2>4, <2>5, <2>6
  <2>8. QED
    BY <1>4, <2>1, <2>7 DEF IsOpen
<1>10. QED
  BY <1>8, <1>9

LEMMA OpenIsToldStep ==
    ASSUME ResolvedAgrees, IInv, RowsInv, MirrorInv, ToldInv, NoneEnabled, [Next]_vars
    PROVE  OpenIsTold'
<1> USE ConstantsAssumption DEF IInv, SafeInv, MirrorInv, ToldInv
<1> SUFFICES ASSUME faults' = 0, NEW i \in Issues,
                    IsOpen(i, rows'[i]) \/ IsOpen(i, draftRows'[i])
             PROVE  Told(i)'
  BY DEF OpenIsTold, IsOpen
<1>1. Scheduled \in Workers
  BY DEF Workers
<1>2. faults = 0
  BY NoFaultNoFailure
<1>3. ASSUME events[Scheduled] \subseteq events'[Scheduled], sent' = sent,
             IsOpen(i, rows[i]) \/ IsOpen(i, draftRows[i])
      PROVE  Told(i)'
  BY <1>2, <1>3 DEF OpenIsTold, Told
<1>4. CASE Quiet
  BY <1>3, <1>4 DEF Quiet, db, task
<1>5. CASE PollStarts(Scheduled) \/ Fetch(Scheduled)
  BY <1>3, <1>5 DEF PollStarts, Fetch, db
<1>6. CASE Relook(Scheduled) \/ \E j \in Issues : Lookup(Scheduled, j)
  BY <1>3, <1>6 DEF Relook, Lookup, db
<1>7. CASE Flush(Scheduled)
  <2>1. events[Scheduled] \subseteq events'[Scheduled] /\ sent' = sent /\ rows' = rows
    BY <1>1, <1>7 DEF Flush, TypeOK
  <2>2. CASE IsOpen(i, rows'[i])
    BY <1>3, <2>1, <2>2
  <2>3. CASE IsOpen(i, draftRows'[i]) /\ i # cur[Scheduled]
    BY <1>1, <1>3, <1>7, <2>1, <2>3, FlushOthers
  <2>4. CASE IsOpen(i, draftRows'[i]) /\ i = cur[Scheduled]
    <3>1. IsOpen(i, draftRows[i]) \/ \E e \in events'[Scheduled] : e.issue = i
      BY <1>7, <2>4, WriteTells
    <3>2. QED
      BY <1>3, <2>1, <3>1 DEF Told
  <2>5. QED
    BY <2>2, <2>3, <2>4
<1>8. CASE NothingToFlush(Scheduled)
  <2>1. events[Scheduled] \subseteq events'[Scheduled] /\ UNCHANGED <<sent, rows, draftRows>>
    BY <1>1, <1>8 DEF NothingToFlush, TypeOK, db
  <2>2. QED
    BY <1>3, <2>1
<1>9. CASE Commit(Scheduled)
  <2>1. UNCHANGED <<sent, events, draftRows>> /\ rows' = draftRows
    BY <1>9 DEF Commit, Alone, DraftIsCommitted
  <2>2. QED
    BY <1>3, <2>1
<1>10. CASE Dispatch(Scheduled)
  <2> DEFINE mine == {e \in events[Scheduled] : e.issue = i}
  <2>1. /\ sent'[i] = Announce(sent[i], mine) /\ mine \in SUBSET Event
        /\ sent[i] \in Seq([status : Status, new : BOOLEAN])
        /\ UNCHANGED <<rows, draftRows>>
    BY <1>1, <1>10 DEF Dispatch, TypeOK, db
  <2>2. sent[i] # <<>> \/ mine # {}
    BY <1>2, <2>1 DEF OpenIsTold, Told
  <2> HIDE DEF mine
  <2>3. sent'[i] # <<>>
    <3>1. CASE mine = {}
      BY <2>1, <2>2, <3>1, AnnounceAppends
    <3>2. CASE mine # {}
      <4>1. PICK e \in mine :
              Announce(sent[i], mine) = Append(sent[i], [status |-> e.status, new |-> e.new])
        BY <2>1, <3>2, AnnounceAppends
      <4> DEFINE x == [status |-> e.status, new |-> e.new]
                 N == [status : Status, new : BOOLEAN]
      <4>2. x \in N /\ sent[i] \in Seq(N)
        BY <2>1 DEF Event
      <4> HIDE DEF x, N
      <4>3. Append(sent[i], x) # <<>>
        BY <4>2
      <4>4. QED
        BY <2>1, <4>1, <4>3 DEF x
    <3>3. QED
      BY <3>1, <3>2
  <2>4. QED
    BY <2>3 DEF Told
<1>11. QED
  BY NoFaultNoFailure, <1>4, <1>5, <1>6, <1>7, <1>8, <1>9, <1>10

\* While no service gets enabled and Graph's isResolved agrees with its status,
\* every open incident on the page has been announced once the poll rests, if
\* nothing failed (poll_graph_api's comment: "fires on first detection").
THEOREM OpenIsAnnounced ==
    ASSUME ResolvedAgrees
    PROVE  Spec /\ []NoneEnabled => []OpenIncidentWasTold
<1>1. Init => ToldInv
  <2> SUFFICES ASSUME Init PROVE ToldInv
    OBVIOUS
  <2>1. Scheduled \in Workers
    BY DEF Workers
  <2>2. \A i \in Issues : /\ rows[i] = NoRow /\ draftRows[i] = NoRow
                          /\ Len(history[i]) = 0 /\ todo[Scheduled][i] = 0
    BY <2>1 DEF Init
  <2>3. QED
    BY <2>2 DEF ToldInv, ResolvedIsResolved, Published, OpenIsTold, IsOpen
<1>2. (IInv /\ RowsInv /\ MirrorInv) /\ ToldInv /\ NoneEnabled /\ [Next]_vars => ToldInv'
  <2> SUFFICES ASSUME IInv, RowsInv, MirrorInv, ToldInv, NoneEnabled, [Next]_vars
               PROVE  ToldInv'
    OBVIOUS
  <2>1. ResolvedIsResolved'
    BY ResolvedStep DEF ToldInv
  <2>2. Published'
    BY PublishedStep DEF IInv, ToldInv
  <2>3. OpenIsTold'
    BY OpenIsToldStep
  <2>4. QED
    BY <2>1, <2>2, <2>3 DEF ToldInv
<1>3. (IInv /\ RowsInv /\ MirrorInv) /\ ToldInv => OpenIncidentWasTold
  <2> SUFFICES ASSUME IInv, ToldInv, faults = 0, \A w \in Workers : phase[w] = "idle",
                      NEW i \in Issues, IsOpen(i, rows[i])
               PROVE  sent[i] # <<>>
    BY DEF OpenIncidentWasTold, IsOpen
  <2>1. events[Scheduled] = {}
    BY DEF IInv, SafeInv, Resting, Workers
  <2>2. QED
    BY <2>1 DEF ToldInv, OpenIsTold, Told
<1>4. QED
  BY <1>1, <1>2, <1>3, MirrorInvariant, PTL DEF Spec

=============================================================================
