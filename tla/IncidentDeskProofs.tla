-------------------------- MODULE IncidentDeskProofs ---------------------------
(***************************************************************************)
(* What holds of IncidentDesk's tables for every set of issues, incidents, *)
(* posts, tasks and requests: the inductive invariant, and what each step  *)
(* of the desk does to it.  PublishingProofs has the theorems about the    *)
(* whole system.                                                           *)
(***************************************************************************)
EXTENDS IncidentDesk, TLAPS

-----------------------------------------------------------------------------
(* The inductive invariant.                                                *)

TaskType == [at: {"idle", "fetched", "looked", "posting"}, of: Issues \cup {None},
             issue: Issue \cup {None}, seen: Row \cup {NoRow}, known: SUBSET Posts]
RequestType == [at: {"idle", "form", "edit", "translate"}, of: Incidents \cup {None},
                form: Row \cup {NoRow}, old: Row \cup {NoRow}, new: Row \cup {NoRow}]

\* The types of the desk's own variables.
OwnTypeOK ==
    /\ graph \in [Issues -> Issue \cup {None}] /\ polled \subseteq Issues
    /\ row \in [Incidents -> Row \cup {NoRow}]
    /\ phase \in [Incidents -> Status \cup {None}]
    /\ updates \subseteq Update
    /\ task \in [Tasks -> TaskType] /\ req \in [Requests -> RequestType]
    /\ born \in [Incidents -> Status \cup {None}]
    /\ raced \cup stale \cup met \cup reopened \cup edited \subseteq Incidents
    /\ cleared \subseteq Update /\ solved \subseteq Issues

Busy(t) == task[t].at # "idle"

\* A busy task has an issue, and whatever is resolved was seen to be.
TasksShape ==
    /\ \A t \in Tasks : Busy(t) =>
          /\ task[t].of \in Issues /\ task[t].issue \in Issue
          /\ task[t].issue.status = "resolved" => task[t].of \in solved
    /\ \A i \in Issues : graph[i] # None /\ graph[i].status = "resolved" => i \in solved

\* Two tasks that sync one issue have met.
TasksMeet ==
    \A t, u \in Tasks : t # u /\ Busy(t) /\ Busy(u) /\ task[t].of = task[u].of => task[t].of \in met

\* The posts a lone task has selected are still all there are.
PostsKnown ==
    \A t \in Tasks : task[t].at = "posting" /\ task[t].of \notin met => PostsOf(task[t].of) \subseteq task[t].known

\* A form that comes back has kept its title.
RequestOK(q) ==
    /\ q.at # "idle" => q.of \in Incidents
    /\ q.at \in {"form", "edit"} => q.form \in Row
    /\ q.at = "edit" => q.new \in Row /\ q.new.title = q.form.title
    /\ q.at = "translate" => q.old \in Row

RequestsShape == \A r \in Requests : RequestOK(req[r])

Shapes == OwnTypeOK /\ TasksShape /\ TasksMeet /\ PostsKnown /\ RequestsShape

Promises == DraftsStayPrivate /\ PostsAreStoredOnce /\ TimelineMatchesRow

DeskInv == Shapes /\ Promises

-----------------------------------------------------------------------------
(* Rows.                                                                   *)

LEMMA NoRowIsNone == NoRow \notin Row
  BY DEF NoRow, Row

LEMMA EmptyRowType ==
    /\ [NoRow EXCEPT !.marks = {}] \in Row /\ OldRow \in Row
    /\ \A b \in BOOLEAN : [NoRow EXCEPT !.marks = {}, !.resolved = b] \in Row
<1>1. NoRow.title \in Title /\ NoRow.status \in Status
  BY NoticesAssumption, DeskAssumption DEF NoRow, Title, Status
<1>2. QED
  BY <1>1 DEF NoRow, OldRow, Row

LEMMA IdleTypes == IdleTask \in TaskType /\ IdleRequest \in RequestType
  BY DEF IdleTask, IdleRequest, TaskType, RequestType

\* A column is written if it differs from what was read.
LEMMA MergedFields ==
    ASSUME NEW now \in Row, NEW base \in Row, NEW new \in Row
    PROVE  /\ Merged(now, base, new) \in Row
           /\ Merged(now, base, new).status = IF new.status # base.status THEN new.status ELSE now.status
           /\ Merged(now, base, new).resolved = IF new.resolved # base.resolved THEN new.resolved ELSE now.resolved
           /\ Merged(now, base, new).title = IF new.title # base.title THEN new.title ELSE now.title
           /\ Merged(now, base, new).lang = IF new.lang # base.lang THEN new.lang ELSE now.lang
           /\ Merged(now, base, new).marks = IF new.marks # base.marks THEN new.marks ELSE now.marks
<1>1. DOMAIN now = {"status", "resolved", "title", "lang", "marks"}
  BY DEF Row
<1>2. Merged(now, base, new) =
        [status |-> IF new.status # base.status THEN new.status ELSE now.status,
         resolved |-> IF new.resolved # base.resolved THEN new.resolved ELSE now.resolved,
         title |-> IF new.title # base.title THEN new.title ELSE now.title,
         lang |-> IF new.lang # base.lang THEN new.lang ELSE now.lang,
         marks |-> IF new.marks # base.marks THEN new.marks ELSE now.marks]
  BY <1>1 DEF Merged
<1>3. QED
  BY <1>2 DEF Row

\* What a sync wants.
LEMMA WantedFields ==
    ASSUME Shapes, NEW t \in Tasks, Busy(t)
    PROVE  /\ Wanted(t) \in Row
           /\ Wanted(t).status = task[t].issue.status
           /\ Wanted(t).resolved = (task[t].issue.status = "resolved")
           /\ Base(t) # NoRow => Wanted(t).marks = Base(t).marks /\ Wanted(t).lang = Base(t).lang
           /\ Base(t) # NoRow /\ task[t].seen.lang => Wanted(t).title = Base(t).title
           /\ Base(t) \in Row \cup {NoRow}
           /\ task[t].seen \in Row \cup {NoRow} /\ row[task[t].of] \in Row \cup {NoRow}
           /\ task[t].of \in Incidents
<1> DEFINE base == IF Base(t) = NoRow THEN [NoRow EXCEPT !.marks = {}] ELSE Base(t)
           issue == task[t].issue
<1>1. task[t].of \in Incidents /\ task[t].seen \in Row \cup {NoRow} /\ issue \in Issue
  BY DEF Shapes, OwnTypeOK, TasksShape, TaskType, Incidents
<1>2. row[task[t].of] \in Row \cup {NoRow}
  BY <1>1 DEF Shapes, OwnTypeOK
<1>3. Base(t) \in Row \cup {NoRow}
  BY <1>1, <1>2 DEF Base
<1>4. base \in Row
  BY <1>3, EmptyRowType
<1>5. issue.status \in Status /\ [version |-> issue.title, translated |-> FALSE] \in Title
  BY <1>1 DEF Issue, Title
<1> DEFINE title == IF task[t].seen.lang THEN base.title ELSE [version |-> issue.title, translated |-> FALSE]
<1>6. title \in Title /\ base.title \in Title
  BY <1>4, <1>5 DEF Row
<1>7. Wanted(t) = [base EXCEPT !.status = issue.status, !.resolved = issue.status = "resolved", !.title = title]
  BY DEF Wanted
<1> HIDE DEF title, issue
<1>8. base = [status |-> base.status, resolved |-> base.resolved, title |-> base.title,
              lang |-> base.lang, marks |-> base.marks]
  BY <1>4 DEF Row
<1>9. Wanted(t) = [status |-> issue.status, resolved |-> issue.status = "resolved", title |-> title,
                   lang |-> base.lang, marks |-> base.marks]
  <2> HIDE DEF base
  <2>1. QED
    BY <1>7, <1>8
<1>10. Wanted(t) \in Row
  <2> HIDE DEF base
  <2>1. QED
    BY <1>4, <1>5, <1>6, <1>9 DEF Row
<1>11. QED
  BY <1>1, <1>2, <1>3, <1>9, <1>10 DEF title, issue

\* A phase bar that is right: the phase of the newest entry, or while there is none
\* the phase the incident was first stored in.
BarRight(r, p, b) == IF p = None THEN Effective(r) = b ELSE p = Effective(r)

BarOf(i) == IF row[i] = NoRow THEN phase[i] = None ELSE BarRight(row[i], phase[i], born[i])

LEMMA TimelineByBar ==
    /\ TimelineMatchesRow <=> \A i \in Incidents \ (raced \cup reopened) : BarOf(i)
    /\ TimelineMatchesRow' <=> \A i \in Incidents \ (raced' \cup reopened') : BarOf(i)'
  BY DEF TimelineMatchesRow, BarOf, BarRight, LastSegment

-----------------------------------------------------------------------------
(* Steps that write no table.                                              *)

LEMMA InitDesk == DeskInit => DeskInv
<1> SUFFICES ASSUME DeskInit PROVE DeskInv
  OBVIOUS
<1>0. OldRow \in Row
  BY EmptyRowType
<1>1. OldIssue \in Issue /\ OldIssue.status # "resolved"
  <2>1. "active" \in Status /\ 0 \in 0..MaxTitle /\ {} \in SUBSET Posts
    BY DeskAssumption DEF Status
  <2>2. OldIssue \in Issue /\ OldIssue.status # "resolved"
    BY <2>1 DEF OldIssue, Issue
  <2>3. QED
    BY <2>2
<1>2. OwnTypeOK
  <2>1. graph \in [Issues -> Issue \cup {None}] /\ row \in [Incidents -> Row \cup {NoRow}]
        /\ phase \in [Incidents -> Status \cup {None}] /\ born \in [Incidents -> Status \cup {None}]
    BY <1>0, <1>1 DEF DeskInit, Status
  <2>2. task \in [Tasks -> TaskType] /\ req \in [Requests -> RequestType]
    BY IdleTypes DEF DeskInit
  <2>3. QED
    BY <2>1, <2>2 DEF DeskInit, OwnTypeOK, TaskType, RequestType
<1>3. TasksShape /\ TasksMeet /\ PostsKnown /\ RequestsShape
  BY <1>1 DEF DeskInit, TasksShape, TasksMeet, PostsKnown, RequestsShape, RequestOK, Busy, IdleTask, IdleRequest
<1>4. Promises
  <2>1. Effective(OldRow) = "active"
    BY DEF Effective, OldRow, NoRow
  <2>2. DraftsStayPrivate /\ PostsAreStoredOnce
    BY DEF DeskInit, DraftsStayPrivate, PostsAreStoredOnce
  <2>3. TimelineMatchesRow
    BY <2>1, TimelineByBar DEF DeskInit, BarOf, BarRight
  <2>4. QED
    BY <2>2, <2>3 DEF Promises
<1>5. QED
  BY <1>2, <1>3, <1>4 DEF DeskInv, Shapes

\* Where the tables and what is remembered of them stay.
LEMMA KeepsPromises ==
    ASSUME Promises, UNCHANGED <<row, phase, updates, born, raced, reopened, cleared>>,
           met \subseteq met', solved \subseteq solved'
    PROVE  Promises'
<1>1. DraftsStayPrivate'
  BY DEF Promises, DraftsStayPrivate
<1>2. PostsAreStoredOnce'
  BY DEF Promises, PostsAreStoredOnce
<1>3. TimelineMatchesRow'
  BY TimelineByBar DEF Promises, BarOf
<1>4. QED
  BY <1>1, <1>2, <1>3 DEF Promises

LEMMA GraphStep ==
    ASSUME DeskInv, NEW i \in Issues, NEW s \in Status, NEW v \in 0..MaxTitle, NEW p \in SUBSET Posts,
           GraphChanges(i, s, v, p)
    PROVE  DeskInv'
<1> DEFINE old == IF graph[i] = None THEN {} ELSE graph[i].posts
           new == [status |-> s, title |-> v, posts |-> old \cup p]
<1>1. new \in Issue
  BY DEF DeskInv, Shapes, OwnTypeOK, Issue
<1>2. graph' = [graph EXCEPT ![i] = new] /\ solved \subseteq solved' /\ solved' \subseteq Issues
      /\ (s = "resolved" => i \in solved')
  BY DEF GraphChanges, DeskInv, Shapes, OwnTypeOK
<1>3. UNCHANGED <<polled, row, phase, updates, task, req, born, raced, stale, met, reopened, edited, cleared>>
  BY DEF GraphChanges, tables
<1> HIDE DEF new
<1>4. OwnTypeOK'
  BY <1>1, <1>2, <1>3 DEF DeskInv, Shapes, OwnTypeOK
<1>5. TasksShape'
  <2>1. new.status = s
    BY DEF new
  <2>2. QED
    BY <1>2, <1>3, <2>1 DEF DeskInv, Shapes, OwnTypeOK, TasksShape, Busy
<1>6. TasksMeet' /\ PostsKnown' /\ RequestsShape'
  BY <1>3 DEF DeskInv, Shapes, TasksMeet, PostsKnown, RequestsShape, Busy, PostsOf
<1>7. QED
  BY <1>2, <1>3, <1>4, <1>5, <1>6, KeepsPromises DEF DeskInv, Shapes

LEMMA FetchStep ==
    ASSUME DeskInv, NEW t \in Tasks, NEW i \in Issues, NEW ok \in BOOLEAN, Fetch(t, i, ok)
    PROVE  DeskInv'
<1>1. /\ Fetched(i, ok) \in Issue
      /\ Fetched(i, ok).status = "resolved" => i \in solved
  <2>1. graph[i] \in Issue /\ (graph[i].status = "resolved" => i \in solved)
    BY DEF Fetch, DeskInv, Shapes, OwnTypeOK, TasksShape
  <2>2. [graph[i] EXCEPT !.posts = {}] \in Issue /\ [graph[i] EXCEPT !.posts = {}].status = graph[i].status
    BY <2>1 DEF Issue
  <2>3. QED
    BY <2>1, <2>2 DEF Fetched
<1> DEFINE new == [IdleTask EXCEPT !.at = "fetched", !.of = i, !.issue = Fetched(i, ok)]
<1>2. /\ task' = [task EXCEPT ![t] = new]
      /\ met' \subseteq met \cup {i} /\ met \subseteq met'
      /\ \A u \in Tasks : u # t /\ task[u].of = i => i \in met'
  BY DEF Fetch, Syncing, DeskInv, Shapes, OwnTypeOK
<1>2a. new \in TaskType /\ new.at = "fetched" /\ new.of = i /\ new.issue = Fetched(i, ok)
  BY <1>1, IdleTypes DEF TaskType
<1> HIDE DEF new
<1>3. UNCHANGED <<graph, polled, row, phase, updates, req, born, raced, stale, reopened, edited, cleared, solved>>
  BY DEF Fetch, tables
<1>4. OwnTypeOK'
  BY <1>2, <1>2a, <1>3 DEF DeskInv, Shapes, OwnTypeOK, Incidents
<1>5. TasksShape'
  BY <1>1, <1>2, <1>2a, <1>3 DEF DeskInv, Shapes, OwnTypeOK, TasksShape, Busy
<1>6. TasksMeet'
  BY <1>1, <1>2, <1>2a, <1>3 DEF DeskInv, Shapes, OwnTypeOK, TasksMeet, Busy
<1>7. PostsKnown' /\ RequestsShape'
  BY <1>1, <1>2, <1>2a, <1>3 DEF DeskInv, Shapes, OwnTypeOK, PostsKnown, RequestsShape, Busy, PostsOf
<1>8. QED
  BY <1>2, <1>3, <1>4, <1>5, <1>6, <1>7, KeepsPromises DEF DeskInv, Shapes

LEMMA LookupStep ==
    ASSUME DeskInv, NEW t \in Tasks, Lookup(t)
    PROVE  DeskInv'
<1>0. Busy(t) /\ row[task[t].of] \in Row \cup {NoRow}
  BY WantedFields DEF Lookup, Busy, DeskInv
<1>1. UNCHANGED <<graph, polled, row, phase, updates, req, born, raced, stale, met, reopened, edited, cleared, solved>>
  BY DEF Lookup, tables, ghost
<1>2. OwnTypeOK'
  <2>1. [task[t] EXCEPT !.at = "looked", !.seen = row[task[t].of]] \in TaskType
    BY <1>0 DEF DeskInv, Shapes, OwnTypeOK, TaskType
  <2>2. task' = [task EXCEPT ![t] = [task[t] EXCEPT !.at = "looked", !.seen = row[task[t].of]]]
    BY DEF Lookup, DeskInv, Shapes, OwnTypeOK
  <2>3. QED
    BY <1>1, <2>1, <2>2 DEF DeskInv, Shapes, OwnTypeOK
<1>3. TasksShape' /\ TasksMeet'
  BY <1>0, <1>1 DEF Lookup, DeskInv, Shapes, OwnTypeOK, TasksShape, TasksMeet, Busy
<1>4. PostsKnown' /\ RequestsShape'
  BY <1>0, <1>1 DEF Lookup, DeskInv, Shapes, OwnTypeOK, PostsKnown, RequestsShape, Busy, PostsOf
<1>5. QED
  BY <1>1, <1>2, <1>3, <1>4, KeepsPromises DEF DeskInv, Shapes

LEMMA SelectPostsStep ==
    ASSUME DeskInv, NEW t \in Tasks, SelectPosts(t)
    PROVE  DeskInv'
<1>1. UNCHANGED <<graph, polled, row, phase, updates, req, born, raced, stale, met, reopened, edited, cleared, solved>>
  BY DEF SelectPosts, tables, ghost
<1>2. PostsOf(task[t].of) \subseteq Posts
  BY DEF PostsOf, DeskInv, Shapes, OwnTypeOK, Update
<1>3. OwnTypeOK'
  <2>1. [task[t] EXCEPT !.at = "posting", !.known = PostsOf(task[t].of)] \in TaskType
    BY <1>2 DEF DeskInv, Shapes, OwnTypeOK, TaskType
  <2>2. task' = [task EXCEPT ![t] = [task[t] EXCEPT !.at = "posting", !.known = PostsOf(task[t].of)]]
    BY DEF SelectPosts, DeskInv, Shapes, OwnTypeOK
  <2>3. QED
    BY <1>1, <2>1, <2>2 DEF DeskInv, Shapes, OwnTypeOK
<1>4. TasksShape' /\ TasksMeet'
  BY <1>1 DEF SelectPosts, DeskInv, Shapes, OwnTypeOK, TasksShape, TasksMeet, Busy
<1>5. PostsKnown' /\ RequestsShape'
  BY <1>1 DEF SelectPosts, DeskInv, Shapes, OwnTypeOK, PostsKnown, RequestsShape, Busy, PostsOf
<1>6. QED
  BY <1>1, <1>3, <1>4, <1>5, KeepsPromises DEF DeskInv, Shapes

\* A task that ends leaves the shapes of the others alone.
LEMMA EndTaskShape ==
    ASSUME Shapes, NEW t \in Tasks, Busy(t), EndTask(t), OwnTypeOK',
           UNCHANGED <<graph, req, met, solved>>,
           \A i \in Issues : i \notin met /\ i # task[t].of => PostsOf(i)' \subseteq PostsOf(i)
    PROVE  Shapes'
<1>1. \A u \in Tasks : task'[u] = IF u = t THEN IdleTask ELSE task[u]
  BY DEF EndTask, Shapes, OwnTypeOK
<1>2. TasksShape'
  BY <1>1 DEF Shapes, TasksShape, Busy, IdleTask
<1>3. TasksMeet'
  BY <1>1 DEF Shapes, TasksMeet, Busy, IdleTask
<1>4. PostsKnown'
  <2> SUFFICES ASSUME NEW u \in Tasks, task'[u].at = "posting", task'[u].of \notin met'
               PROVE  PostsOf(task[u].of)' \subseteq task'[u].known
    BY DEF PostsKnown
  <2>1. u # t /\ task'[u] = task[u] /\ Busy(u) /\ task[u].of \in Issues
    BY <1>1 DEF IdleTask, Busy, Shapes, TasksShape
  <2>2. PostsOf(task[u].of) \subseteq task[u].known
    BY <2>1 DEF Shapes, PostsKnown
  <2>3. CASE task[u].of # task[t].of
    BY <2>1, <2>2, <2>3
  <2>4. CASE task[u].of = task[t].of
    BY <2>1, <2>4 DEF Shapes, TasksMeet
  <2>5. QED
    BY <2>3, <2>4
<1>5. RequestsShape'
  BY DEF Shapes, RequestsShape
<1>6. QED
  BY <1>2, <1>3, <1>4, <1>5 DEF Shapes

-----------------------------------------------------------------------------
(* The steps of a sync that write.                                         *)

LEMMA StoredPosts ==
    ASSUME Shapes, NEW t \in Tasks, Busy(t), NEW known
    PROVE  \A u \in Stored(t, known) :
               /\ u \in Update /\ u.of = task[t].of /\ u.post \in task[t].issue.posts \ known
               /\ u.post \in Posts
               /\ u.public => task[t].issue.status = "resolved"
               /\ \A v \in Stored(t, known) : u.post = v.post => u = v
<1>1. task[t].of \in Incidents /\ task[t].issue.posts \subseteq Posts
  BY DEF Shapes, TasksShape, Incidents, Issue
<1>2. ASSUME NEW u \in Stored(t, known)
      PROVE  /\ u = [of |-> task[t].of, post |-> u.post, by |-> t, public |-> task[t].issue.status = "resolved"]
             /\ u.post \in task[t].issue.posts \ known
  BY DEF Stored, Missing, AutoPublish
<1>3. ASSUME NEW u \in Stored(t, known)
      PROVE  /\ u \in Update /\ u.of = task[t].of /\ u.post \in Posts
             /\ u.public => task[t].issue.status = "resolved"
  <2> DEFINE public == task[t].issue.status = "resolved"
  <2>1. u.post \in Posts
    BY <1>1, <1>2
  <2>2. public \in BOOLEAN /\ u = [of |-> task[t].of, post |-> u.post, by |-> t, public |-> public]
    BY <1>2
  <2> HIDE DEF public
  <2>3. u \in Update /\ u.of = task[t].of /\ (u.public => public)
    BY <1>1, <2>1, <2>2 DEF Update
  <2>4. QED
    BY <2>1, <2>3 DEF public
<1>4. \A u, v \in Stored(t, known) : u.post = v.post => u = v
  BY <1>2
<1>5. QED
  BY <1>2, <1>3, <1>4

\* Posts are stored by a task that knows all the posts of the incident.
LEMMA PostsStep ==
    ASSUME DeskInv, NEW t \in Tasks, Busy(t), NEW known,
           task[t].of \in met \/ PostsOf(task[t].of) \subseteq known,
           updates' = updates \cup Stored(t, known), UNCHANGED <<cleared, met, solved>>
    PROVE  /\ updates' \subseteq Update
           /\ \A i \in Issues : i # task[t].of => PostsOf(i)' \subseteq PostsOf(i)
           /\ DraftsStayPrivate' /\ PostsAreStoredOnce'
<1>1. \A u \in Stored(t, known) :
          /\ u \in Update /\ u.of = task[t].of /\ u.post \in task[t].issue.posts \ known
          /\ u.post \in Posts
          /\ u.public => task[t].issue.status = "resolved"
          /\ \A v \in Stored(t, known) : u.post = v.post => u = v
  BY StoredPosts DEF DeskInv
<1>2. updates' \subseteq Update
  BY <1>1 DEF DeskInv, Shapes, OwnTypeOK
<1>3. \A i \in Issues : i # task[t].of => PostsOf(i)' \subseteq PostsOf(i)
  BY <1>1 DEF PostsOf
<1>4. DraftsStayPrivate'
  BY <1>1 DEF DeskInv, Promises, DraftsStayPrivate, Shapes, TasksShape
<1>5. PostsAreStoredOnce'
  <2> SUFFICES ASSUME NEW u \in updates', NEW v \in updates', u.of = v.of, u.post = v.post,
                      u.post # None, u.of \notin met
               PROVE  u = v
    BY DEF PostsAreStoredOnce
  <2>1. CASE u \in updates /\ v \in updates
    BY <2>1 DEF DeskInv, Promises, PostsAreStoredOnce
  <2>2. \A a \in updates, b \in Stored(t, known) : a.of = b.of /\ a.of \notin met => a.post # b.post \/ a.post = None
    BY <1>1 DEF PostsOf
  <2>3. CASE u \in Stored(t, known) /\ v \in Stored(t, known)
    BY <2>3, <1>1
  <2>4. QED
    BY <2>1, <2>2, <2>3
<1>6. QED
  BY <1>2, <1>3, <1>4, <1>5

\* One row is written, and the timeline has its phase.
LEMMA TimelineOneRow ==
    ASSUME Shapes, TimelineMatchesRow, NEW i \in Incidents, NEW new \in Row,
           row' = [row EXCEPT ![i] = new],
           \A j \in Incidents \ {i} : phase'[j] = phase[j] /\ born'[j] = born[j],
           raced \subseteq raced', reopened \subseteq reopened' \cup {i},
           i \notin raced' \cup reopened' => BarRight(new, phase'[i], born'[i])
    PROVE  TimelineMatchesRow'
<1> SUFFICES ASSUME NEW j \in Incidents \ (raced' \cup reopened')
             PROVE  BarOf(j)'
  BY TimelineByBar
<1>1. CASE j = i
  BY <1>1, NoRowIsNone DEF Shapes, OwnTypeOK, BarOf
<1>2. CASE j # i
  <2>1. BarOf(j) /\ row'[j] = row[j] /\ phase'[j] = phase[j] /\ born'[j] = born[j]
    BY <1>2, TimelineByBar DEF Shapes, OwnTypeOK
  <2>2. QED
    BY <2>1 DEF BarOf
<1>3. QED
  BY <1>1, <1>2

\* What a step may do to a translated title and to marks.
TitlesStay ==
    \A i \in Incidents \ (raced' \cup stale') :
        row[i] # NoRow /\ row'[i] # NoRow /\ row[i].lang /\ row[i].title.translated
            => row'[i].title.translated

MarksMarked ==
    \A i \in Incidents :
        row[i] # NoRow /\ row'[i] # NoRow /\ row'[i].marks # row[i].marks
            => \E marks \in SUBSET {"suppressed", "acknowledged"} : Mark(i, marks)

LEMMA SyncWritesStep ==
    ASSUME DeskInv, NEW t \in Tasks, SyncWrites(t)
    PROVE  DeskInv' /\ TitlesStay /\ MarksMarked
<1> DEFINE i == task[t].of
           issue == task[t].issue
           isNew == task[t].seen = NoRow
           moved == ~isNew /\ task[t].seen.status # issue.status
           entry == moved \/ (isNew /\ issue.status = "resolved")
           new == IF Base(t) = NoRow THEN Wanted(t) ELSE Merged(row[i], Base(t), Wanted(t))
<1>1. Busy(t)
  BY DEF SyncWrites, Busy
<1>2. /\ Wanted(t) \in Row
      /\ Wanted(t).status = issue.status
      /\ Wanted(t).resolved = (issue.status = "resolved")
      /\ Base(t) # NoRow => Wanted(t).marks = Base(t).marks /\ Wanted(t).lang = Base(t).lang
      /\ Base(t) # NoRow /\ task[t].seen.lang => Wanted(t).title = Base(t).title
      /\ Base(t) \in Row \cup {NoRow}
      /\ task[t].seen \in Row \cup {NoRow} /\ row[i] \in Row \cup {NoRow}
      /\ i \in Incidents
  BY <1>1, WantedFields DEF DeskInv
<1>3. issue.status \in Status /\ i \in Issues
  BY <1>1 DEF DeskInv, Shapes, TasksShape, Issue
<1>4. Base(t) # NoRow => row[i] \in Row /\ Base(t) \in Row
  BY <1>2 DEF SyncWrites
<1>5. /\ row' = [row EXCEPT ![i] = new]
      /\ phase' = IF entry THEN [phase EXCEPT ![i] = issue.status] ELSE phase
      /\ born' = IF Base(t) = NoRow THEN [born EXCEPT ![i] = issue.status] ELSE born
      /\ updates' = updates \cup Stored(t, PostsOf(i))
      /\ raced' = IF row[i] # task[t].seen THEN raced \cup {i} ELSE raced
      /\ reopened' = IF entry THEN reopened \ {i}
                     ELSE IF Base(t).resolved /\ ~Wanted(t).resolved THEN reopened \cup {i} ELSE reopened
      /\ EndTask(t)
  BY DEF SyncWrites
<1>6. UNCHANGED <<graph, polled, req, stale, met, edited, cleared, solved>>
  BY DEF SyncWrites
<1>7. /\ new \in Row
      /\ Base(t) = NoRow => new = Wanted(t)
      /\ Base(t) # NoRow => new = Merged(row[i], Base(t), Wanted(t))
  BY <1>2, <1>4, MergedFields
<1>8. Base(t) # NoRow =>
          /\ new.status = IF Wanted(t).status # Base(t).status THEN Wanted(t).status ELSE row[i].status
          /\ new.resolved = IF Wanted(t).resolved # Base(t).resolved THEN Wanted(t).resolved ELSE row[i].resolved
          /\ new.title = IF Wanted(t).title # Base(t).title THEN Wanted(t).title ELSE row[i].title
          /\ new.marks = row[i].marks
  BY <1>2, <1>4, MergedFields
<1> HIDE DEF new
<1>9. row'[i] = new /\ \A j \in Incidents : j # i => row'[j] = row[j]
  BY <1>2, <1>5 DEF DeskInv, Shapes, OwnTypeOK
<1>10. i \notin raced' => row[i] = task[t].seen /\ Base(t) = row[i]
  BY <1>5 DEF Base
<1>11. /\ updates' \subseteq Update
       /\ \A j \in Issues : j # i => PostsOf(j)' \subseteq PostsOf(j)
       /\ DraftsStayPrivate' /\ PostsAreStoredOnce'
  BY <1>1, <1>5, <1>6, PostsStep
<1>12. OwnTypeOK'
  <2>1. /\ row' \in [Incidents -> Row \cup {NoRow}] /\ phase' \in [Incidents -> Status \cup {None}]
        /\ born' \in [Incidents -> Status \cup {None}]
    BY <1>2, <1>3, <1>5, <1>7 DEF DeskInv, Shapes, OwnTypeOK
  <2>2. task' \in [Tasks -> TaskType]
    BY <1>5, IdleTypes DEF EndTask, DeskInv, Shapes, OwnTypeOK
  <2>3. raced' \subseteq Incidents /\ reopened' \subseteq Incidents
    BY <1>2, <1>5 DEF DeskInv, Shapes, OwnTypeOK
  <2>4. QED
    BY <1>6, <1>11, <2>1, <2>2, <2>3 DEF DeskInv, Shapes, OwnTypeOK
<1>13. Shapes'
  BY <1>1, <1>5, <1>6, <1>11, <1>12, EndTaskShape DEF DeskInv
<1>14. TimelineMatchesRow'
  <2>1. \A j \in Incidents \ {i} : phase'[j] = phase[j] /\ born'[j] = born[j]
    BY <1>5 DEF DeskInv, Shapes, OwnTypeOK
  <2>2. raced \subseteq raced' /\ reopened \subseteq reopened' \cup {i}
    BY <1>5
  <2>3. ASSUME i \notin raced', i \notin reopened'
        PROVE  BarRight(new, phase'[i], born'[i])
    <3>1. /\ phase'[i] = IF entry THEN issue.status ELSE phase[i]
          /\ born'[i] = IF Base(t) = NoRow THEN issue.status ELSE born[i]
      BY <1>2, <1>5 DEF DeskInv, Shapes, OwnTypeOK
    <3>2. ~entry => i \notin reopened /\ BarOf(i)
      BY <1>2, <1>5, <2>2, <2>3, TimelineByBar DEF DeskInv, Promises
    <3>3. issue.status # None
      BY <1>3, NoticesAssumption, DeskAssumption DEF Status
    <3>4. CASE Base(t) = NoRow
      <4>1. isNew /\ ~moved /\ row[i] = NoRow
        BY <1>10, <2>3, <3>4
      <4>2. Effective(new) = issue.status
        BY <1>2, <1>7, <3>4 DEF Effective
      <4>3. ~entry => phase[i] = None
        BY <3>2, <4>1 DEF BarOf
      <4>4. QED
        BY <3>1, <3>4, <4>2, <4>3 DEF BarRight
    <3>5. CASE Base(t) # NoRow
      <4>1. ~isNew /\ Base(t) = row[i] /\ task[t].seen = row[i]
        BY <1>10, <2>3, <3>5
      <4>2. Effective(new) = issue.status
        BY <1>2, <1>8, <3>5, <4>1 DEF Effective
      <4>3. CASE moved
        BY <3>1, <3>3, <4>2, <4>3 DEF BarRight
      <4>4. CASE ~moved
        <5>1. row[i].status = issue.status /\ (row[i].resolved => issue.status = "resolved")
          BY <1>2, <1>5, <2>3, <4>1, <4>4
        <5>2. Effective(row[i]) = issue.status
          BY <5>1 DEF Effective
        <5>3. QED
          BY <3>1, <3>2, <3>5, <4>1, <4>2, <4>4, <5>2 DEF BarOf, BarRight
      <4>5. QED
        BY <4>3, <4>4
    <3>6. QED
      BY <3>4, <3>5
  <2>4. QED
    BY <1>2, <1>5, <1>7, <2>1, <2>2, <2>3, TimelineOneRow DEF DeskInv, Promises
<1>15. TitlesStay
  BY <1>2, <1>8, <1>9, <1>10 DEF TitlesStay
<1>16. MarksMarked
  <2>1. Base(t) = NoRow => row[i] = NoRow
    BY DEF Base
  <2>2. QED
    BY <1>2, <1>8, <1>9, <2>1 DEF MarksMarked
<1>17. QED
  BY <1>11, <1>13, <1>14, <1>15, <1>16 DEF DeskInv, Promises

LEMMA InsertPostsStep ==
    ASSUME DeskInv, NEW t \in Tasks, InsertPosts(t)
    PROVE  DeskInv'
<1>1. Busy(t)
  BY DEF InsertPosts, Busy
<1>2. EndTask(t) /\ updates' = updates \cup Stored(t, task[t].known)
      /\ UNCHANGED <<graph, polled, row, phase, req, born, raced, stale, met, reopened, edited, cleared, solved>>
  BY DEF InsertPosts, ghost
<1>3. task[t].of \in met \/ PostsOf(task[t].of) \subseteq task[t].known
  BY DEF InsertPosts, DeskInv, Shapes, PostsKnown
<1>4. /\ updates' \subseteq Update
      /\ \A i \in Issues : i # task[t].of => PostsOf(i)' \subseteq PostsOf(i)
      /\ DraftsStayPrivate' /\ PostsAreStoredOnce'
  BY <1>1, <1>2, <1>3, PostsStep
<1>5. task' \in [Tasks -> TaskType]
  BY <1>2, IdleTypes DEF EndTask, DeskInv, Shapes, OwnTypeOK
<1>6. OwnTypeOK'
  BY <1>2, <1>4, <1>5 DEF DeskInv, Shapes, OwnTypeOK
<1>7. Shapes'
  BY <1>1, <1>2, <1>4, <1>6, EndTaskShape DEF DeskInv
<1>8. TimelineMatchesRow'
  BY <1>2, TimelineByBar DEF DeskInv, Promises, BarOf
<1>9. QED
  BY <1>4, <1>7, <1>8 DEF DeskInv, Promises

\* A sync that fails or is stopped.
LEMMA StopStep ==
    ASSUME DeskInv, NEW t \in Tasks, SyncFails(t) \/ SyncStops(t)
    PROVE  DeskInv'
<1>1. Busy(t)
  BY DEF SyncFails, SyncStops, Busy, DeskInv, Shapes, OwnTypeOK, TaskType
<1>2. EndTask(t) /\ UNCHANGED <<graph, polled, row, phase, updates, req, born, raced, stale, met, reopened, edited, cleared, solved>>
  BY DEF SyncFails, SyncStops, tables, ghost
<1>3. task' \in [Tasks -> TaskType]
  BY <1>2, IdleTypes DEF EndTask, DeskInv, Shapes, OwnTypeOK
<1>4. OwnTypeOK'
  BY <1>2, <1>3 DEF DeskInv, Shapes, OwnTypeOK
<1>5. \A i \in Issues : PostsOf(i)' = PostsOf(i)
  BY <1>2 DEF PostsOf
<1>6. Shapes'
  BY <1>1, <1>2, <1>4, <1>5, EndTaskShape DEF DeskInv
<1>7. QED
  BY <1>2, <1>6, KeepsPromises DEF DeskInv

-----------------------------------------------------------------------------
(* What operators do.                                                      *)

\* A step that starts or ends no sync, and takes no post in, keeps the shapes.
LEMMA ShapesStay ==
    ASSUME Shapes, OwnTypeOK', UNCHANGED <<graph, task, met, solved>>,
           \A i \in Issues : PostsOf(i)' \subseteq PostsOf(i), RequestsShape'
    PROVE  Shapes'
<1>1. TasksShape' /\ TasksMeet'
  BY DEF Shapes, TasksShape, TasksMeet, Busy
<1>2. PostsKnown'
  BY DEF Shapes, PostsKnown, TasksShape, Busy
<1>3. QED
  BY <1>1, <1>2 DEF Shapes

LEMMA CreateStep ==
    ASSUME DeskInv, NEW i \in Manual, NEW resolved \in BOOLEAN, CreateIncident(i, resolved)
    PROVE  DeskInv' /\ TitlesStay /\ MarksMarked
<1> DEFINE new == [NoRow EXCEPT !.marks = {}, !.resolved = resolved]
<1>1. new \in Row /\ i \in Incidents
  BY EmptyRowType DEF Incidents
<1>2. row' = [row EXCEPT ![i] = new] /\ row[i] = NoRow
  BY DEF CreateIncident
<1>2a. row'[i] = new /\ born' = [born EXCEPT ![i] = Effective(new)]
  BY <1>1, <1>2 DEF CreateIncident, DeskInv, Shapes, OwnTypeOK
<1>2b. Effective(new) \in Status
  BY <1>1 DEF Effective, Row, Status
<1> HIDE DEF new
<1>3. UNCHANGED <<graph, polled, phase, updates, task, req, raced, stale, met, reopened, edited, cleared, solved>>
  BY DEF CreateIncident, ghost
<1>4. OwnTypeOK'
  BY <1>1, <1>2, <1>2a, <1>2b, <1>3 DEF DeskInv, Shapes, OwnTypeOK
<1>5. Shapes'
  <2>1. \A j \in Issues : PostsOf(j)' = PostsOf(j)
    BY <1>3 DEF PostsOf
  <2>2. RequestsShape'
    BY <1>3 DEF DeskInv, Shapes, RequestsShape
  <2>3. QED
    BY <1>3, <1>4, <2>1, <2>2, ShapesStay DEF DeskInv
<1>6. TimelineMatchesRow'
  <2>1. i \notin raced \cup reopened => phase[i] = None
    BY <1>1, <1>2, TimelineByBar DEF DeskInv, Promises, BarOf
  <2>2. born'[i] = Effective(new) /\ \A j \in Incidents \ {i} : born'[j] = born[j]
    BY <1>1, <1>2a DEF DeskInv, Shapes, OwnTypeOK
  <2>3. QED
    BY <1>1, <1>2, <1>3, <2>1, <2>2, TimelineOneRow DEF DeskInv, Promises, BarRight
<1>7. DraftsStayPrivate' /\ PostsAreStoredOnce'
  BY <1>3 DEF DeskInv, Promises, DraftsStayPrivate, PostsAreStoredOnce
<1>8. TitlesStay /\ MarksMarked
  BY <1>2 DEF TitlesStay, MarksMarked, DeskInv, Shapes, OwnTypeOK
<1>9. QED
  BY <1>5, <1>6, <1>7, <1>8 DEF DeskInv, Promises

LEMMA AddPostStep ==
    ASSUME DeskInv, NEW r \in Requests, NEW i \in Incidents, NEW notify \in BOOLEAN, AddPost(r, i, notify)
    PROVE  DeskInv'
<1> DEFINE note == Note(r, i)
<1>1. updates' = updates \cup {note} /\ cleared' = cleared \cup {note}
  BY DEF AddPost
<1>2. note \in Update /\ note.post = None /\ note.of = i
  BY DEF Note, Update
<1> HIDE DEF note
<1>3. UNCHANGED <<graph, polled, row, phase, task, req, born, raced, stale, met, reopened, edited, solved>>
  BY DEF AddPost
<1>4. OwnTypeOK'
  BY <1>1, <1>2, <1>3 DEF DeskInv, Shapes, OwnTypeOK
<1>5. Shapes'
  <2>1. \A j \in Issues : PostsOf(j)' \subseteq PostsOf(j)
    BY <1>1, <1>2 DEF PostsOf
  <2>2. RequestsShape'
    BY <1>3 DEF DeskInv, Shapes, RequestsShape
  <2>3. QED
    BY <1>3, <1>4, <2>1, <2>2, ShapesStay DEF DeskInv
<1>6. DraftsStayPrivate'
  BY <1>1, <1>3 DEF DeskInv, Promises, DraftsStayPrivate
<1>7. PostsAreStoredOnce'
  BY <1>1, <1>2, <1>3 DEF DeskInv, Promises, PostsAreStoredOnce
<1>8. TimelineMatchesRow'
  BY <1>3, TimelineByBar DEF DeskInv, Promises, BarOf
<1>9. QED
  BY <1>5, <1>6, <1>7, <1>8 DEF DeskInv, Promises

LEMMA PublishUpdateStep ==
    ASSUME DeskInv, NEW u \in updates, PublishUpdate(u)
    PROVE  DeskInv'
<1> DEFINE p == Published(u)
<1>1. updates' = (updates \ {u}) \cup {p} /\ cleared' = cleared \cup {p}
  BY DEF PublishUpdate
<1>2. p \in Update /\ p.post = u.post /\ p.of = u.of
  BY DEF Published, Update, DeskInv, Shapes, OwnTypeOK
<1> HIDE DEF p
<1>3. UNCHANGED <<graph, polled, row, phase, task, req, born, raced, stale, met, reopened, edited, solved>>
  BY DEF PublishUpdate
<1>4. OwnTypeOK'
  BY <1>1, <1>2, <1>3 DEF DeskInv, Shapes, OwnTypeOK
<1>5. Shapes'
  <2>1. \A j \in Issues : PostsOf(j)' \subseteq PostsOf(j)
    BY <1>1, <1>2 DEF PostsOf
  <2>2. RequestsShape'
    BY <1>3 DEF DeskInv, Shapes, RequestsShape
  <2>3. QED
    BY <1>3, <1>4, <2>1, <2>2, ShapesStay DEF DeskInv
<1>6. DraftsStayPrivate'
  BY <1>1, <1>3 DEF DeskInv, Promises, DraftsStayPrivate
<1>7. PostsAreStoredOnce'
  BY <1>1, <1>2, <1>3 DEF DeskInv, Promises, PostsAreStoredOnce
<1>8. TimelineMatchesRow'
  BY <1>3, TimelineByBar DEF DeskInv, Promises, BarOf
<1>9. QED
  BY <1>5, <1>6, <1>7, <1>8 DEF DeskInv, Promises

LEMMA MarkStep ==
    ASSUME DeskInv, NEW i \in Incidents, NEW marks \in SUBSET {"suppressed", "acknowledged"}, Mark(i, marks)
    PROVE  DeskInv' /\ TitlesStay /\ MarksMarked
<1> DEFINE new == [row[i] EXCEPT !.marks = marks]
<1>1. row' = [row EXCEPT ![i] = new] /\ row[i] \in Row
  BY DEF Mark, DeskInv, Shapes, OwnTypeOK
<1>2. new \in Row /\ new.title = row[i].title /\ Effective(new) = Effective(row[i])
  BY <1>1 DEF Row, Effective
<1> HIDE DEF new
<1>3. UNCHANGED <<graph, polled, phase, updates, task, req, born, raced, stale, met, reopened, edited, cleared, solved>>
  BY DEF Mark, ghost
<1>4. OwnTypeOK'
  BY <1>1, <1>2, <1>3 DEF DeskInv, Shapes, OwnTypeOK
<1>5. Shapes'
  <2>1. \A j \in Issues : PostsOf(j)' = PostsOf(j)
    BY <1>3 DEF PostsOf
  <2>2. RequestsShape'
    BY <1>3 DEF DeskInv, Shapes, RequestsShape
  <2>3. QED
    BY <1>3, <1>4, <2>1, <2>2, ShapesStay DEF DeskInv
<1>6. TimelineMatchesRow'
  <2>1. i \notin raced \cup reopened => BarRight(row[i], phase[i], born[i])
    BY <1>1, TimelineByBar, NoRowIsNone DEF DeskInv, Promises, BarOf
  <2>2. QED
    BY <1>1, <1>2, <1>3, <2>1, TimelineOneRow DEF DeskInv, Promises, BarRight
<1>7. DraftsStayPrivate' /\ PostsAreStoredOnce'
  BY <1>3 DEF DeskInv, Promises, DraftsStayPrivate, PostsAreStoredOnce
<1>8. TitlesStay
  BY <1>1, <1>2 DEF TitlesStay, DeskInv, Shapes, OwnTypeOK
<1>9. MarksMarked
  <2> SUFFICES ASSUME NEW j \in Incidents, row'[j] # row[j]
               PROVE  \E m \in SUBSET {"suppressed", "acknowledged"} : Mark(j, m)
    BY DEF MarksMarked
  <2>1. j = i
    BY <1>1 DEF DeskInv, Shapes, OwnTypeOK
  <2>2. QED
    BY <2>1
<1>10. QED
  BY <1>5, <1>6, <1>7, <1>8, <1>9 DEF DeskInv, Promises

LEMMA DeleteStep ==
    ASSUME DeskInv, NEW i \in Incidents, DeleteIncident(i)
    PROVE  DeskInv' /\ TitlesStay /\ MarksMarked
<1>1. /\ row' = [row EXCEPT ![i] = NoRow] /\ phase' = [phase EXCEPT ![i] = None]
      /\ born' = [born EXCEPT ![i] = None] /\ reopened' = reopened \ {i}
      /\ updates' \subseteq updates
      /\ UNCHANGED <<graph, polled, task, req, raced, stale, met, edited, cleared, solved>>
  BY DEF DeleteIncident
<1>2. OwnTypeOK'
  BY <1>1 DEF DeskInv, Shapes, OwnTypeOK
<1>3. Shapes'
  <2>1. \A j \in Issues : PostsOf(j)' \subseteq PostsOf(j)
    BY <1>1 DEF PostsOf
  <2>2. RequestsShape'
    BY <1>1 DEF DeskInv, Shapes, RequestsShape
  <2>3. QED
    BY <1>1, <1>2, <2>1, <2>2, ShapesStay DEF DeskInv
<1>4. TimelineMatchesRow'
  <2> SUFFICES ASSUME NEW j \in Incidents \ (raced' \cup reopened')
               PROVE  BarOf(j)'
    BY TimelineByBar
  <2>1. CASE j = i
    BY <1>1, <2>1 DEF DeskInv, Shapes, OwnTypeOK, BarOf
  <2>2. CASE j # i
    <3>1. BarOf(j) /\ row'[j] = row[j] /\ phase'[j] = phase[j] /\ born'[j] = born[j]
      BY <1>1, <2>2, TimelineByBar DEF DeskInv, Promises, Shapes, OwnTypeOK
    <3>2. QED
      BY <3>1 DEF BarOf
  <2>3. QED
    BY <2>1, <2>2
<1>5. DraftsStayPrivate' /\ PostsAreStoredOnce'
  BY <1>1 DEF DeskInv, Promises, DraftsStayPrivate, PostsAreStoredOnce
<1>6. TitlesStay /\ MarksMarked
  BY <1>1 DEF TitlesStay, MarksMarked, DeskInv, Shapes, OwnTypeOK
<1>7. QED
  BY <1>3, <1>4, <1>5, <1>6 DEF DeskInv, Promises

-----------------------------------------------------------------------------
(* The requests that wait.                                                 *)

LEMMA RequestStep ==
    ASSUME DeskInv, NEW r \in Requests, NEW q \in RequestType, RequestOK(q), req' = [req EXCEPT ![r] = q],
           UNCHANGED <<graph, polled, row, phase, updates, task, born, raced, stale, met, reopened, edited, cleared, solved>>
    PROVE  DeskInv'
<1>1. OwnTypeOK' /\ RequestsShape'
  BY DEF DeskInv, Shapes, OwnTypeOK, RequestsShape
<1>2. \A j \in Issues : PostsOf(j)' = PostsOf(j)
  BY DEF PostsOf
<1>3. Shapes'
  BY <1>1, <1>2, ShapesStay DEF DeskInv
<1>4. QED
  BY <1>3, KeepsPromises DEF DeskInv

LEMMA IdleRequestOK == RequestOK(IdleRequest)
  BY DEF RequestOK, IdleRequest

LEMMA OpenFormStep ==
    ASSUME DeskInv, NEW r \in Requests, NEW i \in Incidents, OpenForm(r, i)
    PROVE  DeskInv'
<1> DEFINE q == [IdleRequest EXCEPT !.at = "form", !.of = i, !.form = row[i]]
<1>1. row[i] \in Row
  BY DEF OpenForm, DeskInv, Shapes, OwnTypeOK
<1>2. q \in RequestType /\ q.at = "form" /\ q.of = i /\ q.form = row[i]
  BY <1>1, IdleTypes DEF RequestType
<1>3. req' = [req EXCEPT ![r] = q]
  BY DEF OpenForm
<1> HIDE DEF q
<1>4. RequestOK(q)
  BY <1>1, <1>2 DEF RequestOK
<1>5. UNCHANGED <<graph, polled, row, phase, updates, task, born, raced, stale, met, reopened, edited, cleared, solved>>
  BY DEF OpenForm, tables, ghost
<1>6. QED
  BY <1>2, <1>3, <1>4, <1>5, RequestStep

LEMMA StartTranslationStep ==
    ASSUME DeskInv, NEW r \in Requests, NEW i \in Incidents, StartTranslation(r, i)
    PROVE  DeskInv'
<1> DEFINE q == [IdleRequest EXCEPT !.at = "translate", !.of = i, !.old = row[i]]
<1>1. row[i] \in Row
  BY DEF StartTranslation, DeskInv, Shapes, OwnTypeOK
<1>2. q \in RequestType /\ q.at = "translate" /\ q.of = i /\ q.old = row[i]
  BY <1>1, IdleTypes DEF RequestType
<1>3. req' = [req EXCEPT ![r] = q]
  BY DEF StartTranslation
<1> HIDE DEF q
<1>4. RequestOK(q)
  BY <1>1, <1>2 DEF RequestOK
<1>5. UNCHANGED <<graph, polled, row, phase, updates, task, born, raced, stale, met, reopened, edited, cleared, solved>>
  BY DEF StartTranslation, tables, ghost
<1>6. QED
  BY <1>2, <1>3, <1>4, <1>5, RequestStep

LEMMA SubmitFormStep ==
    ASSUME DeskInv, NEW r \in Requests, NEW s \in Status, NEW resolved \in BOOLEAN, SubmitForm(r, s, resolved)
    PROVE  DeskInv'
<1> DEFINE new == [req[r].form EXCEPT !.status = s, !.resolved = resolved]
           q == [req[r] EXCEPT !.at = "edit", !.old = row[req[r].of], !.new = new]
<1>1. req[r] \in RequestType /\ req[r].of \in Incidents /\ req[r].form \in Row
  BY DEF SubmitForm, DeskInv, Shapes, OwnTypeOK, RequestsShape, RequestOK
<1>2. row[req[r].of] \in Row \cup {NoRow}
  BY <1>1 DEF DeskInv, Shapes, OwnTypeOK
<1>3. new \in Row /\ new.title = req[r].form.title
  BY <1>1 DEF Row
<1>4. req' = [req EXCEPT ![r] = q]
  BY DEF SubmitForm, DeskInv, Shapes, OwnTypeOK
<1> HIDE DEF new
<1>5. q \in RequestType /\ q.at = "edit" /\ q.of = req[r].of /\ q.form = req[r].form /\ q.new = new
  BY <1>1, <1>2, <1>3 DEF RequestType
<1> HIDE DEF q
<1>6. RequestOK(q)
  BY <1>1, <1>3, <1>5 DEF RequestOK
<1>7. UNCHANGED <<graph, polled, row, phase, updates, task, born, raced, stale, met, reopened, edited, cleared, solved>>
  BY DEF SubmitForm, tables, ghost
<1>8. QED
  BY <1>4, <1>5, <1>6, <1>7, RequestStep

LEMMA RequestFailsStep ==
    ASSUME DeskInv, NEW r \in Requests, RequestFails(r)
    PROVE  DeskInv'
  BY IdleTypes, IdleRequestOK, RequestStep DEF RequestFails, EndRequest, tables, ghost

\* A request that writes one row, and perhaps its timeline entry, and ends.
LEMMA AnswerShapes ==
    ASSUME Shapes, NEW r \in Requests, NEW i \in Incidents, NEW new \in Row,
           row' = [row EXCEPT ![i] = new], phase' \in [Incidents -> Status \cup {None}], EndRequest(r),
           raced' \cup stale' \cup reopened' \cup edited' \subseteq Incidents,
           UNCHANGED <<graph, polled, updates, task, born, met, cleared, solved>>
    PROVE  Shapes'
<1>1. req' = [req EXCEPT ![r] = IdleRequest] /\ IdleRequest \in RequestType /\ RequestOK(IdleRequest)
  BY IdleTypes, IdleRequestOK DEF EndRequest
<1>2. OwnTypeOK' /\ RequestsShape'
  BY <1>1 DEF Shapes, OwnTypeOK, RequestsShape
<1>3. \A j \in Issues : PostsOf(j)' = PostsOf(j)
  BY DEF PostsOf
<1>4. QED
  BY <1>2, <1>3, ShapesStay

LEMMA WriteEditStep ==
    ASSUME DeskInv, NEW r \in Requests, WriteEdit(r)
    PROVE  DeskInv' /\ TitlesStay /\ MarksMarked
<1> DEFINE q == req[r]
           i == q.of
           merged == Merged(row[i], q.old, q.new)
           new == [merged EXCEPT !.marks = row[i].marks, !.lang = row[i].lang]
<1>1. /\ i \in Incidents /\ q.form \in Row /\ q.new \in Row /\ q.new.title = q.form.title
      /\ q.old \in Row /\ row[i] \in Row
  BY DEF WriteEdit, DeskInv, Shapes, OwnTypeOK, RequestType, RequestsShape, RequestOK
<1>2. /\ row' = [row EXCEPT ![i] = new]
      /\ IF Effective(q.new) # Effective(q.old)
         THEN phase' = [phase EXCEPT ![i] = Effective(q.new)] /\ reopened' = reopened \ {i}
         ELSE UNCHANGED <<phase, reopened>>
      /\ raced' = IF row[i] # q.old THEN raced \cup {i} ELSE raced
      /\ stale' = IF q.form # q.old THEN stale \cup {i} ELSE stale
      /\ edited' \subseteq edited \cup {i} /\ EndRequest(r)
  BY DEF WriteEdit, Edited, Entry, Compared
<1>3. UNCHANGED <<graph, polled, updates, task, born, met, cleared, solved>>
  BY DEF WriteEdit
<1>4. /\ merged \in Row
      /\ merged.status = IF q.new.status # q.old.status THEN q.new.status ELSE row[i].status
      /\ merged.resolved = IF q.new.resolved # q.old.resolved THEN q.new.resolved ELSE row[i].resolved
      /\ merged.title = IF q.new.title # q.old.title THEN q.new.title ELSE row[i].title
  BY <1>1, MergedFields
<1> HIDE DEF merged
<1>5. /\ new \in Row /\ new.status = merged.status /\ new.resolved = merged.resolved
      /\ new.title = merged.title /\ new.marks = row[i].marks
  BY <1>1, <1>4 DEF Row
<1> HIDE DEF new
<1>6. Effective(q.new) \in Status
  BY <1>1 DEF Effective, Row, Status
<1>7. /\ phase' \in [Incidents -> Status \cup {None}]
      /\ raced' \cup stale' \cup reopened' \cup edited' \subseteq Incidents
  BY <1>1, <1>2, <1>6 DEF DeskInv, Shapes, OwnTypeOK
<1>8. Shapes'
  BY <1>1, <1>2, <1>3, <1>5, <1>7, AnswerShapes DEF DeskInv
<1>9. (i \notin raced' => row[i] = q.old /\ i \notin raced) /\ (i \notin stale' => q.form = q.old)
  BY <1>2
<1>10. TimelineMatchesRow'
  <2>1. ASSUME i \notin raced' \cup reopened'
        PROVE  BarRight(new, phase'[i], born'[i])
    <3>1. new.status = q.new.status /\ new.resolved = q.new.resolved /\ Effective(new) = Effective(q.new)
      BY <1>1, <1>4, <1>5, <1>9, <2>1 DEF Effective
    <3>2. CASE Effective(q.new) # Effective(q.old)
      <4>1. phase'[i] = Effective(new) /\ phase'[i] # None
        BY <1>1, <1>2, <1>6, <3>1, <3>2, NoticesAssumption, DeskAssumption DEF DeskInv, Shapes, OwnTypeOK, Status
      <4>2. QED
        BY <4>1 DEF BarRight
    <3>3. CASE Effective(q.new) = Effective(q.old)
      <4>1. BarOf(i) /\ UNCHANGED <<phase, born>> /\ Effective(new) = Effective(row[i])
        BY <1>1, <1>2, <1>3, <1>9, <2>1, <3>1, <3>3, TimelineByBar DEF DeskInv, Promises
      <4>2. QED
        BY <1>1, <4>1, NoRowIsNone DEF BarOf, BarRight
    <3>4. QED
      BY <3>2, <3>3
  <2>2. \A j \in Incidents \ {i} : phase'[j] = phase[j] /\ born'[j] = born[j]
    BY <1>2, <1>3 DEF DeskInv, Shapes, OwnTypeOK
  <2>3. raced \subseteq raced' /\ reopened \subseteq reopened' \cup {i}
    BY <1>2
  <2>4. QED
    BY <1>1, <1>2, <1>5, <2>1, <2>2, <2>3, TimelineOneRow DEF DeskInv, Promises
<1>11. DraftsStayPrivate' /\ PostsAreStoredOnce'
  BY <1>3 DEF DeskInv, Promises, DraftsStayPrivate, PostsAreStoredOnce
<1>12. row'[i] = new /\ \A j \in Incidents : j # i => row'[j] = row[j]
  BY <1>1, <1>2 DEF DeskInv, Shapes, OwnTypeOK
<1>13. TitlesStay /\ MarksMarked
  BY <1>1, <1>4, <1>5, <1>9, <1>12 DEF TitlesStay, MarksMarked
<1>14. QED
  BY <1>8, <1>10, <1>11, <1>13 DEF DeskInv, Promises

LEMMA WriteTranslationStep ==
    ASSUME DeskInv, NEW r \in Requests, NEW ok \in BOOLEAN, WriteTranslation(r, ok)
    PROVE  DeskInv' /\ TitlesStay /\ MarksMarked
<1> DEFINE q == req[r]
           i == q.of
           want == Translated(r, ok)
           new == Merged(row[i], q.old, want)
<1>1. i \in Incidents /\ q.old \in Row /\ row[i] \in Row
  BY DEF WriteTranslation, DeskInv, Shapes, OwnTypeOK, RequestsShape, RequestOK
<1>2. /\ row' = [row EXCEPT ![i] = new]
      /\ raced' = IF row[i] # q.old THEN raced \cup {i} ELSE raced
      /\ EndRequest(r)
  BY DEF WriteTranslation
<1>3. UNCHANGED <<graph, polled, phase, updates, task, born, stale, met, reopened, edited, cleared, solved>>
  BY DEF WriteTranslation
<1>4. /\ want \in Row /\ want.status = q.old.status /\ want.resolved = q.old.resolved
      /\ want.marks = q.old.marks /\ (q.old.title.translated => want.title.translated)
  BY <1>1 DEF Translated, Row, Title
<1> HIDE DEF want
<1>5. /\ new \in Row /\ new.status = row[i].status /\ new.resolved = row[i].resolved
      /\ new.title = IF want.title # q.old.title THEN want.title ELSE row[i].title
      /\ new.marks = row[i].marks
  BY <1>1, <1>4, MergedFields
<1> HIDE DEF new
<1>6. raced' \subseteq Incidents /\ raced \subseteq raced' /\ (i \notin raced' => row[i] = q.old)
  BY <1>1, <1>2 DEF DeskInv, Shapes, OwnTypeOK
<1>7. Shapes'
  BY <1>1, <1>2, <1>3, <1>5, <1>6, AnswerShapes DEF DeskInv, Shapes, OwnTypeOK
<1>8. TimelineMatchesRow'
  <2>1. Effective(new) = Effective(row[i])
    BY <1>5 DEF Effective
  <2>2. i \notin raced \cup reopened => BarRight(row[i], phase[i], born[i])
    BY <1>1, TimelineByBar, NoRowIsNone DEF DeskInv, Promises, BarOf
  <2>3. QED
    BY <1>1, <1>2, <1>3, <1>5, <1>6, <2>1, <2>2, TimelineOneRow DEF DeskInv, Promises, BarRight
<1>9. DraftsStayPrivate' /\ PostsAreStoredOnce'
  BY <1>3 DEF DeskInv, Promises, DraftsStayPrivate, PostsAreStoredOnce
<1>10. row'[i] = new /\ \A j \in Incidents : j # i => row'[j] = row[j]
  BY <1>1, <1>2 DEF DeskInv, Shapes, OwnTypeOK
<1>11. TitlesStay /\ MarksMarked
  BY <1>1, <1>4, <1>5, <1>6, <1>10 DEF TitlesStay, MarksMarked
<1>12. QED
  BY <1>7, <1>8, <1>9, <1>11 DEF DeskInv, Promises

-----------------------------------------------------------------------------
(* Every step of the desk.                                                 *)

\* What is not written is neither renamed nor unmarked.
LEMMA RowStays == ASSUME UNCHANGED row PROVE TitlesStay /\ MarksMarked
  BY DEF TitlesStay, MarksMarked

LEMMA SyncStep ==
    ASSUME DeskInv, NEW t \in Tasks, Sync(t) \/ SyncStops(t)
    PROVE  DeskInv' /\ TitlesStay /\ MarksMarked
<1>1. ASSUME NEW i \in Issues, NEW ok \in BOOLEAN, Fetch(t, i, ok) PROVE DeskInv' /\ UNCHANGED row
  BY <1>1, FetchStep DEF Fetch, tables
<1>2. CASE Lookup(t)
  BY <1>2, LookupStep, RowStays DEF Lookup, tables
<1>3. CASE SyncWrites(t)
  BY <1>3, SyncWritesStep
<1>4. CASE SelectPosts(t)
  BY <1>4, SelectPostsStep, RowStays DEF SelectPosts, tables
<1>5. CASE InsertPosts(t)
  BY <1>5, InsertPostsStep, RowStays DEF InsertPosts
<1>6. CASE SyncFails(t) \/ SyncStops(t)
  BY <1>6, StopStep, RowStays DEF SyncFails, SyncStops, tables
<1>7. QED
  BY <1>1, <1>2, <1>3, <1>4, <1>5, <1>6, RowStays DEF Sync, Proceed

LEMMA OperatorStep ==
    ASSUME DeskInv, Operator
    PROVE  DeskInv' /\ TitlesStay /\ MarksMarked
<1>1. ASSUME NEW i \in Manual, NEW resolved \in BOOLEAN, CreateIncident(i, resolved)
      PROVE  DeskInv' /\ TitlesStay /\ MarksMarked
  BY <1>1, CreateStep
<1>2. ASSUME NEW r \in Requests, NEW i \in Incidents, NEW notify \in BOOLEAN, AddPost(r, i, notify)
      PROVE  DeskInv' /\ UNCHANGED row
  BY <1>2, AddPostStep DEF AddPost
<1>3. ASSUME NEW u \in updates, PublishUpdate(u)
      PROVE  DeskInv' /\ UNCHANGED row
  BY <1>3, PublishUpdateStep DEF PublishUpdate
<1>4. ASSUME NEW i \in Incidents, NEW marks \in SUBSET {"suppressed", "acknowledged"}, Mark(i, marks)
      PROVE  DeskInv' /\ TitlesStay /\ MarksMarked
  BY <1>4, MarkStep
<1>5. ASSUME NEW i \in Incidents, DeleteIncident(i)
      PROVE  DeskInv' /\ TitlesStay /\ MarksMarked
  BY <1>5, DeleteStep
<1>6. ASSUME NEW r \in Requests, NEW i \in Incidents, OpenForm(r, i) \/ StartTranslation(r, i)
      PROVE  DeskInv' /\ UNCHANGED row
  BY <1>6, OpenFormStep, StartTranslationStep DEF OpenForm, StartTranslation, tables
<1>7. ASSUME NEW r \in Requests, NEW s \in Status, NEW resolved \in BOOLEAN, SubmitForm(r, s, resolved)
      PROVE  DeskInv' /\ UNCHANGED row
  BY <1>7, SubmitFormStep DEF SubmitForm, tables
<1>8. QED
  BY <1>1, <1>2, <1>3, <1>4, <1>5, <1>6, <1>7, RowStays DEF Operator

LEMMA AnswerStep ==
    ASSUME DeskInv, NEW r \in Requests, Answer(r)
    PROVE  DeskInv' /\ TitlesStay /\ MarksMarked
<1>1. CASE WriteEdit(r)
  BY <1>1, WriteEditStep
<1>2. ASSUME NEW ok \in BOOLEAN, WriteTranslation(r, ok) PROVE DeskInv' /\ TitlesStay /\ MarksMarked
  BY <1>2, WriteTranslationStep
<1>3. CASE RequestFails(r)
  BY <1>3, RequestFailsStep, RowStays DEF RequestFails, tables
<1>4. QED
  BY <1>1, <1>2, <1>3 DEF Answer

\* Which issues the polls sync is no matter of the tables.
LEMMA PollsStep ==
    ASSUME DeskInv, NEW i \in Issues, PollsChange(i)
    PROVE  DeskInv'
<1>1. /\ polled' \subseteq Issues
      /\ UNCHANGED <<graph, row, phase, updates, task, req, born, raced, stale, met, reopened, edited, cleared, solved>>
  BY DEF PollsChange, tables, ghost, DeskInv, Shapes, OwnTypeOK
<1>2. OwnTypeOK' /\ RequestsShape' /\ \A j \in Issues : PostsOf(j)' = PostsOf(j)
  BY <1>1 DEF DeskInv, Shapes, OwnTypeOK, RequestsShape, PostsOf
<1>3. Shapes'
  BY <1>1, <1>2, ShapesStay DEF DeskInv
<1>4. QED
  BY <1>1, <1>3, KeepsPromises DEF DeskInv

LEMMA DeskStep ==
    ASSUME DeskInv, DeskNext
    PROVE  DeskInv' /\ TitlesStay /\ MarksMarked
<1>1. CASE Microsoft
  <2>1. ASSUME NEW i \in Issues, PollsChange(i) PROVE DeskInv' /\ UNCHANGED row
    BY <2>1, PollsStep DEF PollsChange, tables
  <2>2. ASSUME NEW i \in Issues, NEW s \in Status, NEW v \in 0..MaxTitle, NEW p \in SUBSET Posts,
               GraphChanges(i, s, v, p)
        PROVE  DeskInv' /\ UNCHANGED row
    BY <2>2, GraphStep DEF GraphChanges, tables
  <2>3. QED
    BY <1>1, <2>1, <2>2, RowStays DEF Microsoft
<1>2. CASE Operator
  BY <1>2, OperatorStep
<1>3. ASSUME NEW t \in Tasks, Sync(t) \/ SyncStops(t) PROVE DeskInv' /\ TitlesStay /\ MarksMarked
  BY <1>3, SyncStep
<1>4. ASSUME NEW r \in Requests, Answer(r) PROVE DeskInv' /\ TitlesStay /\ MarksMarked
  BY <1>4, AnswerStep
<1>5. QED
  BY <1>1, <1>2, <1>3, <1>4 DEF DeskNext

\* Nothing of the desk but its own variables matters to its invariant.
LEMMA DeskStays ==
    ASSUME DeskInv, UNCHANGED <<graph, polled, row, phase, updates, task, req, born, raced, stale, met, reopened, edited, cleared, solved>>
    PROVE  DeskInv' /\ TitlesStay /\ MarksMarked
<1>1. OwnTypeOK'
  BY DEF DeskInv, Shapes, OwnTypeOK
<1>2. RequestsShape' /\ \A i \in Issues : PostsOf(i)' = PostsOf(i)
  BY DEF DeskInv, Shapes, RequestsShape, PostsOf
<1>3. Shapes'
  BY <1>1, <1>2, ShapesStay DEF DeskInv
<1>4. QED
  BY <1>3, KeepsPromises, RowStays DEF DeskInv

\* What a step of the desk does to the notifications: it creates one, or nothing.
LEMMA DeskMail ==
    ASSUME DeskInv, DeskNext, acts \in Nat
    PROVE  /\ UNCHANGED mail \/ \E i \in Incidents, new \in BOOLEAN, s \in Status : Post(i, new, s)
           /\ acts' \in Nat
<1> DEFINE Posted == \E i \in Incidents, new \in BOOLEAN, s \in Status : Post(i, new, s)
<1>1. \A i \in Incidents, new \in BOOLEAN, s \in Status : Notify(i, new, s) => UNCHANGED mail \/ Posted
  BY DEF Notify
<1>2. CASE Microsoft
  <2>1. ASSUME NEW i \in Issues, PollsChange(i) PROVE UNCHANGED mail /\ acts' \in Nat
    BY <2>1 DEF PollsChange, Acts
  <2>2. ASSUME NEW i \in Issues, NEW s \in Status, NEW v \in 0..MaxTitle, NEW p \in SUBSET Posts,
               GraphChanges(i, s, v, p)
        PROVE  UNCHANGED mail /\ acts' \in Nat
    BY <2>2 DEF GraphChanges, Acts
  <2>3. QED
    BY <1>2, <2>1, <2>2 DEF Microsoft
<1>3. CASE Operator
  <2>1. ASSUME NEW i \in Manual, NEW resolved \in BOOLEAN, CreateIncident(i, resolved)
        PROVE  (UNCHANGED mail \/ Posted) /\ acts' \in Nat
    <3>1. Notify(i, TRUE, "active") /\ acts' = acts + 1
      BY <2>1 DEF CreateIncident, Acts
    <3>2. i \in Incidents /\ TRUE \in BOOLEAN /\ "active" \in Status
      BY DEF Incidents, Status
    <3>3. UNCHANGED mail \/ Posted
      BY <1>1, <3>1, <3>2
    <3>4. QED
      BY <3>1, <3>3
  <2>2. ASSUME NEW r \in Requests, NEW i \in Incidents, NEW notify \in BOOLEAN, AddPost(r, i, notify)
        PROVE  (UNCHANGED mail \/ Posted) /\ acts' \in Nat
    <3>1. row[i].status \in Status
      BY <2>2 DEF AddPost, DeskInv, Shapes, OwnTypeOK, Row
    <3>2. (UNCHANGED mail \/ Post(i, FALSE, row[i].status)) /\ acts' = acts + 1
      BY <2>2 DEF AddPost, Acts
    <3>3. UNCHANGED mail \/ Posted
      BY <3>1, <3>2
    <3>4. QED
      BY <3>2, <3>3
  <2>3. ASSUME NEW u \in updates, PublishUpdate(u)
        PROVE  UNCHANGED mail /\ acts' \in Nat
    BY <2>3 DEF PublishUpdate, Acts
  <2>4. ASSUME NEW i \in Incidents, NEW marks \in SUBSET {"suppressed", "acknowledged"}, Mark(i, marks)
        PROVE  UNCHANGED mail /\ acts' \in Nat
    BY <2>4 DEF Mark, Acts
  <2>5. ASSUME NEW i \in Incidents, DeleteIncident(i)
        PROVE  UNCHANGED mail /\ acts' \in Nat
    BY <2>5 DEF DeleteIncident, Acts
  <2>6. ASSUME NEW r \in Requests, NEW i \in Incidents, OpenForm(r, i) \/ StartTranslation(r, i)
        PROVE  UNCHANGED mail /\ acts' \in Nat
    BY <2>6 DEF OpenForm, StartTranslation, Acts
  <2>7. ASSUME NEW r \in Requests, NEW s \in Status, NEW resolved \in BOOLEAN, SubmitForm(r, s, resolved)
        PROVE  UNCHANGED mail /\ acts' \in Nat
    BY <2>7 DEF SubmitForm
  <2>8. QED
    BY <1>3, <2>1, <2>2, <2>3, <2>4, <2>5, <2>6, <2>7 DEF Operator
<1>4. ASSUME NEW t \in Tasks, Sync(t) \/ SyncStops(t)
      PROVE  (UNCHANGED mail \/ Posted) /\ acts' \in Nat
  <2>1. ASSUME NEW i \in Issues, NEW ok \in BOOLEAN, Fetch(t, i, ok) PROVE UNCHANGED mail /\ acts' \in Nat
    BY <2>1 DEF Fetch, Acts
  <2>2. Busy(t) => task[t].of \in Incidents /\ task[t].issue.status \in Status
    BY DEF DeskInv, Shapes, TasksShape, Incidents, Issue
  <2>3. CASE SyncWrites(t) \/ InsertPosts(t)
    <3>1. Busy(t) /\ UNCHANGED acts
      BY <2>3 DEF SyncWrites, InsertPosts, Busy
    <3>2. UNCHANGED mail \/ \E new \in BOOLEAN : Notify(task[t].of, new, task[t].issue.status)
      BY <2>3 DEF SyncWrites, InsertPosts
    <3>3. QED
      BY <1>1, <2>2, <3>1, <3>2
  <2>4. CASE Lookup(t) \/ SelectPosts(t) \/ SyncFails(t) \/ SyncStops(t)
    BY <2>4 DEF Lookup, SelectPosts, SyncFails, SyncStops, Acts
  <2>5. QED
    BY <1>4, <2>1, <2>3, <2>4 DEF Sync, Proceed
<1>5. ASSUME NEW r \in Requests, Answer(r) PROVE UNCHANGED mail /\ acts' \in Nat
  BY <1>5 DEF Answer, WriteEdit, WriteTranslation, RequestFails
<1>6. QED
  BY <1>2, <1>3, <1>4, <1>5 DEF DeskNext
=============================================================================
