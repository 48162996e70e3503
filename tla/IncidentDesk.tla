----------------------------- MODULE IncidentDesk ------------------------------
(***************************************************************************)
(* What operators do to incidents in routers/admin.py (create, edit, post, *)
(* publish, translate, suppress, acknowledge, delete) while the syncs of   *)
(* scheduler.sync_issue_as_incident write the same rows.  GraphSync has    *)
(* the poll's phases and the database in detail; here a sync is reduced to *)
(* where it reads and where it writes, and has the title and the posts.    *)
(*                                                                         *)
(* A request reads the incident at one await and writes at a later one the *)
(* columns that differ from what it read.  A statement that changes a row  *)
(* takes SQLite's write lock until the commit, so everything from there on *)
(* is one step.                                                            *)
(***************************************************************************)
EXTENDS Notices

CONSTANTS
    Posts,      \* Microsoft's posts on an issue
    Tasks,      \* tasks that sync issues: the scheduled and the delayed poll, backfills
    Requests,   \* operators' requests that wait between reading and writing
    None,
    MaxTitle    \* bound: versions of an issue's title

ASSUME DeskAssumption ==
    Tasks \cap Requests = {} /\ None \notin Posts \cup Status /\ MaxTitle \in Nat

VARIABLES
    graph,      \* what Graph says of each issue; None until it is published
    polled,     \* the issues a poll syncs: of an enabled service, not a false positive,
                \* and unresolved or begun in the last 30 days
    row,        \* table incidents; NoRow where there is none
    phase,      \* the newest state_change entry of each incident, None if there is none
    updates,    \* table incident_updates: posts and notes
    task,       \* the tasks that sync
    req,        \* the requests under way
    born,       \* history variable: the phase each incident was first stored in
    raced,      \* history variable: incidents written by someone who had loaded an older row
    stale,      \* history variable: incidents written by a form that had shown an older row
    met,        \* history variable: incidents two tasks were syncing at once
    reopened,   \* history variable: incidents a sync opened again, with no timeline entry since
    edited,     \* history variable: incidents whose phase was edited, of which nobody is told
    cleared,    \* history variable: updates an operator approved
    solved      \* history variable: issues Graph has ever shown as resolved

tables == <<row, phase, updates>>
ghost == <<born, raced, stale, met, reopened, edited, cleared, solved>>
deskVars == <<graph, polled, tables, task, req, mail, ghost, acts>>

\* A title is a version of Graph's title, in English or translated.
Title == [version: 0..MaxTitle, translated: BOOLEAN]

Row == [status: Status, resolved: BOOLEAN, title: Title,
        lang: BOOLEAN,                                \* translated_lang is set
        marks: SUBSET {"suppressed", "acknowledged"}]
NoRow == [status |-> "active", resolved |-> FALSE, title |-> [version |-> 0, translated |-> FALSE],
          lang |-> FALSE, marks |-> {"none"}]

Update == [of: Incidents, post: Posts \cup {None}, by: Tasks \cup Requests, public: BOOLEAN]
\* isResolved goes with the status here; GraphSync has the two apart.
Issue == [status: Status, title: 0..MaxTitle, posts: SUBSET Posts]

Effective(r) == IF r.resolved THEN "resolved" ELSE r.status

IdleTask == [at |-> "idle", of |-> None, issue |-> None, seen |-> NoRow, known |-> {}]
IdleRequest == [at |-> "idle", of |-> None, form |-> NoRow, old |-> NoRow, new |-> NoRow]

\* An issue of an earlier day, which an earlier poll has stored.
OldIssue == [status |-> "active", title |-> 0, posts |-> {}]
OldRow == [NoRow EXCEPT !.marks = {}]

DeskInit ==
    /\ graph \in [Issues -> {None, OldIssue}] /\ polled \in SUBSET Issues
    /\ row = [i \in Incidents |-> IF i \in Issues /\ graph[i] # None THEN OldRow ELSE NoRow]
    /\ phase = [i \in Incidents |-> None]
    /\ updates = {}
    /\ task = [t \in Tasks |-> IdleTask]
    /\ req = [r \in Requests |-> IdleRequest]
    /\ outbox = {} /\ sent = 0
    /\ born = [i \in Incidents |-> IF row[i] = NoRow THEN None ELSE "active"]
    /\ raced = {} /\ stale = {} /\ met = {} /\ reopened = {} /\ edited = {} /\ cleared = {} /\ solved = {}
    /\ acts = 0

-----------------------------------------------------------------------------
(* Microsoft.                                                              *)

\* An issue appears, moves on, is renamed or gets a post.
GraphChanges(i, s, v, p) ==
    /\ Acts
    /\ graph[i] # None => v >= graph[i].title
    /\ LET old == IF graph[i] = None THEN {} ELSE graph[i].posts
           new == [status |-> s, title |-> v, posts |-> old \cup p]
       IN graph[i] # new /\ graph' = [graph EXCEPT ![i] = new]
    /\ solved' = IF s = "resolved" THEN solved \cup {i} ELSE solved
    /\ UNCHANGED <<polled, tables, task, req, mail, born, raced, stale, met, reopened, edited, cleared>>

\* An issue leaves the polls' queries or comes back: its service is disabled or
\* enabled, Microsoft calls it a false positive, or its 30 days are over.
PollsChange(i) ==
    /\ Acts
    /\ polled' = IF i \in polled THEN polled \ {i} ELSE polled \cup {i}
    /\ UNCHANGED <<graph, tables, task, req, mail, ghost>>

-----------------------------------------------------------------------------
(* A sync.                                                                 *)

Syncing(t, i) == task[t].of = i

\* _attach_posts: when the posts of an issue cannot be fetched, it has none.
Fetched(i, ok) == IF ok THEN graph[i] ELSE [graph[i] EXCEPT !.posts = {}]

\* By a poll, or by a backfill, which asks for more than polls do.
Fetch(t, i, ok) ==
    /\ task[t].at = "idle" /\ graph[i] # None
    /\ ok \/ Acts
    /\ ok => UNCHANGED acts
    /\ task' = [task EXCEPT ![t] = [IdleTask EXCEPT !.at = "fetched", !.of = i, !.issue = Fetched(i, ok)]]
    /\ met' = IF \E u \in Tasks \ {t} : Syncing(u, i) THEN met \cup {i} ELSE met
    /\ UNCHANGED <<graph, polled, tables, req, mail, born, raced, stale, reopened, edited, cleared, solved>>

\* SELECT the existing incident.
Lookup(t) ==
    /\ task[t].at = "fetched"
    /\ task' = [task EXCEPT ![t].at = "looked", ![t].seen = row[task[t].of]]
    /\ UNCHANGED <<graph, polled, tables, req, mail, ghost, acts>>

\* What upsert_incident compares with: the row it loaded, or the one its own SELECT finds.
Base(t) == IF task[t].seen = NoRow THEN row[task[t].of] ELSE task[t].seen

\* Mutant: the title is taken from Graph whatever the row says.
WantedOverTranslation(t) ==
    LET issue == task[t].issue
        base == IF Base(t) = NoRow THEN [NoRow EXCEPT !.marks = {}] ELSE Base(t)
    IN [base EXCEPT !.status = issue.status, !.resolved = issue.status = "resolved",
                    !.title = [version |-> issue.title, translated |-> FALSE]]

\* Mutant: what an operator resolved stays resolved until the phase is another.
WantedKeepsResolved(t) ==
    LET issue == task[t].issue
        base == IF Base(t) = NoRow THEN [NoRow EXCEPT !.marks = {}] ELSE Base(t)
    IN [base EXCEPT !.status = issue.status,
                    !.resolved = IF issue.status = base.status THEN base.resolved
                                 ELSE issue.status = "resolved",
                    !.title = IF task[t].seen.lang THEN base.title
                              ELSE [version |-> issue.title, translated |-> FALSE]]

\* Mutant: the row is replaced, with the operators' marks gone.
WantedUnmarked(t) ==
    LET issue == task[t].issue
    IN [NoRow EXCEPT !.marks = {}, !.status = issue.status,
                     !.resolved = issue.status = "resolved", !.lang = Base(t).lang,
                     !.title = IF task[t].seen.lang THEN Base(t).title
                               ELSE [version |-> issue.title, translated |-> FALSE]]

\* Mutant: the defaults of a new row are forgotten.
WantedUndefaulted(t) ==
    LET issue == task[t].issue
    IN [Base(t) EXCEPT !.status = issue.status, !.resolved = issue.status = "resolved",
                       !.title = IF task[t].seen.lang THEN Base(t).title
                                 ELSE [version |-> issue.title, translated |-> FALSE]]

\* The row the sync wants: the title only while nobody has translated it.
Wanted(t) ==
    LET issue == task[t].issue
        base == IF Base(t) = NoRow THEN [NoRow EXCEPT !.marks = {}] ELSE Base(t)
    IN [base EXCEPT !.status = issue.status, !.resolved = issue.status = "resolved",
                    !.title = IF task[t].seen.lang THEN base.title
                              ELSE [version |-> issue.title, translated |-> FALSE]]

\* An UPDATE sets the columns that differ from the loaded row.
Merged(now, base, new) ==
    [f \in DOMAIN now |-> IF new[f] # base[f] THEN new[f] ELSE now[f]]

\* Mutant: every post Graph sends is stored again.
MissingAll(issue, known) == issue.posts

\* The posts whose time stamp is not among those of the incident's updates.
Missing(issue, known) == issue.posts \ known

PostsOf(i) == {u.post : u \in {w \in updates : w.of = i}} \ {None}

\* Mutant: Microsoft's posts are public at once.
AutoPublishAlways(issue) == TRUE

\* auto_publish: the issue is resolved when the post is first seen.
AutoPublish(issue) == issue.status = "resolved"

Stored(t, known) ==
    {[of |-> task[t].of, post |-> p, by |-> t, public |-> AutoPublish(task[t].issue)] :
        p \in Missing(task[t].issue, known)}

EndTask(t) == task' = [task EXCEPT ![t] = IdleTask]

\* The row differs, or is new: it is written, with its timeline entry and its
\* posts, committed, and the notification sent if it is new or in a new phase.
SyncWrites(t) ==
    LET i == task[t].of
        issue == task[t].issue
        isNew == task[t].seen = NoRow
        moved == ~isNew /\ task[t].seen.status # issue.status
        entry == moved \/ (isNew /\ issue.status = "resolved")
    IN
    /\ task[t].at = "looked"
    /\ Wanted(t) # Base(t) \/ (isNew /\ issue.status = "resolved")
    /\ Base(t) = NoRow \/ row[i] # NoRow
    /\ row' = [row EXCEPT ![i] = IF Base(t) = NoRow THEN Wanted(t) ELSE Merged(@, Base(t), Wanted(t))]
    /\ phase' = IF entry THEN [phase EXCEPT ![i] = issue.status] ELSE phase
    /\ updates' = updates \cup Stored(t, PostsOf(i))
    /\ IF isNew \/ moved THEN Notify(i, isNew, issue.status) ELSE UNCHANGED mail
    /\ born' = IF Base(t) = NoRow THEN [born EXCEPT ![i] = issue.status] ELSE born
    /\ raced' = IF row[i] # task[t].seen THEN raced \cup {i} ELSE raced
    /\ reopened' = IF entry THEN reopened \ {i}
                   ELSE IF Base(t).resolved /\ ~Wanted(t).resolved THEN reopened \cup {i} ELSE reopened
    /\ EndTask(t)
    /\ UNCHANGED <<graph, polled, req, stale, met, edited, cleared, solved, acts>>

\* Nothing to write to the row: the posts are selected without a lock ...
SelectPosts(t) ==
    /\ task[t].at = "looked" /\ Wanted(t) = Base(t)
    /\ task[t].seen = NoRow => task[t].issue.status # "resolved"
    /\ task' = [task EXCEPT ![t].at = "posting", ![t].known = PostsOf(task[t].of)]
    /\ UNCHANGED <<graph, polled, tables, req, mail, ghost, acts>>

\* ... and the missing ones inserted.  A row that was there when it was
\* selected again counts as new if it was not there at first.
InsertPosts(t) ==
    LET i == task[t].of IN
    /\ task[t].at = "posting"
    /\ Missing(task[t].issue, task[t].known) # {} => row[i] # NoRow
    /\ updates' = updates \cup Stored(t, task[t].known)
    /\ IF task[t].seen = NoRow /\ row[i] # NoRow
       THEN Notify(i, TRUE, task[t].issue.status) ELSE UNCHANGED mail
    /\ EndTask(t)
    /\ UNCHANGED <<graph, polled, row, phase, req, ghost, acts>>

\* The incident was deleted meanwhile (a stale UPDATE, a foreign key), and the phase is rolled back.
SyncFails(t) ==
    /\ task[t].of # None /\ row[task[t].of] = NoRow
    /\ \/ task[t].at = "looked" /\ task[t].seen # NoRow /\ Wanted(t) # task[t].seen
       \/ task[t].at = "posting" /\ Missing(task[t].issue, task[t].known) # {}
    /\ EndTask(t)
    /\ UNCHANGED <<graph, polled, tables, req, mail, ghost, acts>>

\* The delayed poll is cancelled, the process restarted, or a statement fails.
SyncStops(t) ==
    /\ Acts /\ task[t].at # "idle"
    /\ EndTask(t)
    /\ UNCHANGED <<graph, polled, tables, req, mail, ghost>>

-----------------------------------------------------------------------------
(* Operators.                                                              *)

\* create_incident: committed, then announced unless it is an advisory.
CreateIncident(i, resolved) ==
    /\ Acts /\ row[i] = NoRow
    /\ row' = [row EXCEPT ![i] = [NoRow EXCEPT !.marks = {}, !.resolved = resolved]]
    /\ Notify(i, TRUE, "active")
    /\ born' = [born EXCEPT ![i] = Effective(row'[i])]
    /\ UNCHANGED <<graph, polled, phase, updates, task, req, raced, stale, met, reopened, edited, cleared, solved>>

\* add_incident_post: an operator's own words, public at once.
Note(r, i) == [of |-> i, post |-> None, by |-> r, public |-> TRUE]

\* add_post: a note, with or without a notification.
AddPost(r, i, notify) ==
    /\ Acts /\ row[i] # NoRow /\ Note(r, i) \notin updates
    /\ updates' = updates \cup {Note(r, i)}
    /\ cleared' = cleared \cup {Note(r, i)}
    /\ IF notify THEN Post(i, FALSE, row[i].status) ELSE UNCHANGED mail
    /\ UNCHANGED <<graph, polled, row, phase, task, req, born, raced, stale, met, reopened, edited, solved>>

\* publish_incident_update.
Published(u) == [u EXCEPT !.public = TRUE]

\* publish_update: an operator approves a draft.
PublishUpdate(u) ==
    /\ Acts /\ u \in updates /\ ~u.public
    /\ updates' = (updates \ {u}) \cup {Published(u)}
    /\ cleared' = cleared \cup {Published(u)}
    /\ UNCHANGED <<graph, polled, row, phase, task, req, mail, born, raced, stale, met, reopened, edited, solved>>

\* suppress, unsuppress, acknowledge and release: columns nobody else writes.
Mark(i, marks) ==
    /\ Acts /\ row[i] # NoRow /\ marks # row[i].marks
    /\ row' = [row EXCEPT ![i].marks = marks]
    /\ UNCHANGED <<graph, polled, phase, updates, task, req, mail, ghost>>

\* delete_incident: its updates go with it.
DeleteIncident(i) ==
    /\ Acts /\ row[i] # NoRow
    /\ row' = [row EXCEPT ![i] = NoRow]
    /\ phase' = [phase EXCEPT ![i] = None]
    /\ updates' = {u \in updates : u.of # i}
    /\ born' = [born EXCEPT ![i] = None]
    /\ reopened' = reopened \ {i}
    /\ UNCHANGED <<graph, polled, task, req, mail, raced, stale, met, edited, cleared, solved>>

-----------------------------------------------------------------------------
(* The edit form and the translation.                                      *)

\* The detail page shows the form with the row as it is.
OpenForm(r, i) ==
    /\ Acts /\ req[r].at = "idle" /\ row[i] # NoRow
    /\ req' = [req EXCEPT ![r] = [IdleRequest EXCEPT !.at = "form", !.of = i, !.form = row[i]]]
    /\ UNCHANGED <<graph, polled, tables, task, mail, ghost>>

\* The form comes back, with a phase and the tick at "resolved" perhaps changed:
\* update_incident loads the incident.
SubmitForm(r, status, resolved) ==
    /\ req[r].at = "form"
    /\ req' = [req EXCEPT ![r].at = "edit", ![r].old = row[req[r].of],
                          ![r].new = [req[r].form EXCEPT !.status = status, !.resolved = resolved]]
    /\ UNCHANGED <<graph, polled, tables, task, mail, ghost, acts>>

EndRequest(r) == req' = [req EXCEPT ![r] = IdleRequest]

\* Only columns of the form, and of those the ones that differ from the loaded row.
Edited(r) ==
    LET q == req[r] IN
    [Merged(row[q.of], q.old, q.new) EXCEPT !.marks = row[q.of].marks, !.lang = row[q.of].lang]

\* Mutant: an edit is compared with what the form showed when it was opened.
ComparedAsShown(q) == Effective(q.form)

\* An edit is compared with the row that was loaded when the form came back.
Compared(q) == Effective(q.old)

\* The timeline entry of an edit.
Entry(new) == Effective(new)

\* It writes the form, with a timeline entry if the effective phase changed.  No
\* subscriber is told of an edit.
WriteEdit(r) ==
    LET q == req[r] i == q.of IN
    /\ q.at = "edit" /\ q.old # NoRow /\ row[i] # NoRow
    /\ row' = [row EXCEPT ![i] = Edited(r)]
    /\ IF Effective(q.new) # Compared(q)
       THEN phase' = [phase EXCEPT ![i] = Entry(q.new)] /\ reopened' = reopened \ {i}
       ELSE UNCHANGED <<phase, reopened>>
    /\ raced' = IF row[i] # q.old THEN raced \cup {i} ELSE raced
    /\ stale' = IF q.form # q.old THEN stale \cup {i} ELSE stale
    /\ edited' = IF q.new.status # q.old.status THEN edited \cup {i} ELSE edited
    /\ EndRequest(r)
    /\ UNCHANGED <<graph, polled, updates, task, mail, born, met, cleared, solved, acts>>

\* translate_incident loads the incident and waits for DeepL.
StartTranslation(r, i) ==
    /\ Acts /\ req[r].at = "idle" /\ row[i] # NoRow
    /\ req' = [req EXCEPT ![r] = [IdleRequest EXCEPT !.at = "translate", !.of = i, !.old = row[i]]]
    /\ UNCHANGED <<graph, polled, tables, task, mail, ghost>>

\* translate_text answers with the translation, or with the text as it was.
Translated(r, ok) == [req[r].old EXCEPT !.lang = TRUE, !.title.translated = @ \/ ok]

WriteTranslation(r, ok) ==
    LET q == req[r] i == q.of IN
    /\ q.at = "translate" /\ row[i] # NoRow
    /\ row' = [row EXCEPT ![i] = Merged(@, q.old, Translated(r, ok))]
    /\ raced' = IF row[i] # q.old THEN raced \cup {i} ELSE raced
    /\ EndRequest(r)
    /\ UNCHANGED <<graph, polled, phase, updates, task, mail, born, stale, met, reopened, edited, cleared, solved, acts>>

\* The incident is gone when the request writes or reads it: an error page.
RequestFails(r) ==
    /\ req[r].at \in {"edit", "translate"}
    /\ row[req[r].of] = NoRow \/ (req[r].at = "edit" /\ req[r].old = NoRow)
    /\ EndRequest(r)
    /\ UNCHANGED <<graph, polled, tables, task, mail, ghost, acts>>

-----------------------------------------------------------------------------
Proceed(t) ==
    \/ Lookup(t)
    \/ SyncWrites(t)
    \/ SelectPosts(t)
    \/ InsertPosts(t)
    \/ SyncFails(t)

Sync(t) ==
    \/ \E i \in Issues, ok \in BOOLEAN : Fetch(t, i, ok)
    \/ Proceed(t)

Microsoft ==
    \/ \E i \in Issues : PollsChange(i)
    \/ \E i \in Issues, s \in Status, v \in 0..MaxTitle : \E p \in SUBSET Posts : GraphChanges(i, s, v, p)

Operator ==
    \/ \E i \in Manual, resolved \in BOOLEAN : CreateIncident(i, resolved)
    \/ \E r \in Requests, i \in Incidents, notify \in BOOLEAN : AddPost(r, i, notify)
    \/ \E u \in updates : PublishUpdate(u)
    \/ \E i \in Incidents, marks \in SUBSET {"suppressed", "acknowledged"} : Mark(i, marks)
    \/ \E i \in Incidents : DeleteIncident(i)
    \/ \E r \in Requests, i \in Incidents : OpenForm(r, i) \/ StartTranslation(r, i)
    \/ \E r \in Requests, s \in Status, resolved \in BOOLEAN : SubmitForm(r, s, resolved)

Answer(r) ==
    \/ WriteEdit(r)
    \/ \E ok \in BOOLEAN : WriteTranslation(r, ok)
    \/ RequestFails(r)

DeskNext ==
    \/ Microsoft
    \/ Operator
    \/ \E t \in Tasks : Sync(t) \/ SyncStops(t)
    \/ \E r \in Requests : Answer(r)

DeskSpec == DeskInit /\ [][DeskNext]_deskVars

\* The event loop resumes every coroutine that can go on, and APScheduler starts
\* the poll at every interval, which walks over the issues that are polled: so some
\* task fetches each of them again and again.  Nothing is assumed of the issues
\* polls leave out, of backfills and of operators.
DeskFairness ==
    /\ \A i \in Issues : SF_deskVars(i \in polled /\ \E t \in Tasks : Fetch(t, i, TRUE))
    /\ \A t \in Tasks : WF_deskVars(Proceed(t))
    /\ \A r \in Requests : WF_deskVars(Answer(r))

-----------------------------------------------------------------------------
(* Properties.                                                             *)

DeskTypeOK ==
    /\ graph \in [Issues -> Issue \cup {None}] /\ polled \subseteq Issues
    /\ row \in [Incidents -> Row \cup {NoRow}]
    /\ phase \in [Incidents -> Status \cup {None}]
    /\ updates \subseteq Update
    /\ task \in [Tasks -> [at: {"idle", "fetched", "looked", "posting"}, of: Issues \cup {None},
                           issue: Issue \cup {None}, seen: Row \cup {NoRow}, known: SUBSET Posts]]
    /\ req \in [Requests -> [at: {"idle", "form", "edit", "translate"}, of: Incidents \cup {None},
                             form: Row \cup {NoRow}, old: Row \cup {NoRow}, new: Row \cup {NoRow}]]
    /\ outbox \subseteq Notice /\ sent \in Nat
    /\ born \in [Incidents -> Status \cup {None}]
    /\ raced \cup stale \cup met \cup reopened \cup edited \subseteq Incidents
    /\ cleared \subseteq Update /\ solved \subseteq Issues
    /\ acts \in Nat

\* Nothing Microsoft wrote is public unless an operator approved it or Microsoft
\* has resolved the issue, whichever tasks stored it and however often
\* (upsert_incident_updates: "stays a draft until someone reviews").
DraftsStayPrivate ==
    \A u \in updates : u.public => u \in cleared \/ u.of \in solved

\* A post is stored once, although nothing but its time stamp tells it apart
\* and no constraint guards it, unless two tasks were syncing the incident at once.
PostsAreStoredOnce ==
    \A u, v \in updates : u.of = v.of /\ u.post = v.post /\ u.post # None /\ u.of \notin met => u = v

\* A translated title stays ("so the translation sticks"): only someone who had
\* loaded the row before its translation, or a form that showed the English title,
\* may put that back.
TranslationSticks ==
    [][\A i \in Incidents \ (raced' \cup stale') :
        row[i] # NoRow /\ row'[i] # NoRow /\ row[i].lang /\ row[i].title.translated
            => row'[i].title.translated]_deskVars

\* _compute_phase_segments: "active" from the start, and then what the entries say.
LastSegment(i) == IF phase[i] = None THEN "active" ELSE phase[i]

\* Every move of an incident, by a sync, an edit or a form that comes back after
\* the row has changed, leaves its entry: the phase bar ends in the phase the
\* incident is in.  Three cases are left out.  Without an entry the bar is "active"
\* and the incident as it was first stored, which is another phase if Graph's issue
\* had come on by then or an operator gave an end.  A sync compares phases alone:
\* when an operator has resolved an incident but left it in another phase, Graph
\* takes that back, and the bar ends as resolved until the next entry.  And of two
\* who wrote at once the later may have compared with what is no longer there.
TimelineMatchesRow ==
    \A i \in Incidents \ (raced \cup reopened) :
        IF row[i] = NoRow THEN phase[i] = None
        ELSE /\ phase[i] = None => Effective(row[i]) = born[i]
             /\ phase[i] # None \/ born[i] = "active" => LastSegment(i) = Effective(row[i])

\* What operators noted on an incident is lost by no sync, edit or translation.
MarksStay ==
    [][\A i \in Incidents :
        row[i] # NoRow /\ row'[i] # NoRow /\ row'[i].marks # row[i].marks
            => \E marks \in SUBSET {"suppressed", "acknowledged"} : Mark(i, marks)]_deskVars

\* Whatever operators did to it, an incident whose issue polls go on to sync ends up
\* in the phase Graph last gave it, deleted ones included, and with Graph's title
\* unless it was translated.  Of the others nothing is claimed: a service that is
\* disabled, a false positive, an issue resolved after its 30 days.
GraphPrevails ==
    \A i \in Issues :
        <>[](i \in polled /\ graph[i] # None =>
            /\ row[i] # NoRow /\ row[i].status = graph[i].status
            /\ row[i].resolved = (graph[i].status = "resolved")
            /\ row[i].lang \/ row[i].title.version = graph[i].title)

\* "Translation is a display nicety, never a reason to lose ... Microsoft's
\* original incident data" (translate_client.py 35-36): a row that stopped
\* taking Graph's titles has a translated one.
FrozenIsTranslated == \A i \in Incidents : row[i].lang => row[i].title.translated
=============================================================================
