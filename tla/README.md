# Verification of My-M365-Statuspage

TLA+ models of the status page's core logic, TLC configurations that check them
on small instances, and TLAPS proofs about them. Paths are relative to the
repository; `scheduler.py` is `app/scheduler.py`, and so on.

## 1. The system

One Python process, one asyncio event loop, one SQLite database (WAL mode, via
SQLAlchemy's async sessions with `expire_on_commit=False`). APScheduler starts
four poll jobs, each at most once at a time; FastAPI routes and background tasks
run beside them. Every `await` is a point where another coroutine may run.

| Component | State it keeps | Operations | Talks to |
|---|---|---|---|
| Graph incident poll (`scheduler.py` 63-400) | tables `incidents`, `incident_updates`; notify events of a running phase | phase 2 (open issues), phase 3 (resolved in 30 days), `sync_issue_as_incident` | Microsoft Graph, notifications |
| Service toggle, backfill, delayed poll (`routers/admin.py` 125-177, 972-992) | `monitored_services.is_enabled`, `_pending_poll_task` | enable/disable, 90-day backfill, debounced poll | the poll above, over the same tables |
| Health overviews, event bus, SSE, `live-updates.js` | `service_status`, the bus's subscriber queues, the page's connection | phase 1 of the poll, `publish`, `subscribe`, stream, reconnect | browser |
| Checks (`scheduler.py` 403-757) | check results, incidents `cert_*`, `app_*`, `http_*` | three pollers, manual polls, create/update/delete a check | endpoints, Graph |
| Azure secret rotation (`azure_secret_manager.py`) and its users (`graph_client.py`, `notifications.py`) | Entra ID credentials, the OpenBao record, `app_settings`, a shared MSAL client | get-or-rotate, forms, polls, mails | Entra ID, OpenBao, SMTP |
| Subscribers, notifications | `subscribers`, messages in flight | subscribe, confirm, unsubscribe, dispatch | mail, Teams |
| Incident editing, posts, translation | `incidents`, `incident_updates` | create, edit, post, publish, suppress, acknowledge, translate, delete | poll, DeepL |
| Pages and SLA (`crud.py`, `routers/status.py`, `embed.py`, `api.py`) | none (computed) | badges, bars, headline, lists, counters, search, SLA, reasons, export | the tables above |
| Catalogue (services' order and groups, severities, phases, labels) | their tables | move, group, toggle, create, change, delete | admin forms |
| Authentication, configuration, rendering, service worker, scripts, demo stacks | cookies, environment, caches | - | - |

### What is hard, and what makes each part correct

* **Graph poll.** Three tasks may sync the same issue: the scheduled poll, the
  delayed poll and a backfill. Each reads a row, awaits, and writes the columns
  that differ from what it read. A phase is one transaction and its
  notifications go out after the commit. Correct means: nothing is announced
  that was not committed; nothing is announced as new twice or out of history;
  a row is one version Graph published and its phase bar, once it has an entry,
  ends in the row's status; after any race or failure the row catches up with Graph.
* **Toggle and debounce.** A delayed poll is cancelled at whatever await it is
  suspended in, and `CancelledError` passes every `except Exception`. Correct
  means: its open transaction and its events vanish.
* **Secret rotation.** Three stores without a common transaction, remote calls
  that may fail after they took effect, concurrent requests, and pollers and
  mails that use the secret meanwhile. Correct means: the settings never hold a
  secret OpenBao does not, a secret at rest in OpenBao works, no operator's
  credential is removed, none accumulate, the form's ids stay the form's, and
  who begins after a rotation is not refused, unless that rotation went wrong and
  nobody has typed a new secret since.
* **Checks.** An incident is reopened under the same `graph_issue_id`; a
  rollback expires the loaded services, so one failure may stop the rest; a
  manual poll overlaps the scheduled one; a check is deleted or pointed
  elsewhere while a poll holds its service. Correct means: results and incidents
  agree, a result is news, and incidents settle with what they watch.
* **Posts, editing and translation.** A post is published automatically only if
  it was first seen when the incident was resolved; posts are told apart by time
  stamp without a constraint; a form and a translation write back what they read
  long ago. Correct means: drafts stay drafts, posts are stored once,
  translations stick, notes on an incident stay, the phase bar ends in the phase.
* **Subscribers.** A confirmation may fail after the row was committed; a
  dispatch works on a snapshot and overlaps others. Correct means: nobody is
  told who did not confirm, of what he did not choose, or twice, and the last
  one heard is the last that happened.
* **Status events.** Statuses are read before Graph is awaited and compared
  after; queues are unbounded; streams break. Correct means: a page that loads
  and listens knows what the table says, dead streams leave, pages reconnect.
* **Pages and SLA.** The same facts are computed by several queries and copies
  of an algorithm. Correct means: they do not contradict each other.

`PROJECT.json` lists the hazards with their lines and the properties on them.

## 2. Modules

| Module | What it is |
|---|---|
| `GraphSync`, `MCGraphSync` | the incident poll, backfill, delayed poll, toggle, crash; its instances |
| `IncidentMirror` | abstract specification: a lagging mirror that never goes back and announces a version at most once |
| `GraphSyncProofs`, `IncidentMirrorProofs` | theorems about `GraphSync`, and about the mirror of Graph it is |
| `SecretRotation`, `MCSecretRotation` | the rotation of the secret; instances that show two findings |
| `Mailing`, `MCMailing` | `SecretRotation` with those who use the secret (EXTENDS it); its instance |
| `SecretRotationProofs` | theorems about `SecretRotation` and `Mailing` |
| `CheckMonitor`, `MCCheckMonitor`, `CheckMonitorProofs` | the check pollers, instances, theorems |
| `Notices` | the notices that pass from incidents to subscribers |
| `IncidentDesk` | syncs, forms, posts, translations of incidents |
| `Subscribers` | double opt-in and the dispatches |
| `Audience` | abstract specification of who is told of what |
| `Publishing`, `MCPublishing` | `IncidentDesk` and `Subscribers` composed, with restarts; its instance |
| `IncidentDeskProofs`, `PublishingProofs` | invariant of the desk; of the subscriptions, and theorems about the whole |
| `Catalogue` | services and their order, severities, phases, labels |
| `StatusEvents` | phase 1, the bus, streams and reconnection, over `Catalogue` |
| `StatusPage` | badges, bars, headline and SLA, over `StatusEvents` and changing incidents |
| `Listings`, `MCStatusPage` | the pages and lists that query the same tables; the instance of all four |
| `StatusPageProofs` | theorems about `Catalogue`, `StatusEvents` and `StatusPage` |
| `SlaProofs` | sums over finite sets; theorems about uptime, SLA and `Listings` |

### GraphSync

A task (`Scheduled`, `Delayed`, one of `Backfills`) is in a `phase` (which part
of its work) and at a `step` (the await it is suspended at). One poll phase runs
`Fetch`, then for each issue `Lookup` (the SELECT of
`sync_issue_as_incident`), `Relook` (the second SELECT, in `upsert_incident`)
and `Flush` or `NothingToFlush`, then `Commit` and `Dispatch`; any of them may
end in `FailPhase` (the `except` branch) or in `Crash`. `Toggle` and
`ScheduleFollowUps` are `toggle_service` before and after its commit.

The database is modelled by what SQLAlchemy and pysqlite do: `rows` and
`timeline` are committed; `draftRows` and `draftTimeline` are the view of the
task that holds SQLite's single write `lock`; a SELECT before the first write
sees committed data and takes no lock; the first write takes it; an object that
is already loaded keeps its attributes when it is selected again (`seen`); an
UPDATE writes the columns that differ from the loaded object (`Merge`); a second
INSERT of the same issue fails the phase (`InsertConflict`).

Abstractions: an issue is a model value with a history of versions
`[raw, resolved]`, and the version's index stands for `lastModifiedDateTime`;
statuses that `_GRAPH_INCIDENT_PHASE_MAP` maps alike are one value; time is
reduced to where now lies in a maintenance window and whether an issue started
more than 30 days ago; delivery of a message ends at the dispatcher. Titles and
posts are in `IncidentDesk`. Dispatch is one step: `create_task` does not
suspend. `raced` remembers the issues that some session wrote from a row another
session had changed since it was read; three invariants are claimed for the
others only, and `CatchesUp` for all of them.

### SecretRotation and Mailing

A request walks through `ReadVault`, `AddPassword`, `RemovePassword`,
`SetSecret` and `SaveSettings`. A key id stands for its secret too; `creds` is
what each app registration accepts, `vault` OpenBao's record, `saved` and `ids`
the settings rows. `Fail` is any remote call failing before or after it took
effect (nothing is undone, the request ends), and also a crash of the process,
which forgets one request after the other. The management credential that pays
for the rotation is a separate one and is not modelled; neither is expiry itself,
only that a credential has come within the renewal threshold (`expiring`).

`Mailing` adds tasks. A poller takes the shared MSAL client, which is built anew
when the settings have changed (`Client`), to a thread, where its cache or
Entra ID answers (`PollToken`, `PollRefused`). A mail reads the settings of mails
and then, in a session of its own, those of Azure (`StartMail`, `ReadAzure`),
and asks with a client of its own; a test mail reads the first ones twice
(`StartTest`, `NoMail`), and the form that saves them tries what it saved
(`SaveEmail`, `VerifySmtp`). Whatever comes after the token (Graph, SMTP) may
fail, which the callers only report. Two history variables say when a refusal is
excused: `overlapped` (the task was under way together with a rotation) and
`broken` (a rotation failed, two overlapped or a form changed the app, so that the
settings may hold a secret that is never accepted). A new secret that an
administrator types while nothing rotates mends that (`Mends`); the next rotation
after a disturbed one may break it again, because OpenBao still has its old record.

### CheckMonitor

The three pollers have one shape, so a poll (`PollKind`) and a check (`KindOf`)
have a kind and the actions are shared: `PollStarts` lists the enabled services,
`Skip` passes over an HTTP check whose interval has not elapsed (`Due`), `Ask`
awaits the endpoint, `Hear` has its answer, `Record` is the service's
transaction (result and incident), `PollEnds` the end of the loop with the
pruning of old HTTP results (`Forgettable`: those of checks no longer polled).
`Fail` is a failed transaction: it leaves nothing, and ends the poll, since the
rollback expires the loaded services and reading the next one's attributes
outside a query raises. A transaction is one step because its first statement,
the INSERT of the result, takes the write lock before the incident is selected.

What is behind a target is a condition of its kind: an HTTP endpoint answers
with the expected status or not, a certificate has days left or cannot be read,
an app is enabled, has owners, credentials with days left, and a last sign-in.
`HttpResult`, `CertificateResult` and `AppResult` are the classifications with
their order of precedence. A poll asks the target it read with the service
(`held`), whatever `CreateCheck`, `UpdateCheck`, `DeleteCheck` and
`ToggleService` do meanwhile. `AdminResolves` is the edit form with "resolved"
ticked and the end left as the form shows it. `HttpSensorUp`,
`CertificateSensor` and `LatestCertificate` are what the sensors pages show.

### Notices, IncidentDesk, Subscribers, Publishing

`IncidentDesk` looks at one issue at a time, more closely than `GraphSync`: a row
has its phase, title (with the version of Graph's it comes from, or translated),
`translated_lang` and marks; updates are posts of Graph's and operators' notes,
drafts or public. `polled` is the set of issues that polls sync; one leaves it or
comes back (`PollsChange`) when its service is disabled or enabled
(`scheduler.py` 350-354, 382-385), when Microsoft calls it a false positive
(`scheduler.py` 97) or its 30 days are over (`graph_client.py` 137). A backfill may
fetch the others too, so `Fetch` has no such guard, only its fairness has. A
sync is `Fetch`, `Lookup`, and then either `SyncWrites`, one step because the first
write takes the lock, or, when the row does not differ, `SelectPosts` and `InsertPosts`, between which no lock is held. Failing to fetch
posts (`_attach_posts`) leaves an issue without any. A form is opened, comes
back (`SubmitForm` selects the row) and is written (`WriteEdit`) with what it
showed; a translation loads, awaits DeepL and writes (`WriteTranslation`, also
when DeepL failed). Descriptions, post-mortems, dates and sources are columns
like the title and left out.

`Subscribers` has rows by address (a unique column), the tokens and links given
out, requests of `/subscribe` between their SELECT, INSERT and mail, and
dispatches: `Begin` reads the confirmed subscribers that want the incident,
`Tell` sends one message in the order of the query, the operators' webhook last,
and a failing message does not end the loop; `Break` is a database error, which
does. `Publishing` composes the two through the `outbox` of `Notices` (tasks
created and not yet running) and adds `Restart`. `Audience` says what all this
promises; the refinement maps a member to a confirmed row.

History variables: `raced` (written by someone who had loaded an older row),
`stale` (written by a form that had shown an older row than it loaded when it came
back), `born` (the phase an incident was first stored in), `met` (two tasks synced
it at once), `reopened` (a sync took back what an operator had resolved, and no
entry followed yet), `edited`, `cleared` (approved posts),
`solved` (issues Graph has resolved), `lost` (a notice broke off), `crossed` (two
notices of one incident under way at once). They only excuse; no guard reads
them.

### Catalogue, StatusEvents, StatusPage, Listings

`Catalogue` is the table of services. `StartMove` and `EndMove` are
`move_service` before and after its SELECT, so two moves, or a move and a
grouping, may overlap; `Spread` is its fallback for equal orders.
`StatusEvents` adds a row of status for each service and day, the poll
(`PollReads`, `Overviews`, `WriteOverviews`, `Publish`), statuses set by hand,
streams with their queues (`bus`) and the pages' connections with the attempts
of `live-updates.js`. `told` in a stream is what a client knows that loaded the
page when the stream connected and applied each event.

`StatusPage` adds incidents with what the computations read of them (days,
class, severity, suppressed) and translates `get_service_current_status`,
`build_status_page_data`, `get_uptime_bars`, `get_uptime_percentage`,
`get_sla_for_month` and `get_sla_breach_reasons` in days and half days.
`Listings` translates the queries of the status page, the dashboard, the
incident and maintenance lists, the navigation's counters, search, and the SLA
table and export.

## 3. Runs

| Run | Instance | Shows |
|---|---|---|
| `graph_sync` | 1 issue, 3 versions, all three tasks, 1 toggle, 1 failure or crash | notifications are of committed states; history is silent; rows are versions and phase bars follow them unless a stale read raced; announced once |
| `graph_sync_recovery` | 1 issue, 2 versions, 2 toggles, fair tasks | a cancelled delayed poll leaves nothing behind; the row catches up whatever raced |
| `graph_sync_mirror` | an incident and a maintenance, any order of versions incl. withdrawn ones, 1 failure, scheduler's poll alone | refines `IncidentMirror`; every open incident was announced; rows catch up |
| `graph_sync_backfill` | as the first, no failure | **violated**: the backfill swallows the announcement of an open incident |
| `secret_rotation` | `MCMailing`: 2 requests, 2 apps, 3 credentials, 1 form, 2 failures, 2 tasks that poll and mail | what is saved was stored; typed credentials stay; undisturbed requests keep the stores in step; as long as nothing is broken only who overlaps a rotation is refused; a new secret that an administrator types mends what broke |
| `secret_order` | `MCSecretRotation`: 4 credentials, no form, 1 failure | **violated**: the old credential is removed before the new one is stored |
| `secret_ids` | same with 1 form, no failure | **violated**: a request writes back stale tenant and client ids |
| `check_monitor` | an HTTP check with two addresses and two certificate checks on two services, both scheduled polls, one HTTP poll by hand, 2 events, fair polls | results, incidents and sensors agree; results are news; incidents settle with their endpoints |
| `check_reopened` | one app, 3 events | **violated**: a reopened incident keeps its old end |
| `publishing` | 1 issue with 1 post and 2 titles, an incident and an advisory of the operators', 1 sync task, 1 request, 2 visitors, 2 addresses and the webhook, 2 events, fair tasks | drafts, posts, phase bar, translation, marks; links work; `Audience` is refined; the newest is heard last; Graph prevails over incidents that polls go on to sync |
| `frozen_title` | the same | **violated**: after a failed translation an English title is frozen |
| `status_page` | 3 services (one not yet known), 1 poll, 1 page, 1 move, 2 days in 2 months, 4 kinds of incident, 2 events | streams tell what tables say; SLA, bars, headline, reasons, lists, counters agree; a move passes the neighbour; dead streams leave; pages reconnect |

An event (`Acts`, `Happens`) is a change in Graph or behind a target, an act of
an operator or visitor, a failure, a broken connection or a restart; a poll
started by hand counts as one in `check_monitor`.

Why the bounds are enough: an incident needs three versions to be opened, moved
on and resolved, and two tasks to race; a third adds the case that the task that
reads is neither the one that writes nor the one that announces. One failure is
enough to lose a transaction or a message, a second one would only repeat it on
the same state. Two toggles are the least that cancel a delayed poll. With two
requests every overlap of two rotations occurs; three credentials (the first and
one per request, or one typed) let both rotate, and four let one rotate again.
Requests, tasks and credentials not yet created are interchangeable in
`SecretRotation` and `Mailing`, so their runs use symmetry.

`MCMailing` has a state constraint, `Followed`, which `secret_rotation` uses: while
something is `broken`, `RefusedOnlyWhileRotating` claims nothing, and what tasks do
changes nothing of `SecretRotation` but how many forms may still be saved. The states
in which a task is under way are then not expanded; those in which none is are, so
that every behaviour of the rotation is explored to its end and its invariants are
checked on all of it. Three credentials are enough to see a mending: the first is
removed by a rotation that then fails to store the second, the administrator types
the third, and tasks begin again. Tasks under way from before a mending to after it
are in the proof only.

In `CheckMonitor` two events let an endpoint fail and recover, fail before a
failed transaction, or be pointed elsewhere under a poll; two certificate checks
are the least that one poll visits after another, and one poll by hand beside the
scheduled one is the least that overlap.

In `publishing` two events are a change of Graph's and one act on what it left
(a form, a post, a translation, a deletion, an unsubscription, a failure or a
restart); issues and rows of earlier days exist from the start. One sync task
syncs at a time there: races of two syncs are in `graph_sync`, and the theorems
of `PublishingProofs` hold for any number of tasks, requests and acts. In
`status_page` the first day begins with or without an incident, so two events
make a second one, or change, end, reopen or suppress it; two days are the least
that cross the end of a month, and make a day without a row. Overlapping polls
are excused in `StreamsTell`, and so one poll is enough there.

Fairness. In `GraphSync`, `WF_vars(Poll(w))` for each task, where `Poll(w)` is
everything a task does when nothing fails. The event loop resumes every
coroutine whose await is done, and APScheduler starts the job at every interval
(`start_scheduler`), so a task that can go on does. Nothing is assumed of Graph,
the admin, failures or crashes. With several tasks a flush waits for the write
lock; the lock holder is fair, so the lock is released. In `CheckMonitor` it is
the same for everything a poll does once started (`Proceed`) and for starting the
scheduler's polls; polls by hand need not be started. Time passes:
`WF_vars(IntervalElapses(c))`. In `Publishing` syncs and answers to requests
go on, and each issue that is `polled` is fetched by some task again and again:
strong fairness, because a poll walks over the issues, so a task that is free for one
now may be busy with another for a while. Of issues the polls leave out nothing is
assumed, so `GraphPrevails` claims nothing of them: theirs may keep what an operator
or the last sync wrote for ever. Neither is anything assumed of backfills and
operators. Dispatches need no fairness; `TheyKnowTheLatest`
speaks of those that ended. In `StatusEvents` the process is started again, timers
fire, connections are tried and streams are resumed; polls and days need not come.

### Findings

* The backfill swallows the announcement of an open incident, although
  `scheduler.py` 230-233 says it "fires on first detection".
* `_rotate_client_secret` removes the previous credential before the new one is
  stored in OpenBao; the module's docstring says the reverse order.
* A get-or-rotate request overwrites ids saved while it waited; the route's
  docstring says it "only ever touches the secret itself".
* A check that fails again reopens its incident with the `end_datetime` of its
  earlier resolution, although `_compute_phase_segments` takes an open incident
  to run until now.
* `translate_incident` sets `translated_lang` also when `translate_text` gave the
  text back unchanged because DeepL failed; from then on polls leave the English
  title alone "so the translation sticks", though `translate_client.py` 33-36
  calls translation "never a reason to lose ... original incident data".

Seen while modelling, and in the models, but not runs of their own:

* `live-updates.js` reads `event_type` where the server sends `type`, so an open
  page ignores every event; what it would show is therefore not claimed. Events
  carry the status before a degraded service without incidents is demoted.
* `settings_delete_source_label` never commits: the label stays, though the page
  says "Label entfernt." (`DeleteLabel` changes nothing).
* `move_service` moves a service more than one place when a third member of the
  group shares an order with one of the two (`TakesOver` and `Placed` in `MovesOnePlace`).
* In the SLA, an open incident counts to the end of the month, also of days to
  come; an incident reopened after its end counts negative days (`Forward`);
  the weight of "degraded" applies only to a phase of that name, which no poll
  sets; the reasons of a breach leave out lower severities.
* The docstrings of the bars say that rows of a day "override" incidents and that
  "each non-maintenance incident" paints; the code takes the worse of both, and
  incidents of class "incident" only.
* The lists of resolved incidents and of maintenances ignore suppression, so a
  suppressed incident appears once it is resolved; the counter in the navigation
  counts incidents of services that are not shown.
* The search's total limit can never bite: four groups of five are its 20.
* A post published because the issue was resolved when it was first seen may be
  one written while it was open (`solved` in `DraftsStayPrivate`), above all after
  a fetch of the posts failed.
* An operator who ticks "resolved" but leaves the phase "active" has the next poll
  reopen the incident without an entry or a notice, so that its phase bar ends as
  resolved until the next entry (`reopened`).
* An incident that is first stored in a later phase (an issue first seen as
  acknowledged or monitored, a manual one created with an end) gets no entry, and
  its phase bar is "active" until it moves (`born` in `TimelineMatchesRow`).
* A subscriber whose confirmation was lost stays pending for good: subscribing
  again finds the row and sends nothing.
* `get_email_settings` counts a placeholder secret as configured, which
  `get_azure_settings` does not.
* The time of the last update on the page is that of the day's first poll: the
  later ones update the row, and `created_at` stays.

## 4. Proofs

`GraphSyncProofs` proves for every value of the constants (`ConstantsAssumption`:
types of the constants, distinct tasks):

* `TypeCorrect`: `Spec => []TypeOK`;
* `NotifiedOnlyCommitted`: `Spec => []NotifiedWasCommitted`;
* `HistoryFloodsNobody`: `Spec => []HistoryIsSilent`.

`TypeOK` is not inductive alone: that a flush writes a row needs `Fetched` (the
issue being written has a fetched version). `NotifiedWasCommitted` needs the way
of a status from the row that was read to the message: `IInv` says that what a
task has loaded is committed or its own uncommitted write (`SeenIsCommittable`),
that each of its events is about an issue it has finished and a status that is
committed or stands in its open transaction (`EventsAreCommittable`), that
without a writer the draft is the committed state (`DraftIsCommitted`), and that
a task outside a session has no events (`Resting`). `StepCases` sorts the steps,
`OthersKept` says that a task leaves the other tasks' work alone, and each
conjunct has a lemma of its own. `HistoryIsSilent` adds that what phase 2 syncs
was unresolved when fetched (`ActiveIsUnresolved`), and hence every event and
every message that announces a new incident.

`IncidentMirrorProofs` goes on from there:

* `RowsAreVersions` and `PhaseBarFollowsRow` (`RowIsAVersion`,
  `TimelineFollowsRow`, of incidents with an entry): the two hold of the
  open transaction's draft as well (`RowsInv`), since a commit makes a draft the table.
* `NewIsAnnouncedOnce` (`AnnouncedOnce`): a task that carries the news of an issue
  has its row in its own draft, or, once it has committed, in the table, and nobody
  else has or had the same news (`NewsIsFirst`); rows never go away (`RowsStay`),
  and so who is to announce an issue later finds one. Stale writes are excepted,
  as in the properties (`raced`).
* `PollImplementsMirror`: `Spec /\ []NoneEnabled => ImplementsMirror`, where
  `NoneEnabled` says that no toggle is under way, so that the scheduler's poll is
  the only task, as in the run. `MirrorInv` says that then what it has loaded is what
  the draft still holds (`Loaded`), that versions grow from table to draft to Graph
  (`Between`), that an issue still to sync is as it was when fetched (`Untouched`),
  and that its events are newer than the table (`NewsIsNewer`): a commit with events
  is the mirror's Show, the dispatch its Tell, a failure or a crash its Lose. What the
  mirror promises of itself then holds of the poll (`NoMoreMessagesThanVersions`).
* `OpenIsAnnounced` (`OpenIncidentWasTold`), under `NoneEnabled` and
  `ResolvedAgrees`: Graph's isResolved agrees with its status as the code maps it.
  The code relies on that: an incident that is first seen as resolved is not
  announced, and if it is then reopened with a status that maps as before, it
  never will be.

For `SecretRotation`, `SecretRotationProofs` proves `TypeCorrect`, `SavedSecretWasStored`,
`TypedKeysAreNotRemoved` and `RotationsLeaveOne` from `RotationAssumption` (`FirstKey` is a credential,
`None` is none). Its `IInv` follows a credential: a request that is about to
remove or store has created one (`UnderWay`), nobody typed it
(`MintedNotTyped`), a record in OpenBao or in a request's hands carries a secret
OpenBao held and a key id that nobody typed (`RecordsHaveOrigin`), and what is
about to be saved was stored (`AboutToSave`). Removing the recorded key then
cannot hit a typed one (`RemovedIsNotTyped`), also when the call is reported as
failed. `RotationsLeaveOne` (`StoresInStep`) needs a second invariant, `CalmInv`:
as long as nothing is disturbed at most one request is under way (`OneAtATime`),
it and the record are about the app in use (`SameApp`), the record is still the
one it read (`KnowsRecord`), and the credentials rotations left are the recorded
one, but for what the request is about to remove or store (`CreatedIsRecorded`);
likewise for the saved secret (`SavedIsRecorded`).

All this still holds while mails and polls use the secret (`SecretSafeInUse`), and
`RefusedOnlyInRotation` (`RefusedOnlyWhileRotating`) follows: `UsersInv` adds that a
task which overlaps no rotation is alone with the settings (`OverlapNoticed`), and
that what it has read is then accepted until Entra ID answers (`ReadWorks`).
It claims nothing while something is broken. `Mended` says that after
a disturbance that broke nothing, or was mended, the settings hold a secret that the
app in use accepts, and no rotation is under way.

`CheckMonitorProofs` proves `TypeCorrect`, `ResultsAndIncidentsAgree` and
`EveryResultIsNews` from `MonitorAssumption`. `ResultsMatchIncidents` holds since
each transaction writes both (`RecordInv`) and a resolution by hand is remembered.
For the news, `IInv` says that two polls visit one check only if it is remembered
as overlapped (`OverlapsRemembered`), that any other poll asks what its check is
pointed at now (`AimsRight`), and that what it has heard was answered since the
latest result (`HeardSince`): a second poll's result, or another target, is what
would move that moment.

`PublishingProofs` proves about `Publishing`, for any number of issues,
incidents, posts, tasks, requests, addresses, visitors and events, from
`NoticesAssumption`, `DeskAssumption` and `SubscribersAssumption`: the types
(`DeskTypes`, `SubsTypes`), `DraftsPrivate`, `PostsOnce`, `TimelineTrue`,
`TranslationsStay`, `MarksAreKept`, `LinksKeepWorking`, `LatestIsKnown`, and
`PromiseKept`, that the system implements `Audience`. `IInv` is `DeskInv /\ SubsInv`: the two parts
share only the outbox, and either side's lemmas show that its steps leave the
other's invariant alone (`DeskStays`, `DeskMail`, `SubsStay`, `PostStep`).

* `DeskInv` (`IncidentDeskProofs`) adds to the properties that a busy task holds
  an issue whose resolution was recorded (`TasksShape`, for the drafts), that two
  tasks on one issue have met (`TasksMeet`), and that the posts a lone task has
  selected are all there are (`PostsKnown`, for storing once: what it inserts is
  then missing, `StoredPosts`), and that a form comes back with the title it
  showed (`RequestsShape`, for the translation). `TimelineTrue`
  (`TimelineMatchesRow`) includes forms that come back after the row has changed,
  and incidents without an entry, which stay in the phase they were first stored
  in (`BarRight`, `BarOf`); its exceptions are `raced`, `reopened` and a first
  phase other than "active" until there is an entry.
* `SubsInv` says that tokens are new, and that what a visitor
  asked for, his link and his row agree (`WantsOK`), so that confirming is
  `Audience`'s Join; that notices carry distinct numbers below `sent`
  (`NumbersOK`), so that beginning one is its Address; and that a dispatch has
  left only addressees that were not told (`RunningOK`), so that telling is its
  Tell. `First` exists because the natural numbers are well founded
  (`Smallest`, from `WellFoundedInduction`), which needs no bound on the addresses.

* `LatestIsKnown` (`TheyKnowTheLatest`) needs `LatestInv`: the newest notice of an
  incident tells its phase (`RowsTold`), which a sync that saw no row would break
  only where it is remembered (`LateIsMet`); every addressee of a notice has heard
  it, missed it or is still to be told (`AllTold`), nobody is told twice (`Apart`),
  and what was told was told in the order of the notices (`InOrder`).

`StatusPageProofs` proves about the page, for any number of services, groups,
polls, pages and days, from `CatalogueAssumption` and `EventsAssumption`:

* `EventsTypes` (`EventsTypeOK`), with the facts that a move is that of a service in
  the table and that a poll finds finitely many changes (`TypesInv`);
* `EveryMoveIsOnePlace` (`MovesOnePlace`): the order of the page is a strict total
  order (`BeforeIsOrder`) on a finite set, so the neighbour is the next one
  (`NearestIsNext`); numbering the group anew keeps the order (`SpreadKeepsOrder`),
  and exchanging the numbers of two neighbours exchanges their places (`SwapMoves`).
  The others keep theirs, except that names decide between one of the two and a third
  that shares the number it takes over; overlapping moves are not claimed;
* `StreamsTellTheTable` (`StreamsTell`): `TruthInv` says that no row is of a day to
  come, that what a poll has read is so when it writes (`PollsSee`) and that what it
  is about to publish are the newest rows (`ChangesAreNew`); then what a stream has
  queued ends in the newest row of each service it names (`ReadingKeeps`,
  `QueueingTells`). What no event tells is excepted, as in the property (`excused`);
* `HeadlineHasABar` (`HeadlineIsInBars`), as incidents have begun (`IncsInv`).

`SlaProofs` proves the four properties that compare pages, from `PageAssumption`
(months have days, and follow each other without a gap; operators exclude advisories
and maintenances only; the three classes) and `ListingsAssumption`. The library
computes a sum by taking one member after the other; `SumsExist` shows that there is
such a function on every finite set, `AnyOrder` that the order does not matter,
and from it `SumsAgree`, `SumOfSums`, `SumOfParts` and `SumAtLeast`, each by a smallest
set that fails (`SmallestSet`).

* `ReasonsAccountAlways`: the two copies of the computation weigh each incident of
  the higher severities alike.
* `SlaCoversBarsAlways`: each day below its full score is charged to an incident that
  paints it; a painted incident is counted in the month (`PaintedIsCounted`) for
  its days at least, and so is charged no more than it loses (`AtMostCharged`).
* `MonthsAddUpAlways`: an incident's days in two adjacent months are its days in
  their span (`AdjacentParts`), hence the sums (`AdjacentMonths`), hence any months
  without a gap, the last one taken away at a time (`WithoutLast`, `MonthsSum`); and
  the rows of the export stand for the months one by one (`TableMeetsExport`).
* `PagesAgreeAlways`: the lists split the table (`InOneList`), and the listing of
  those changed last begins with the last (`LastChangedIsFound`).

Only model-checked: the liveness properties (`CatchesUp`, `IncidentsSettle`,
`GraphPrevails`, `DeadStreamsLeave`, `PagesReconnect`), which are out of the prover's
reach. The theorems under `NoneEnabled` cannot be had without it: beside a backfill an
open incident may never be announced, as `graph_sync_backfill` shows. `GraphSync`'s
other theorems hold there too.

## 5. What could come next

A run with two sync tasks over `Publishing`, which needs a coarser model of the
subscribers to fit.

## 6. Not modelled

* Update templates, language settings, the debug page, health endpoints and the
  lists of forms: single statements or reads on which nothing else depends. Hits
  of the search among updates and subscribers: their tables are in other modules.
* Authentication, sessions and configuration: delegated to Authlib, Starlette and
  pydantic.
* Rendering: the templates, `i18n.py`, the payloads of mails and Teams cards. The
  JSON API and the embed compute the same page from the configured list of
  services instead of the enabled ones, and the API includes drafts, marked as
  such.
* What an open page does with events (see above), `view-toggle.js`, and the
  service worker, a cache that asks the network first.
* The OpenBao request form: one stateless request that files one GitHub issue.
* The scripts, run by an operator while the server is stopped: `db_export.py`
  turns the URL into a dialect "sqlite+sqlite" that does not load, and writes dates
  as text, which `db_import.py` cannot insert.
* Demo stacks, dashboards, infrastructure.

`PROJECT.json` gives the status of each component.
