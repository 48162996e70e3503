----------------------------- MODULE CheckMonitor -----------------------------
(***************************************************************************)
(* The three pollers of the app's own checks: scheduler.poll_http_checks,  *)
(* poll_certificates and poll_enterprise_apps.  Each walks over the        *)
(* enabled services of its kind, asks the endpoint, records the result and *)
(* opens or resolves the incident of that check.  The scheduler runs one   *)
(* poll of a kind at a time; an admin may start others by hand.            *)
(*                                                                         *)
(* The result row is the first statement a service's transaction sends, so *)
(* it takes SQLite's write lock before the incident is selected and keeps  *)
(* it until the commit: a transaction is one step here, and a failure in   *)
(* it leaves nothing behind.                                               *)
(***************************************************************************)
EXTENDS Integers, FiniteSets

CONSTANTS
    Services,    \* service names an admin may set up
    Checks,      \* the checks they may have
    ServiceOf,   \* the service of a check
    KindOf,      \* and its kind
    Targets,     \* URLs (with the status expected of them), host names, application ids
    TargetKind,  \* the kind of check each is for
    FirstTarget, \* what each check is pointed at to begin with
    Conditions,  \* what may be behind a target of a kind
    Polls,       \* poll tasks
    PollKind,    \* which of the three pollers each one is
    Scheduled,   \* those the scheduler starts; the others are started by hand
    None,
    MaxEvents    \* bound: changes behind targets, acts of admins, failures and crashes

Kinds == {"http", "certificate", "enterprise_app"}

HttpCondition == [answers: BOOLEAN, expected: BOOLEAN]  \* an answer, with the expected status
CertificateCondition == [read: BOOLEAN, days: Int]      \* openssl shows it with its dates
AppCondition == [read: BOOLEAN, enabled: BOOLEAN, owners: Nat,
                 expiries: SUBSET Int,  \* days left of its keys and passwords
                 idle: Int \cup {None}] \* days since the last sign-in, if that can be read

\* The status of a check result.
Result == {"ok", "error", "down", "expired", "warning_7", "warning_30", "disabled", "no_owners",
           "secret_expired", "secret_warning_7", "secret_warning_30", "inactive_90d", "inactive_30d"}
Bad == Result \ {"ok", "error"}

ASSUME MonitorAssumption ==
    /\ ServiceOf \in [Checks -> Services] /\ KindOf \in [Checks -> Kinds]
    /\ TargetKind \in [Targets -> Kinds]
    /\ FirstTarget \in [Checks -> Targets] /\ \A c \in Checks : TargetKind[FirstTarget[c]] = KindOf[c]
    /\ Conditions["http"] \subseteq HttpCondition
    /\ Conditions["certificate"] \subseteq CertificateCondition
    /\ Conditions["enterprise_app"] \subseteq AppCondition
    /\ PollKind \in [Polls -> Kinds] /\ Scheduled \subseteq Polls
    /\ \A p, q \in Scheduled : PollKind[p] = PollKind[q] => p = q
    /\ None \notin Checks \cup Result
    /\ MaxEvents \in Nat

VARIABLES
    endpoint,   \* the condition of what is behind each target
    service,    \* table monitored_services: absent, disabled or enabled
    target,     \* what its columns point each check at
    latest,     \* the status of the latest result recorded for each check
    fresh,      \* HTTP checks whose latest result is younger than their interval
    incident,   \* table incidents: the incident of each check
    step,       \* where each poll is
    held,       \* the targets of the services as it read them
    queue,      \* checks it has still to visit
    cur,        \* the check it is visiting
    answer,     \* the result of asking its target
    since,      \* history variable: what would have been the result since the latest one
    edited,     \* history variable: checks whose incident was resolved by hand since then
    overlapped, \* history variable: checks that two polls visit at once, or one that
                \* asks a target they are no longer pointed at
    happened     \* how many such events there were

table == <<service, target>>
world == <<endpoint, table>>
db == <<latest, fresh, incident>>
task == <<step, held, queue, cur, answer>>
ghost == <<since, edited, overlapped>>
vars == <<world, db, task, ghost, happened>>

Severity(r) ==
    CASE r \in {"down", "expired", "secret_expired"} -> "critical"
      [] r \in {"warning_7", "secret_warning_7", "no_owners"} -> "high"
      [] r \in {"disabled", "inactive_90d"} -> "medium"
      [] OTHER -> "low"

Incident == [status: {"none", "active", "monitoring", "resolved"},
             severity: {"", "critical", "high", "medium", "low"},
             resolved: BOOLEAN,
             ended: BOOLEAN]     \* whether end_datetime is set
NoIncident == [status |-> "none", severity |-> "", resolved |-> FALSE, ended |-> FALSE]
Open(c) == incident[c] # NoIncident /\ ~incident[c].resolved

Happens == happened < MaxEvents /\ happened' = happened + 1

-----------------------------------------------------------------------------
(* What asking a target answers.                                           *)

\* Every exception (no connection, a timeout) is caught and reported as down.
HttpResult(x) == IF x.answers /\ x.expected THEN "ok" ELSE "down"

\* openssl fails, or shows no dates: the error is recorded by the poller.
CertificateResult(x) ==
    IF ~x.read THEN "error"
    ELSE IF x.days < 0 THEN "expired"
    ELSE IF x.days < 7 THEN "warning_7"
    ELSE IF x.days < 30 THEN "warning_30" ELSE "ok"

\* The credential that expires first decides, those already expired included.
Nearest(days) == CHOOSE d \in days : \A e \in days : d <= e

AppResult(x) ==
    LET left == Nearest(x.expiries) dated == x.expiries # {} IN
    IF ~x.read THEN "error"
    ELSE IF ~x.enabled THEN "disabled"
    ELSE IF x.owners = 0 THEN "no_owners"
    ELSE IF dated /\ left < 0 THEN "secret_expired"
    ELSE IF dated /\ left < 7 THEN "secret_warning_7"
    ELSE IF dated /\ left < 30 THEN "secret_warning_30"
    ELSE IF x.idle # None /\ x.idle > 90 THEN "inactive_90d"
    ELSE IF x.idle # None /\ x.idle > 30 THEN "inactive_30d" ELSE "ok"

ResultOf(kind, x) ==
    CASE kind = "http" -> HttpResult(x)
      [] kind = "certificate" -> CertificateResult(x)
      [] OTHER -> AppResult(x)

\* What asking target t results in now.
Asking(t) == ResultOf(TargetKind[t], endpoint[t])

Init ==
    /\ endpoint \in [Targets -> UNION {Conditions[k] : k \in Kinds}]
    /\ \A t \in Targets : endpoint[t] \in Conditions[TargetKind[t]] /\ Asking(t) = "ok"
    /\ service \in [Services -> {"absent", "enabled"}]
    /\ target = FirstTarget
    /\ latest = [c \in Checks |-> None]
    /\ fresh = {}
    /\ incident = [c \in Checks |-> NoIncident]
    /\ step = [p \in Polls |-> "idle"]
    /\ held = [p \in Polls |-> FirstTarget]
    /\ queue = [p \in Polls |-> {}]
    /\ cur = [p \in Polls |-> None]
    /\ answer = [p \in Polls |-> None]
    /\ since = [c \in Checks |-> {"ok"}]
    /\ edited = {} /\ overlapped = {}
    /\ happened = 0

-----------------------------------------------------------------------------
(* The world: what is behind targets changes, time passes, admins act.     *)

EndpointChanges(t, x) ==
    /\ Happens /\ x \in Conditions[TargetKind[t]] \ {endpoint[t]}
    /\ endpoint' = [endpoint EXCEPT ![t] = x]
    /\ since' = [c \in Checks |-> IF target[c] = t THEN since[c] \cup {Asking(t)'} ELSE since[c]]
    /\ UNCHANGED <<table, db, task, edited, overlapped>>

IntervalElapses(c) ==
    /\ c \in fresh
    /\ fresh' = fresh \ {c}
    /\ UNCHANGED <<world, latest, incident, task, ghost, happened>>

\* Points the checks of a service elsewhere.
PointTo(s, to) ==
    /\ target' = [c \in Checks |-> IF ServiceOf[c] = s THEN to[c] ELSE target[c]]
    /\ since' = [c \in Checks |-> since[c] \cup {Asking(target'[c])}]
    /\ overlapped' = overlapped \cup {c \in Checks : target'[c] # target[c] /\ \E p \in Polls : cur[p] = c}

Pointings(s) == {to \in [Checks -> Targets] : \A c \in Checks :
                    /\ TargetKind[to[c]] = KindOf[c]
                    /\ ServiceOf[c] # s \/ KindOf[c] = "enterprise_app" => to[c] = target[c]}

\* None of these looks at the results and incidents of the service, and a poll
\* under way keeps its list.
CreateCheck(s, to) ==
    /\ Happens /\ service[s] = "absent"
    /\ service' = [service EXCEPT ![s] = "enabled"]
    /\ PointTo(s, to)
    /\ UNCHANGED <<endpoint, db, task, edited>>

UpdateCheck(s, to) ==
    /\ Happens /\ service[s] # "absent" /\ \E c \in Checks : to[c] # target[c]
    /\ PointTo(s, to)
    /\ UNCHANGED <<endpoint, service, db, task, edited>>

DeleteCheck(s) ==
    /\ Happens /\ service[s] # "absent"
    /\ service' = [service EXCEPT ![s] = "absent"]
    /\ UNCHANGED <<endpoint, target, db, task, ghost>>

ToggleService(s) ==
    /\ Happens /\ service[s] # "absent"
    /\ service' = [service EXCEPT ![s] = IF @ = "enabled" THEN "disabled" ELSE "enabled"]
    /\ UNCHANGED <<endpoint, target, db, task, ghost>>

\* The edit form with "resolved" ticked, its end left as it is shown: set to now if empty.
Closed(i) == [i EXCEPT !.resolved = TRUE, !.ended = TRUE]

AdminResolves(c) ==
    /\ Happens /\ Open(c)
    /\ incident' = [incident EXCEPT ![c] = Closed(@)]
    /\ edited' = edited \cup {c}
    /\ UNCHANGED <<world, latest, fresh, task, since, overlapped>>

-----------------------------------------------------------------------------
(* A poll.                                                                 *)

Goto(p, s) == step' = [step EXCEPT ![p] = s]

\* By the scheduler, or by an admin (manual_poll_...).
Triggered(p) == IF p \in Scheduled THEN UNCHANGED happened ELSE Happens

\* The enabled services with a column for the poller's kind.
Polled(kind) == {c \in Checks : KindOf[c] = kind /\ service[ServiceOf[c]] = "enabled"}

\* SELECT them: what is enabled or added later waits for the next poll.
PollStarts(p) ==
    /\ step[p] = "idle" /\ Triggered(p)
    /\ queue' = [queue EXCEPT ![p] = Polled(PollKind[p])]
    /\ held' = [held EXCEPT ![p] = target]
    /\ Goto(p, "next")
    /\ UNCHANGED <<world, db, cur, answer, ghost>>

\* Mutant: a check is due only the first time.
DueOnce(c) == latest[c] = None

\* An HTTP check waits until its interval has passed since its last result.
Due(c) == KindOf[c] # "http" \/ c \notin fresh

\* The loop goes on to a service: its check is not due ...
Skip(p, c) ==
    /\ step[p] = "next" /\ c \in queue[p] /\ ~Due(c)
    /\ queue' = [queue EXCEPT ![p] = @ \ {c}]
    /\ UNCHANGED <<world, db, step, held, cur, answer, ghost, happened>>

\* ... or the poll starts to wait for the endpoint.
Ask(p, c) ==
    /\ step[p] = "next" /\ c \in queue[p] /\ Due(c)
    /\ queue' = [queue EXCEPT ![p] = @ \ {c}]
    /\ cur' = [cur EXCEPT ![p] = c]
    /\ Goto(p, "asking")
    /\ overlapped' = IF held[p][c] # target[c] \/ \E q \in Polls \ {p} : cur[q] = c
                     THEN overlapped \cup {c} ELSE overlapped \ {c}
    /\ UNCHANGED <<world, db, held, answer, since, edited, happened>>

\* Mutant: after an error the loop carries on with the previous answer.
AnsweredKeepsOld(p) ==
    LET r == Asking(held[p][cur[p]]) IN IF r = "error" /\ answer[p] # None THEN answer[p] ELSE r

\* The target as the poll read it.
Answered(p) == Asking(held[p][cur[p]])

Hear(p) ==
    /\ step[p] = "asking"
    /\ answer' = [answer EXCEPT ![p] = Answered(p)]
    /\ Goto(p, "record")
    /\ UNCHANGED <<world, db, held, queue, cur, ghost, happened>>

\* Mutant: the phase is the check's own status.
PhaseUnmapped(r) == r
Phase(r) == IF Severity(r) = "critical" THEN "active" ELSE "monitoring"

\* A good answer resolves the check's unresolved incident ...
AfterOk(i) ==
    IF i # NoIncident /\ ~i.resolved
    THEN [i EXCEPT !.status = "resolved", !.resolved = TRUE, !.ended = TRUE] ELSE i

\* ... a bad one creates or reopens it, without a word on end_datetime ...
AfterBad(i, r) == [status |-> Phase(r), severity |-> Severity(r), resolved |-> FALSE, ended |-> i.ended]

\* ... and no answer is recorded as an error, which leaves it alone.
After(i, r) == IF r = "ok" THEN AfterOk(i) ELSE IF r = "error" THEN i ELSE AfterBad(i, r)

\* record_http_check_result and its like: one more row, which is the latest now.
Stored(c, r) == latest' = [latest EXCEPT ![c] = r]

Record(p) ==
    LET c == cur[p] r == answer[p] IN
    /\ step[p] = "record"
    /\ Stored(c, r)
    /\ fresh' = IF KindOf[c] = "http" THEN fresh \cup {c} ELSE fresh
    /\ incident' = [incident EXCEPT ![c] = After(@, r)]
    /\ cur' = [cur EXCEPT ![p] = None]
    /\ Goto(p, "next")
    /\ since' = [since EXCEPT ![c] = {Asking(target[c])}]
    /\ edited' = IF r = "error" THEN edited ELSE edited \ {c}
    /\ UNCHANGED <<world, held, queue, answer, overlapped, happened>>

EndPolls(ps) ==
    /\ step' = [p \in Polls |-> IF p \in ps THEN "idle" ELSE step[p]]
    /\ queue' = [p \in Polls |-> IF p \in ps THEN {} ELSE queue[p]]
    /\ cur' = [p \in Polls |-> IF p \in ps THEN None ELSE cur[p]]
    /\ answer' = [p \in Polls |-> IF p \in ps THEN None ELSE answer[p]]
    /\ held' = [p \in Polls |-> IF p \in ps THEN FirstTarget ELSE held[p]]

\* The HTTP results that may be older than the retention and yet the latest:
\* those of checks that are not polled any more.
Forgettable == {c \in Checks \ fresh : KindOf[c] = "http" /\ service[ServiceOf[c]] # "enabled"}

\* Every service is done, and the HTTP poll deletes results past the retention.
PollEnds(p, old) ==
    /\ step[p] = "next" /\ queue[p] = {}
    /\ old \subseteq Forgettable /\ (PollKind[p] = "http" \/ old = {})
    /\ latest' = [c \in Checks |-> IF c \in old THEN None ELSE latest[c]]
    /\ EndPolls({p})
    /\ UNCHANGED <<world, fresh, incident, ghost, happened>>

\* Mutant: the result survives the rollback.
FailKeepsResult(p) ==
    /\ step[p] = "record" /\ Happens
    /\ latest' = [latest EXCEPT ![cur[p]] = answer[p]]
    /\ EndPolls({p})
    /\ UNCHANGED <<world, fresh, incident, ghost>>

\* A statement fails ("database is locked").  The rollback expires the loaded
\* services, reading the next one's name outside a query raises, and the outer
\* handler ends the poll: the services after this one are not visited.
Fail(p) ==
    /\ step[p] = "record" /\ Happens
    /\ EndPolls({p})
    /\ UNCHANGED <<world, db, ghost>>

\* The process dies and is started again.
Crash ==
    /\ Happens
    /\ EndPolls(Polls)
    /\ UNCHANGED <<world, db, ghost>>

-----------------------------------------------------------------------------
Proceed(p) ==
    \/ \E c \in Checks : Skip(p, c) \/ Ask(p, c)
    \/ Hear(p)
    \/ Record(p)
    \/ \E old \in SUBSET Checks : PollEnds(p, old)

Environment ==
    \/ \E c \in Checks : AdminResolves(c) \/ IntervalElapses(c)
    \/ \E t \in Targets : \E x \in Conditions[TargetKind[t]] : EndpointChanges(t, x)
    \/ \E s \in Services : \E to \in Pointings(s) : CreateCheck(s, to) \/ UpdateCheck(s, to)
    \/ \E s \in Services : DeleteCheck(s) \/ ToggleService(s)

Next ==
    \/ Environment
    \/ \E p \in Polls : PollStarts(p) \/ Proceed(p) \/ Fail(p)
    \/ Crash

Spec == Init /\ [][Next]_vars

\* Time passes, the event loop runs every task that can go on, and the
\* scheduler starts its polls; nobody has to start one by hand.
Fairness ==
    /\ \A c \in Checks : WF_vars(IntervalElapses(c))
    /\ \A p \in Polls : WF_vars(Proceed(p))
    /\ \A p \in Scheduled : WF_vars(PollStarts(p))

FairSpec == Spec /\ Fairness

-----------------------------------------------------------------------------
(* Properties.                                                             *)

TypeOK ==
    /\ \A t \in Targets : endpoint[t] \in Conditions[TargetKind[t]]
    /\ service \in [Services -> {"absent", "disabled", "enabled"}]
    /\ target \in [Checks -> Targets] /\ \A c \in Checks : TargetKind[target[c]] = KindOf[c]
    /\ latest \in [Checks -> Result \cup {None}]
    /\ fresh \subseteq Checks
    /\ incident \in [Checks -> Incident]
    /\ step \in [Polls -> {"idle", "next", "asking", "record"}]
    /\ held \in [Polls -> [Checks -> Targets]]
    /\ queue \in [Polls -> SUBSET Checks]
    /\ cur \in [Polls -> Checks \cup {None}]
    /\ answer \in [Polls -> Result \cup {None}]
    /\ since \in [Checks -> SUBSET Result]
    /\ edited \subseteq Checks /\ overlapped \subseteq Checks
    /\ happened \in Nat

\* The sensors page shows an HTTP check by its latest result, ...
HttpSensorUp(c) == latest[c] = "ok"

\* ... a certificate by its open incident, ...
CertificateSensor(c) ==
    IF ~Open(c) THEN "ok" ELSE IF incident[c].status = "active" THEN "expired" ELSE "warning"

\* ... and asked for details, by its latest result, which is of one of these classes.
LatestCertificate(c) ==
    IF latest[c] = "ok" THEN "ok" ELSE IF Severity(latest[c]) = "critical" THEN "expired" ELSE "warning"

\* The sensors page, the latest results and the status page never contradict each
\* other: a check whose latest result is good has no open incident, and one whose
\* latest result is bad has, in the phase and of the severity of that result,
\* unless an admin resolved it since; the page shows an HTTP check as up exactly
\* when it has no open incident, and a certificate as its latest result says.
ResultsMatchIncidents ==
    \A c \in Checks :
        /\ latest[c] = "ok" => ~Open(c)
        /\ latest[c] \in Bad /\ c \notin edited =>
            Open(c) /\ incident[c].status = Phase(latest[c]) /\ incident[c].severity = Severity(latest[c])
        /\ latest[c] \notin {"error", None} /\ c \notin edited =>
            /\ KindOf[c] = "http" => (HttpSensorUp(c) <=> ~Open(c))
            /\ KindOf[c] = "certificate" => CertificateSensor(c) = LatestCertificate(c)

\* A result is news: asking the check's target would have resulted in it at some
\* moment since the previous result, unless two polls visited the check at once,
\* when the slower one may write an outage that the other has already seen the end
\* of, or it was pointed elsewhere under a poll, which goes on with the old target.
ResultsAreNews ==
    [][\A p \in Polls : \A c \in Checks \ overlapped' :
        step[p] = "record" /\ cur[p] = c /\ latest'[c] \notin {latest[c], None}
            => latest'[c] \in since[c]]_vars

\* Whatever failed, overlapped or was edited, deleted and created again: once what
\* is behind the target of an enabled check settles, so does its incident, open if
\* it is bad and closed if it is good.
IncidentsSettle ==
    \A c \in Checks :
        <>[](service[ServiceOf[c]] = "enabled" =>
            /\ Asking(target[c]) \in Bad => Open(c)
            /\ Asking(target[c]) = "ok" => ~Open(c))

\* The last phase of an incident "runs until end_datetime (or now if still
\* open)" (admin.py 100-101): an open incident has no end.
OpenHasNoEnd == \A c \in Checks : Open(c) => ~incident[c].ended
=============================================================================
