-------------------------- MODULE CheckMonitorProofs --------------------------
(***************************************************************************)
(* Theorems about CheckMonitor for every set of services, checks and polls *)
(* and any number of failures: its type invariant, that results and        *)
(* incidents agree, and that every result is news.                         *)
(***************************************************************************)
EXTENDS CheckMonitor, TLAPS

-----------------------------------------------------------------------------
(* The inductive invariant.                                                *)

\* A poll is visiting a check exactly while it waits for its endpoint or has
\* its answer.
Visiting ==
    \A p \in Polls :
        /\ cur[p] # None <=> step[p] \in {"asking", "record"}
        /\ step[p] = "record" => answer[p] \in Result

\* Two polls visit the same check only if it is remembered as overlapped.
OverlapsRemembered ==
    \A p, q \in Polls : p # q /\ cur[p] # None /\ cur[p] = cur[q] => cur[p] \in overlapped

\* A poll that is not remembered so asks what its check is pointed at.
AimsRight ==
    \A p \in Polls : cur[p] # None /\ cur[p] \notin overlapped => held[p][cur[p]] = target[cur[p]]

\* What asking results in now, and what a lone poll heard, would have been the
\* result since the latest one.
HeardSince ==
    /\ \A c \in Checks : Asking(target[c]) \in since[c]
    /\ \A p \in Polls : step[p] = "record" /\ cur[p] \notin overlapped
                            => answer[p] \in since[cur[p]]

IInv == /\ TypeOK /\ Visiting /\ OverlapsRemembered /\ AimsRight /\ HeardSince
        /\ ResultsMatchIncidents

-----------------------------------------------------------------------------
(* Lemmas about the operators.                                             *)

LEMMA NoIncidentType == NoIncident \in Incident
  BY DEF NoIncident, Incident

\* Asking any target, whatever is behind it, gives a result.
LEMMA AskingType == ASSUME NEW t PROVE Asking(t) \in Result
<1>1. HttpResult(endpoint[t]) \in Result
  BY DEF HttpResult, Result
<1>2. CertificateResult(endpoint[t]) \in Result
  BY DEF CertificateResult, Result
<1>3. AppResult(endpoint[t]) \in Result
  BY DEF AppResult, Result
<1>4. QED
  BY <1>1, <1>2, <1>3 DEF Asking, ResultOf

LEMMA PhaseType == ASSUME NEW r PROVE Phase(r) \in {"active", "monitoring"}
  BY DEF Phase

LEMMA SeverityType == ASSUME NEW r PROVE Severity(r) \in {"critical", "high", "medium", "low"}
  BY DEF Severity

\* What a recorded result makes of an incident: a good one closes it, a bad one
\* opens it in the phase and with the severity of the result.
LEMMA AfterType ==
    ASSUME NEW i \in Incident, NEW r \in Result
    PROVE  /\ After(i, r) \in Incident
           /\ r = "ok" => After(i, r) = NoIncident \/ After(i, r).resolved
           /\ r \in Bad => /\ After(i, r) # NoIncident
                           /\ ~After(i, r).resolved
                           /\ After(i, r).status = Phase(r)
                           /\ After(i, r).severity = Severity(r)
           /\ r = "error" => After(i, r) = i
<1>1. CASE r = "ok"
  BY <1>1 DEF After, AfterOk, Incident, NoIncident, Bad
<1>2. CASE r = "error"
  BY <1>2 DEF After, Bad
<1>3. CASE r \in Bad
  <2>1. After(i, r) = AfterBad(i, r) /\ r # "ok" /\ r # "error"
    BY <1>3 DEF After, Bad
  <2>2. AfterBad(i, r).status # NoIncident.status
    BY PhaseType DEF AfterBad, NoIncident
  <2>3. i.ended \in BOOLEAN
    BY DEF Incident
  <2>4. AfterBad(i, r) \in Incident
    BY <2>3, PhaseType, SeverityType DEF AfterBad, Incident
  <2>5. QED
    BY <1>3, <2>1, <2>2, <2>4 DEF AfterBad, Bad
<1>4. QED
  BY <1>1, <1>2, <1>3 DEF Bad

-----------------------------------------------------------------------------
(* Each step preserves the invariant.                                      *)

LEMMA InitInv == Init => IInv
<1> SUFFICES ASSUME Init PROVE IInv
  OBVIOUS
<1> USE MonitorAssumption
<1>1. TypeOK
  BY NoIncidentType DEF Init, TypeOK, Result
<1>2. ResultsMatchIncidents
  BY DEF Init, ResultsMatchIncidents, Result, Bad, Open
<1>3. HeardSince
  BY DEF Init, HeardSince
<1>4. QED
  BY <1>1, <1>2, <1>3 DEF Init, IInv, Visiting, OverlapsRemembered, AimsRight

\* What is neither a result nor an incident does not make them disagree.
LEMMA AgreementKept ==
    ASSUME ResultsMatchIncidents, UNCHANGED <<latest, incident>>, edited \subseteq edited'
    PROVE  ResultsMatchIncidents'
  BY DEF ResultsMatchIncidents, Open, HttpSensorUp, CertificateSensor, LatestCertificate, Phase

\* Creating and changing a check: a poll that is asking the old target is
\* remembered.
LEMMA PointedInv ==
    ASSUME IInv, NEW s \in Services, NEW to, to \in Pointings(s), PointTo(s, to),
           service' \in [Services -> {"absent", "disabled", "enabled"}], happened' \in Nat,
           UNCHANGED <<endpoint, db, task, edited>>
    PROVE  IInv'
<1> USE DEF IInv
<1>1. target' \in [Checks -> Targets] /\ \A c \in Checks : TargetKind[target'[c]] = KindOf[c]
  BY DEF PointTo, Pointings, TypeOK
<1>2. \A c \in Checks : Asking(target[c])' = Asking(target'[c])
  BY DEF Asking
<1>3. \A c \in Checks : since'[c] = since[c] \cup {Asking(target[c])'}
  BY <1>2 DEF PointTo
<1>4. TypeOK'
  BY <1>1, <1>3, AskingType DEF PointTo, TypeOK, db, task
<1>5. Visiting'
  BY DEF Visiting, task
<1>6. OverlapsRemembered'
  BY DEF OverlapsRemembered, PointTo, task
<1>7. AimsRight'
  BY DEF AimsRight, PointTo, TypeOK, task
<1>8. HeardSince'
  <2>1. \A p \in Polls : step[p] = "record" => cur[p] \in Checks
    BY DEF Visiting, TypeOK
  <2>2. QED
    BY <1>3, <2>1 DEF HeardSince, PointTo, task
<1>9. QED
  BY <1>4, <1>5, <1>6, <1>7, <1>8, AgreementKept DEF db

\* The acts of endpoints, time and admins leave the polls alone.
LEMMA EnvironmentInv == IInv /\ Environment => IInv'
<1> SUFFICES ASSUME IInv, Environment PROVE IInv'
  OBVIOUS
<1> USE DEF IInv
<1>1. CASE \E c \in Checks : AdminResolves(c)
  <2> PICK c \in Checks : AdminResolves(c)
    BY <1>1
  <2>0. Closed(incident[c]) \in Incident /\ Closed(incident[c]).resolved
    <3>1. incident[c] \in Incident
      BY DEF TypeOK
    <3>2. QED
      BY <3>1 DEF Closed, Incident
  <2>1. TypeOK'
    BY <2>0 DEF AdminResolves, Happens, TypeOK, world, table, task
  <2>2. ResultsMatchIncidents'
    BY <2>0 DEF AdminResolves, ResultsMatchIncidents, HttpSensorUp, CertificateSensor, LatestCertificate,
                Phase, Open, TypeOK, world
  <2>3. QED
    BY <2>1, <2>2 DEF AdminResolves, Visiting, OverlapsRemembered, AimsRight, HeardSince, Asking,
                      world, table, task
<1>2. CASE \E c \in Checks : IntervalElapses(c)
  <2> PICK c \in Checks : IntervalElapses(c)
    BY <1>2
  <2>1. TypeOK'
    BY DEF IntervalElapses, TypeOK, world, table, task, ghost
  <2>2. QED
    BY <2>1, AgreementKept DEF IntervalElapses, Visiting, OverlapsRemembered, AimsRight,
                HeardSince, Asking, world, table, task, ghost
<1>3. CASE \E t \in Targets : \E x \in Conditions[TargetKind[t]] : EndpointChanges(t, x)
  <2> PICK t \in Targets : \E x \in Conditions[TargetKind[t]] : EndpointChanges(t, x)
    BY <1>3
  <2> PICK x \in Conditions[TargetKind[t]] : EndpointChanges(t, x)
    OBVIOUS
  <2>1. \A u \in Targets : endpoint'[u] \in Conditions[TargetKind[u]]
    BY DEF EndpointChanges, TypeOK
  <2>2. Asking(t)' \in Result
    <3>1. HttpResult(endpoint'[t]) \in Result
      BY DEF HttpResult, Result
    <3>2. CertificateResult(endpoint'[t]) \in Result
      BY DEF CertificateResult, Result
    <3>3. AppResult(endpoint'[t]) \in Result
      BY DEF AppResult, Result
    <3>4. QED
      BY <3>1, <3>2, <3>3 DEF Asking, ResultOf
  <2>3. TypeOK'
    BY <2>1, <2>2 DEF EndpointChanges, Happens, TypeOK, db, table, task
  <2>4. HeardSince'
    <3>1. ASSUME NEW c \in Checks PROVE Asking(target[c])' \in since'[c]
      <4>1. CASE target[c] = t
        BY <4>1 DEF EndpointChanges, table
      <4>2. CASE target[c] # t
        <5>1. endpoint'[target[c]] = endpoint[target[c]]
          BY <4>2 DEF EndpointChanges, TypeOK
        <5>2. Asking(target[c])' = Asking(target[c])
          BY <5>1 DEF EndpointChanges, Asking, table
        <5>3. QED
          BY <4>2, <5>2 DEF EndpointChanges, HeardSince
      <4>3. QED
        BY <4>1, <4>2
    <3>2. \A p \in Polls : step[p] = "record" => cur[p] \in Checks
      BY DEF Visiting, TypeOK
    <3>3. \A c \in Checks : since[c] \subseteq since'[c]
      BY DEF EndpointChanges
    <3>4. QED
      BY <3>1, <3>2, <3>3 DEF EndpointChanges, HeardSince, task
  <2>5. QED
    BY <2>3, <2>4, AgreementKept DEF EndpointChanges, Visiting, OverlapsRemembered, AimsRight, db, table, task
<1>4. CASE \E s \in Services : \E to \in Pointings(s) : CreateCheck(s, to) \/ UpdateCheck(s, to)
  <2> PICK s \in Services : \E to \in Pointings(s) : CreateCheck(s, to) \/ UpdateCheck(s, to)
    BY <1>4
  <2> PICK to \in Pointings(s) : CreateCheck(s, to) \/ UpdateCheck(s, to)
    OBVIOUS
  <2>1. service' \in [Services -> {"absent", "disabled", "enabled"}] /\ happened' \in Nat
    BY DEF CreateCheck, UpdateCheck, Happens, TypeOK
  <2>2. QED
    BY <2>1, PointedInv DEF CreateCheck, UpdateCheck
<1>5. CASE \E s \in Services : DeleteCheck(s) \/ ToggleService(s)
  <2> PICK s \in Services : DeleteCheck(s) \/ ToggleService(s)
    BY <1>5
  <2>1. TypeOK'
    BY DEF DeleteCheck, ToggleService, Happens, TypeOK, db, task, ghost
  <2>2. QED
    BY <2>1, AgreementKept DEF DeleteCheck, ToggleService, Visiting, OverlapsRemembered, AimsRight,
                HeardSince, Asking, db, task, ghost
<1>6. QED
  BY <1>1, <1>2, <1>3, <1>4, <1>5 DEF Environment

\* Polls that end, by themselves, by a failure or by a crash, visit nothing, and
\* results that are forgotten contradict nothing.
LEMMA EndInv ==
    ASSUME IInv, NEW ps \in SUBSET Polls, EndPolls(ps), happened' \in Nat,
           NEW old \in SUBSET Checks,
           latest' = [c \in Checks |-> IF c \in old THEN None ELSE latest[c]],
           UNCHANGED <<world, fresh, incident, ghost>>
    PROVE  IInv'
<1> USE MonitorAssumption DEF IInv
<1>1. TypeOK'
  BY DEF EndPolls, TypeOK, world, table, ghost
<1>2. Visiting'
  BY DEF EndPolls, Visiting, TypeOK
<1>3. OverlapsRemembered'
  BY DEF EndPolls, OverlapsRemembered, TypeOK, ghost
<1>4. AimsRight'
  BY DEF EndPolls, AimsRight, TypeOK, world, table, ghost
<1>5. HeardSince'
  BY DEF EndPolls, HeardSince, Asking, TypeOK, world, table, ghost
<1>6. ResultsMatchIncidents'
  BY DEF ResultsMatchIncidents, HttpSensorUp, CertificateSensor, LatestCertificate, Phase, Open, Bad, Result, TypeOK, ghost
<1>7. QED
  BY <1>1, <1>2, <1>3, <1>4, <1>5, <1>6

\* A poll starts, skips a check or begins to wait for one, or hears its answer.
LEMMA WalkInv ==
    ASSUME IInv, NEW p \in Polls,
           PollStarts(p) \/ (\E c \in Checks : Skip(p, c) \/ Ask(p, c)) \/ Hear(p)
    PROVE  IInv'
<1> USE MonitorAssumption DEF IInv
<1>1. CASE PollStarts(p)
  <2>1. TypeOK'
    BY <1>1 DEF PollStarts, Polled, Triggered, Goto, Happens, TypeOK, world, table, db, ghost
  <2>2. cur[p] = None
    BY <1>1 DEF PollStarts, Polled, Triggered, Visiting
  <2>3. AimsRight'
    BY <1>1, <2>2 DEF PollStarts, Triggered, AimsRight, TypeOK, world, table, ghost
  <2>4. QED
    BY <1>1, <2>1, <2>3, AgreementKept DEF PollStarts, Triggered, Goto, Visiting,
                      OverlapsRemembered, HeardSince, Asking, TypeOK, world, table, db, ghost
<1>2. CASE \E c \in Checks : Skip(p, c)
  <2> PICK c \in Checks : Skip(p, c)
    BY <1>2
  <2>1. TypeOK'
    BY DEF Skip, TypeOK, world, table, db, ghost
  <2>2. QED
    BY <2>1, AgreementKept DEF Skip, Visiting, OverlapsRemembered, AimsRight, HeardSince, Asking,
                world, table, db, ghost
<1>3. CASE \E c \in Checks : Ask(p, c)
  <2> PICK c \in Checks : Ask(p, c)
    BY <1>3
  <2>1. TypeOK'
    BY DEF Ask, Goto, TypeOK, world, table, db
  <2>2. Visiting'
    BY DEF Ask, Goto, Visiting, TypeOK
  <2>3. OverlapsRemembered'
    BY DEF Ask, OverlapsRemembered, TypeOK
  <2>4. AimsRight'
    BY DEF Ask, AimsRight, TypeOK, world, table
  <2>5. HeardSince'
    <3>1. ASSUME NEW q \in Polls, step'[q] = "record", cur'[q] \notin overlapped'
          PROVE  answer'[q] \in since'[cur'[q]]
      <4>1. q # p /\ step[q] = "record" /\ cur'[q] = cur[q]
        BY <3>1 DEF Ask, Goto, TypeOK
      <4>2. cur[q] # c
        BY <3>1, <4>1 DEF Ask
      <4>3. cur[q] \notin overlapped
        BY <3>1, <4>1, <4>2 DEF Ask
      <4>4. QED
        BY <4>1, <4>3 DEF Ask, HeardSince
    <3>2. QED
      BY <3>1 DEF Ask, HeardSince, Asking, world, table
  <2>6. QED
    BY <2>1, <2>2, <2>3, <2>4, <2>5, AgreementKept DEF Ask, db
<1>4. CASE Hear(p)
  <2>1. cur[p] \in Checks
    BY <1>4 DEF Hear, Visiting, TypeOK
  <2>2. TypeOK'
    BY <1>4, <2>1, AskingType DEF Hear, Answered, Goto, TypeOK, world, table, db, ghost
  <2>3. Visiting'
    BY <1>4, <2>1, AskingType DEF Hear, Answered, Goto, Visiting, TypeOK
  <2>4. HeardSince'
    <3>1. cur[p] \notin overlapped => Answered(p) \in since[cur[p]]
      BY <2>1 DEF AimsRight, HeardSince, Answered
    <3>2. QED
      BY <1>4, <2>1, <3>1 DEF Hear, Goto, HeardSince, Asking, TypeOK, world, table, ghost
  <2>5. QED
    BY <1>4, <2>2, <2>3, <2>4, AgreementKept DEF Hear, OverlapsRemembered, AimsRight,
                                  world, table, db, ghost
<1>5. QED
  BY <1>1, <1>2, <1>3, <1>4

\* A transaction writes a result and what it makes of the incident together.
LEMMA RecordInv ==
    ASSUME IInv, NEW p \in Polls, Record(p)
    PROVE  IInv'
<1> USE MonitorAssumption DEF IInv
<1> DEFINE c == cur[p]
           r == answer[p]
<1>1. c \in Checks /\ r \in Result
  BY DEF Record, Stored, Visiting, TypeOK
<1>2. incident[c] \in Incident
  BY <1>1 DEF TypeOK
<1>3. After(incident[c], r) \in Incident
  BY <1>1, <1>2, AfterType
<1>4. TypeOK'
  BY <1>1, <1>3, AskingType DEF Record, Stored, Goto, TypeOK, world, table
<1>5. Visiting'
  BY DEF Record, Stored, Goto, Visiting, TypeOK
<1>6. OverlapsRemembered'
  BY DEF Record, Stored, OverlapsRemembered, TypeOK
<1>7. AimsRight'
  BY DEF Record, Stored, AimsRight, TypeOK, world, table
<1>8. HeardSince'
  <2>1. ASSUME NEW q \in Polls, step'[q] = "record", cur'[q] \notin overlapped'
        PROVE  answer'[q] \in since'[cur'[q]]
    <3>1. q # p /\ cur'[q] = cur[q] /\ step[q] = "record" /\ answer'[q] = answer[q]
      BY <2>1 DEF Record, Stored, Goto, TypeOK
    <3>2. cur[q] # c
      BY <1>1, <2>1, <3>1 DEF OverlapsRemembered, Record, Stored
    <3>3. cur[q] \in Checks
      BY <3>1 DEF Visiting, TypeOK
    <3>4. answer[q] \in since[cur[q]]
      BY <2>1, <3>1 DEF HeardSince, Record, Stored
    <3>5. since'[cur[q]] = since[cur[q]]
      BY <1>1, <3>2, <3>3 DEF Record, Stored, TypeOK
    <3>6. QED
      BY <3>1, <3>4, <3>5
  <2>2. \A d \in Checks : Asking(target[d])' = Asking(target[d])
    BY DEF Record, Stored, Asking, world, table
  <2>3. \A d \in Checks : Asking(target[d])' \in since'[d]
    BY <1>1, <2>2 DEF Record, Stored, HeardSince, TypeOK
  <2>4. QED
    BY <2>1, <2>3 DEF HeardSince
<1>9. ResultsMatchIncidents'
  <2> SUFFICES ASSUME NEW d \in Checks
      PROVE  /\ latest'[d] = "ok" => ~Open(d)'
             /\ latest'[d] \in Bad /\ d \notin edited'
                  => /\ Open(d)' /\ incident'[d].status = Phase(latest'[d])
                     /\ incident'[d].severity = Severity(latest'[d])
             /\ latest'[d] \notin {"error", None} /\ d \notin edited'
                  => /\ KindOf[d] = "http" => (HttpSensorUp(d)' <=> ~Open(d)')
                     /\ KindOf[d] = "certificate" => CertificateSensor(d)' = LatestCertificate(d)'
    BY DEF ResultsMatchIncidents, Phase, Severity
  <2>1. CASE d = c
    <3>1. latest'[d] = r /\ incident'[d] = After(incident[c], r)
      BY <1>1, <2>1 DEF Record, Stored, TypeOK
    <3>2. latest'[d] = "ok" => ~Open(d)'
      BY <1>1, <1>2, <3>1, AfterType DEF Open
    <3>3. latest'[d] \in Bad => /\ Open(d)' /\ incident'[d].status = Phase(latest'[d])
                              /\ incident'[d].severity = Severity(latest'[d])
      BY <1>1, <1>2, <3>1, AfterType DEF Open
    <3>4. latest'[d] = "ok" \/ latest'[d] \in Bad \/ latest'[d] = "error"
      BY <1>1, <3>1 DEF Bad
    <3>5. QED
      BY <3>2, <3>3, <3>4 DEF HttpSensorUp, CertificateSensor, LatestCertificate, Phase, Bad
  <2>2. CASE d # c
    <3>1. latest'[d] = latest[d] /\ incident'[d] = incident[d]
      BY <1>1, <2>2 DEF Record, Stored, TypeOK
    <3>2. d \in edited' <=> d \in edited
      BY <2>2 DEF Record, Stored
    <3>3. QED
      BY <3>1, <3>2 DEF ResultsMatchIncidents, Open, HttpSensorUp, CertificateSensor, LatestCertificate
  <2>3. QED
    BY <2>1, <2>2
<1>10. QED
  BY <1>4, <1>5, <1>6, <1>7, <1>8, <1>9

LEMMA StepInv == IInv /\ [Next]_vars => IInv'
<1> SUFFICES ASSUME IInv, [Next]_vars PROVE IInv'
  OBVIOUS
<1>1. CASE Environment
  BY <1>1, EnvironmentInv
<1>2. ASSUME NEW p \in Polls,
             PollStarts(p) \/ (\E c \in Checks : Skip(p, c) \/ Ask(p, c)) \/ Hear(p)
      PROVE  IInv'
  BY <1>2, WalkInv
<1>3. ASSUME NEW p \in Polls, Record(p) PROVE IInv'
  BY <1>3, RecordInv
<1>4. happened \in Nat /\ (Happens => happened' \in Nat)
  BY DEF IInv, TypeOK, Happens
<1>5. latest = [c \in Checks |-> IF c \in {} THEN None ELSE latest[c]]
  BY DEF IInv, TypeOK
<1>6. ASSUME NEW p \in Polls, NEW old \in SUBSET Checks, PollEnds(p, old) PROVE IInv'
  BY <1>4, <1>6, EndInv DEF PollEnds
<1>7. ASSUME NEW p \in Polls, Fail(p) PROVE IInv'
  <2>1. /\ EndPolls({p}) /\ happened' \in Nat /\ UNCHANGED <<world, fresh, incident, ghost>>
        /\ latest' = [c \in Checks |-> IF c \in {} THEN None ELSE latest[c]]
    BY <1>4, <1>5, <1>7 DEF Fail, db
  <2>2. {p} \in SUBSET Polls /\ {} \in SUBSET Checks
    OBVIOUS
  <2>3. QED
    BY <2>1, <2>2, EndInv
<1>8. CASE Crash
  <2>1. /\ EndPolls(Polls) /\ happened' \in Nat /\ UNCHANGED <<world, fresh, incident, ghost>>
        /\ latest' = [c \in Checks |-> IF c \in {} THEN None ELSE latest[c]]
    BY <1>4, <1>5, <1>8 DEF Crash, db
  <2>2. {} \in SUBSET Checks
    OBVIOUS
  <2>3. QED
    BY <2>1, <2>2, EndInv
<1>9. CASE UNCHANGED vars
  BY <1>9, AgreementKept DEF IInv, TypeOK, Visiting, OverlapsRemembered, AimsRight, HeardSince,
              Asking, vars, world, table, db, task, ghost
<1>10. QED
  BY <1>1, <1>2, <1>3, <1>6, <1>7, <1>8, <1>9 DEF Next, Proceed

LEMMA Invariance == Spec => []IInv
  BY InitInv, StepInv, PTL DEF Spec

-----------------------------------------------------------------------------
\* Every variable keeps its type.
THEOREM TypeCorrect == Spec => []TypeOK
<1>1. IInv => TypeOK
  BY DEF IInv
<1>2. QED
  BY <1>1, Invariance, PTL

\* Whatever polls overlap and fail, the results recorded for a check and the
\* incident on the status page never contradict each other.
THEOREM ResultsAndIncidentsAgree == Spec => []ResultsMatchIncidents
<1>1. IInv => ResultsMatchIncidents
  BY DEF IInv
<1>2. QED
  BY <1>1, Invariance, PTL

\* A result is an answer the endpoint gave since the result before it, unless
\* two polls visited the check at once.
THEOREM EveryResultIsNews == Spec => ResultsAreNews
<1> DEFINE News == \A p \in Polls : \A c \in Checks \ overlapped' :
                     step[p] = "record" /\ cur[p] = c /\ latest'[c] \notin {latest[c], None}
                         => latest'[c] \in since[c]
<1>1. ASSUME IInv, [Next]_vars PROVE [News]_vars
  <2> SUFFICES ASSUME NEW p \in Polls, NEW c \in Checks \ overlapped',
                      step[p] = "record", cur[p] = c, latest'[c] \notin {latest[c], None}
               PROVE  latest'[c] \in since[c]
    OBVIOUS
  <2>1. latest'[c] # latest[c] /\ latest'[c] # None
    OBVIOUS
  <2>2. ASSUME NEW q \in Polls, NEW old \in SUBSET Checks, PollEnds(q, old) PROVE FALSE
    BY <2>1, <2>2 DEF PollEnds
  <2>3. PICK q \in Polls : Record(q)
    BY <1>1, <2>1, <2>2 DEF Next, Environment, AdminResolves, IntervalElapses, EndpointChanges,
                CreateCheck, UpdateCheck, DeleteCheck, ToggleService,
                PollStarts, Triggered, Proceed, Skip, Ask, Hear, Fail, Crash, vars, db
  <2>4. cur[q] = c /\ latest'[c] = answer[q] /\ step[q] = "record" /\ overlapped' = overlapped
    BY <1>1, <2>1, <2>3 DEF Record, Stored, IInv, TypeOK
  <2>5. QED
    BY <1>1, <2>4 DEF IInv, HeardSince
<1>2. QED
  BY <1>1, Invariance, PTL DEF Spec, ResultsAreNews
=============================================================================
