------------------------- MODULE SecretRotationProofs -------------------------
(***************************************************************************)
(* Theorems about SecretRotation for every set of app registrations,       *)
(* credentials and requests and any number of failures: its type           *)
(* invariant, that a saved secret was stored, that typed ones stay, and    *)
(* that undisturbed rotations leave one credential behind.  And about      *)
(* Mailing, for every set of tasks: a secret in use is refused only while  *)
(* it is rotated, or after a rotation was disturbed and before the mend.   *)
(***************************************************************************)
EXTENDS Mailing, TLAPS

-----------------------------------------------------------------------------
(* The inductive invariant.                                                *)

\* A request under way knows the app it works for, and has created a credential
\* exactly when it goes on to remove the previous one or store the new one.
UnderWay ==
    \A r \in Requests :
        /\ step[r] # "idle" => readIds[r] \in Apps
        /\ step[r] \in {"idle", "read", "add"} => minted[r] = None
        /\ step[r] \in {"remove", "store"} => minted[r] # None
        /\ step[r] = "remove" => stored[r].keyId # None

\* A record was stored by a rotation as a whole, or is the one set up by hand.
Origin(rec) ==
    /\ rec.secret \in everStored \cup {None}
    /\ rec.keyId # None => rec.keyId = rec.secret /\ rec.keyId \notin typed

RecordsHaveOrigin == Origin(vault) /\ \A r \in Requests : Origin(stored[r])

\* Nobody typed a credential that a rotation created.
MintedNotTyped == \A r \in Requests : minted[r] \notin typed

\* What a request is about to save was stored.
AboutToSave ==
    \A r \in Requests : step[r] = "save" => Effective(r) \in everStored

IInv == /\ TypeOK /\ UnderWay /\ RecordsHaveOrigin /\ MintedNotTyped /\ AboutToSave
        /\ SavedWasStored /\ TypedKeysStay

-----------------------------------------------------------------------------
(* Lemmas.                                                                 *)

LEMMA RecordTypes ==
    /\ NoRecord \in Record /\ NoRecord.keyId = None /\ NoRecord.secret = None
    /\ \A r \in Requests : TypeOK => stored[r] \in Record
  BY DEF NoRecord, Record, TypeOK

\* A credential that was not used is not typed, stored or held by a request.
LEMMA UnusedIsNew ==
    ASSUME NEW k \in Keys \ Used
    PROVE  k \notin typed /\ k \notin everStored /\ \A r \in Requests : minted[r] # k
<1>1. k \notin typed /\ k \notin everStored
  BY DEF Used
<1>2. k \notin {minted[r] : r \in Requests}
  BY DEF Used
<1>3. QED
  BY <1>1, <1>2

\* A request that ends leaves everything else as it is.
LEMMA FinishInv ==
    ASSUME IInv, NEW r \in Requests, Finish(r), TypeOK', typed' = typed,
           everStored \subseteq everStored',
           Origin(vault)', SavedWasStored', TypedKeysStay'
    PROVE  IInv'
<1> USE RecordTypes, RotationAssumption DEF IInv
<1>1. UnderWay'
  BY DEF Finish, Goto, UnderWay, TypeOK
<1>2. RecordsHaveOrigin'
  BY DEF Finish, RecordsHaveOrigin, Origin, TypeOK
<1>3. MintedNotTyped'
  <2>1. None \notin typed
    BY DEF TypeOK
  <2>2. QED
    BY <2>1 DEF Finish, MintedNotTyped, TypeOK
<1>4. AboutToSave'
  BY DEF Finish, Goto, AboutToSave, Effective, TypeOK
<1>5. QED
  BY <1>1, <1>2, <1>3, <1>4

LEMMA InitInv == Init => IInv
<1> SUFFICES ASSUME Init PROVE IInv
  OBVIOUS
<1> USE RotationAssumption, RecordTypes
<1>1. vault \in Record /\ vault.keyId = None /\ vault.secret \in Keys \cup {None}
  BY DEF Init, NoRecord, Record
<1>2. TypeOK
  BY <1>1 DEF Init, TypeOK, Steps
<1>3. RecordsHaveOrigin
  BY <1>1 DEF Init, RecordsHaveOrigin, Origin
<1>4. TypedKeysStay
  BY DEF Init, TypedKeysStay
<1>5. QED
  BY <1>2, <1>3, <1>4 DEF Init, IInv, UnderWay, MintedNotTyped, AboutToSave, SavedWasStored

-----------------------------------------------------------------------------
(* One lemma for each step of a request.                                   *)

LEMMA StartInv == ASSUME IInv, NEW r \in Requests, Start(r) PROVE IInv'
<1> USE DEF IInv
<1>1. TypeOK'
  BY DEF Start, Goto, TypeOK, Steps, remote, settings
<1>2. UnderWay'
  BY DEF Start, Goto, UnderWay, TypeOK
<1>3. AboutToSave'
  BY DEF Start, Goto, AboutToSave, Effective, TypeOK
<1>4. QED
  BY <1>1, <1>2, <1>3 DEF Start, RecordsHaveOrigin, Origin, MintedNotTyped,
                          SavedWasStored, TypedKeysStay, remote, settings

LEMMA ReadVaultInv ==
    ASSUME IInv, NEW r \in Requests, ReadVault(r) PROVE IInv'
<1> USE DEF IInv
<1>1. TypeOK'
  BY DEF ReadVault, Goto, TypeOK, Steps, remote, settings
<1>2. UnderWay'
  BY DEF ReadVault, Goto, UnderWay, TypeOK
<1>3. RecordsHaveOrigin'
  BY DEF ReadVault, RecordsHaveOrigin, Origin, TypeOK, remote
<1>4. AboutToSave'
  <2>0. minted[r] = None
    BY DEF ReadVault, UnderWay
  <2>1. ASSUME step'[r] = "save" PROVE vault.secret \in everStored /\ stored'[r] = vault
    BY <2>1, RotationAssumption
       DEF ReadVault, Goto, NeedsRotation, RecordsHaveOrigin, Origin, TypeOK, remote
  <2>2. QED
    BY <2>0, <2>1 DEF ReadVault, Goto, AboutToSave, Effective, TypeOK
<1>5. QED
  BY <1>1, <1>2, <1>3, <1>4 DEF ReadVault, MintedNotTyped, SavedWasStored, TypedKeysStay,
                                remote, settings

LEMMA AddPasswordInv ==
    ASSUME IInv, NEW r \in Requests, NEW k \in Keys, AddPassword(r, k) PROVE IInv'
<1> USE DEF IInv
<1>1. readIds[r] \in Apps /\ k \in Keys \ Used /\ k # None
  BY RotationAssumption DEF AddPassword, UnderWay
<1>2. TypeOK'
  BY <1>1 DEF AddPassword, Goto, TypeOK, Steps, settings
<1>3. UnderWay'
  BY <1>1 DEF AddPassword, Goto, UnderWay, TypeOK
<1>4. MintedNotTyped'
  BY <1>1, UnusedIsNew DEF AddPassword, MintedNotTyped, TypeOK
<1>5. AboutToSave'
  BY DEF AddPassword, Goto, AboutToSave, Effective, TypeOK
<1>6. TypedKeysStay'
  <2>1. \A a \in Apps : creds[a] \subseteq creds'[a]
    BY <1>1 DEF AddPassword, TypeOK
  <2>2. QED
    BY <2>1 DEF AddPassword, TypedKeysStay
<1>7. QED
  BY <1>2, <1>3, <1>4, <1>5, <1>6
     DEF AddPassword, RecordsHaveOrigin, Origin, SavedWasStored, settings

\* Removing the recorded key cannot hit a typed one.
LEMMA RemovedIsNotTyped ==
    ASSUME IInv, NEW r \in Requests, step[r] = "remove",
           creds' = [creds EXCEPT ![readIds[r]] = @ \ {stored[r].keyId}], typed' = typed
    PROVE  creds' \in [Apps -> SUBSET Keys] /\ TypedKeysStay'
<1> USE DEF IInv
<1>1. readIds[r] \in Apps /\ stored[r].keyId \notin typed
  BY DEF UnderWay, RecordsHaveOrigin, Origin
<1>2. \A a \in Apps : creds[a] \ {stored[r].keyId} \subseteq creds'[a]
  BY <1>1 DEF TypeOK
<1>3. creds' \in [Apps -> SUBSET Keys]
  BY <1>1 DEF TypeOK
<1>4. QED
  BY <1>1, <1>2, <1>3 DEF TypedKeysStay

LEMMA RemoveInv ==
    ASSUME IInv, NEW r \in Requests, RemovePassword(r) \/ RemoveRefused(r) PROVE IInv'
<1> USE DEF IInv
<1>1. creds' \in [Apps -> SUBSET Keys] /\ TypedKeysStay'
  <2>1. CASE RemovePassword(r)
    BY <2>1, RemovedIsNotTyped DEF RemovePassword
  <2>2. CASE RemoveRefused(r)
    BY <2>2 DEF RemoveRefused, TypedKeysStay, TypeOK, remote
  <2>3. QED
    BY <2>1, <2>2
<1>2. /\ step' = [step EXCEPT ![r] = "store"] /\ step[r] = "remove"
      /\ UNCHANGED <<expiring, vault, settings, readIds, stored, minted, form, typed,
                     everStored, forms>>
  BY DEF RemovePassword, RemoveRefused, Goto, remote
<1>3. TypeOK'
  <2>1. disturbed' \in BOOLEAN
    BY DEF RemovePassword, RemoveRefused, TypeOK
  <2>2. faults' = faults \/ faults' = faults + 1
    BY DEF RemovePassword, RemoveRefused
  <2>3. faults' \in Nat
    BY <2>2 DEF TypeOK
  <2>4. QED
    BY <1>1, <1>2, <2>1, <2>3 DEF TypeOK, Steps, settings
<1>4. UnderWay'
  BY <1>2 DEF UnderWay, TypeOK
<1>5. AboutToSave'
  BY <1>2 DEF AboutToSave, Effective, TypeOK
<1>6. QED
  BY <1>1, <1>2, <1>3, <1>4, <1>5
     DEF RecordsHaveOrigin, Origin, MintedNotTyped, SavedWasStored, settings

\* The record a request writes has its own credential, which nobody typed.
LEMMA NewRecordOrigin ==
    ASSUME IInv, NEW r \in Requests, step[r] = "store", vault' = NewRecord(r),
           everStored' = everStored \cup {minted[r]}, typed' = typed
    PROVE  /\ vault' \in Record /\ everStored' \subseteq Keys
           /\ Origin(vault)' /\ minted[r] \in everStored'
<1> USE DEF IInv
<1>1. readIds[r] \in Apps /\ minted[r] \in Keys /\ minted[r] \notin typed
  BY DEF UnderWay, TypeOK, MintedNotTyped
<1>2. QED
  BY <1>1 DEF NewRecord, Record, Origin, TypeOK

LEMMA SetSecretInv == ASSUME IInv, NEW r \in Requests, SetSecret(r) PROVE IInv'
<1> USE DEF IInv
<1>1. /\ vault' \in Record /\ everStored' \subseteq Keys
      /\ Origin(vault)' /\ minted[r] \in everStored'
  BY NewRecordOrigin DEF SetSecret
<1>2. TypeOK'
  BY <1>1 DEF SetSecret, Goto, TypeOK, Steps, settings
<1>3. UnderWay'
  BY DEF SetSecret, Goto, UnderWay, TypeOK
<1>4. RecordsHaveOrigin'
  BY <1>1 DEF SetSecret, RecordsHaveOrigin, Origin
<1>5. AboutToSave'
  BY <1>1 DEF SetSecret, Goto, AboutToSave, Effective, UnderWay, TypeOK
<1>6. QED
  BY <1>2, <1>3, <1>4, <1>5 DEF SetSecret, MintedNotTyped, SavedWasStored, TypedKeysStay, settings

LEMMA SaveSettingsInv == ASSUME IInv, NEW r \in Requests, SaveSettings(r) PROVE IInv'
<1> USE DEF IInv
<1>1. saved' \in everStored /\ ids' \in Apps
  BY DEF SaveSettings, AboutToSave, UnderWay
<1>2. TypeOK'
  BY <1>1, RecordTypes DEF SaveSettings, Finish, Goto, TypeOK, Steps, remote
<1>3. QED
  BY <1>1, <1>2, FinishInv DEF SaveSettings, SavedWasStored, TypedKeysStay, RecordsHaveOrigin,
                               Origin, remote

LEMMA FailInv == ASSUME IInv, NEW r \in Requests, Fail(r) \/ AddRefused(r) PROVE IInv'
<1> USE DEF IInv
<1>1. /\ Finish(r) /\ typed' = typed
      /\ UNCHANGED <<expiring, settings, form, forms>>
      /\ disturbed' = TRUE
      /\ faults' = faults \/ faults' = faults + 1
  BY DEF Fail, AddRefused, remote
<1>2. /\ creds' \in [Apps -> SUBSET Keys] /\ TypedKeysStay'
      /\ vault' \in Record /\ everStored' \subseteq Keys
      /\ everStored \subseteq everStored' /\ Origin(vault)'
  <2>1. CASE UNCHANGED <<creds, vault, everStored>>
    BY <1>1, <2>1 DEF TypeOK, TypedKeysStay, RecordsHaveOrigin, Origin
  <2>2. CASE /\ step[r] = "add" /\ UNCHANGED <<vault, everStored>>
             /\ \E k \in Keys \ Used : creds' = [creds EXCEPT ![readIds[r]] = @ \cup {k}]
    <3>1. PICK k \in Keys \ Used : creds' = [creds EXCEPT ![readIds[r]] = @ \cup {k}]
      BY <2>2
    <3>2. readIds[r] \in Apps
      BY <2>2 DEF UnderWay
    <3>3. \A a \in Apps : creds[a] \subseteq creds'[a]
      BY <3>1, <3>2 DEF TypeOK
    <3>4. creds' \in [Apps -> SUBSET Keys]
      BY <3>1, <3>2 DEF TypeOK
    <3>5. QED
      BY <1>1, <2>2, <3>3, <3>4 DEF TypeOK, TypedKeysStay, RecordsHaveOrigin, Origin
  <2>3. CASE /\ step[r] = "remove" /\ UNCHANGED <<vault, everStored>>
             /\ creds' = [creds EXCEPT ![readIds[r]] = @ \ {stored[r].keyId}]
    BY <1>1, <2>3, RemovedIsNotTyped DEF TypeOK, RecordsHaveOrigin, Origin
  <2>4. CASE /\ step[r] = "store" /\ UNCHANGED creds /\ vault' = NewRecord(r)
             /\ everStored' = everStored \cup {minted[r]}
    BY <1>1, <2>4, NewRecordOrigin DEF TypeOK, TypedKeysStay
  <2>5. QED
    BY <2>1, <2>2, <2>3, <2>4 DEF Fail, AddRefused, remote
<1>3. TypeOK'
  BY <1>1, <1>2, RecordTypes DEF Finish, Goto, TypeOK, Steps, settings
<1>4. SavedWasStored'
  BY <1>1, <1>2 DEF SavedWasStored, settings
<1>5. QED
  BY <1>1, <1>2, <1>3, <1>4, FinishInv

\* A secret an admin types in is new to everyone.
LEMMA SaveFormInv ==
    ASSUME IInv, NEW a \in Apps, NEW k \in Keys \cup {None}, SaveForm(a, k) PROVE IInv'
<1> USE DEF IInv
<1>1. /\ UNCHANGED <<expiring, vault, step, readIds, stored, minted, everStored, faults>>
      /\ ids' = a /\ form' = a /\ forms' = forms + 1
      /\ disturbed' \in BOOLEAN
  BY DEF SaveForm, request, TypeOK
<1>2. CASE k = None /\ UNCHANGED <<creds, saved, typed>>
  BY <1>1, <1>2 DEF TypeOK, UnderWay, RecordsHaveOrigin, Origin, MintedNotTyped, AboutToSave,
                    Effective, SavedWasStored, TypedKeysStay
<1>3. CASE /\ k \in Keys \ Used /\ saved' = k /\ typed' = typed \cup {k}
           /\ creds' = [creds EXCEPT ![a] = @ \cup {k}]
  <2>1. k \in Keys /\ k \notin everStored /\ \A r \in Requests : minted[r] # k
    BY <1>3, UnusedIsNew
  <2>2. TypeOK'
    BY <1>1, <1>3 DEF TypeOK
  <2>3. RecordsHaveOrigin'
    BY <1>1, <1>3, <2>1 DEF RecordsHaveOrigin, Origin
  <2>4. MintedNotTyped'
    BY <1>1, <1>3, <2>1 DEF MintedNotTyped
  <2>5. TypedKeysStay'
    <3>1. k \in creds'[a] /\ \A b \in Apps : creds[b] \subseteq creds'[b]
      BY <1>3 DEF TypeOK
    <3>2. QED
      BY <1>3, <3>1 DEF TypedKeysStay
  <2>6. QED
    BY <1>1, <1>3, <2>2, <2>3, <2>4, <2>5 DEF UnderWay, AboutToSave, Effective, SavedWasStored
<1>4. QED
  BY <1>2, <1>3 DEF SaveForm

-----------------------------------------------------------------------------
LEMMA StepInv == IInv /\ [Next]_vars => IInv'
<1> SUFFICES ASSUME IInv, [Next]_vars PROVE IInv'
  OBVIOUS
<1>1. ASSUME NEW r \in Requests, Rotate(r) PROVE IInv'
  BY <1>1, StartInv, ReadVaultInv, AddPasswordInv, RemoveInv, SetSecretInv, SaveSettingsInv,
     FailInv DEF Rotate
<1>2. ASSUME NEW a \in Apps, NEW k \in Keys \cup {None}, SaveForm(a, k) PROVE IInv'
  BY <1>2, SaveFormInv
<1>3. ASSUME NEW k \in Keys, Ages(k) PROVE IInv'
  BY <1>3 DEF Ages, IInv, TypeOK, UnderWay, RecordsHaveOrigin, Origin, MintedNotTyped,
              AboutToSave, Effective, SavedWasStored, TypedKeysStay, settings, request
<1>4. CASE UNCHANGED vars
  BY <1>4 DEF IInv, TypeOK, UnderWay, RecordsHaveOrigin, Origin, MintedNotTyped, AboutToSave,
              Effective, SavedWasStored, TypedKeysStay, vars, remote, settings, request
<1>5. QED
  BY <1>1, <1>2, <1>3, <1>4 DEF Next

LEMMA Invariance == Spec => []IInv
  BY InitInv, StepInv, PTL DEF Spec

-----------------------------------------------------------------------------
\* Every variable keeps its type.
THEOREM TypeCorrect == Spec => []TypeOK
<1>1. IInv => TypeOK
  BY DEF IInv
<1>2. QED
  BY <1>1, Invariance, PTL

\* Whichever calls fail and whichever requests overlap, the settings never hold
\* a secret that neither OpenBao held nor an admin typed in.
THEOREM SavedSecretWasStored == Spec => []SavedWasStored
<1>1. IInv => SavedWasStored
  BY DEF IInv
<1>2. QED
  BY <1>1, Invariance, PTL

\* And no rotation removes a credential an admin created.
THEOREM TypedKeysAreNotRemoved == Spec => []TypedKeysStay
<1>1. IInv => TypedKeysStay
  BY DEF IInv
<1>2. QED
  BY <1>1, Invariance, PTL

-----------------------------------------------------------------------------
(* What holds besides as long as nothing is disturbed.                     *)

\* The credentials that rotations created and did not remove.
Created(a) == creds[a] \ typed

\* The one the record names.
Recorded == {vault.keyId} \ {None}

OneAtATime ==
    \A r, q \in Requests : step[r] # "idle" /\ step[q] # "idle" => r = q

\* The app never changes: requests work for it, and so does the record.
SameApp ==
    /\ \A r \in Requests : step[r] # "idle" => readIds[r] = ids
    /\ vault.keyId # None => vault.app = ids
    /\ \A a \in Apps \ {ids} : Created(a) = {}

\* What a request knows of the record, between reading it and saving its secret.
KnowsRecord ==
    \A r \in Requests :
        /\ step[r] \in {"add", "remove"} => stored[r] = vault
        /\ step[r] = "remove" => minted[r] # vault.keyId
        /\ step[r] = "save" /\ minted[r] = None => stored[r] = vault
        /\ step[r] = "save" /\ minted[r] # None => vault.keyId = minted[r]

\* The recorded credential is the only one, but for what a request is about to
\* remove or to store.
CreatedIsRecorded ==
    /\ (\A r \in Requests : step[r] \notin {"remove", "store"}) => Created(ids) = Recorded
    /\ \A r \in Requests :
        /\ step[r] = "remove" => Created(ids) = Recorded \cup {minted[r]}
        /\ step[r] = "store" => Created(ids) = {minted[r]}

\* And the settings hold it, but for what a request is about to save.
SavedIsRecorded ==
    (\A r \in Requests : ~(step[r] = "save" /\ minted[r] # None))
        => saved \in typed \cup {vault.secret}

Calm == /\ OneAtATime /\ SameApp /\ KnowsRecord /\ CreatedIsRecorded /\ SavedIsRecorded

CalmInv == ~disturbed => Calm

\* A request under way is the only one, as every other is idle.
LEMMA Alone ==
    ASSUME Calm, NEW r \in Requests, step[r] # "idle"
    PROVE  \A q \in Requests \ {r} : step[q] = "idle"
  BY DEF Calm, OneAtATime

LEMMA InitCalm == Init => Calm
<1> SUFFICES ASSUME Init PROVE Calm
  OBVIOUS
<1> USE RotationAssumption, RecordTypes
<1>1. PICK a \in Apps :
        /\ ids = a /\ creds = [b \in Apps |-> IF b = a THEN {FirstKey} ELSE {}]
        /\ vault \in {NoRecord, [app |-> a, secret |-> FirstKey, keyId |-> None]}
  BY DEF Init
<1>2. vault.keyId = None /\ \A b \in Apps : Created(b) = {}
  BY <1>1 DEF Init, Created
<1>3. QED
  BY <1>1, <1>2 DEF Init, Calm, OneAtATime, SameApp, KnowsRecord, CreatedIsRecorded, Recorded,
                    SavedIsRecorded

LEMMA StartCalm ==
    ASSUME IInv, CalmInv, NEW r \in Requests, Start(r) PROVE CalmInv'
<1> SUFFICES ASSUME ~disturbed' PROVE Calm'
  BY DEF CalmInv
<1>1. Calm /\ \A q \in Requests : step[q] = "idle"
  BY DEF Start, CalmInv
<1>2. /\ step' = [step EXCEPT ![r] = "read"] /\ readIds' = [readIds EXCEPT ![r] = ids]
      /\ UNCHANGED <<creds, vault, saved, ids, stored, minted, typed>>
  BY DEF Start, Goto, remote, settings
<1>3. step \in [Requests -> Steps] /\ readIds \in [Requests -> Apps \cup {None}]
  BY DEF IInv, TypeOK
<1>4. QED
  BY <1>1, <1>2, <1>3 DEF Calm, OneAtATime, SameApp, KnowsRecord, CreatedIsRecorded,
                          Created, Recorded, SavedIsRecorded

LEMMA ReadVaultCalm ==
    ASSUME IInv, CalmInv, NEW r \in Requests, ReadVault(r) PROVE CalmInv'
<1> SUFFICES ASSUME ~disturbed' PROVE Calm'
  BY DEF CalmInv
<1>1. Calm /\ (\A q \in Requests \ {r} : step[q] = "idle") /\ minted[r] = None
  BY Alone DEF ReadVault, CalmInv, IInv, UnderWay
<1>2. /\ step[r] = "read"
      /\ \E s \in {"add", "save"} : step' = [step EXCEPT ![r] = s]
      /\ stored' = [stored EXCEPT ![r] = vault]
      /\ UNCHANGED <<creds, vault, saved, ids, readIds, minted, typed>>
  BY DEF ReadVault, Goto, remote, settings
<1>3. step \in [Requests -> Steps] /\ stored \in [Requests -> Record]
  BY DEF IInv, TypeOK
<1>4. QED
  BY <1>1, <1>2, <1>3 DEF Calm, OneAtATime, SameApp, KnowsRecord, CreatedIsRecorded,
                          Created, Recorded, SavedIsRecorded

LEMMA AddPasswordCalm ==
    ASSUME IInv, CalmInv, NEW r \in Requests, NEW k \in Keys, AddPassword(r, k)
    PROVE  CalmInv'
<1> SUFFICES ASSUME ~disturbed' PROVE Calm'
  BY DEF CalmInv
<1>1. /\ Calm /\ (\A q \in Requests \ {r} : step[q] = "idle")
      /\ readIds[r] = ids /\ ids \in Apps /\ stored[r] = vault
      /\ Created(ids) = Recorded
  <2>1. Calm /\ (\A q \in Requests \ {r} : step[q] = "idle") /\ step[r] = "add"
    BY Alone DEF AddPassword, CalmInv
  <2>2. readIds[r] = ids /\ readIds[r] \in Apps /\ stored[r] = vault
    BY <2>1 DEF Calm, SameApp, KnowsRecord, IInv, UnderWay
  <2>3. Created(ids) = Recorded
    BY <2>1 DEF Calm, CreatedIsRecorded
  <2>4. QED
    BY <2>1, <2>2, <2>3
<1>2. /\ step[r] = "add"
      /\ step' = [step EXCEPT ![r] = IF vault.keyId = None THEN "store" ELSE "remove"]
      /\ minted' = [minted EXCEPT ![r] = k]
      /\ creds' = [creds EXCEPT ![ids] = @ \cup {k}]
      /\ UNCHANGED <<vault, saved, ids, readIds, stored, typed>>
  BY <1>1 DEF AddPassword, Goto, settings
<1>3. /\ step \in [Requests -> Steps] /\ minted \in [Requests -> Keys \cup {None}]
      /\ creds \in [Apps -> SUBSET Keys]
  BY DEF IInv, TypeOK
<1>4. k \notin typed /\ k # vault.keyId /\ k # None
  BY UnusedIsNew, RotationAssumption DEF AddPassword, IInv, RecordsHaveOrigin, Origin
<1>5. /\ Created(ids)' = Created(ids) \cup {k}
      /\ \A a \in Apps \ {ids} : Created(a)' = Created(a)
  BY <1>1, <1>2, <1>3, <1>4 DEF Created
<1>6. CreatedIsRecorded'
  <2>1. step'[r] \in {"remove", "store"} /\ minted'[r] = k /\ Recorded' = Recorded
    BY <1>2, <1>3 DEF Recorded
  <2>2. step'[r] = "store" => Recorded = {}
    BY <1>2, <1>3 DEF Recorded
  <2>3. \A q \in Requests \ {r} : step'[q] = "idle"
    BY <1>1, <1>2, <1>3
  <2>4. ids' = ids /\ Created(ids)' = Recorded \cup {k}
    BY <1>1, <1>2, <1>5
  <2>5. QED
    BY <2>1, <2>2, <2>3, <2>4 DEF CreatedIsRecorded
<1>7. SameApp'
  BY <1>1, <1>2, <1>3, <1>5 DEF Calm, SameApp
<1>8. OneAtATime' /\ KnowsRecord' /\ SavedIsRecorded'
  BY <1>1, <1>2, <1>3, <1>4 DEF Calm, OneAtATime, KnowsRecord, SavedIsRecorded
<1>9. QED
  BY <1>6, <1>7, <1>8 DEF Calm

LEMMA RemoveCalm ==
    ASSUME IInv, CalmInv, NEW r \in Requests, RemovePassword(r) PROVE CalmInv'
<1> SUFFICES ASSUME ~disturbed' PROVE Calm'
  BY DEF CalmInv
<1>1. /\ Calm /\ (\A q \in Requests \ {r} : step[q] = "idle")
      /\ step[r] = "remove" /\ readIds[r] = ids /\ ids \in Apps /\ stored[r] = vault
      /\ Created(ids) = Recorded \cup {minted[r]}
      /\ minted[r] # vault.keyId /\ minted[r] # None
  <2>1. Calm /\ (\A q \in Requests \ {r} : step[q] = "idle") /\ step[r] = "remove"
    BY Alone DEF RemovePassword, CalmInv
  <2>2. readIds[r] = ids /\ readIds[r] \in Apps /\ stored[r] = vault
    BY <2>1 DEF Calm, SameApp, KnowsRecord, IInv, UnderWay
  <2>3. minted[r] # vault.keyId /\ minted[r] # None
    BY <2>1 DEF Calm, KnowsRecord, IInv, UnderWay
  <2>4. Created(ids) = Recorded \cup {minted[r]}
    BY <2>1 DEF Calm, CreatedIsRecorded
  <2>5. QED
    BY <2>1, <2>2, <2>3, <2>4
<1>2. /\ step' = [step EXCEPT ![r] = "store"]
      /\ creds' = [creds EXCEPT ![ids] = @ \ {vault.keyId}]
      /\ UNCHANGED <<vault, saved, ids, readIds, stored, minted, typed>>
  BY <1>1 DEF RemovePassword, Goto, settings
<1>3. step \in [Requests -> Steps] /\ creds \in [Apps -> SUBSET Keys]
  BY DEF IInv, TypeOK
<1>4. /\ Created(ids)' = {minted[r]}
      /\ \A a \in Apps \ {ids} : Created(a)' = Created(a)
  BY <1>1, <1>2, <1>3 DEF Created, Recorded
<1>5. CreatedIsRecorded'
  BY <1>1, <1>2, <1>3, <1>4 DEF CreatedIsRecorded
<1>6. SameApp'
  BY <1>1, <1>2, <1>3, <1>4 DEF Calm, SameApp
<1>7. OneAtATime' /\ KnowsRecord' /\ SavedIsRecorded'
  BY <1>1, <1>2, <1>3 DEF Calm, OneAtATime, KnowsRecord, SavedIsRecorded
<1>8. QED
  BY <1>5, <1>6, <1>7 DEF Calm

LEMMA SetSecretCalm ==
    ASSUME IInv, CalmInv, NEW r \in Requests, SetSecret(r) PROVE CalmInv'
<1> SUFFICES ASSUME ~disturbed' PROVE Calm'
  BY DEF CalmInv
<1>1. /\ Calm /\ (\A q \in Requests \ {r} : step[q] = "idle")
      /\ step[r] = "store" /\ readIds[r] = ids /\ minted[r] # None
      /\ Created(ids) = {minted[r]}
  BY Alone DEF SetSecret, CalmInv, Calm, SameApp, CreatedIsRecorded, IInv, UnderWay
<1>2. /\ step' = [step EXCEPT ![r] = "save"]
      /\ vault' = NewRecord(r)
      /\ UNCHANGED <<creds, saved, ids, readIds, stored, minted, typed>>
  BY DEF SetSecret, Goto, settings
<1>3. step \in [Requests -> Steps]
  BY DEF IInv, TypeOK
<1>4. vault'.keyId = minted[r] /\ vault'.app = ids /\ Recorded' = {minted[r]}
  BY <1>1, <1>2 DEF NewRecord, Recorded
<1>5. step'[r] = "save" /\ \A q \in Requests \ {r} : step'[q] = "idle"
  BY <1>1, <1>2, <1>3
<1>6. \A a \in Apps \cup {ids} : Created(a)' = Created(a)
  BY <1>2 DEF Created
<1>7. CreatedIsRecorded'
  BY <1>1, <1>2, <1>4, <1>5, <1>6 DEF CreatedIsRecorded
<1>8. SameApp'
  BY <1>1, <1>2, <1>4, <1>5, <1>6 DEF Calm, SameApp
<1>9. OneAtATime' /\ KnowsRecord' /\ SavedIsRecorded'
  BY <1>1, <1>2, <1>4, <1>5 DEF OneAtATime, KnowsRecord, SavedIsRecorded
<1>10. QED
  BY <1>7, <1>8, <1>9 DEF Calm

LEMMA SaveSettingsCalm ==
    ASSUME IInv, CalmInv, NEW r \in Requests, SaveSettings(r) PROVE CalmInv'
<1> SUFFICES ASSUME ~disturbed' PROVE Calm'
  BY DEF CalmInv
<1>1. /\ Calm /\ (\A q \in Requests \ {r} : step[q] = "idle")
      /\ step[r] = "save" /\ readIds[r] = ids
  BY Alone DEF SaveSettings, CalmInv, Calm, SameApp
<1>2. /\ step' = [step EXCEPT ![r] = "idle"]
      /\ ids' = ids /\ saved' = Effective(r)
      /\ UNCHANGED <<creds, vault, typed>>
  BY <1>1 DEF SaveSettings, Finish, Goto, remote
<1>3. step \in [Requests -> Steps]
  BY DEF IInv, TypeOK
<1>4. \A q \in Requests : step'[q] = "idle"
  BY <1>1, <1>2, <1>3
<1>5. Effective(r) = vault.secret
  <2>1. CASE minted[r] = None
    BY <1>1, <2>1 DEF Calm, KnowsRecord, Effective
  <2>2. CASE minted[r] # None
    <3>1. vault.keyId = minted[r]
      BY <1>1, <2>2 DEF Calm, KnowsRecord
    <3>2. vault.keyId = vault.secret
      BY <2>2, <3>1 DEF IInv, RecordsHaveOrigin, Origin
    <3>3. QED
      BY <2>2, <3>1, <3>2 DEF Effective
  <2>3. QED
    BY <2>1, <2>2
<1>6. Created(ids) = Recorded
  BY <1>1 DEF Calm, CreatedIsRecorded
<1>7. QED
  BY <1>1, <1>2, <1>4, <1>5, <1>6 DEF Calm, OneAtATime, SameApp, KnowsRecord,
     CreatedIsRecorded, Created, Recorded, SavedIsRecorded

\* A secret typed in for the app in use is nobody else's.
LEMMA SaveFormCalm ==
    ASSUME IInv, CalmInv, NEW a \in Apps, NEW k \in Keys \cup {None}, SaveForm(a, k)
    PROVE  CalmInv'
<1> SUFFICES ASSUME ~disturbed' PROVE Calm'
  BY DEF CalmInv
<1>1. /\ Calm /\ a = ids /\ ids' = ids
      /\ UNCHANGED <<vault, step, readIds, stored, minted>>
  BY DEF SaveForm, CalmInv, request
<1>2. CASE k = None /\ UNCHANGED <<creds, saved, typed>>
  BY <1>1, <1>2 DEF Calm, OneAtATime, SameApp, KnowsRecord, CreatedIsRecorded, Created,
                    Recorded, SavedIsRecorded
<1>3. CASE /\ k \in Keys \ Used /\ saved' = k /\ typed' = typed \cup {k}
           /\ creds' = [creds EXCEPT ![a] = @ \cup {k}]
  <2>1. \A b \in Apps : k \notin creds[b]
    BY <1>3 DEF Used
  <2>2. creds \in [Apps -> SUBSET Keys]
    BY DEF IInv, TypeOK
  <2>3. \A b \in Apps : Created(b)' = Created(b)
    BY <1>1, <1>3, <2>1, <2>2 DEF Created
  <2>4. OneAtATime' /\ KnowsRecord' /\ SavedIsRecorded'
    BY <1>1, <1>3 DEF Calm, OneAtATime, KnowsRecord, SavedIsRecorded
  <2>5. SameApp'
    BY <1>1, <2>3 DEF Calm, SameApp
  <2>6. CreatedIsRecorded'
    <3>1. Created(ids)' = Created(ids) /\ Recorded' = Recorded
      BY <1>1, <2>3 DEF Recorded
    <3>2. QED
      BY <1>1, <3>1 DEF Calm, CreatedIsRecorded
  <2>7. QED
    BY <2>4, <2>5, <2>6 DEF Calm
<1>4. QED
  BY <1>2, <1>3 DEF SaveForm

LEMMA StepCalm == IInv /\ CalmInv /\ [Next]_vars => CalmInv'
<1> SUFFICES ASSUME IInv, CalmInv, [Next]_vars PROVE CalmInv'
  OBVIOUS
<1>1. ASSUME NEW r \in Requests, Rotate(r) PROVE CalmInv'
  <2>1. CASE AddRefused(r) \/ RemoveRefused(r) \/ Fail(r)
    BY <2>1 DEF AddRefused, RemoveRefused, Fail, CalmInv
  <2>2. QED
    BY <1>1, <2>1, StartCalm, ReadVaultCalm, AddPasswordCalm, RemoveCalm, SetSecretCalm,
       SaveSettingsCalm DEF Rotate
<1>2. ASSUME NEW a \in Apps, NEW k \in Keys \cup {None}, SaveForm(a, k) PROVE CalmInv'
  BY <1>2, SaveFormCalm
<1>3. CASE UNCHANGED vars \/ \E k \in Keys : Ages(k)
  <2>1. UNCHANGED <<creds, vault, saved, ids, step, readIds, stored, minted, typed, disturbed>>
    BY <1>3 DEF Ages, vars, remote, settings, request
  <2>2. QED
    BY <2>1 DEF CalmInv, Calm, OneAtATime, SameApp, KnowsRecord, CreatedIsRecorded, Created,
                Recorded, SavedIsRecorded
<1>4. QED
  BY <1>1, <1>2, <1>3 DEF Next

LEMMA CalmStoresInStep == IInv /\ CalmInv => StoresInStep
<1> SUFFICES ASSUME IInv, Calm, Resting, vault.keyId # None, ~disturbed
             PROVE  /\ \A a \in Apps :
                         creds[a] \ typed = IF a = vault.app THEN {vault.keyId} ELSE {}
                    /\ saved \in typed \cup {vault.secret}
  BY DEF CalmInv, StoresInStep
<1>1. Created(ids) = {vault.keyId} /\ saved \in typed \cup {vault.secret}
  BY DEF Calm, Resting, CreatedIsRecorded, Recorded, SavedIsRecorded
<1>2. vault.app = ids /\ \A a \in Apps \ {ids} : Created(a) = {}
  BY DEF Calm, SameApp
<1>3. QED
  BY <1>1, <1>2 DEF Created

\* When requests come one at a time, no call fails and the app stays the same,
\* rotating any number of times leaves one created credential: the recorded one.
THEOREM RotationsLeaveOne == Spec => []StoresInStep
<1>1. Init => CalmInv
  BY InitCalm DEF CalmInv
<1>2. QED
  BY <1>1, CalmStoresInStep, StepCalm, Invariance, PTL DEF Spec

-----------------------------------------------------------------------------
(* Those who use the secret.                                               *)

\* A record without a key id is the one set up by hand, with the first secret.
SeededByHand == vault.keyId = None => vault.secret \in typed \cup {None}

\* Admins typed all secrets for the one app.
TypedForApp == ~disturbed => typed \subseteq creds[ids]

Places == {"idle", "smtp check", "test", "smtp", "graph", "asking", "polling"}

MailType ==
    /\ user \in [Tasks -> [at: Places, app: Apps \cup {None}, key: Keys \cup {None}]]
    /\ overlapped \subseteq Tasks /\ broken \in BOOLEAN

\* A task that overlaps no rotation is alone with the settings.
OverlapNoticed ==
    \A t \in Tasks : user[t].at # "idle" /\ t \notin overlapped => Resting

\* What was disturbed and mended is as good as undisturbed until the next rotation.
Mended == disturbed /\ ~broken => Resting /\ saved \in creds[ids]

\* Then what it has read is accepted until Entra ID answers.
ReadWorks ==
    \A t \in Tasks :
        ~broken /\ t \notin overlapped /\ user[t].at \in {"asking", "polling"}
            => user[t].app \in Apps /\ Accepted(t)

SecretInv == IInv /\ CalmInv /\ SeededByHand /\ TypedForApp

UsersInv == SecretInv /\ MailType /\ OverlapNoticed /\ Mended /\ ReadWorks

\* What a task may have read just now.
Reads(place, app, key) ==
    IF place \in {"asking", "polling"} THEN app = ids /\ key = saved ELSE app = None /\ key = None

LEMMA InitUsers == MailingInit => UsersInv
<1> SUFFICES ASSUME MailingInit PROVE UsersInv
  OBVIOUS
<1> USE RotationAssumption
<1>1. IInv /\ CalmInv
  BY InitInv, InitCalm DEF MailingInit, CalmInv
<1>2. SeededByHand /\ TypedForApp
  BY DEF MailingInit, Init, SeededByHand, TypedForApp, NoRecord
<1>3. MailType
  BY DEF MailingInit, MailType, Places, NotYet
<1>4. OverlapNoticed /\ Mended /\ ReadWorks
  BY DEF MailingInit, Init, NotYet, OverlapNoticed, Mended, ReadWorks
<1>5. QED
  BY <1>1, <1>2, <1>3, <1>4 DEF UsersInv, SecretInv

\* While no rotation is under way and nothing is broken, the settings' secret works.
LEMMA SavedWorks ==
    ASSUME SecretInv, Mended, ~broken, Resting PROVE saved \in creds[ids]
<1> SUFFICES ASSUME ~disturbed PROVE saved \in creds[ids]
  BY DEF Mended
<1>1. typed \subseteq creds[ids] /\ saved \in Keys /\ None \notin Keys
  BY RotationAssumption DEF SecretInv, TypedForApp, IInv, TypeOK
<1>2. Created(ids) = Recorded /\ saved \in typed \cup {vault.secret}
  BY DEF SecretInv, CalmInv, Calm, Resting, CreatedIsRecorded, SavedIsRecorded
<1>3. CASE saved = vault.secret /\ vault.keyId # None
  BY <1>2, <1>3 DEF SecretInv, IInv, RecordsHaveOrigin, Origin, Created, Recorded
<1>4. CASE saved = vault.secret /\ vault.keyId = None
  BY <1>1, <1>4 DEF SecretInv, SeededByHand
<1>5. QED
  BY <1>1, <1>2, <1>3, <1>4

\* Only a rotation under way takes a credential away.
LEMMA OnlyRotationsRemove ==
    ASSUME TypeOK, Resting, Next PROVE \A a \in Apps : creds[a] \subseteq creds'[a]
<1>1. ASSUME NEW r \in Requests, Rotate(r) PROVE UNCHANGED creds
  BY <1>1 DEF Rotate, Resting, Start, ReadVault, AddPassword, AddRefused, RemovePassword,
              RemoveRefused, SetSecret, SaveSettings, Fail, remote
<1>2. ASSUME NEW a \in Apps, NEW k \in Keys \cup {None}, SaveForm(a, k)
      PROVE  \A b \in Apps : creds[b] \subseteq creds'[b]
  BY <1>2 DEF SaveForm, TypeOK
<1>3. ASSUME NEW k \in Keys, Ages(k) PROVE UNCHANGED creds
  BY <1>3 DEF Ages
<1>4. QED
  BY <1>1, <1>2, <1>3 DEF Next

\* What was disturbed stays so.
LEMMA DisturbedStays == ASSUME Next, disturbed PROVE disturbed'
  BY DEF Next, Rotate, Start, ReadVault, AddPassword, AddRefused, RemovePassword, RemoveRefused,
         SetSecret, SaveSettings, Fail, SaveForm, Ages

\* A rotation removes the key its record names, which nobody typed.
LEMMA NextTypedForApp ==
    ASSUME SecretInv, Next PROVE TypedForApp'
<1> SUFFICES ASSUME ~disturbed' PROVE typed' \subseteq creds'[ids']
  BY DEF TypedForApp
<1>1. /\ ~disturbed /\ Calm /\ typed \subseteq creds[ids] /\ ids \in Apps
      /\ creds \in [Apps -> SUBSET Keys]
  BY DisturbedStays DEF SecretInv, CalmInv, TypedForApp, IInv, TypeOK
<1>2. ASSUME NEW r \in Requests, Rotate(r) PROVE typed' \subseteq creds'[ids']
  <2>1. CASE Start(r) \/ ReadVault(r) \/ SetSecret(r)
    BY <1>1, <2>1 DEF Start, ReadVault, SetSecret, remote, settings
  <2>2. ASSUME NEW k \in Keys, AddPassword(r, k) PROVE typed' \subseteq creds'[ids']
    BY <1>1, <2>2 DEF AddPassword, settings
  <2>3. CASE RemovePassword(r)
    <3>1. stored[r].keyId \notin typed
      BY <2>3 DEF RemovePassword, SecretInv, IInv, UnderWay, RecordsHaveOrigin, Origin
    <3>2. QED
      BY <1>1, <2>3, <3>1 DEF RemovePassword, settings
  <2>4. CASE SaveSettings(r)
    BY <1>1, <2>4 DEF SaveSettings, Calm, SameApp, remote
  <2>5. CASE AddRefused(r) \/ RemoveRefused(r) \/ Fail(r)
    BY <2>5 DEF AddRefused, RemoveRefused, Fail
  <2>6. QED
    BY <1>2, <2>1, <2>2, <2>3, <2>4, <2>5 DEF Rotate
<1>3. ASSUME NEW a \in Apps, NEW k \in Keys \cup {None}, SaveForm(a, k)
      PROVE  typed' \subseteq creds'[ids']
  BY <1>1, <1>3 DEF SaveForm
<1>4. ASSUME NEW k \in Keys, Ages(k) PROVE typed' \subseteq creds'[ids']
  BY <1>1, <1>4 DEF Ages, settings
<1>5. QED
  BY <1>2, <1>3, <1>4 DEF Next

LEMMA NextSecretInv == ASSUME SecretInv, Next PROVE SecretInv'
<1>1. IInv' /\ CalmInv'
  BY StepInv, StepCalm DEF SecretInv
<1>2. SeededByHand'
  <2>1. CASE UNCHANGED vault /\ typed \subseteq typed'
    BY <2>1 DEF SecretInv, SeededByHand
  <2>2. CASE \E r \in Requests : step[r] = "store" /\ vault' = NewRecord(r)
    BY <2>2 DEF SecretInv, IInv, UnderWay, SeededByHand, NewRecord
  <2>3. QED
    BY <2>1, <2>2 DEF Next, Rotate, Start, ReadVault, AddPassword, AddRefused, RemovePassword,
       RemoveRefused, SetSecret, SaveSettings, Fail, SaveForm, Ages, remote
<1>3. QED
  BY <1>1, <1>2, NextTypedForApp DEF SecretInv

\* Nothing is disturbed but by a rotation or a change of the app.
LEMMA DisturbedByStep ==
    ASSUME TypeOK, Next, disturbed' # disturbed PROVE <<step, ids>>' # <<step, ids>>
<1>1. ASSUME NEW r \in Requests, Rotate(r) PROVE step' # step
  <2>1. \A s \in Steps : Goto(r, s) /\ step[r] # s => step' # step
    BY DEF Goto, TypeOK
  <2>2. CASE Start(r)
    BY <2>1, <2>2 DEF Start, Steps
  <2>3. CASE AddRefused(r) \/ RemoveRefused(r) \/ Fail(r)
    BY <2>1, <2>3 DEF AddRefused, RemoveRefused, Fail, Finish, Steps
  <2>4. QED
    BY <1>1, <2>2, <2>3 DEF Rotate, ReadVault, AddPassword, RemovePassword, SetSecret, SaveSettings
<1>2. ASSUME NEW a \in Apps, NEW k \in Keys \cup {None}, SaveForm(a, k) PROVE ids' # ids
  BY <1>2 DEF SaveForm, TypeOK
<1>3. QED
  BY <1>1, <1>2 DEF Next, Ages

\* A rotation step moves the rotation.
LEMMA RotationMoves ==
    ASSUME TypeOK, Resting, NEW r \in Requests, Rotate(r) PROVE step' # step
  BY DEF Rotate, Resting, Start, ReadVault, AddPassword, AddRefused, RemovePassword, RemoveRefused,
         SetSecret, SaveSettings, Fail, Goto, TypeOK

LEMMA RotationMends == ASSUME UsersInv, RotationStep PROVE Mended'
<1> SUFFICES ASSUME disturbed', ~broken' PROVE Resting' /\ saved' \in creds'[ids']
  BY DEF Mended
<1>0. TypeOK /\ Next
  BY DEF UsersInv, SecretInv, IInv, RotationStep
<1>1. CASE Mends
  <2>1. Resting
    BY <1>1 DEF Mends, Rotating, Resting
  <2>2. ASSUME NEW r \in Requests, Rotate(r) PROVE typed' = typed
    BY <2>2 DEF Rotate, Start, ReadVault, AddPassword, AddRefused, RemovePassword, RemoveRefused,
                SetSecret, SaveSettings, Fail
  <2>3. PICK a \in Apps, k \in Keys \cup {None} : SaveForm(a, k) /\ typed' # typed
    BY <1>0, <1>1, <2>2 DEF Next, Ages, Mends
  <2>4. ids' = a /\ saved' = k /\ creds' = [creds EXCEPT ![a] = @ \cup {k}] /\ UNCHANGED step
    BY <2>3 DEF SaveForm, request
  <2>5. QED
    BY <1>0, <2>1, <2>4 DEF Resting, TypeOK
<1>2. CASE ~Mends
  <2>1. ~broken /\ UNCHANGED <<step, ids>>
    BY <1>2 DEF RotationStep
  <2>2. disturbed /\ Resting /\ saved \in creds[ids] /\ ids \in Apps
    BY <1>0, <2>1, DisturbedByStep DEF UsersInv, Mended, TypeOK
  <2>3. PICK a \in Apps, k \in Keys \cup {None} : SaveForm(a, k) \/ UNCHANGED <<creds, saved>>
    <3>1. CASE \E r \in Requests : Rotate(r)
      BY <1>0, <2>1, <2>2, <3>1, RotationMoves
    <3>2. CASE \E k \in Keys : Ages(k)
      BY <2>2, <3>2 DEF Ages, settings
    <3>3. QED
      BY <1>0, <3>1, <3>2 DEF Next
  <2>4. UNCHANGED <<creds, saved>>
    <3>1. typed' = typed
      BY <1>2, <2>2 DEF Mends, Rotating, Resting
    <3>2. \A key \in Keys \ Used : typed \cup {key} # typed
      BY DEF Used
    <3>3. QED
      BY <2>3, <3>1, <3>2 DEF SaveForm
  <2>5. QED
    BY <2>1, <2>2, <2>4 DEF Resting
<1>3. QED
  BY <1>1, <1>2

LEMMA RotationUsers == ASSUME UsersInv, RotationStep PROVE UsersInv'
<1>1. /\ SecretInv' /\ user' = user /\ overlapped \subseteq overlapped' /\ MailType'
  BY NextSecretInv DEF UsersInv, RotationStep, mailing, MailType
<1>2. OverlapNoticed'
  <2> SUFFICES ASSUME NEW t \in Tasks, user[t].at # "idle", t \notin overlapped',
                      NEW r \in Requests
               PROVE  step'[r] = "idle"
    BY <1>1 DEF OverlapNoticed, Resting
  <2>1. step[r] = "idle"
    BY <1>1 DEF UsersInv, OverlapNoticed, Resting
  <2>2. ~ \E q \in Requests : step[q] = "idle" /\ step'[q] # "idle"
    BY DEF RotationStep, Begins
  <2>3. QED
    BY <2>1, <2>2
<1>3. ReadWorks'
  <2> SUFFICES ASSUME NEW t \in Tasks, ~broken', t \notin overlapped',
                      user[t].at \in {"asking", "polling"}
               PROVE  user[t].app \in Apps /\ user[t].key \in creds'[user[t].app]
    BY <1>1 DEF ReadWorks, Accepted
  <2>0. ~broken /\ t \notin overlapped
    BY <1>1 DEF RotationStep
  <2>1. user[t].app \in Apps /\ user[t].key \in creds[user[t].app] /\ Resting
    BY <2>0 DEF UsersInv, ReadWorks, OverlapNoticed, Accepted
  <2>2. QED
    BY <2>1, OnlyRotationsRemove DEF UsersInv, SecretInv, IInv, RotationStep
<1>4. QED
  BY <1>1, <1>2, <1>3, RotationMends DEF UsersInv

\* Steps of the tasks change nothing of the secret's.
LEMMA SecretAside ==
    ASSUME SecretInv, forms' \in Nat,
           UNCHANGED <<remote, settings, request, form, typed, everStored, disturbed, faults>>
    PROVE  SecretInv' /\ (Resting => Resting') /\ UNCHANGED <<creds, ids, saved, disturbed>>
<1> USE DEF remote, settings, request, SecretInv
<1>1. IInv'
  BY DEF IInv, TypeOK, UnderWay, RecordsHaveOrigin, Origin, MintedNotTyped, AboutToSave,
         Effective, SavedWasStored, TypedKeysStay
<1>2. CalmInv'
  BY DEF CalmInv, Calm, OneAtATime, SameApp, KnowsRecord, CreatedIsRecorded, Created,
         Recorded, SavedIsRecorded
<1>3. SeededByHand' /\ TypedForApp' /\ (Resting => Resting')
  BY DEF SeededByHand, TypedForApp, Resting
<1>4. QED
  BY <1>1, <1>2, <1>3

\* A task that goes on has read what is there.
LEMMA EntersUsers ==
    ASSUME UsersInv, SecretInv', UNCHANGED <<creds, ids, saved, disturbed, broken>>, Resting => Resting',
           NEW t \in Tasks, NEW place \in Places, NEW app, NEW key, Enters(t, place, app, key),
           Reads(place, app, key)
    PROVE  UsersInv'
<1>1. app \in Apps \cup {None} /\ key \in Keys \cup {None}
  BY DEF Reads, UsersInv, SecretInv, IInv, TypeOK
<1>2. /\ user' = [user EXCEPT ![t] = [at |-> place, app |-> app, key |-> key]]
      /\ overlapped \subseteq overlapped' /\ overlapped' \subseteq overlapped \cup {t}
      /\ t \notin overlapped' => Resting
  BY DEF Enters, Rotating, Resting
<1>3. MailType'
  BY <1>1, <1>2 DEF UsersInv, MailType
<1>4. OverlapNoticed'
  BY <1>2 DEF UsersInv, MailType, OverlapNoticed
<1>5. ReadWorks'
  <2> SUFFICES ASSUME NEW q \in Tasks, ~broken, q \notin overlapped',
                      user'[q].at \in {"asking", "polling"}
               PROVE  user'[q].app \in Apps /\ user'[q].key \in creds[user'[q].app]
    BY DEF ReadWorks, Accepted
  <2>1. CASE q = t
    <3>1. /\ user'[t] = [at |-> place, app |-> app, key |-> key]
          /\ place \in {"asking", "polling"}
      BY <1>2, <2>1 DEF UsersInv, MailType
    <3>2. app = ids /\ key = saved /\ ids \in Apps /\ saved \in creds[ids]
      BY <1>2, <2>1, <3>1, SavedWorks DEF Reads, UsersInv, SecretInv, IInv, TypeOK
    <3>3. QED
      BY <2>1, <3>1, <3>2
  <2>2. CASE q # t
    BY <1>2, <2>2 DEF UsersInv, MailType, ReadWorks, Accepted
  <2>3. QED
    BY <2>1, <2>2
<1>6. Mended'
  BY DEF UsersInv, Mended
<1>7. QED
  BY <1>3, <1>4, <1>5, <1>6 DEF UsersInv

LEMMA EndsUsers ==
    ASSUME UsersInv, SecretInv', UNCHANGED <<creds, ids, saved, disturbed, broken>>, Resting => Resting',
           NEW t \in Tasks, Ends(t)
    PROVE  UsersInv'
<1>1. MailType'
  BY DEF Ends, NotYet, Places, UsersInv, MailType
<1>2. OverlapNoticed'
  BY DEF Ends, NotYet, UsersInv, MailType, OverlapNoticed
<1>3. ReadWorks'
  BY DEF Ends, NotYet, UsersInv, MailType, ReadWorks, Accepted
<1>4. Mended'
  BY DEF UsersInv, Mended
<1>5. QED
  BY <1>1, <1>2, <1>3, <1>4 DEF UsersInv

LEMMA StepUsers == UsersInv /\ [MailingNext]_allVars => UsersInv'
<1> SUFFICES ASSUME UsersInv, [MailingNext]_allVars PROVE UsersInv'
  OBVIOUS
<1>1. CASE RotationStep
  BY <1>1, RotationUsers
<1>2. ASSUME NEW t \in Tasks, NEW method \in Methods, SaveEmail(t, method) PROVE UsersInv'
  <2>1. SecretInv' /\ (Resting => Resting') /\ UNCHANGED <<creds, ids, saved, disturbed, broken>>
    BY <1>2, SecretAside DEF SaveEmail, UsersInv, SecretInv, IInv, TypeOK
  <2>2. CASE Check(method) = "idle"
    BY <1>2, <2>1, <2>2
       DEF SaveEmail, UsersInv, MailType, OverlapNoticed, Mended, ReadWorks, Accepted
  <2>3. CASE Check(method) # "idle"
    <3>1. Check(method) \in {"smtp check", "graph"}
      BY <2>3 DEF Check
    <3>2. Check(method) \in Places /\ Reads(Check(method), None, None)
      BY <3>1 DEF Places, Reads
    <3>3. QED
      BY <1>2, <2>1, <2>3, <3>2, EntersUsers DEF SaveEmail
  <2>4. QED
    BY <2>2, <2>3
<1>3. ASSUME UNCHANGED vars PROVE SecretInv' /\ (Resting => Resting') /\ UNCHANGED <<creds, ids, saved, disturbed>>
  BY <1>3, SecretAside DEF vars, UsersInv, SecretInv, IInv, TypeOK
<1>4. ASSUME NEW t \in Tasks,
             VerifySmtp(t) \/ NoMail(t) \/ SendSmtp(t) \/ MailToken(t) \/ MailRefused(t)
                \/ PollToken(t) \/ PollRefused(t)
      PROVE  UsersInv'
  <2>1. UNCHANGED <<vars, broken>> /\ Ends(t)
    BY <1>4 DEF VerifySmtp, NoMail, SendSmtp, MailToken, MailRefused, PollToken, PollRefused
  <2>2. QED
    BY <1>3, <2>1, EndsUsers
<1>5. ASSUME NEW t \in Tasks, StartTest(t) \/ StartMail(t) \/ ReadAzure(t) \/ StartPoll(t)
      PROVE  UsersInv'
  <2>1. /\ UNCHANGED <<vars, broken>>
        /\ \E place \in Places : \E app, key : Enters(t, place, app, key) /\ Reads(place, app, key)
    <3>1. CASE StartTest(t)
      BY <3>1 DEF StartTest, Places, Reads
    <3>2. CASE StartMail(t)
      BY <3>2 DEF StartMail, Places, Reads
    <3>3. CASE ReadAzure(t)
      BY <3>3 DEF ReadAzure, Places, Reads
    <3>4. CASE StartPoll(t)
      <4>1. client'.app = ids /\ client'.key = saved
        BY <3>4 DEF StartPoll, Client
      <4>2. QED
        BY <3>4, <4>1 DEF StartPoll, Places, Reads
    <3>5. QED
      BY <1>5, <3>1, <3>2, <3>3, <3>4
  <2>2. PICK place \in Places : \E app, key : Enters(t, place, app, key) /\ Reads(place, app, key)
    BY <2>1
  <2>3. PICK app, key : Enters(t, place, app, key) /\ Reads(place, app, key)
    BY <2>2
  <2>4. QED
    BY <1>3, <2>1, <2>3, EntersUsers
<1>6. CASE TokenExpires \/ UNCHANGED allVars
  <2>1. UNCHANGED <<vars, user, overlapped, broken>>
    BY <1>6 DEF TokenExpires, allVars, mailing
  <2>2. QED
    BY <1>3, <2>1 DEF UsersInv, MailType, OverlapNoticed, Mended, ReadWorks, Accepted
<1>7. QED
  BY <1>1, <1>2, <1>4, <1>5, <1>6 DEF MailingNext

LEMMA UsersInvariance == MailingSpec => []UsersInv
  BY InitUsers, StepUsers, PTL DEF MailingSpec

\* Whoever shares a client built with an older secret, and reads the settings once
\* or twice: Entra ID refuses no poll and no mail, unless it overlapped a rotation or
\* a mending, or something is broken.  It breaks when a rotation fails, two overlap
\* or a form changes the app, and no claim is made from then on until an
\* administrator types a new secret while no rotation is under way; and from the next
\* rotation on none again.
THEOREM RefusedOnlyInRotation == MailingSpec => RefusedOnlyWhileRotating
<1>1. UsersInv =>
        [\A t \in Tasks : MailRefused(t) \/ PollRefused(t)
            => broken \/ t \in overlapped]_allVars
  <2> SUFFICES ASSUME UsersInv, NEW t \in Tasks, MailRefused(t) \/ PollRefused(t)
               PROVE  broken \/ t \in overlapped
    OBVIOUS
  <2>1. user[t].at \in {"asking", "polling"} /\ ~Accepted(t)
    BY DEF MailRefused, PollRefused
  <2>2. QED
    BY <2>1, Zenon DEF UsersInv, ReadWorks
<1>2. QED
  BY <1>1, UsersInvariance, PTL DEF RefusedOnlyWhileRotating

\* The secret is as safe beside those who use it: their steps leave it alone.
THEOREM SecretSafeInUse ==
    MailingSpec => [](TypeOK /\ SavedWasStored /\ TypedKeysStay /\ StoresInStep)
<1>1. UsersInv => TypeOK /\ SavedWasStored /\ TypedKeysStay
  BY DEF UsersInv, SecretInv, IInv
<1>2. UsersInv => StoresInStep
  BY CalmStoresInStep DEF UsersInv, SecretInv
<1>3. QED
  BY <1>1, <1>2, UsersInvariance, PTL

=============================================================================
