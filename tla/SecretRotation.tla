---------------------------- MODULE SecretRotation ----------------------------
(***************************************************************************)
(* azure_secret_manager.get_or_rotate_client_secret behind the admin route *)
(* POST /settings/azure/openbao, with the three stores it keeps in step:   *)
(* the credentials of the Entra ID app registration, the OpenBao record    *)
(* and this app's own settings rows.  Each await is a step of the request, *)
(* several requests may be under way, and every remote call may fail       *)
(* before or after it took effect.                                         *)
(***************************************************************************)
EXTENDS Naturals, FiniteSets

CONSTANTS
    Apps,       \* app registrations an admin may configure (tenant and client id)
    Keys,       \* credentials: a key id stands for its secret, too
    FirstKey,   \* the secret the installation was set up with
    Requests,   \* concurrent requests to the route
    None,
    MaxForms,   \* bound: forms saved by admins
    MaxFaults   \* bound: failed remote calls and crashes

ASSUME RotationAssumption ==
    /\ FirstKey \in Keys
    /\ None \notin Keys /\ None \notin Apps
    /\ MaxForms \in Nat /\ MaxFaults \in Nat

VARIABLES
    creds,      \* Entra ID: the credentials each app registration accepts
    expiring,   \* credentials within OPENBAO_RENEWAL_THRESHOLD_DAYS of their end
    vault,      \* OpenBao: the current version of the record
    saved,      \* table app_settings: the saved client secret
    ids,        \* table app_settings: the saved tenant and client id
    step,       \* where each request is
    readIds,    \* the ids it read when it started
    stored,     \* the OpenBao record it read
    minted,     \* the credential it created
    form,       \* history variable: the ids of the last form an admin saved
    typed,      \* history variable: secrets an admin created and typed in
    everStored, \* history variable: secrets OpenBao ever held
    disturbed,  \* history variable: requests overlapped or failed, or the app changed
    forms, faults

remote == <<creds, expiring, vault>>
settings == <<saved, ids>>
request == <<step, readIds, stored, minted>>
vars == <<remote, settings, request, form, typed, everStored, disturbed, forms, faults>>

Steps == {"idle", "read", "add", "remove", "store", "save"}
NoRecord == [app |-> None, secret |-> None, keyId |-> None]
Record == [app: Apps \cup {None}, secret: Keys \cup {None}, keyId: Keys \cup {None}]

Used == (UNION {creds[a] : a \in Apps}) \cup typed \cup everStored
            \cup {minted[r] : r \in Requests}

Goto(r, s) == step' = [step EXCEPT ![r] = s]

\* A request ends: its session closes and its variables are gone.
Finish(r) ==
    /\ Goto(r, "idle")
    /\ readIds' = [readIds EXCEPT ![r] = None]
    /\ stored' = [stored EXCEPT ![r] = NoRecord]
    /\ minted' = [minted EXCEPT ![r] = None]

\* The record may be absent, or seeded by hand without key_id and expires_on.
Init ==
    /\ \E a \in Apps :
        /\ ids = a /\ form = a
        /\ creds = [b \in Apps |-> IF b = a THEN {FirstKey} ELSE {}]
        /\ vault \in {NoRecord, [app |-> a, secret |-> FirstKey, keyId |-> None]}
    /\ expiring = {}
    /\ saved = FirstKey
    /\ step = [r \in Requests |-> "idle"]
    /\ readIds = [r \in Requests |-> None]
    /\ stored = [r \in Requests |-> NoRecord]
    /\ minted = [r \in Requests |-> None]
    /\ typed = {FirstKey}
    /\ everStored = {vault.secret} \ {None}
    /\ disturbed = FALSE
    /\ forms = 0
    /\ faults = 0

-----------------------------------------------------------------------------
(* get_or_rotate_client_secret.                                            *)

\* The route reads the saved ids; OpenBao is reachable and its token is set.
Start(r) ==
    /\ step[r] = "idle"
    /\ Goto(r, "read")
    /\ readIds' = [readIds EXCEPT ![r] = ids]
    /\ disturbed' = (disturbed \/ \E q \in Requests \ {r} : step[q] # "idle")
    /\ UNCHANGED <<remote, settings, stored, minted, form, typed, everStored, forms, faults>>

NeedsRotation(record, force) ==
    \/ force
    \/ record.keyId = None
    \/ record.keyId \in expiring

ReadVault(r) ==
    /\ step[r] = "read"
    /\ stored' = [stored EXCEPT ![r] = vault]
    /\ \E force \in BOOLEAN : Goto(r, IF NeedsRotation(vault, force) THEN "add" ELSE "save")
    /\ UNCHANGED <<remote, settings, readIds, minted, form, typed, everStored, disturbed, forms, faults>>

\* addPassword on the app registration the request read the id of.
AddPassword(r, k) ==
    /\ step[r] = "add" /\ k \in Keys \ Used
    /\ creds' = [creds EXCEPT ![readIds[r]] = @ \cup {k}]
    /\ minted' = [minted EXCEPT ![r] = k]
    /\ Goto(r, IF stored[r].keyId = None THEN "store" ELSE "remove")
    /\ UNCHANGED <<expiring, vault, settings, readIds, stored, form, typed, everStored, disturbed,
                   forms, faults>>

\* Entra ID refuses: it accepts only so many credentials (here: Keys).
AddRefused(r) ==
    /\ step[r] = "add" /\ Keys \subseteq Used
    /\ disturbed' = TRUE
    /\ Finish(r)
    /\ UNCHANGED <<remote, settings, form, typed, everStored, forms, faults>>

\* Mutants: removePassword is never sent; all other credentials are removed.
RemoveNothing(r) ==
    /\ step[r] = "remove"
    /\ Goto(r, "store")
    /\ UNCHANGED <<remote, settings, readIds, stored, minted, form, typed, everStored, disturbed,
                   forms, faults>>

RemoveOthers(r) ==
    /\ step[r] = "remove"
    /\ creds' = [creds EXCEPT ![readIds[r]] = {minted[r]}]
    /\ Goto(r, "store")
    /\ UNCHANGED <<expiring, vault, settings, readIds, stored, minted, form, typed,
                   everStored, disturbed, forms, faults>>

\* removePassword of the previous key: an error status is only logged.
RemovePassword(r) ==
    /\ step[r] = "remove"
    /\ creds' = [creds EXCEPT ![readIds[r]] = @ \ {stored[r].keyId}]
    /\ Goto(r, "store")
    /\ UNCHANGED <<expiring, vault, settings, readIds, stored, minted, form, typed,
                   everStored, disturbed, forms, faults>>

RemoveRefused(r) ==
    /\ step[r] = "remove" /\ faults < MaxFaults
    /\ faults' = faults + 1
    /\ disturbed' = TRUE
    /\ Goto(r, "store")
    /\ UNCHANGED <<remote, settings, readIds, stored, minted, form, typed, everStored, forms>>

NewRecord(r) == [app |-> readIds[r], secret |-> minted[r], keyId |-> minted[r]]

SetSecret(r) ==
    /\ step[r] = "store"
    /\ vault' = NewRecord(r)
    /\ everStored' = everStored \cup {minted[r]}
    /\ Goto(r, "save")
    /\ UNCHANGED <<creds, expiring, settings, readIds, stored, minted, form, typed, disturbed,
                   forms, faults>>

\* Mutant: the secret read from OpenBao is forgotten when it is still valid.
EffectiveMinted(r) == minted[r]

Effective(r) == IF minted[r] # None THEN minted[r] ELSE stored[r].secret

\* save_azure_settings writes all three rows and the route commits.
SaveSettings(r) ==
    /\ step[r] = "save"
    /\ saved' = Effective(r)
    /\ ids' = readIds[r]
    /\ Finish(r)
    /\ UNCHANGED <<remote, form, typed, everStored, disturbed, forms, faults>>

\* Mutant: an error of set_secret is ignored.
FailIgnoringStore(r) ==
    /\ step[r] # "idle" /\ faults < MaxFaults
    /\ faults' = faults + 1
    /\ disturbed' = TRUE
    /\ IF step[r] = "store"
       THEN Goto(r, "save") /\ UNCHANGED <<readIds, stored, minted>>
       ELSE Finish(r)
    /\ UNCHANGED <<remote, settings, form, typed, everStored, forms>>

\* A remote call fails, after it was carried out or before; nothing is undone.
Fail(r) ==
    /\ step[r] # "idle" /\ faults < MaxFaults
    /\ faults' = faults + 1
    /\ disturbed' = TRUE
    /\ \/ UNCHANGED <<creds, vault, everStored>>
       \/ /\ step[r] = "add"
          /\ \E k \in Keys \ Used : creds' = [creds EXCEPT ![readIds[r]] = @ \cup {k}]
          /\ UNCHANGED <<vault, everStored>>
       \/ /\ step[r] = "remove"
          /\ creds' = [creds EXCEPT ![readIds[r]] = @ \ {stored[r].keyId}]
          /\ UNCHANGED <<vault, everStored>>
       \/ /\ step[r] = "store"
          /\ vault' = NewRecord(r)
          /\ everStored' = everStored \cup {minted[r]}
          /\ UNCHANGED creds
    /\ Finish(r)
    /\ UNCHANGED <<expiring, settings, form, typed, forms>>

-----------------------------------------------------------------------------
(* Around it.                                                              *)

\* admin_save_azure_settings: the form's ids, and its secret unless left empty.
SaveForm(a, k) ==
    /\ forms < MaxForms
    /\ forms' = forms + 1
    /\ ids' = a /\ form' = a
    /\ disturbed' = (disturbed \/ a # ids)
    /\ \/ k = None /\ UNCHANGED <<creds, saved, typed>>
       \/ /\ k \in Keys \ Used
          /\ creds' = [creds EXCEPT ![a] = @ \cup {k}]
          /\ saved' = k
          /\ typed' = typed \cup {k}
    /\ UNCHANGED <<expiring, vault, request, everStored, faults>>

\* Time brings a credential near its end.
Ages(k) ==
    /\ k \in Used \ expiring
    /\ expiring' = expiring \cup {k}
    /\ UNCHANGED <<creds, vault, settings, request, form, typed, everStored, disturbed, forms, faults>>

Rotate(r) ==
    \/ Start(r)
    \/ ReadVault(r)
    \/ \E k \in Keys : AddPassword(r, k)
    \/ AddRefused(r)
    \/ RemovePassword(r)
    \/ RemoveRefused(r)
    \/ SetSecret(r)
    \/ SaveSettings(r)
    \/ Fail(r)

Next ==
    \/ \E r \in Requests : Rotate(r)
    \/ \E a \in Apps, k \in Keys \cup {None} : SaveForm(a, k)
    \/ \E k \in Keys : Ages(k)

Spec == Init /\ [][Next]_vars

-----------------------------------------------------------------------------
(* Properties.                                                             *)

TypeOK ==
    /\ creds \in [Apps -> SUBSET Keys]
    /\ expiring \subseteq Keys
    /\ vault \in Record
    /\ saved \in Keys /\ ids \in Apps
    /\ step \in [Requests -> Steps]
    /\ readIds \in [Requests -> Apps \cup {None}]
    /\ stored \in [Requests -> Record]
    /\ minted \in [Requests -> Keys \cup {None}]
    /\ form \in Apps
    /\ typed \subseteq Keys /\ everStored \subseteq Keys
    /\ disturbed \in BOOLEAN
    /\ forms \in Nat /\ faults \in Nat

Resting == \A r \in Requests : step[r] = "idle"

\* The settings never hold a secret that only this process knew: what a
\* rotation saves was stored in OpenBao first (or an admin typed it in).
SavedWasStored == saved \in typed \cup everStored

\* Rotating removes no credential but those it created itself.
TypedKeysStay == typed \subseteq UNION {creds[a] : a \in Apps}

\* "so the app registration doesn't accumulate old secrets": with one request
\* at a time and no failure, OpenBao's secret is the only one left of all that
\* rotations created, and the settings hold it unless an admin typed another.
StoresInStep ==
    ~disturbed /\ Resting /\ vault.keyId # None =>
        /\ \A a \in Apps : creds[a] \ typed = IF a = vault.app THEN {vault.keyId} ELSE {}
        /\ saved \in typed \cup {vault.secret}

\* "store it in OpenBao, then remove the previous credential": the secret at
\* rest in OpenBao is one Entra ID accepts (module docstring, lines 9-11).
StoredSecretWorks ==
    Resting /\ vault.keyId # None => vault.keyId \in creds[vault.app]

\* "this only ever touches the secret itself": the tenant and client id in use
\* are those of the last form an admin saved (admin.py 370-371).
OnlyTheFormSetsIds == ids = form
=============================================================================
