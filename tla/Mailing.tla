-------------------------------- MODULE Mailing --------------------------------
(***************************************************************************)
(* Who uses the secret that SecretRotation replaces: the pollers' calls of *)
(* Graph (graph_client.py, one MSAL client for all of them) and the mails  *)
(* sent through Graph (notifications.py, a client for each mail), beside   *)
(* mails sent by SMTP.  Each reads the settings in a session of its own    *)
(* and then waits for Entra ID, while requests rotate the secret.          *)
(***************************************************************************)
EXTENDS SecretRotation

CONSTANTS
    Tasks           \* tasks of the program: each calls Graph or sends a mail, again and again

VARIABLES
    email,      \* table app_settings: the rows email.*
    client,     \* graph_client._msal_app: what it was built with, and whether it caches a token
    user,       \* where each task is, and the app and secret it has read
    overlapped, \* history variable: tasks that were under way together with a rotation
    broken      \* history variable: something was disturbed, and since the last rotation no
                \* administrator has typed a new secret

mailing == <<email, client, user, overlapped, broken>>
allVars == <<vars, mailing>>

\* get_email_settings: "none", too, when the host or sender the method needs is not there.
Methods == {"none", "password", "graph_oauth2"}

NotYet == [at |-> "idle", app |-> None, key |-> None]

MailingInit ==
    /\ Init
    /\ email = "graph_oauth2"
    /\ client = [app |-> None, key |-> None, token |-> FALSE]
    /\ user = [t \in Tasks |-> NotYet]
    /\ overlapped = {} /\ broken = FALSE

Rotating == {r \in Requests : step[r] # "idle"}

Enters(t, place, app, key) ==
    /\ user' = [user EXCEPT ![t] = [at |-> place, app |-> app, key |-> key]]
    /\ overlapped' = IF Rotating # {} THEN overlapped \cup {t} ELSE overlapped

\* It succeeds or fails, and may begin again.
Ends(t) ==
    /\ user' = [user EXCEPT ![t] = NotYet]
    /\ overlapped' = overlapped \ {t}

-----------------------------------------------------------------------------
(* The settings of mails.                                                  *)

\* save_email_settings: every row, a blank password's excepted.
SaveRows(method) == email' = method

\* The form tries what it saved: a connection to the mail server, or a token.
Check(method) ==
    CASE method = "password" -> "smtp check" [] method = "graph_oauth2" -> "graph" [] OTHER -> "idle"

SaveEmail(t, method) ==
    /\ forms < MaxForms /\ forms' = forms + 1
    /\ user[t].at = "idle"
    /\ SaveRows(method)
    /\ IF Check(method) = "idle" THEN UNCHANGED <<user, overlapped>> ELSE Enters(t, Check(method), None, None)
    /\ UNCHANGED <<remote, settings, request, form, typed, everStored, disturbed, faults, client, broken>>

\* verify_smtp_connection answers that it could log in, or why not.
VerifySmtp(t) ==
    /\ user[t].at = "smtp check"
    /\ Ends(t)
    /\ UNCHANGED <<vars, email, client, broken>>

-----------------------------------------------------------------------------
(* Mails.                                                                  *)

Configured == email # "none"

\* send_test_email reads the settings a first time.
StartTest(t) ==
    /\ user[t].at = "idle" /\ Configured
    /\ Enters(t, "test", None, None)
    /\ UNCHANGED <<vars, email, client, broken>>

\* send_email reads the settings and chooses a way...
StartMail(t) ==
    /\ user[t].at \in {"idle", "test"} /\ Configured
    /\ Enters(t, IF email = "password" THEN "smtp" ELSE "graph", None, None)
    /\ UNCHANGED <<vars, email, client, broken>>

\* ... or none.
NoMail(t) ==
    /\ user[t].at = "test" /\ ~Configured
    /\ Ends(t)
    /\ UNCHANGED <<vars, email, client, broken>>

SendSmtp(t) ==
    /\ user[t].at = "smtp"
    /\ Ends(t)
    /\ UNCHANGED <<vars, email, client, broken>>

\* _get_graph_token and verify_azure_connection: with the Azure settings, read
\* for the second time or after the mail's, and a client of their own.
ReadAzure(t) ==
    /\ user[t].at = "graph"
    /\ Enters(t, "asking", ids, saved)
    /\ UNCHANGED <<vars, email, client, broken>>

\* What Entra ID says of the secret a task has read.
Accepted(t) == user[t].key \in creds[user[t].app]

\* It answers, and sendMail succeeds or not.
MailToken(t) ==
    /\ user[t].at = "asking" /\ Accepted(t)
    /\ Ends(t)
    /\ UNCHANGED <<vars, email, client, broken>>

MailRefused(t) ==
    /\ user[t].at = "asking" /\ ~Accepted(t)
    /\ Ends(t)
    /\ UNCHANGED <<vars, email, client, broken>>

-----------------------------------------------------------------------------
(* Pollers.                                                                *)

\* Mutant: the client is built once.
ClientKept == IF client.app # None THEN client ELSE [app |-> ids, key |-> saved, token |-> FALSE]

\* _get_msal_app: a new client, without a token, when the settings have changed.
Client ==
    IF client.app = ids /\ client.key = saved THEN client
    ELSE [app |-> ids, key |-> saved, token |-> FALSE]

\* _get_access_token reads the settings and takes the client to a thread.
StartPoll(t) ==
    /\ user[t].at = "idle"
    /\ client' = Client
    /\ Enters(t, "polling", client'.app, client'.key)
    /\ UNCHANGED <<vars, email, broken>>

\* Its own client, which another task may have replaced, answers from its cache...
HasToken(t) == client.token /\ client.app = user[t].app /\ client.key = user[t].key

\* ... or Entra ID does.
PollToken(t) ==
    /\ user[t].at = "polling"
    /\ HasToken(t) \/ Accepted(t)
    /\ client' = [client EXCEPT !.token = @ \/ (client.app = user[t].app /\ client.key = user[t].key)]
    /\ Ends(t)
    /\ UNCHANGED <<vars, email, broken>>

PollRefused(t) ==
    /\ user[t].at = "polling"
    /\ ~HasToken(t) /\ ~Accepted(t)
    /\ Ends(t)
    /\ UNCHANGED <<vars, email, client, broken>>

TokenExpires ==
    /\ client.token /\ client' = [client EXCEPT !.token = FALSE]
    /\ UNCHANGED <<vars, email, user, overlapped, broken>>

-----------------------------------------------------------------------------
\* A new secret that an administrator types while nothing rotates mends the settings.
Mends == Rotating = {} /\ typed' # typed

Begins == \E r \in Requests : step[r] = "idle" /\ step'[r] # "idle"

\* A rotation overlaps whoever is under way when it begins, and so does the end of
\* what was broken.
RotationStep ==
    /\ Next
    /\ broken' = (~Mends /\ (broken \/ (disturbed' /\ <<step, ids>>' # <<step, ids>>)))
    /\ overlapped' = IF Begins \/ (broken /\ Mends)
                     THEN overlapped \cup {t \in Tasks : user[t].at # "idle"} ELSE overlapped
    /\ UNCHANGED <<email, client, user>>

MailingNext ==
    \/ RotationStep
    \/ \E t \in Tasks, method \in Methods : SaveEmail(t, method)
    \/ \E t \in Tasks :
        \/ VerifySmtp(t)
        \/ StartTest(t) \/ StartMail(t) \/ NoMail(t) \/ SendSmtp(t) \/ ReadAzure(t)
        \/ MailToken(t) \/ MailRefused(t)
        \/ StartPoll(t) \/ PollToken(t) \/ PollRefused(t)
    \/ TokenExpires

MailingSpec == MailingInit /\ [][MailingNext]_allVars

-----------------------------------------------------------------------------
\* A secret is removed from Entra ID before the settings hold the next one, so
\* polls and mails that overlap a rotation may be refused: but none that begins
\* after it, although pollers share a client built with an older secret, and mails
\* read the settings a second time.  A rotation that fails, one beside another and a
\* form that names another app may leave a secret in the settings that is never
\* accepted: a new secret which an administrator types then helps, until the next
\* rotation, which may save what OpenBao still holds.
RefusedOnlyWhileRotating ==
    [][\A t \in Tasks : MailRefused(t) \/ PollRefused(t) => broken \/ t \in overlapped]_allVars
=============================================================================
