--------------------------- MODULE MCMailing ---------------------------
(* Small instances of Mailing, and of SecretRotation with it, for TLC. *)
EXTENDS Mailing, TLC

CONSTANTS r1, r2

\* Requests are interchangeable, and so are the tasks and the credentials still to be created.
Symmetry == Permutations(Requests) \cup Permutations(Tasks) \cup Permutations(Keys \ {FirstKey})

\* Once something is broken, mails and polls may be refused: here, what they do
\* then is not followed, but rotations without them are.
Followed == broken => user = [t \in Tasks |-> NotYet]
=============================================================================
