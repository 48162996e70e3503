--------------------------- MODULE MCSecretRotation ---------------------------
(* Small instances of SecretRotation for TLC. *)
EXTENDS SecretRotation, TLC

CONSTANTS r1, r2

\* Requests are interchangeable, and so are the credentials still to be created.
Symmetry == Permutations(Requests) \cup Permutations(Keys \ {FirstKey})
=============================================================================
