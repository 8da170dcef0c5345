--------------------------- MODULE MCCredentials ---------------------------
(***************************************************************************)
(* Small instances of Credentials.                                         *)
(***************************************************************************)
EXTENDS Credentials, TLC

Interchangeable == Permutations(Requests) \cup Permutations(Passkeys)
                     \cup Permutations(Secrets)
=============================================================================
