--------------------------- MODULE MCRegistration ---------------------------
(***************************************************************************)
(* Small instances of Registration.  Requests, and whatever is drawn once, *)
(* are interchangeable; an address and the sentinels are not.              *)
(***************************************************************************)
EXTENDS Registration, TLC

Interchangeable == Permutations(Requests) \cup Permutations(Tokens)
                     \cup Permutations(Secrets) \cup Permutations(RowIds)
=============================================================================
