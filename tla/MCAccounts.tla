----------------------------- MODULE MCAccounts -----------------------------
(***************************************************************************)
(* A small instance of Accounts.                                           *)
(***************************************************************************)
EXTENDS Accounts, TLC

Interchangeable == Permutations(Requests) \cup Permutations(Versions)
=============================================================================
