------------------------- MODULE MCSessionLifecycle -------------------------
(***************************************************************************)
(* Small instances of SessionLifecycle.  Session ids and requests are      *)
(* interchangeable; users are too, but there are at most two of them.      *)
(***************************************************************************)
EXTENDS SessionLifecycle, TLC

IdSymmetry == Permutations(Sids) \cup Permutations(Requests)
=============================================================================
