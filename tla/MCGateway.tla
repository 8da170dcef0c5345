------------------------------ MODULE MCGateway ------------------------------
(***************************************************************************)
(* A small instance of Gateway: limits that two requests of one client     *)
(* reach, in a window of three ticks.                                      *)
(***************************************************************************)
EXTENDS Gateway, TLC

SmallLimits  == [g \in Groups |-> IF g = "auth" THEN 1 ELSE 2]
SmallWindows == [g \in Groups |-> IF g = "auth" THEN 2 ELSE 3]

Interchangeable == Permutations(Requests)
=============================================================================
