---------------------------- MODULE SlidingWindow ----------------------------
(***************************************************************************)
(* What a rate limit promises: whenever a request is admitted under a key, *)
(* fewer than Limit[key] requests were admitted under it in the last       *)
(* Window[key] units of time.                                              *)
(***************************************************************************)
EXTENDS Integers, FiniteSets

CONSTANTS Keys, Requests, Limit, Window

VARIABLES
    now,        \* the time
    admittedAt  \* when a request was admitted under a key; 0 stands for never

vars == <<now, admittedAt>>

Recent(k) == {r \in Requests : admittedAt[k][r] # 0 /\ admittedAt[k][r] + Window[k] > now}

Init ==
    /\ now \in Nat
    /\ admittedAt = [k \in Keys |-> [r \in Requests |-> 0]]

Admit(k, r) ==
    /\ Cardinality(Recent(k)) < Limit[k]
    /\ admittedAt' = [admittedAt EXCEPT ![k][r] = now]
    /\ UNCHANGED now

Tick ==
    /\ now' = now + 1
    /\ UNCHANGED admittedAt

Next == Tick \/ \E k \in Keys, r \in Requests : Admit(k, r)

Spec == Init /\ [][Next]_vars

\* What it comes to for those who set the limit: no interval of length Window[k],
\* wherever it begins, holds more than Limit[k] admissions.
Within(k, from) == {r \in Requests : /\ admittedAt[k][r] # 0 /\ from <= admittedAt[k][r]
                                     /\ admittedAt[k][r] < from + Window[k]}
AtMostLimit == \A k \in Keys, from \in 0 .. now : Cardinality(Within(k, from)) <= Limit[k]
=============================================================================
