------------------------------- MODULE AuditLog -------------------------------
(***************************************************************************)
(* What the audit log promises to those who read it: entries are written   *)
(* one after the other, each in one step, and the hash of each covers all  *)
(* that was written before it, though older rows may be gone by now.  Rows *)
(* change in two ways only: a user's subject is replaced by a pseudonym    *)
(* drawn for this user, and the oldest rows are removed, never the last.   *)
(***************************************************************************)
EXTENDS Naturals, Sequences, FiniteSets

CONSTANTS Users, Pseudonyms, Nobody, Events

VARIABLES
    written,  \* the events, in the order in which they were written
    rows,     \* the rows there are
    drawn     \* whose pseudonym a pseudonym is

vars == <<written, rows, drawn>>

Init == written = <<>> /\ rows = <<>> /\ drawn = [q \in Pseudonyms |-> Nobody]

\* Writing an entry and reading the end of the log are one step.  (The event is
\* the one that is last afterwards: there are too many to be enumerated.)
Write ==
    LET e == written'[Len(written')] IN
    /\ Len(written') = Len(written) + 1
    /\ e \in Events
    /\ written' = Append(written, e)
    /\ rows' = Append(rows, [seq |-> Len(written) + 1, event |-> e,
                             prev |-> written, hash |-> Append(written, e)])
    /\ UNCHANGED drawn

Draw(q, user) ==
    /\ drawn[q] = Nobody
    /\ drawn' = [drawn EXCEPT ![q] = user]
    /\ UNCHANGED <<written, rows>>

\* Some of the user's rows; the others may be too new to be known.
Relabel(q) ==
    /\ drawn[q] \in Users
    /\ \E chosen \in SUBSET {i \in DOMAIN rows : rows[i].event.subject = drawn[q]} :
          rows' = [i \in DOMAIN rows |-> IF i \in chosen
                                         THEN [rows[i] EXCEPT !.event.subject = q]
                                         ELSE rows[i]]
    /\ UNCHANGED <<written, drawn>>

\* The rows in S, in their order.
Kept(S, remaining) ==
    \E place \in [1 .. Cardinality(S) -> S] :
        /\ \A i, j \in DOMAIN place : i < j => place[i] < place[j]
        /\ \A s \in S : \E i \in DOMAIN place : place[i] = s
        /\ remaining = [i \in DOMAIN place |-> rows[place[i]]]

\* What is removed is older than all that remains.
Retire ==
    /\ \E S \in SUBSET DOMAIN rows :
        /\ Len(rows) \in S
        /\ \A i \in S, j \in DOMAIN rows \ S : rows[j].event.ts < rows[i].event.ts
        /\ Kept(S, rows')
    /\ UNCHANGED <<written, drawn>>

Next ==
    \/ Write
    \/ \E q \in Pseudonyms : Relabel(q) \/ \E user \in Users : Draw(q, user)
    \/ Retire

Spec == Init /\ [][Next]_vars
=============================================================================
