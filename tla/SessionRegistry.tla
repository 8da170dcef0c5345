--------------------------- MODULE SessionRegistry ---------------------------
(***************************************************************************)
(* What express-session and the session service promise together.  An id   *)
(* is drawn once, for one owner, and whatever is stored under it is that   *)
(* owner's session.  A session may disappear at any time, and then only a  *)
(* request that has a copy of it can bring it back; a copy comes from the  *)
(* stored session or from the request that drew the id.                    *)
(***************************************************************************)
CONSTANTS Owners, Sids, Requests, None

VARIABLES
    owner,  \* for whom an id was drawn; None: it was not
    store,  \* whose session is stored under an id; None: there is none
    copy    \* the session a request has in memory; None: it has none

vars == <<owner, store, copy>>

Init ==
    /\ owner = [s \in Sids |-> None]
    /\ store = [s \in Sids |-> None]
    /\ copy = [r \in Requests |-> None]

Holds(r, s) == copy[r] = s /\ s # None

\* A request loads the session its cookie names.
Open(r) ==
    /\ copy[r] = None
    /\ \E s \in Sids : store[s] # None /\ copy' = [copy EXCEPT ![r] = s]
    /\ UNCHANGED <<owner, store>>

Without(S) == [s \in Sids |-> IF s \in S THEN None ELSE store[s]]
With(s)    == [store EXCEPT ![s] = owner[s]]

\* A fresh id, in the hands of this request alone; the session it had is gone.
Regenerate(r, user) ==
    /\ \E s \in Sids :
        /\ owner[s] = None
        /\ owner' = [owner EXCEPT ![s] = user]
        /\ copy' = [copy EXCEPT ![r] = s]
    /\ store' = Without({copy[r]})

\* A fresh id whose session is stored at once.
Create(user) ==
    /\ \E s \in Sids :
        /\ owner[s] = None
        /\ owner' = [owner EXCEPT ![s] = user]
        /\ store' = [store EXCEPT ![s] = user]
    /\ UNCHANGED copy

Save(r) ==
    /\ \E s \in Sids : Holds(r, s) /\ store' = With(s)
    /\ UNCHANGED <<owner, copy>>

\* The request is over: it has written its copy, removed the session, or neither.
Close(r) ==
    /\ \E s \in Sids : Holds(r, s) /\ store' \in {store, With(s), Without({s})}
    /\ copy' = [copy EXCEPT ![r] = None]
    /\ UNCHANGED owner

Remove(S) ==
    /\ store' = Without(S)
    /\ UNCHANGED <<owner, copy>>

Next ==
    \/ \E r \in Requests : Open(r) \/ Save(r) \/ Close(r)
    \/ \E user \in Owners : Create(user) \/ \E r \in Requests : Regenerate(r, user)
    \/ \E S \in SUBSET Sids : Remove(S)

Spec == Init /\ [][Next]_vars

\* What it comes to for whoever revokes a session: it is gone for good once it is not
\* stored and no request in flight has a copy of it.
Dead(s) == owner[s] # None /\ store[s] = None /\ \A r \in Requests : copy[r] # s
RevocationFinal == \A s \in Sids : [](Dead(s) => []Dead(s))
=============================================================================
