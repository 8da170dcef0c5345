----------------------- MODULE SessionLifecycleProofs -----------------------
(***************************************************************************)
(* What holds of SessionLifecycle for any users, session ids, requests,    *)
(* handlers, faults and session limit.                                     *)
(***************************************************************************)
EXTENDS SessionLifecycle, FiniteSetTheorems, TLAPS

(***************************************************************************)
(* The inductive invariant.                                                *)
(***************************************************************************)
FindHandlers == {"login", "list", "revokeOthers", "revokeAll"}

\* Which handler can be at which step, and what it holds there.
StepInv ==
    \A r \in Requests :
        /\ pc[r] \in {"regenerate", "save", "track", "evict"} => op[r].handler = "login"
        /\ At(r, "lookup") => op[r].handler \in {"login", "list"}
        /\ pc[r] \in {"marker", "mark", "members", "exists", "srem"} =>
              op[r].handler \in FindHandlers
        /\ At(r, "scan") => op[r].handler \in FindHandlers \cup {"bulkRevoke"}
        /\ At(r, "del") => op[r].handler \in {"revokeAll", "revokeOthers"}
        /\ At(r, "clear") => op[r].handler = "revokeAll"
        /\ At(r, "destroy") => op[r].handler \in {"logout", "revokeAll"}
        /\ At(r, "get") => op[r].handler = "revokeById" /\ op[r].target \in Sids
        /\ pc[r] \in {"delItem", "untrackItem"} => op[r].handler \notin FindHandlers
        /\ At(r, "untrack") => op[r].user \in Users /\ op[r].handler = "logout"
        /\ op[r].sid = Absent => op[r].user = Anon
        /\ op[r].handler \in FindHandlers => op[r].target \in Users
        /\ pc[r] \in {"save", "track"} => op[r].sid \in Sids /\ op[r].user = op[r].target
        /\ At(r, "idle") => keys[r] = {} /\ items[r] = {} /\ op[r].handler = "visit"
                            /\ op[r].sid = Absent
        /\ pc[r] \in {"idle", "regenerate", "save", "track", "marker"} => due[r] = {}

\* A session id that a login is about to store is not stored yet, and nobody
\* else has it.
SaveInv ==
    \A r \in Requests : At(r, "save") =>
        /\ store[op[r].sid] = Absent
        /\ \A q \in Requests : /\ op[r].sid \notin due[q]
                               /\ q # r => op[q].sid # op[r].sid

\* A lookup answers for sessions of its target only.
DueOwned ==
    \A r \in Requests : \A s \in due[r] : 
        owner[s] = op[r].target /\ op[r].handler \in FindHandlers

SessionInv == TypeOK /\ StepInv /\ OwnershipInv /\ SaveInv /\ DueOwned

\* How far a lookup and the handler behind it have got with the sessions they
\* answer for.
Owed(r) == due[r] \cap Live
Swept(r) == op[r].handler \in FindHandlers =>
    /\ At(r, "scan") => Owed(r) \subseteq keys[r] \cup todo[r]
    /\ pc[r] \in {"mark", "members"} => Owed(r) \subseteq index[op[r].target]
    /\ pc[r] \in {"exists", "srem", "lookup", "evict", "del"} => Owed(r) \subseteq keys[r]
    /\ op[r].handler = "revokeAll" /\ pc[r] \in {"clear", "destroy", "end"} =>
          Owed(r) = {}
    /\ op[r].handler = "revokeOthers" /\ At(r, "end") => Owed(r) \subseteq {op[r].sid}
    /\ op[r].handler = "list" /\ At(r, "end") => Owed(r) \subseteq keys[r]
    /\ op[r].handler = "login" /\ At(r, "end") =>
          \E K \in SUBSET Sids : Owed(r) \subseteq K /\ Cardinality(K) <= MaxSessions
SweepInv == \A r \in Requests : Swept(r)

\* A request is started by both kinds of arrival with a well-typed session.
LEMMA StartType ==
    ASSUME TypeOK, NEW r \in Requests, NEW h \in Handlers, NEW s \in Sids \cup {Absent},
           NEW user \in Contents, NEW t \in Targets(h, user), Start(r, h, s, user, t)
    PROVE  TypeOK'
<1>1. h \in AllHandlers /\ t \in Users \cup {All, Some, Anon} \cup Sids
  BY SessionAssumption DEF Targets, GetSecurity, RevokeOtherSessions, RevokeAllSessions, ForceLogout,
              RevokeSession, BulkRevokeSessions, AllHandlers, Contents
<1>2. FirstStep(h, user) \in Steps
  BY <1>1 DEF FirstStep, Logout, Steps, AllHandlers
<1>3. op' \in [Requests -> Ops]
  BY <1>1 DEF Start, TypeOK, Ops
<1>4. todo' \in [Requests -> SUBSET Sids]
  BY DEF Start, TypeOK, Scannable, Live
<1> QED BY <1>2, <1>3, <1>4 DEF Start, TypeOK, Goto, redis

\* Where a handler goes on after its lookup.
LEMMA AfterFindType ==
    ASSUME NEW r \in Requests, NEW found
    PROVE  AfterFind(r, found) \in Steps
BY DEF AfterFind, Steps

\* Updates of one request's operation.
LEMMA CleanOp ==
    ASSUME NEW o \in Ops
    PROVE  [o EXCEPT !.dirty = FALSE] \in Ops
BY DEF Ops

\* The same of the second save of a login.
LEMMA DirtyOp ==
    ASSUME NEW o \in Ops
    PROVE  [o EXCEPT !.dirty = TRUE] \in Ops /\ [o EXCEPT !.dirty = TRUE].sid = o.sid
BY DEF Ops

\* The record of a login with its new session id is one of Ops.
LEMMA LoginOp ==
    ASSUME NEW o \in Ops, NEW s \in Sids, NEW u \in Users
    PROVE  [o EXCEPT !.sid = s, !.user = u, !.dirty = TRUE] \in Ops
BY DEF Ops, Contents

\* The record of an idle request is one of Ops.
LEMMA NoOpType == NoOp \in Ops
BY DEF Ops, Contents, NoOp, AllHandlers

\* Every step preserves the types.
LEMMA TypeStep == TypeOK /\ StepInv /\ [Next]_vars => TypeOK'
<1> SUFFICES ASSUME TypeOK /\ StepInv, [Next]_vars
             PROVE  TypeOK'
  OBVIOUS
<1> USE DEF TypeOK, StepInv, At, Goto, redis, locals, Steps, FindHandlers
<1>1. ASSUME NEW r \in Requests, Arrive(r)
      PROVE  TypeOK'
  <2>1. PICK h \in Handlers, s \in Live : \E t \in Targets(h, store[s]) :
               Start(r, h, s, store[s], t)
    BY <1>1 DEF Arrive
  <2>2. s \in Sids /\ store[s] \in Contents /\ store[s] # Absent
    BY DEF Live, TypeOK, SessionInv
  <2> QED BY <2>1, <2>2, StartType
<1>2. ASSUME NEW r \in Requests, ArriveWithoutSession(r)
      PROVE  TypeOK'
  BY <1>2, StartType DEF ArriveWithoutSession, Contents
<1>3. ASSUME NEW r \in Requests, Find(r)
      PROVE  TypeOK'
  <2>1. CASE CheckMarker(r)
    BY <2>1 DEF CheckMarker, Live, LiveOf, Scannable
  <2>2. CASE ScanKey(r)
    <3>1. PICK s \in todo[r] \cup Scannable(op[r].handler, op[r].sid) :
            /\ todo' = [todo EXCEPT ![r] = @ \ {s}]
            /\ \/ /\ ~Matches(op[r].target, store[s]) \/ op[r].target = Some
                  /\ UNCHANGED <<keys, items>>
               \/ /\ Matches(op[r].target, store[s]) /\ op[r].handler = "bulkRevoke"
                  /\ items' = [items EXCEPT ![r] = @ \cup {[sid |-> s, user |-> store[s]]}]
                  /\ UNCHANGED keys
               \/ /\ Matches(op[r].target, store[s]) /\ op[r].handler # "bulkRevoke"
                  /\ keys' = [keys EXCEPT ![r] = @ \cup {s}]
                  /\ UNCHANGED items
      BY <2>2 DEF ScanKey
    <3>2. s \in Sids
      BY <3>1 DEF Scannable, Live
    <3>3. Matches(op[r].target, store[s]) => store[s] \in Contents
      BY <3>2, SessionAssumption DEF Matches, Ops, Contents
    <3>4. items' \in [Requests -> SUBSET Items]
      BY <3>1, <3>2, <3>3 DEF Items
    <3>5. keys' \in [Requests -> SUBSET Sids]
      BY <3>1, <3>2
    <3>6. todo' \in [Requests -> SUBSET Sids]
      BY <3>1
    <3> QED BY <2>2, <3>4, <3>5, <3>6 DEF ScanKey
  <2>3. CASE TrackScanned(r)
    BY <2>3 DEF TrackScanned
  <2>4. CASE SetMarker(r)
    BY <2>4 DEF SetMarker
  <2>5. CASE ReadMembers(r)
    BY <2>5, AfterFindType DEF ReadMembers
  <2>6. CASE CheckAlive(r)
    BY <2>6, AfterFindType DEF CheckAlive
  <2>7. CASE DropStale(r)
    BY <2>7, AfterFindType DEF DropStale, Untrack, Detach
  <2>8. CASE ListUserSessions(r)
    BY <2>8 DEF ListUserSessions
  <2> QED BY <1>3, <2>1, <2>2, <2>3, <2>4, <2>5, <2>6, <2>7, <2>8 DEF Find
<1>4. ASSUME NEW r \in Requests, Login(r)
      PROVE  TypeOK'
  <2>1. CASE Regenerate(r)
    <3>1. PICK s \in Fresh :
            /\ Delete({op[r].sid})
            /\ owner' = [owner EXCEPT ![s] = op[r].target]
            /\ op' = [op EXCEPT ![r] = [@ EXCEPT !.sid = s, !.user = op[r].target,
                                                 !.dirty = TRUE]]
      BY <2>1 DEF Regenerate
    <3>2. op[r].target \in Users /\ s \in Sids
      BY <2>1 DEF Regenerate, Fresh
    <3>3. op' \in [Requests -> Ops]
      BY <3>1, <3>2, LoginOp
    <3> QED BY <2>1, <3>1, <3>2, <3>3 DEF Regenerate, Delete, Contents
  <2>2. CASE SaveSession(r)
    <3>1. op' \in [Requests -> Ops]
      BY <2>2, CleanOp DEF SaveSession
    <3>2. op[r].user \in Contents
      BY DEF Ops
    <3> QED BY <2>2, <3>1, <3>2 DEF SaveSession
  <2>3. CASE TrackSession(r)
    BY <2>3 DEF TrackSession, Ops
  <2>4. CASE LookUpSessions(r)
    BY <2>4 DEF LookUpSessions
  <2>5. CASE EvictOldest(r)
    BY <2>5 DEF EvictOldest, Delete, Untrack
  <2>6. CASE SaveAgain(r)
    <3>1. op' \in [Requests -> Ops]
      BY <2>6, DirtyOp DEF SaveAgain
    <3> QED BY <2>6, <3>1 DEF SaveAgain
  <2> QED BY <1>4, <2>1, <2>2, <2>3, <2>4, <2>5, <2>6 DEF Login
<1>5. ASSUME NEW r \in Requests, Revoke(r)
      PROVE  TypeOK'
  <2>1. CASE DeleteAll(r)
    BY <2>1 DEF DeleteAll, Delete
  <2>2. CASE ClearTracking(r)
    BY <2>2 DEF ClearTracking, Detach
  <2>3. CASE DeleteOthers(r)
    BY <2>3 DEF DeleteOthers, Delete, Untrack
  <2>4. CASE LogoutUntrack(r)
    BY <2>4 DEF LogoutUntrack, Untrack, Detach
  <2>5. CASE DestroySession(r)
    <3>1. op' \in [Requests -> Ops]
      BY <2>5, CleanOp DEF DestroySession
    <3> QED BY <2>5, <3>1 DEF DestroySession, Delete
  <2>6. CASE GetSession(r)
    <3>1. op[r].target \in Sids
      BY <2>6 DEF GetSession
    <3>2. store[op[r].target] # Absent =>
             [sid |-> op[r].target, user |-> store[op[r].target]] \in Items
      BY <3>1 DEF Items
    <3> QED BY <2>6, <3>2 DEF GetSession
  <2>7. CASE BulkScanned(r)
    BY <2>7 DEF BulkScanned
  <2>8. CASE DeleteItem(r)
    BY <2>8 DEF DeleteItem, Delete, Items
  <2>9. CASE UntrackItem(r)
    BY <2>9 DEF UntrackItem, Detach, Items
  <2> QED BY <1>5, <2>1, <2>2, <2>3, <2>4, <2>5, <2>6, <2>7, <2>8, <2>9 DEF Revoke
<1>6. ASSUME NEW r \in Requests, EndResponse(r)
      PROVE  TypeOK'
  <2>1. op' \in [Requests -> Ops]
    BY <1>6, NoOpType DEF EndResponse, Forget
  <2>2. op[r].user \in Contents
    BY DEF Ops
  <2> QED BY <1>6, <2>1, <2>2 DEF EndResponse, Forget, ForgetLocals, Fresh
<1>7. ASSUME NEW r \in Requests, Throw(r)
      PROVE  TypeOK'
  BY <1>7 DEF Throw, ForgetLocals
<1>8. ASSUME NEW r \in Requests, Crash(r)
      PROVE  TypeOK'
  BY <1>8 DEF Crash, Forget, ForgetLocals, Ops, NoOp, AllHandlers, Contents
<1>9. CASE SessionExpires
  BY <1>9 DEF SessionExpires, Delete
<1>10. CASE MarkerExpires
  BY <1>10 DEF MarkerExpires
<1>11. CASE IndexExpires
  BY <1>11 DEF IndexExpires, Detach
<1>12. CASE UNCHANGED vars
  BY <1>12 DEF vars
<1> QED BY <1>1, <1>2, <1>3, <1>4, <1>5, <1>6, <1>7, <1>8, <1>9, <1>10, <1>11, <1>12 DEF Next

\* Where a lookup can send its caller.
LEMMA AfterFindStep ==
    ASSUME NEW r \in Requests, NEW found, op[r].handler \in FindHandlers
    PROVE  /\ AfterFind(r, found) \in {"clear", "del", "end", "lookup"}
           /\ AfterFind(r, found) = "del" => op[r].handler \in {"revokeAll", "revokeOthers"}
           /\ AfterFind(r, found) = "clear" => op[r].handler = "revokeAll"
           /\ AfterFind(r, found) = "lookup" => op[r].handler \in {"login", "list"}
BY DEF AfterFind, FindHandlers

\* A request starts with a target that fits its handler, at a step of it.
LEMMA StartStep ==
    ASSUME TypeOK, StepInv, NEW r \in Requests, NEW h \in Handlers,
           NEW s \in Sids \cup {Absent}, NEW user \in Contents, s = Absent => user = Anon,
           NEW t \in Targets(h, user), Start(r, h, s, user, t)
    PROVE  StepInv'
<1>1. h \in AllHandlers
  BY SessionAssumption
<1>2. /\ h \in FindHandlers => t \in Users
      /\ h = "revokeById" => t \in Sids
  BY <1>1 DEF Targets, GetSecurity, RevokeOtherSessions, RevokeAllSessions, ForceLogout,
              RevokeSession, BulkRevokeSessions, AllHandlers, Contents, FindHandlers
<1>3. /\ FirstStep(h, user) \in {"end", "regenerate", "destroy", "untrack", "marker", "get", "scan"}
      /\ FirstStep(h, user) = "regenerate" => h = "login"
      /\ FirstStep(h, user) = "untrack" => h = "logout" /\ user # Anon
      /\ FirstStep(h, user) = "marker" => h \in FindHandlers
      /\ FirstStep(h, user) = "destroy" => h = "logout"
      /\ FirstStep(h, user) = "get" => h = "revokeById"
      /\ FirstStep(h, user) = "scan" => h = "bulkRevoke"
  BY <1>1 DEF FirstStep, Logout, AllHandlers, FindHandlers
<1>4. /\ op'[r] = [handler |-> h, sid |-> s, user |-> user, target |-> t,
                    dirty |-> h \in Guarded \cup {"csrfToken"}]
      /\ pc'[r] = FirstStep(h, user)
      /\ \A q \in Requests : q # r => op'[q] = op[q] /\ pc'[q] = pc[q]
  BY DEF Start, Goto, TypeOK
<1>5. due[r] = {} /\ UNCHANGED <<keys, items, due>>
  BY DEF Start, At, StepInv
<1> QED BY <1>2, <1>3, <1>4, <1>5 DEF StepInv, At, Contents

\* Every step preserves StepInv.
LEMMA StepStep == TypeOK /\ StepInv /\ [Next]_vars => StepInv'
<1> SUFFICES ASSUME TypeOK /\ StepInv, [Next]_vars
             PROVE  StepInv'
  OBVIOUS
<1> USE DEF TypeOK, StepInv, At, Goto, redis, locals, FindHandlers
<1>1. ASSUME NEW r \in Requests, Arrive(r)
      PROVE  StepInv'
  <2>1. PICK h \in Handlers, s \in Live : \E t \in Targets(h, store[s]) :
               Start(r, h, s, store[s], t)
    BY <1>1 DEF Arrive
  <2>2. s \in Sids /\ store[s] \in Contents /\ s # Absent
    BY SessionAssumption DEF Live
  <2> QED BY <2>1, <2>2, StartStep
<1>2. ASSUME NEW r \in Requests, ArriveWithoutSession(r)
      PROVE  StepInv'
  BY <1>2, StartStep DEF ArriveWithoutSession, Contents
<1>3. ASSUME NEW r \in Requests, Find(r)
      PROVE  StepInv'
  <2>1. CASE CheckMarker(r)
    BY <2>1 DEF CheckMarker
  <2>2. CASE ScanKey(r)
    BY <2>2 DEF ScanKey
  <2>3. CASE TrackScanned(r)
    BY <2>3 DEF TrackScanned
  <2>4. CASE SetMarker(r)
    BY <2>4 DEF SetMarker
  <2>5. CASE ReadMembers(r)
    BY <2>5, AfterFindStep DEF ReadMembers
  <2>6. CASE CheckAlive(r)
    BY <2>6, AfterFindStep DEF CheckAlive
  <2>7. CASE DropStale(r)
    BY <2>7, AfterFindStep DEF DropStale, Untrack, Detach
  <2>8. CASE ListUserSessions(r)
    BY <2>8 DEF ListUserSessions
  <2> QED BY <1>3, <2>1, <2>2, <2>3, <2>4, <2>5, <2>6, <2>7, <2>8 DEF Find
<1>4. ASSUME NEW r \in Requests, Login(r)
      PROVE  StepInv'
  <2>1. CASE Regenerate(r)
    <3>1. PICK s \in Fresh :
            /\ Delete({op[r].sid})
            /\ owner' = [owner EXCEPT ![s] = op[r].target]
            /\ op' = [op EXCEPT ![r] = [@ EXCEPT !.sid = s, !.user = op[r].target,
                                                 !.dirty = TRUE]]
      BY <2>1 DEF Regenerate
    <3>2. s # Absent
      BY SessionAssumption DEF Fresh
    <3>3. op'[r].handler = "login" /\ op'[r].target = op[r].target
          /\ op'[r].sid = s /\ op'[r].user = op[r].target
      <4>1. op[r] \in Ops /\ op[r].handler = "login"
        BY <2>1 DEF Regenerate
      <4>2. op'[r] = [op[r] EXCEPT !.sid = s, !.user = op[r].target, !.dirty = TRUE]
        BY <3>1
      <4> QED BY <4>1, <4>2 DEF Ops
    <3>4. \A q \in Requests : q # r => op'[q] = op[q]
      BY <3>1
    <3>5. op[r].target \in Users /\ s \in Sids
      BY <2>1 DEF Regenerate, Fresh
    <3> QED BY <2>1, <3>2, <3>3, <3>4, <3>5 DEF Regenerate, Fresh
  <2>2. CASE SaveSession(r)
    BY <2>2 DEF SaveSession
  <2>3. CASE TrackSession(r)
    BY <2>3 DEF TrackSession
  <2>4. CASE LookUpSessions(r)
    BY <2>4 DEF LookUpSessions
  <2>5. CASE EvictOldest(r)
    BY <2>5 DEF EvictOldest, Delete, Untrack
  <2>6. CASE SaveAgain(r)
    BY <2>6 DEF SaveAgain, Ops
  <2> QED BY <1>4, <2>1, <2>2, <2>3, <2>4, <2>5, <2>6 DEF Login
<1>5. ASSUME NEW r \in Requests, Revoke(r)
      PROVE  StepInv'
  <2>1. CASE DeleteAll(r)
    BY <2>1 DEF DeleteAll, Delete
  <2>2. CASE ClearTracking(r)
    BY <2>2 DEF ClearTracking, Detach
  <2>3. CASE DeleteOthers(r)
    BY <2>3 DEF DeleteOthers, Delete, Untrack
  <2>4. CASE LogoutUntrack(r)
    BY <2>4 DEF LogoutUntrack, Untrack, Detach
  <2>5. CASE DestroySession(r)
    BY <2>5 DEF DestroySession, Delete
  <2>6. CASE GetSession(r)
    BY <2>6 DEF GetSession
  <2>7. CASE BulkScanned(r)
    BY <2>7 DEF BulkScanned
  <2>8. CASE DeleteItem(r)
    BY <2>8 DEF DeleteItem, Delete
  <2>9. CASE UntrackItem(r)
    BY <2>9 DEF UntrackItem, Detach
  <2> QED BY <1>5, <2>1, <2>2, <2>3, <2>4, <2>5, <2>6, <2>7, <2>8, <2>9 DEF Revoke
<1>6. ASSUME NEW r \in Requests, EndResponse(r)
      PROVE  StepInv'
  BY <1>6, SessionAssumption DEF EndResponse, Forget, ForgetLocals, NoOp
<1>7. ASSUME NEW r \in Requests, Throw(r)
      PROVE  StepInv'
  BY <1>7 DEF Throw, ForgetLocals
<1>8. ASSUME NEW r \in Requests, Crash(r)
      PROVE  StepInv'
  BY <1>8 DEF Crash, Forget, ForgetLocals, NoOp
<1>9. CASE SessionExpires
  BY <1>9 DEF SessionExpires, Delete
<1>10. CASE MarkerExpires
  BY <1>10 DEF MarkerExpires
<1>11. CASE IndexExpires
  BY <1>11 DEF IndexExpires, Detach
<1>12. CASE UNCHANGED vars
  BY <1>12 DEF vars
<1> QED BY <1>1, <1>2, <1>3, <1>4, <1>5, <1>6, <1>7, <1>8, <1>9, <1>10, <1>11, <1>12 DEF Next

(***************************************************************************)
(* Ownership                                                               *)
(***************************************************************************)

\* A session id that has not been generated is known to nobody.
LEMMA FreshUnused ==
    ASSUME TypeOK, StepInv, OwnershipInv, NEW s \in Fresh
    PROVE  /\ store[s] = Absent
           /\ \A u \in Users : s \notin index[u]
           /\ \A r \in Requests : op[r].sid # s
           /\ \A r \in Requests : op[r].handler \in FindHandlers => s \notin keys[r]
           /\ \A r \in Requests : \A i \in items[r] : i.sid # s
<1> USE DEF TypeOK, OwnershipInv
<1>1. s \in Sids /\ owner[s] = Absent /\ Absent \notin Contents
  BY SessionAssumption DEF Fresh, Contents
<1>2. store[s] = Absent
  BY <1>1 DEF StoredOwned, Live
<1>3. \A u \in Users : s \notin index[u]
  BY <1>1 DEF IndexOwned, Contents
<1>4. \A r \in Requests : op[r].sid # s
  BY <1>1, SessionAssumption DEF HeldOwned, Ops
<1>5. \A r \in Requests : op[r].handler \in FindHandlers => s \notin keys[r]
  BY <1>1 DEF KeysOwned, FindHandlers, StepInv, Contents
<1>6. \A r \in Requests : \A i \in items[r] : i.sid # s
  BY <1>1 DEF ItemsOwned, Items
<1> QED BY <1>2, <1>3, <1>4, <1>5, <1>6

\* A request that begins holds a session of its owner, or none.
LEMMA StartOwned ==
    ASSUME TypeOK, StepInv, OwnershipInv, NEW r \in Requests, NEW h \in Handlers,
           NEW s \in Sids \cup {Absent}, NEW user, s # Absent => owner[s] = user,
           NEW t \in Targets(h, user), Start(r, h, s, user, t)
    PROVE  OwnershipInv'
<1>1. /\ op'[r] = [handler |-> h, sid |-> s, user |-> user, target |-> t,
                    dirty |-> h \in Guarded \cup {"csrfToken"}]
      /\ \A q \in Requests : q # r => op'[q] = op[q]
  BY DEF Start, TypeOK
<1>2. keys[r] = {} /\ UNCHANGED <<store, index, owner, keys, items>>
  BY DEF Start, At, StepInv, redis
<1> QED BY <1>1, <1>2
        DEF OwnershipInv, StoredOwned, IndexOwned, HeldOwned, KeysOwned, ItemsOwned, Live

\* Every step preserves the ownership.
LEMMA OwnershipStep == TypeOK /\ StepInv /\ OwnershipInv /\ [Next]_vars => OwnershipInv'
<1> SUFFICES ASSUME TypeOK, StepInv, OwnershipInv, [Next]_vars
             PROVE  OwnershipInv'
  OBVIOUS
<1> USE DEF TypeOK, StepInv, At, Goto, redis, locals, FindHandlers,
            OwnershipInv, StoredOwned, IndexOwned, HeldOwned, KeysOwned, ItemsOwned
<1>1. ASSUME NEW r \in Requests, Arrive(r)
      PROVE  OwnershipInv'
  <2>1. PICK h \in Handlers, s \in Live : \E t \in Targets(h, store[s]) :
               Start(r, h, s, store[s], t)
    BY <1>1 DEF Arrive
  <2>2. s \in Sids /\ owner[s] = store[s]
    BY DEF Live
  <2> QED BY <2>1, <2>2, StartOwned
<1>2. ASSUME NEW r \in Requests, ArriveWithoutSession(r)
      PROVE  OwnershipInv'
  BY <1>2, StartOwned DEF ArriveWithoutSession
<1>3. ASSUME NEW r \in Requests, Find(r)
      PROVE  OwnershipInv'
  <2>1. CASE CheckMarker(r)
    BY <2>1 DEF CheckMarker, Live
  <2>2. CASE ScanKey(r)
    <3>1. PICK s \in todo[r] \cup Scannable(op[r].handler, op[r].sid) :
            /\ todo' = [todo EXCEPT ![r] = @ \ {s}]
            /\ \/ /\ ~Matches(op[r].target, store[s]) \/ op[r].target = Some
                  /\ UNCHANGED <<keys, items>>
               \/ /\ Matches(op[r].target, store[s]) /\ op[r].handler = "bulkRevoke"
                  /\ items' = [items EXCEPT ![r] = @ \cup {[sid |-> s, user |-> store[s]]}]
                  /\ UNCHANGED keys
               \/ /\ Matches(op[r].target, store[s]) /\ op[r].handler # "bulkRevoke"
                  /\ keys' = [keys EXCEPT ![r] = @ \cup {s}]
                  /\ UNCHANGED items
      BY <2>2 DEF ScanKey
    <3>2. s \in Sids
      BY <3>1 DEF Scannable, Live
    <3>3. Matches(op[r].target, store[s]) => s \in Live
      BY <3>2, SessionAssumption DEF Matches, Ops, Contents, Live
    <3>4. op[r].handler \in FindHandlers /\ Matches(op[r].target, store[s])
             => store[s] = op[r].target
      BY SessionAssumption DEF Matches, StepInv
    <3>5. KeysOwned'
      BY <2>2, <3>1, <3>2, <3>3, <3>4 DEF ScanKey
    <3>6. ItemsOwned'
      BY <2>2, <3>1, <3>2, <3>3 DEF ScanKey
    <3> QED BY <2>2, <3>5, <3>6 DEF ScanKey, Live
  <2>3. CASE TrackScanned(r)
    BY <2>3 DEF TrackScanned, Live
  <2>4. CASE SetMarker(r)
    BY <2>4 DEF SetMarker, Live
  <2>5. CASE ReadMembers(r)
    BY <2>5 DEF ReadMembers, Live
  <2>6. CASE CheckAlive(r)
    BY <2>6 DEF CheckAlive, Live
  <2>7. CASE DropStale(r)
    BY <2>7 DEF DropStale, Untrack, Live
  <2>8. CASE ListUserSessions(r)
    BY <2>8 DEF ListUserSessions, Live
  <2> QED BY <1>3, <2>1, <2>2, <2>3, <2>4, <2>5, <2>6, <2>7, <2>8 DEF Find
<1>4. ASSUME NEW r \in Requests, Login(r)
      PROVE  OwnershipInv'
  <2>1. CASE Regenerate(r)
    <3>1. PICK s \in Fresh :
            /\ Delete({op[r].sid})
            /\ owner' = [owner EXCEPT ![s] = op[r].target]
            /\ op' = [op EXCEPT ![r] = [@ EXCEPT !.sid = s, !.user = op[r].target,
                                                 !.dirty = TRUE]]
      BY <2>1 DEF Regenerate
    <3>2. s \in Sids /\ op[r].target \in Users
      BY <2>1 DEF Regenerate, Fresh
    <3>3. op'[r].handler = op[r].handler /\ op'[r].target = op[r].target
          /\ op'[r].sid = s /\ op'[r].user = op[r].target
      <4>1. op[r] \in Ops
        OBVIOUS
      <4>2. op'[r] = [op[r] EXCEPT !.sid = s, !.user = op[r].target, !.dirty = TRUE]
        BY <3>1
      <4> QED BY <4>1, <4>2 DEF Ops
    <3>4. StoredOwned'
      BY <3>1, <3>2, FreshUnused DEF Delete, Live
    <3>5. IndexOwned' /\ ItemsOwned'
      BY <2>1, <3>1, <3>2, FreshUnused DEF Regenerate
    <3>6. HeldOwned' /\ KeysOwned'
      BY <2>1, <3>1, <3>2, <3>3, FreshUnused DEF Regenerate
    <3> QED BY <3>4, <3>5, <3>6
  <2>2. CASE SaveSession(r)
    BY <2>2, SessionAssumption DEF SaveSession, Live, Ops
  <2>3. CASE TrackSession(r)
    BY <2>3, SessionAssumption DEF TrackSession, Live
  <2>4. CASE LookUpSessions(r)
    BY <2>4 DEF LookUpSessions, Live
  <2>5. CASE EvictOldest(r)
    BY <2>5 DEF EvictOldest, Delete, Untrack, Live
  <2>6. CASE SaveAgain(r)
    BY <2>6 DEF SaveAgain, Live, Ops
  <2> QED BY <1>4, <2>1, <2>2, <2>3, <2>4, <2>5, <2>6 DEF Login
<1>5. ASSUME NEW r \in Requests, Revoke(r)
      PROVE  OwnershipInv'
  <2>1. CASE DeleteAll(r)
    BY <2>1 DEF DeleteAll, Delete, Live
  <2>2. CASE ClearTracking(r)
    BY <2>2 DEF ClearTracking, Live
  <2>3. CASE DeleteOthers(r)
    BY <2>3 DEF DeleteOthers, Delete, Untrack, Live
  <2>4. CASE LogoutUntrack(r)
    BY <2>4 DEF LogoutUntrack, Untrack, Live
  <2>5. CASE DestroySession(r)
    BY <2>5 DEF DestroySession, Live, Ops, Delete
  <2>6. CASE GetSession(r)
    BY <2>6 DEF GetSession, Live
  <2>7. CASE BulkScanned(r)
    BY <2>7 DEF BulkScanned, Live
  <2>8. CASE DeleteItem(r)
    BY <2>8 DEF DeleteItem, Delete, Live
  <2>9. CASE UntrackItem(r)
    BY <2>9 DEF UntrackItem, Live, Items
  <2> QED BY <1>5, <2>1, <2>2, <2>3, <2>4, <2>5, <2>6, <2>7, <2>8, <2>9 DEF Revoke
<1>6. ASSUME NEW r \in Requests, EndResponse(r)
      PROVE  OwnershipInv'
  <2>1. op' = [op EXCEPT ![r] = NoOp] /\ UNCHANGED index
        /\ keys' = [keys EXCEPT ![r] = {}] /\ items' = [items EXCEPT ![r] = {}]
    BY <1>6 DEF EndResponse, Forget, ForgetLocals
  <2>2. CASE UNCHANGED owner /\ (UNCHANGED store \/ 
               (op[r].sid # Absent /\ store' = [store EXCEPT ![op[r].sid] = op[r].user]))
    BY <2>1, <2>2 DEF NoOp, Live, Ops
  <2>3. ASSUME NEW new \in Fresh, store' = [store EXCEPT ![new] = op[r].user],
               owner' = [owner EXCEPT ![new] = op[r].user]
        PROVE  OwnershipInv'
    <3>1. new \in Sids
      BY DEF Fresh
    <3>2. StoredOwned' /\ IndexOwned'
      BY <2>1, <2>3, <3>1, FreshUnused DEF Live
    <3>3. HeldOwned'
      BY <2>1, <2>3, <3>1, FreshUnused DEF NoOp, Live
    <3>4. KeysOwned' /\ ItemsOwned'
      BY <2>1, <2>3, <3>1, FreshUnused DEF NoOp, Live
    <3> QED BY <3>2, <3>3, <3>4
  <2> QED BY <1>6, <2>2, <2>3 DEF EndResponse
<1>7. ASSUME NEW r \in Requests, Throw(r)
      PROVE  OwnershipInv'
  BY <1>7 DEF Throw, ForgetLocals, Live
<1>8. ASSUME NEW r \in Requests, Crash(r)
      PROVE  OwnershipInv'
  BY <1>8 DEF Crash, Forget, ForgetLocals, NoOp, Live
<1>9. CASE SessionExpires
  BY <1>9 DEF SessionExpires, Delete, Live
<1>10. CASE MarkerExpires
  BY <1>10 DEF MarkerExpires, Live
<1>11. CASE IndexExpires
  BY <1>11 DEF IndexExpires, Live
<1>12. CASE UNCHANGED vars
  BY <1>12 DEF vars, Live
<1> QED BY <1>1, <1>2, <1>3, <1>4, <1>5, <1>6, <1>7, <1>8, <1>9, <1>10, <1>11, <1>12 DEF Next

(***************************************************************************)
(* The session a login is about to save, and what a lookup answers for.    *)
(***************************************************************************)
LEMMA DueStep ==
    TypeOK /\ StepInv /\ OwnershipInv /\ DueOwned /\ [Next]_vars => DueOwned'
<1> SUFFICES ASSUME TypeOK, StepInv, OwnershipInv, DueOwned, [Next]_vars
             PROVE  DueOwned'
  OBVIOUS
<1> USE DEF TypeOK, StepInv, At, Goto, redis, locals, FindHandlers, DueOwned
<1>1. ASSUME NEW r \in Requests, Arrive(r)
      PROVE  DueOwned'
  BY <1>1 DEF Arrive, Start
<1>2. ASSUME NEW r \in Requests, ArriveWithoutSession(r)
      PROVE  DueOwned'
  BY <1>2 DEF ArriveWithoutSession, Start
<1>3. ASSUME NEW r \in Requests, Find(r)
      PROVE  DueOwned'
  <2>1. CASE CheckMarker(r)
    BY <2>1, SessionAssumption DEF CheckMarker, OwnershipInv, StoredOwned, IndexOwned, Live, LiveOf
  <2>2. CASE ScanKey(r)
    BY <2>2 DEF ScanKey
  <2>3. CASE TrackScanned(r)
    BY <2>3 DEF TrackScanned
  <2>4. CASE SetMarker(r)
    BY <2>4 DEF SetMarker
  <2>5. CASE ReadMembers(r)
    BY <2>5 DEF ReadMembers
  <2>6. CASE CheckAlive(r)
    BY <2>6 DEF CheckAlive
  <2>7. CASE DropStale(r)
    BY <2>7 DEF DropStale, Detach
  <2>8. CASE ListUserSessions(r)
    BY <2>8 DEF ListUserSessions
  <2> QED BY <1>3, <2>1, <2>2, <2>3, <2>4, <2>5, <2>6, <2>7, <2>8 DEF Find
<1>4. ASSUME NEW r \in Requests, Login(r)
      PROVE  DueOwned'
  <2>1. CASE Regenerate(r)
    <3>1. PICK s \in Fresh :
            /\ Delete({op[r].sid})
            /\ owner' = [owner EXCEPT ![s] = op[r].target]
            /\ op' = [op EXCEPT ![r] = [@ EXCEPT !.sid = s, !.user = op[r].target,
                                                 !.dirty = TRUE]]
      BY <2>1 DEF Regenerate
    <3>2. s \in Sids /\ owner[s] = Absent /\ op[r].target \in Users
      BY <2>1 DEF Regenerate, Fresh
    <3>3. op'[r].handler = op[r].handler /\ op'[r].target = op[r].target
          /\ op'[r].sid = s /\ op'[r].user = op[r].target
      <4>1. op[r] \in Ops
        OBVIOUS
      <4>2. op'[r] = [op[r] EXCEPT !.sid = s, !.user = op[r].target, !.dirty = TRUE]
        BY <3>1
      <4> QED BY <4>1, <4>2 DEF Ops
    <3>4. \A q \in Requests : s \notin due[q]
      BY <3>2, SessionAssumption
    <3> QED BY <2>1, <3>1, <3>2, <3>3, <3>4 DEF Regenerate
  <2>2. CASE SaveSession(r)
    BY <2>2 DEF SaveSession, Ops
  <2>3. CASE TrackSession(r)
    BY <2>3 DEF TrackSession
  <2>4. CASE LookUpSessions(r)
    BY <2>4 DEF LookUpSessions
  <2>5. CASE EvictOldest(r)
    BY <2>5 DEF EvictOldest
  <2>6. CASE SaveAgain(r)
    BY <2>6 DEF SaveAgain, Ops
  <2> QED BY <1>4, <2>1, <2>2, <2>3, <2>4, <2>5, <2>6 DEF Login
<1>5. ASSUME NEW r \in Requests, Revoke(r)
      PROVE  DueOwned'
  <2>1. CASE DeleteAll(r)
    BY <2>1 DEF DeleteAll
  <2>2. CASE ClearTracking(r)
    BY <2>2 DEF ClearTracking, Detach
  <2>3. CASE DeleteOthers(r)
    BY <2>3 DEF DeleteOthers
  <2>4. CASE LogoutUntrack(r)
    BY <2>4 DEF LogoutUntrack, Detach
  <2>5. CASE DestroySession(r)
    BY <2>5 DEF DestroySession, Ops
  <2>6. CASE GetSession(r)
    BY <2>6 DEF GetSession
  <2>7. CASE BulkScanned(r)
    BY <2>7 DEF BulkScanned
  <2>8. CASE DeleteItem(r)
    BY <2>8 DEF DeleteItem
  <2>9. CASE UntrackItem(r)
    BY <2>9 DEF UntrackItem, Detach
  <2> QED BY <1>5, <2>1, <2>2, <2>3, <2>4, <2>5, <2>6, <2>7, <2>8, <2>9 DEF Revoke
<1>6. ASSUME NEW r \in Requests, EndResponse(r)
      PROVE  DueOwned'
  <2>1. op' = [op EXCEPT ![r] = NoOp] /\ due'[r] = {}
        /\ \A q \in Requests : due'[q] \subseteq due[q]
    BY <1>6 DEF EndResponse, Forget
  <2>2. \A q \in Requests : \A s \in due[q] : s \in Sids /\ owner[s] # Absent
    BY SessionAssumption
  <2>3. \A s \in Sids : owner[s] # Absent => owner'[s] = owner[s]
    BY <1>6 DEF EndResponse, Fresh
  <2> QED BY <2>1, <2>2, <2>3
<1>7. ASSUME NEW r \in Requests, Throw(r)
      PROVE  DueOwned'
  BY <1>7 DEF Throw, ForgetLocals
<1>8. ASSUME NEW r \in Requests, Crash(r)
      PROVE  DueOwned'
  BY <1>8 DEF Crash, Forget, ForgetLocals, NoOp
<1>9. CASE SessionExpires
  BY <1>9 DEF SessionExpires, Delete
<1>10. CASE MarkerExpires
  BY <1>10 DEF MarkerExpires
<1>11. CASE IndexExpires
  BY <1>11 DEF IndexExpires, Detach
<1>12. CASE UNCHANGED vars
  BY <1>12 DEF vars
<1> QED BY <1>1, <1>2, <1>3, <1>4, <1>5, <1>6, <1>7, <1>8, <1>9, <1>10, <1>11, <1>12 DEF Next

\* No handler begins at its save.
LEMMA StartNotSaving ==
    ASSUME TypeOK, StepInv, NEW r \in Requests, NEW h \in Handlers, NEW s, NEW user, NEW t,
           Start(r, h, s, user, t)
    PROVE  /\ op'[r].sid = s /\ pc'[r] # "save" /\ UNCHANGED <<store, due>>
           /\ \A q \in Requests : q # r => op'[q] = op[q] /\ pc'[q] = pc[q]
<1>1. FirstStep(h, user) # "save"
  BY SessionAssumption DEF FirstStep, Logout, AllHandlers
<1> QED BY <1>1 DEF Start, TypeOK, Goto, redis

\* Every step preserves SaveInv and DueOwned.
LEMMA SaveStep ==
    TypeOK /\ StepInv /\ OwnershipInv /\ DueOwned /\ SaveInv /\ [Next]_vars => SaveInv'
<1> SUFFICES ASSUME TypeOK, StepInv, OwnershipInv, DueOwned, SaveInv, [Next]_vars
             PROVE  SaveInv'
  OBVIOUS
<1> USE DEF TypeOK, StepInv, At, Goto, redis, locals, FindHandlers, SaveInv
<1>1. ASSUME NEW r \in Requests, Arrive(r)
      PROVE  SaveInv'
  <2>1. PICK h \in Handlers, s \in Live : \E t \in Targets(h, store[s]) :
               Start(r, h, s, store[s], t)
    BY <1>1 DEF Arrive
  <2>2. /\ op'[r].sid = s /\ pc'[r] # "save" /\ UNCHANGED <<store, due>>
        /\ \A q \in Requests : q # r => op'[q] = op[q] /\ pc'[q] = pc[q]
    BY <2>1, StartNotSaving
  <2> QED BY <2>2 DEF Live
<1>2. ASSUME NEW r \in Requests, ArriveWithoutSession(r)
      PROVE  SaveInv'
  <2>1. PICK h \in Handlers \cap {"csrfToken", "login"} : \E t \in Targets(h, Anon) :
               Start(r, h, Absent, Anon, t)
    BY <1>2 DEF ArriveWithoutSession
  <2>2. /\ op'[r].sid = Absent /\ pc'[r] # "save" /\ UNCHANGED <<store, due>>
        /\ \A q \in Requests : q # r => op'[q] = op[q] /\ pc'[q] = pc[q]
    BY <2>1, StartNotSaving
  <2> QED BY <2>2, SessionAssumption
<1>3. ASSUME NEW r \in Requests, Find(r)
      PROVE  SaveInv'
  <2>1. CASE CheckMarker(r)
    BY <2>1, SessionAssumption DEF CheckMarker, Live, LiveOf
  <2>2. CASE ScanKey(r)
    BY <2>2 DEF ScanKey
  <2>3. CASE TrackScanned(r)
    BY <2>3 DEF TrackScanned
  <2>4. CASE SetMarker(r)
    BY <2>4 DEF SetMarker
  <2>5. CASE ReadMembers(r)
    BY <2>5, AfterFindStep DEF ReadMembers
  <2>6. CASE CheckAlive(r)
    BY <2>6, AfterFindStep DEF CheckAlive
  <2>7. CASE DropStale(r)
    BY <2>7, AfterFindStep DEF DropStale, Detach
  <2>8. CASE ListUserSessions(r)
    BY <2>8 DEF ListUserSessions
  <2> QED BY <1>3, <2>1, <2>2, <2>3, <2>4, <2>5, <2>6, <2>7, <2>8 DEF Find
<1>4. ASSUME NEW r \in Requests, Login(r)
      PROVE  SaveInv'
  <2>1. CASE Regenerate(r)
    <3>1. PICK s \in Fresh :
            /\ Delete({op[r].sid})
            /\ owner' = [owner EXCEPT ![s] = op[r].target]
            /\ op' = [op EXCEPT ![r] = [@ EXCEPT !.sid = s, !.user = op[r].target,
                                                 !.dirty = TRUE]]
      BY <2>1 DEF Regenerate
    <3>2. s \in Sids /\ owner[s] = Absent /\ op[r].target \in Users
      BY <2>1 DEF Regenerate, Fresh
    <3>3. op'[r].handler = op[r].handler /\ op'[r].target = op[r].target
          /\ op'[r].sid = s /\ op'[r].user = op[r].target
      <4>1. op[r] \in Ops
        OBVIOUS
      <4>2. op'[r] = [op[r] EXCEPT !.sid = s, !.user = op[r].target, !.dirty = TRUE]
        BY <3>1
      <4> QED BY <4>1, <4>2 DEF Ops
    <3>4. \A q \in Requests : s \notin due[q]
      BY <3>2, SessionAssumption DEF DueOwned
    <3>5. store[s] = Absent /\ \A q \in Requests : op[q].sid # s
      BY FreshUnused
    <3>6. \A q \in Requests : q # r => op'[q] = op[q] /\ pc'[q] = pc[q]
      BY <2>1, <3>1 DEF Regenerate
    <3> QED BY <2>1, <3>1, <3>2, <3>3, <3>4, <3>5, <3>6 DEF Regenerate, Delete
  <2>2. CASE SaveSession(r)
    <3>1. op'[r].sid = op[r].sid /\ pc'[r] # "save"
          /\ \A q \in Requests : q # r => op'[q] = op[q] /\ pc'[q] = pc[q]
      BY <2>2 DEF SaveSession, Ops
    <3> QED BY <2>2, <3>1 DEF SaveSession
  <2>3. CASE TrackSession(r)
    BY <2>3 DEF TrackSession
  <2>4. CASE LookUpSessions(r)
    BY <2>4 DEF LookUpSessions
  <2>5. CASE EvictOldest(r)
    BY <2>5 DEF EvictOldest, Delete
  <2>6. CASE SaveAgain(r)
    <3>1. op'[r].sid = op[r].sid /\ pc' = pc /\ \A q \in Requests : q # r => op'[q] = op[q]
      BY <2>6 DEF SaveAgain, Ops
    <3> QED BY <2>6, <3>1 DEF SaveAgain
  <2> QED BY <1>4, <2>1, <2>2, <2>3, <2>4, <2>5, <2>6 DEF Login
<1>5. ASSUME NEW r \in Requests, Revoke(r)
      PROVE  SaveInv'
  <2>1. CASE DeleteAll(r)
    BY <2>1 DEF DeleteAll, Delete
  <2>2. CASE ClearTracking(r)
    BY <2>2 DEF ClearTracking, Detach
  <2>3. CASE DeleteOthers(r)
    BY <2>3 DEF DeleteOthers, Delete
  <2>4. CASE LogoutUntrack(r)
    BY <2>4 DEF LogoutUntrack, Detach
  <2>5. CASE DestroySession(r)
    BY <2>5 DEF DestroySession, Ops, Delete
  <2>6. CASE GetSession(r)
    BY <2>6 DEF GetSession
  <2>7. CASE BulkScanned(r)
    BY <2>7 DEF BulkScanned
  <2>8. CASE DeleteItem(r)
    BY <2>8 DEF DeleteItem, Delete
  <2>9. CASE UntrackItem(r)
    BY <2>9 DEF UntrackItem, Detach
  <2> QED BY <1>5, <2>1, <2>2, <2>3, <2>4, <2>5, <2>6, <2>7, <2>8, <2>9 DEF Revoke
<1>6. ASSUME NEW r \in Requests, EndResponse(r)
      PROVE  SaveInv'
  <2>1. op' = [op EXCEPT ![r] = NoOp] /\ pc' = [pc EXCEPT ![r] = "idle"]
        /\ \A q \in Requests : due'[q] \subseteq due[q]
    BY <1>6 DEF EndResponse, Forget
  <2>2. ASSUME NEW q \in Requests, pc'[q] = "save"
        PROVE  q # r /\ op'[q] = op[q] /\ pc[q] = "save" /\ op[q].sid \in Sids
               /\ op[q].sid \notin Fresh /\ op[q].sid # op[r].sid
    BY <2>1, <2>2, FreshUnused
  <2>3. ASSUME NEW q \in Requests, pc'[q] = "save"
        PROVE  store'[op'[q].sid] = Absent
    BY <1>6, <2>2, <2>3 DEF EndResponse
  <2>4. \A q \in Requests : pc'[q] = "save" => op'[r].sid # op'[q].sid
    BY <2>1, <2>2, SessionAssumption DEF NoOp
  <2> QED BY <2>1, <2>2, <2>3, <2>4
<1>7. ASSUME NEW r \in Requests, Throw(r)
      PROVE  SaveInv'
  BY <1>7 DEF Throw, ForgetLocals
<1>8. ASSUME NEW r \in Requests, Crash(r)
      PROVE  SaveInv'
  <2>1. op' = [op EXCEPT ![r] = NoOp] /\ pc' = [pc EXCEPT ![r] = "idle"]
        /\ UNCHANGED store /\ \A q \in Requests : due'[q] \subseteq due[q]
    BY <1>8 DEF Crash, Forget
  <2>2. op'[r].sid = Absent /\ \A q \in Requests : pc[q] = "save" => op[q].sid # Absent
    BY <2>1, SessionAssumption DEF NoOp
  <2> QED BY <2>1, <2>2
<1>9. CASE SessionExpires
  BY <1>9 DEF SessionExpires, Delete
<1>10. CASE MarkerExpires
  BY <1>10 DEF MarkerExpires
<1>11. CASE IndexExpires
  BY <1>11 DEF IndexExpires, Detach
<1>12. CASE UNCHANGED vars
  BY <1>12 DEF vars
<1> QED BY <1>1, <1>2, <1>3, <1>4, <1>5, <1>6, <1>7, <1>8, <1>9, <1>10, <1>11, <1>12 DEF Next

\* The invariant holds before any request has come.
LEMMA SessionInit == Init => SessionInv
BY SessionAssumption DEF Init, SessionInv, TypeOK, StepInv, OwnershipInv, StoredOwned,
   IndexOwned, HeldOwned, KeysOwned, ItemsOwned, SaveInv, DueOwned, Live, Ops, Contents,
   NoOp, AllHandlers, Steps, At, FindHandlers

\* Every step preserves the invariant.
LEMMA SessionStep == SessionInv /\ [Next]_vars => SessionInv'
BY TypeStep, StepStep, OwnershipStep, DueStep, SaveStep DEF SessionInv

\* The invariant is inductive: types, control, ownership of every id.
THEOREM SessionInductive == Spec => []SessionInv
<1>1. Init => SessionInv
  BY SessionInit
<1>2. SessionInv /\ [Next]_vars => SessionInv'
  BY SessionStep
<1> QED BY <1>1, <1>2, PTL DEF Spec

\* Redis, the index and every request's memory only ever hold what the code
\* puts there: the type invariant.
THEOREM SessionTypes == Spec => []TypeOK
BY SessionInductive, PTL DEF SessionInv

\* A session id only ever carries the user it was generated for, in Redis, in
\* the memory of a request and on every list a revocation or the session limit
\* works on; in particular an id from before the login is never authenticated.
THEOREM SessionOwnership == Spec => []OwnershipInv
BY SessionInductive, PTL DEF SessionInv

(***************************************************************************)
(* What a lookup still owes.                                               *)
(***************************************************************************)
LEMMA FreshNotDue ==
    ASSUME SessionInv, NEW s \in Fresh, NEW r \in Requests
    PROVE  s \notin due[r]
BY SessionAssumption DEF SessionInv, DueOwned, Fresh, StepInv

\* Nothing that matters to the sweep of request q has changed for the worse.
Frame(q) ==
    /\ op'[q] = op[q] /\ pc'[q] = pc[q] /\ keys'[q] = keys[q] /\ todo'[q] = todo[q]
    /\ Owed(q)' \subseteq Owed(q)
    /\ pc[q] \in {"mark", "members"} =>
          Owed(q)' \cap index[op[q].target] \subseteq index'[op[q].target]

\* What the steps of others may do to a lookup: sessions of its user die, or
\* are detached from the index with the lookup released from them.
LEMMA FrameSwept ==
    ASSUME NEW q \in Requests, Swept(q), Frame(q)
    PROVE  Swept(q)'
<1>1. ASSUME op[q].handler = "login" /\ At(q, "end")
      PROVE  (\E K \in SUBSET Sids : Owed(q) \subseteq K /\ Cardinality(K) <= MaxSessions)'
  BY <1>1 DEF Swept, Frame, FindHandlers
<1> QED BY <1>1 DEF Swept, Frame, At

\* A step of one request leaves every other request in its frame.
LEMMA OthersFramed ==
    ASSUME SessionInv, NEW r \in Requests,
           \/ Arrive(r) \/ ArriveWithoutSession(r) \/ Find(r) \/ Login(r) \/ Revoke(r)
           \/ EndResponse(r) \/ Throw(r) \/ Crash(r)
    PROVE  \A q \in Requests \ {r} : Frame(q)
<1> USE DEF TypeOK, StepInv, SessionInv, At, Goto, redis, locals, FindHandlers, Frame, Owed, Live
<1>1. CASE Arrive(r)
  BY <1>1 DEF Arrive, Start
<1>2. CASE ArriveWithoutSession(r)
  BY <1>2 DEF ArriveWithoutSession, Start
<1>3. CASE Find(r)
  <2>1. CASE CheckMarker(r)
    BY <2>1 DEF CheckMarker
  <2>2. CASE ScanKey(r)
    BY <2>2 DEF ScanKey
  <2>3. CASE TrackScanned(r)
    BY <2>3 DEF TrackScanned
  <2>4. CASE SetMarker(r)
    BY <2>4 DEF SetMarker
  <2>5. CASE ReadMembers(r)
    BY <2>5 DEF ReadMembers
  <2>6. CASE CheckAlive(r)
    BY <2>6 DEF CheckAlive
  <2>7. CASE DropStale(r)
    BY <2>7 DEF DropStale, Untrack, Detach
  <2>8. CASE ListUserSessions(r)
    BY <2>8 DEF ListUserSessions
  <2> QED BY <1>3, <2>1, <2>2, <2>3, <2>4, <2>5, <2>6, <2>7, <2>8 DEF Find
<1>4. CASE Login(r)
  <2>1. CASE Regenerate(r)
    BY <2>1 DEF Regenerate, Delete
  <2>2. CASE SaveSession(r)
    BY <2>2 DEF SaveSession, SaveInv
  <2>3. CASE TrackSession(r)
    BY <2>3 DEF TrackSession
  <2>4. CASE LookUpSessions(r)
    BY <2>4 DEF LookUpSessions
  <2>5. CASE EvictOldest(r)
    BY <2>5 DEF EvictOldest, Delete, Untrack
  <2>6. CASE SaveAgain(r)
    BY <2>6 DEF SaveAgain, Ops
  <2> QED BY <1>4, <2>1, <2>2, <2>3, <2>4, <2>5, <2>6 DEF Login
<1>5. CASE Revoke(r)
  <2>1. CASE DeleteAll(r)
    BY <2>1 DEF DeleteAll, Delete
  <2>2. CASE ClearTracking(r)
    BY <2>2 DEF ClearTracking, Detach
  <2>3. CASE DeleteOthers(r)
    BY <2>3 DEF DeleteOthers, Delete, Untrack
  <2>4. CASE LogoutUntrack(r)
    BY <2>4 DEF LogoutUntrack, Untrack, Detach
  <2>5. CASE DestroySession(r)
    BY <2>5 DEF DestroySession, Delete
  <2>6. CASE GetSession(r)
    BY <2>6 DEF GetSession
  <2>7. CASE BulkScanned(r)
    BY <2>7 DEF BulkScanned
  <2>8. CASE DeleteItem(r)
    BY <2>8 DEF DeleteItem, Delete
  <2>9. CASE UntrackItem(r)
    BY <2>9 DEF UntrackItem, Detach
  <2> QED BY <1>5, <2>1, <2>2, <2>3, <2>4, <2>5, <2>6, <2>7, <2>8, <2>9 DEF Revoke
<1>6. CASE EndResponse(r)
  <2>1. \A q \in Requests \ {r} : 
           op'[q] = op[q] /\ pc'[q] = pc[q] /\ keys'[q] = keys[q] /\ todo'[q] = todo[q]
    BY <1>6 DEF EndResponse, Forget, ForgetLocals
  <2>2. \A s \in Fresh : \A q \in Requests : s \notin due[q]
    BY FreshNotDue
  <2>3. \A q \in Requests \ {r} : Owed(q)' \subseteq Owed(q)
    BY <1>6, <2>2 DEF EndResponse
  <2> QED BY <1>6, <2>1, <2>3 DEF EndResponse
<1>7. CASE Throw(r)
  BY <1>7 DEF Throw, ForgetLocals
<1>8. CASE Crash(r)
  BY <1>8 DEF Crash, Forget, ForgetLocals, NoOp
<1> QED BY <1>1, <1>2, <1>3, <1>4, <1>5, <1>6, <1>7, <1>8

\* Evicting all but n leaves n.
LEMMA RemainderCount ==
    ASSUME NEW S, IsFiniteSet(S), NEW T \in SUBSET S, NEW n \in Nat,
           Cardinality(T) = Cardinality(S) - n
    PROVE  Cardinality(S \ T) = n
<1>1. S \cap T = T
  OBVIOUS
<1>2. Cardinality(S) \in Nat
  BY FS_CardinalityType
<1>3. Cardinality(S \ T) = Cardinality(S) - Cardinality(S \cap T)
  BY FS_Difference
<1> QED BY <1>1, <1>2, <1>3

\* A request that is abandoned or has ended answers for nothing.
LEMMA NothingOwed ==
    ASSUME NEW r \in Requests, due[r] = {}, due' = due
    PROVE  Swept(r)'
<1>1. Owed(r)' = {}
  BY DEF Owed
<1>2. {} \in SUBSET Sids /\ Cardinality({}) <= MaxSessions
  BY FS_EmptySet, SessionAssumption
<1> QED BY <1>1, <1>2 DEF Swept

\* Wherever the lookup sends its caller, what it found covers what it owed.
LEMMA AfterFindOwed ==
    ASSUME SessionInv, NEW r \in Requests, op[r].handler \in FindHandlers,
           NEW found, op' = op, Owed(r)' \subseteq found, found \in SUBSET Sids,
           keys'[r] = found, pc'[r] = AfterFind(r, found)
    PROVE  Swept(r)'
<1> USE DEF FindHandlers, Swept, At
<1>1. CASE op[r].handler = "revokeAll"
  <2>1. pc'[r] = IF found = {} THEN "clear" ELSE "del"
    BY <1>1 DEF AfterFind
  <2> QED BY <1>1, <2>1
<1>2. CASE op[r].handler = "revokeOthers"
  <2>1. pc'[r] = IF found \ {op[r].sid} = {} THEN "end" ELSE "del"
    BY <1>2 DEF AfterFind
  <2> QED BY <1>2, <2>1
<1>3. CASE op[r].handler = "login"
  <2>1. pc'[r] = IF Cardinality(found) <= MaxSessions THEN "end" ELSE "lookup"
    BY <1>3 DEF AfterFind
  <2> QED BY <1>3, <2>1
<1>4. CASE op[r].handler = "list"
  <2>1. pc'[r] = IF found = {} THEN "end" ELSE "lookup"
    BY <1>4 DEF AfterFind
  <2> QED BY <1>4, <2>1
<1> QED BY <1>1, <1>2, <1>3, <1>4

\* Each step of the lookup hands on all it answers for.
LEMMA OwnSwept ==
    ASSUME SessionInv, NEW r \in Requests, Swept(r),
           \/ Arrive(r) \/ ArriveWithoutSession(r) \/ Find(r) \/ Login(r) \/ Revoke(r)
           \/ EndResponse(r) \/ Throw(r) \/ Crash(r)
    PROVE  Swept(r)'
<1> USE DEF TypeOK, StepInv, SessionInv, At, Goto, redis, locals, FindHandlers, Swept, Owed, Live
<1>1. CASE Arrive(r)
  <2>1. At(r, "idle") /\ UNCHANGED due
    BY <1>1 DEF Arrive, Start
  <2> QED BY <2>1, NothingOwed
<1>2. CASE ArriveWithoutSession(r)
  <2>1. At(r, "idle") /\ UNCHANGED due
    BY <1>2 DEF ArriveWithoutSession, Start
  <2> QED BY <2>1, NothingOwed
<1>3. CASE Find(r)
  <2>1. CASE CheckMarker(r)
    <3>1. op[r].handler \in FindHandlers /\ op[r].target \in Users /\ UNCHANGED <<redis, op, keys>>
      BY <2>1 DEF CheckMarker
    <3>2. CASE migrated[op[r].target]
      BY <2>1, <3>1, <3>2 DEF CheckMarker
    <3>3. CASE ~migrated[op[r].target]
      <4>1. pc'[r] = "scan" /\ due'[r] = LiveOf(op[r].target) /\ todo'[r] = Live
        BY <2>1, <3>1, <3>3 DEF CheckMarker, Scannable
      <4> QED BY <3>1, <4>1
    <3> QED BY <3>2, <3>3
  <2>2. CASE ScanKey(r)
    <3>1. PICK s \in todo[r] \cup Scannable(op[r].handler, op[r].sid) :
            /\ todo' = [todo EXCEPT ![r] = @ \ {s}]
            /\ \/ /\ ~Matches(op[r].target, store[s]) \/ op[r].target = Some
                  /\ UNCHANGED <<keys, items>>
               \/ /\ Matches(op[r].target, store[s]) /\ op[r].handler = "bulkRevoke"
                  /\ items' = [items EXCEPT ![r] = @ \cup {[sid |-> s, user |-> store[s]]}]
                  /\ UNCHANGED keys
               \/ /\ Matches(op[r].target, store[s]) /\ op[r].handler # "bulkRevoke"
                  /\ keys' = [keys EXCEPT ![r] = @ \cup {s}]
                  /\ UNCHANGED items
      BY <2>2 DEF ScanKey
    <3>2. op' = op /\ pc' = pc /\ due' = due /\ store' = store /\ pc[r] = "scan"
      BY <2>2 DEF ScanKey
    <3>3. SUFFICES ASSUME op[r].handler \in FindHandlers
                   PROVE  Owed(r) \subseteq keys'[r] \cup todo'[r]
      BY <3>2
    <3>4. op[r].target \in Users /\ op[r].handler # "bulkRevoke" /\ op[r].target \notin {All, Some}
      BY <3>3, SessionAssumption
    <3>5. s \in Owed(r) => Matches(op[r].target, store[s])
      BY <3>4 DEF Matches, DueOwned, OwnershipInv, StoredOwned
    <3>6. s \in Owed(r) => keys'[r] = keys[r] \cup {s}
      BY <3>1, <3>4, <3>5
    <3>7. keys[r] \subseteq keys'[r] /\ todo'[r] = todo[r] \ {s}
      BY <3>1
    <3> QED BY <3>2, <3>3, <3>6, <3>7
  <2>3. CASE TrackScanned(r)
    BY <2>3 DEF TrackScanned
  <2>4. CASE SetMarker(r)
    BY <2>4 DEF SetMarker
  <2>5. CASE ReadMembers(r)
    <3>1. op' = op /\ due' = due /\ store' = store /\ keys'[r] = index[op[r].target]
      BY <2>5 DEF ReadMembers
    <3>2. Owed(r)' = Owed(r) /\ Owed(r) \subseteq index[op[r].target]
      BY <2>5, <3>1 DEF ReadMembers
    <3>3. CASE index[op[r].target] = {}
      <4>1. pc'[r] = AfterFind(r, {}) /\ Owed(r) = {}
        BY <2>5, <3>2, <3>3 DEF ReadMembers
      <4>2. op[r].handler \in FindHandlers /\ keys'[r] = {} /\ Owed(r)' \subseteq {}
        BY <2>5, <3>1, <3>2, <3>3, <4>1 DEF ReadMembers
      <4> HIDE DEF TypeOK, StepInv, SessionInv, Swept, Owed, Live
      <4> QED BY <3>1, <4>1, <4>2, AfterFindOwed
    <3>4. CASE index[op[r].target] # {}
      BY <2>5, <3>1, <3>2, <3>4 DEF ReadMembers
    <3> QED BY <3>3, <3>4
  <2>6. CASE CheckAlive(r)
    <3>1. op' = op /\ due' = due /\ store' = store /\ keys'[r] = keys[r] \cap Live
      BY <2>6 DEF CheckAlive
    <3>2. Owed(r)' = Owed(r) /\ Owed(r) \subseteq keys[r] \cap Live
      BY <2>6, <3>1 DEF CheckAlive
    <3>3. CASE keys[r] \ Live = {}
      <4>1. pc'[r] = AfterFind(r, keys[r] \cap Live)
        BY <2>6, <3>3 DEF CheckAlive
      <4>2. op[r].handler \in FindHandlers /\ Owed(r)' \subseteq keys[r] \cap Live
            /\ keys[r] \cap Live \in SUBSET Sids
        BY <2>6, <3>2 DEF CheckAlive
      <4> HIDE DEF TypeOK, StepInv, SessionInv, Swept, Owed, Live
      <4> QED BY <3>1, <4>1, <4>2, AfterFindOwed
    <3>4. CASE keys[r] \ Live # {}
      BY <2>6, <3>1, <3>2, <3>4 DEF CheckAlive
    <3> QED BY <3>3, <3>4
  <2>7. CASE DropStale(r)
    <3>1. op' = op /\ due'[r] = due[r] /\ store' = store /\ keys' = keys
          /\ pc'[r] = AfterFind(r, keys[r])
      BY <2>7 DEF DropStale, Detach
    <3>2. Owed(r)' = Owed(r) /\ Owed(r) \subseteq keys[r]
      BY <2>7, <3>1 DEF DropStale
    <3> QED BY <3>1, <3>2, AfterFindOwed
  <2>8. CASE ListUserSessions(r)
    BY <2>8 DEF ListUserSessions
  <2> QED BY <1>3, <2>1, <2>2, <2>3, <2>4, <2>5, <2>6, <2>7, <2>8 DEF Find
<1>4. CASE Login(r)
  <2>1. CASE Regenerate(r)
    <3>1. due[r] = {} /\ due' = due
      BY <2>1 DEF Regenerate
    <3> QED BY <3>1, NothingOwed
  <2>2. CASE SaveSession(r)
    <3>1. due[r] = {} /\ due' = due
      BY <2>2 DEF SaveSession
    <3> QED BY <3>1, NothingOwed
  <2>3. CASE TrackSession(r)
    BY <2>3 DEF TrackSession
  <2>4. CASE LookUpSessions(r)
    <3>1. op' = op /\ due' = due /\ store' = store /\ keys'[r] = keys[r] \cap Live
          /\ op[r].handler = "login"
      BY <2>4 DEF LookUpSessions
    <3>2. Owed(r)' = Owed(r) /\ Owed(r) \subseteq keys[r] \cap Live
      BY <2>4, <3>1 DEF LookUpSessions
    <3>3. CASE Cardinality(keys[r] \cap Live) <= MaxSessions
      <4>1. keys[r] \cap Live \in SUBSET Sids /\ pc'[r] = "end"
        BY <2>4, <3>3 DEF LookUpSessions
      <4> QED BY <3>1, <3>2, <3>3, <4>1
    <3>4. CASE ~(Cardinality(keys[r] \cap Live) <= MaxSessions)
      BY <2>4, <3>1, <3>2, <3>4 DEF LookUpSessions
    <3> QED BY <3>3, <3>4
  <2>5. CASE EvictOldest(r)
    <3>1. PICK oldest \in SUBSET keys[r] :
            /\ Cardinality(oldest) = Cardinality(keys[r]) - MaxSessions
            /\ Delete(oldest)
      BY <2>5 DEF EvictOldest
    <3>2. op' = op /\ due' = due /\ pc'[r] = "end" /\ op[r].handler = "login"
      BY <2>5 DEF EvictOldest
    <3>3. Owed(r)' \subseteq keys[r] \ oldest
      BY <2>5, <3>1, <3>2 DEF EvictOldest, Delete
    <3>4. IsFiniteSet(keys[r]) /\ MaxSessions \in Nat
      BY FS_Subset, SessionAssumption
    <3>5. Cardinality(keys[r] \ oldest) = MaxSessions
      BY <3>1, <3>4, RemainderCount
    <3>6. keys[r] \ oldest \in SUBSET Sids
      OBVIOUS
    <3> QED BY <3>2, <3>3, <3>4, <3>5, <3>6
  <2>6. CASE SaveAgain(r)
    <3>1. op'[r].handler = op[r].handler /\ op'[r].sid = op[r].sid /\ op[r].handler = "login"
      BY <2>6 DEF SaveAgain, Ops
    <3> QED BY <2>6, <3>1 DEF SaveAgain
  <2> QED BY <1>4, <2>1, <2>2, <2>3, <2>4, <2>5, <2>6 DEF Login
<1>5. CASE Revoke(r)
  <2>1. CASE DeleteAll(r)
    BY <2>1 DEF DeleteAll, Delete
  <2>2. CASE ClearTracking(r)
    BY <2>2 DEF ClearTracking, Detach
  <2>3. CASE DeleteOthers(r)
    BY <2>3 DEF DeleteOthers, Delete, Untrack
  <2>4. CASE LogoutUntrack(r)
    BY <2>4 DEF LogoutUntrack, Untrack, Detach
  <2>5. CASE DestroySession(r)
    <3>1. op'[r].handler = op[r].handler /\ pc'[r] = "end" /\ due' = due
          /\ op[r].handler \in {"logout", "revokeAll"}
      BY <2>5 DEF DestroySession, Ops
    <3>2. op[r].handler = "revokeAll" => Owed(r)' = {}
      BY <2>5, <3>1 DEF DestroySession, Delete
    <3> QED BY <3>1, <3>2
  <2>6. CASE GetSession(r)
    BY <2>6 DEF GetSession
  <2>7. CASE BulkScanned(r)
    BY <2>7 DEF BulkScanned
  <2>8. CASE DeleteItem(r)
    BY <2>8 DEF DeleteItem, Delete
  <2>9. CASE UntrackItem(r)
    BY <2>9 DEF UntrackItem, Detach
  <2> QED BY <1>5, <2>1, <2>2, <2>3, <2>4, <2>5, <2>6, <2>7, <2>8, <2>9 DEF Revoke
<1>6. CASE EndResponse(r)
  <2>1. pc'[r] = "idle"
    BY <1>6 DEF EndResponse, Forget
  <2> QED BY <2>1
<1>7. CASE Throw(r)
  <2>1. pc'[r] = "failed"
    BY <1>7 DEF Throw
  <2> QED BY <2>1
<1>8. CASE Crash(r)
  <2>1. pc'[r] = "idle"
    BY <1>8 DEF Crash, Forget
  <2> QED BY <2>1
<1> QED BY <1>1, <1>2, <1>3, <1>4, <1>5, <1>6, <1>7, <1>8

\* Every step preserves SweepInv.
LEMMA SweepStep == SessionInv /\ SweepInv /\ [Next]_vars => SweepInv'
<1> SUFFICES ASSUME SessionInv, SweepInv, [Next]_vars
             PROVE  SweepInv'
  OBVIOUS
<1>1. ASSUME NEW r \in Requests,
             \/ Arrive(r) \/ ArriveWithoutSession(r) \/ Find(r) \/ Login(r) \/ Revoke(r)
             \/ EndResponse(r) \/ Throw(r) \/ Crash(r)
      PROVE  SweepInv'
  <2>1. Swept(r)'
    BY <1>1, OwnSwept DEF SweepInv
  <2>2. \A q \in Requests \ {r} : Frame(q)
    BY <1>1, OthersFramed
  <2> QED BY <2>1, <2>2, FrameSwept DEF SweepInv
<1>2. CASE SessionExpires \/ MarkerExpires \/ IndexExpires \/ UNCHANGED vars
  <2>1. \A q \in Requests : Frame(q)
    <3> USE DEF Frame, Owed, Live, locals
    <3>1. CASE SessionExpires
      BY <3>1 DEF SessionExpires, Delete
    <3>2. CASE MarkerExpires
      BY <3>2 DEF MarkerExpires
    <3>3. CASE IndexExpires
      BY <3>3 DEF IndexExpires, Detach, SessionInv, TypeOK, StepInv
    <3>4. CASE UNCHANGED vars
      BY <3>4 DEF vars
    <3> QED BY <1>2, <3>1, <3>2, <3>3, <3>4
  <2> QED BY <2>1, FrameSwept DEF SweepInv
<1> QED BY <1>1, <1>2 DEF Next

\* A lookup never loses a session it answers for: it is among the keys still to
\* be scanned, on the index, or in its list.
THEOREM SweepInductive == Spec => [](SessionInv /\ SweepInv)
<1>1. Init => SessionInv /\ SweepInv
  <2>1. Init => SweepInv
    BY DEF Init, SweepInv, Swept, Owed, At
  <2> QED BY <2>1, SessionInit
<1>2. SessionInv /\ SweepInv /\ [Next]_vars => (SessionInv /\ SweepInv)'
  BY SessionStep, SweepStep
<1> QED BY <1>1, <1>2, PTL DEF Spec

\* A revocation of all sessions of a user that reaches its end has removed every
\* session it answers for, with any number of requests, of users and sessions,
\* whatever fails, dies or expires meanwhile.
THEOREM SessionRevokeAll == Spec => []RevokeAllSweeps
<1>1. SessionInv /\ SweepInv => RevokeAllSweeps
  BY DEF SweepInv, Swept, Owed, RevokeAllSweeps, FindHandlers
<1> QED BY <1>1, SweepInductive, PTL

\* The same of the revocation of the user's other sessions, which spares the
\* session of its own request only.
THEOREM SessionRevokeOthers == Spec => []RevokeOthersSweeps
<1>1. SessionInv /\ SweepInv => RevokeOthersSweeps
  BY DEF SweepInv, Swept, Owed, RevokeOthersSweeps, FindHandlers
<1> QED BY <1>1, SweepInductive, PTL

\* The security overview misses no findable session.
THEOREM SessionOverview == Spec => []OverviewComplete
<1>1. SessionInv /\ SweepInv => OverviewComplete
  BY DEF SweepInv, Swept, Owed, OverviewComplete, FindHandlers
<1> QED BY <1>1, SweepInductive, PTL

\* A login that runs to its end keeps the sessions it answers for within the
\* limit, whatever the limit is.
THEOREM SessionLimit == Spec => []LoginKeepsLimit
<1>1. SessionInv /\ SweepInv => LoginKeepsLimit
  <2> SUFFICES ASSUME SessionInv, SweepInv, NEW r \in Requests,
                      op[r].handler = "login", At(r, "end")
               PROVE  Cardinality(due[r] \cap Live) <= MaxSessions
    BY DEF LoginKeepsLimit
  <2>1. PICK K \in SUBSET Sids : Owed(r) \subseteq K /\ Cardinality(K) <= MaxSessions
    BY DEF SweepInv, Swept, FindHandlers
  <2>2. IsFiniteSet(K) /\ MaxSessions \in Nat
    BY FS_Subset, SessionAssumption
  <2>3. /\ Cardinality(Owed(r)) <= Cardinality(K)
        /\ Cardinality(Owed(r)) \in Nat /\ Cardinality(K) \in Nat
    BY <2>1, <2>2, FS_Subset, FS_CardinalityType
  <2> QED BY <2>1, <2>2, <2>3 DEF Owed
<1> QED BY <1>1, SweepInductive, PTL

(***************************************************************************)
(* Action properties                                                       *)
(***************************************************************************)

\* Only what revokeSessionById and bulkRevokeSessions were asked to remove is on
\* their lists.
ItemsTargeted ==
    \A r \in Requests : \A i \in items[r] :
        \/ op[r].target \in {i.sid, i.user, All}
        \/ op[r].target = Some /\ i.user \in Users

\* The items of an administrator keep to the sessions he asked for.
LEMMA ItemsStep ==
    TypeOK /\ StepInv /\ ItemsTargeted /\ [Next]_vars => ItemsTargeted'
<1> SUFFICES ASSUME TypeOK, StepInv, ItemsTargeted, [Next]_vars
             PROVE  ItemsTargeted'
  OBVIOUS
<1> USE DEF TypeOK, StepInv, At, Goto, redis, locals, ItemsTargeted
<1>1. ASSUME NEW r \in Requests, Arrive(r)
      PROVE  ItemsTargeted'
  BY <1>1 DEF Arrive, Start
<1>2. ASSUME NEW r \in Requests, ArriveWithoutSession(r)
      PROVE  ItemsTargeted'
  BY <1>2 DEF ArriveWithoutSession, Start
<1>3. ASSUME NEW r \in Requests, Find(r)
      PROVE  ItemsTargeted'
  <2>1. CASE CheckMarker(r)
    BY <2>1 DEF CheckMarker
  <2>2. CASE ScanKey(r)
    <3>1. PICK s \in todo[r] \cup Scannable(op[r].handler, op[r].sid) :
            /\ todo' = [todo EXCEPT ![r] = @ \ {s}]
            /\ \/ /\ ~Matches(op[r].target, store[s]) \/ op[r].target = Some
                  /\ UNCHANGED <<keys, items>>
               \/ /\ Matches(op[r].target, store[s]) /\ op[r].handler = "bulkRevoke"
                  /\ items' = [items EXCEPT ![r] = @ \cup {[sid |-> s, user |-> store[s]]}]
                  /\ UNCHANGED keys
               \/ /\ Matches(op[r].target, store[s]) /\ op[r].handler # "bulkRevoke"
                  /\ keys' = [keys EXCEPT ![r] = @ \cup {s}]
                  /\ UNCHANGED items
      BY <2>2 DEF ScanKey
    <3>2. Matches(op[r].target, store[s]) =>
             \/ op[r].target \in {store[s], All}
             \/ op[r].target = Some /\ store[s] \in Users
      BY DEF Matches
    <3> QED BY <2>2, <3>1, <3>2 DEF ScanKey
  <2>3. CASE TrackScanned(r)
    BY <2>3 DEF TrackScanned
  <2>4. CASE SetMarker(r)
    BY <2>4 DEF SetMarker
  <2>5. CASE ReadMembers(r)
    BY <2>5 DEF ReadMembers
  <2>6. CASE CheckAlive(r)
    BY <2>6 DEF CheckAlive
  <2>7. CASE DropStale(r)
    BY <2>7 DEF DropStale
  <2>8. CASE ListUserSessions(r)
    BY <2>8 DEF ListUserSessions
  <2> QED BY <1>3, <2>1, <2>2, <2>3, <2>4, <2>5, <2>6, <2>7, <2>8 DEF Find
<1>4. ASSUME NEW r \in Requests, Login(r)
      PROVE  ItemsTargeted'
  <2>1. CASE Regenerate(r)
    <3>1. PICK s \in Fresh :
            /\ Delete({op[r].sid})
            /\ owner' = [owner EXCEPT ![s] = op[r].target]
            /\ op' = [op EXCEPT ![r] = [@ EXCEPT !.sid = s, !.user = op[r].target,
                                                 !.dirty = TRUE]]
      BY <2>1 DEF Regenerate
    <3>2. op'[r].target = op[r].target
      <4>1. op[r] \in Ops
        OBVIOUS
      <4>2. op'[r] = [op[r] EXCEPT !.sid = s, !.user = op[r].target, !.dirty = TRUE]
        BY <3>1
      <4> QED BY <4>1, <4>2 DEF Ops
    <3> QED BY <2>1, <3>1, <3>2 DEF Regenerate
  <2>2. CASE SaveSession(r)
    BY <2>2 DEF SaveSession, Ops
  <2>3. CASE TrackSession(r)
    BY <2>3 DEF TrackSession
  <2>4. CASE LookUpSessions(r)
    BY <2>4 DEF LookUpSessions
  <2>5. CASE EvictOldest(r)
    BY <2>5 DEF EvictOldest
  <2>6. CASE SaveAgain(r)
    BY <2>6 DEF SaveAgain, Ops
  <2> QED BY <1>4, <2>1, <2>2, <2>3, <2>4, <2>5, <2>6 DEF Login
<1>5. ASSUME NEW r \in Requests, Revoke(r)
      PROVE  ItemsTargeted'
  <2>1. CASE DeleteAll(r)
    BY <2>1 DEF DeleteAll
  <2>2. CASE ClearTracking(r)
    BY <2>2 DEF ClearTracking
  <2>3. CASE DeleteOthers(r)
    BY <2>3 DEF DeleteOthers
  <2>4. CASE LogoutUntrack(r)
    BY <2>4 DEF LogoutUntrack
  <2>5. CASE DestroySession(r)
    BY <2>5 DEF DestroySession, Ops
  <2>6. CASE GetSession(r)
    BY <2>6 DEF GetSession
  <2>7. CASE BulkScanned(r)
    BY <2>7 DEF BulkScanned
  <2>8. CASE DeleteItem(r)
    BY <2>8 DEF DeleteItem
  <2>9. CASE UntrackItem(r)
    BY <2>9 DEF UntrackItem
  <2> QED BY <1>5, <2>1, <2>2, <2>3, <2>4, <2>5, <2>6, <2>7, <2>8, <2>9 DEF Revoke
<1>6. ASSUME NEW r \in Requests, EndResponse(r)
      PROVE  ItemsTargeted'
  BY <1>6 DEF EndResponse, Forget, ForgetLocals
<1>7. ASSUME NEW r \in Requests, Throw(r)
      PROVE  ItemsTargeted'
  BY <1>7 DEF Throw, ForgetLocals
<1>8. ASSUME NEW r \in Requests, Crash(r)
      PROVE  ItemsTargeted'
  BY <1>8 DEF Crash, Forget, ForgetLocals
<1>9. CASE SessionExpires
  BY <1>9 DEF SessionExpires
<1>10. CASE MarkerExpires
  BY <1>10 DEF MarkerExpires
<1>11. CASE IndexExpires
  BY <1>11 DEF IndexExpires, Detach
<1>12. CASE UNCHANGED vars
  BY <1>12 DEF vars
<1> QED BY <1>1, <1>2, <1>3, <1>4, <1>5, <1>6, <1>7, <1>8, <1>9, <1>10, <1>11, <1>12 DEF Next

\* What a step that removes session s owes an explanation for.
Excused(s) == pc' = pc \/ \E r \in Requests : pc'[r] # pc[r] /\ Targeted(r, s)

\* Whatever makes a session disappear has it for a target.
LEMMA LostExcused ==
    ASSUME SessionInv, ItemsTargeted, [Next]_vars, NEW s \in Live, store'[s] = Absent
    PROVE  Excused(s)
<1> USE DEF SessionInv, TypeOK, StepInv, At, Goto, redis, locals, FindHandlers, Live, Targeted, Excused
<1>1. ASSUME NEW r \in Requests, Arrive(r)
      PROVE  Excused(s)
  BY <1>1 DEF Arrive, Start
<1>2. ASSUME NEW r \in Requests, ArriveWithoutSession(r)
      PROVE  Excused(s)
  BY <1>2 DEF ArriveWithoutSession, Start
<1>3. ASSUME NEW r \in Requests, Find(r)
      PROVE  Excused(s)
  <2>1. CASE CheckMarker(r)
    BY <2>1 DEF CheckMarker
  <2>2. CASE ScanKey(r)
    BY <2>2 DEF ScanKey
  <2>3. CASE TrackScanned(r)
    BY <2>3 DEF TrackScanned
  <2>4. CASE SetMarker(r)
    BY <2>4 DEF SetMarker
  <2>5. CASE ReadMembers(r)
    BY <2>5 DEF ReadMembers
  <2>6. CASE CheckAlive(r)
    BY <2>6 DEF CheckAlive
  <2>7. CASE DropStale(r)
    BY <2>7 DEF DropStale
  <2>8. CASE ListUserSessions(r)
    BY <2>8 DEF ListUserSessions
  <2> QED BY <1>3, <2>1, <2>2, <2>3, <2>4, <2>5, <2>6, <2>7, <2>8 DEF Find
<1>4. ASSUME NEW r \in Requests, Login(r)
      PROVE  Excused(s)
  <2>1. CASE Regenerate(r)
    BY <2>1 DEF Regenerate, Delete
  <2>2. CASE SaveSession(r)
    BY <2>2, SessionAssumption DEF SaveSession, Ops, Contents
  <2>3. CASE TrackSession(r)
    BY <2>3 DEF TrackSession
  <2>4. CASE LookUpSessions(r)
    BY <2>4 DEF LookUpSessions
  <2>5. CASE EvictOldest(r)
    BY <2>5 DEF EvictOldest, Delete, OwnershipInv, KeysOwned
  <2>6. CASE SaveAgain(r)
    BY <2>6 DEF SaveAgain
  <2> QED BY <1>4, <2>1, <2>2, <2>3, <2>4, <2>5, <2>6 DEF Login
<1>5. ASSUME NEW r \in Requests, Revoke(r)
      PROVE  Excused(s)
  <2>1. CASE DeleteAll(r)
    BY <2>1 DEF DeleteAll, Delete, OwnershipInv, KeysOwned
  <2>2. CASE ClearTracking(r)
    BY <2>2 DEF ClearTracking
  <2>3. CASE DeleteOthers(r)
    BY <2>3 DEF DeleteOthers, Delete, OwnershipInv, KeysOwned
  <2>4. CASE LogoutUntrack(r)
    BY <2>4 DEF LogoutUntrack
  <2>5. CASE DestroySession(r)
    BY <2>5 DEF DestroySession, Delete
  <2>6. CASE GetSession(r)
    BY <2>6 DEF GetSession
  <2>7. CASE BulkScanned(r)
    BY <2>7 DEF BulkScanned
  <2>8. CASE DeleteItem(r)
    <3>1. PICK i \in items[r] : Delete({i.sid})
      BY <2>8 DEF DeleteItem
    <3>2. i.sid = s
      BY <3>1 DEF Delete
    <3>3. i.user = owner[s]
      BY <3>2 DEF OwnershipInv, ItemsOwned
    <3>4. pc'[r] # pc[r]
      BY <2>8 DEF DeleteItem
    <3> QED BY <3>2, <3>3, <3>4 DEF ItemsTargeted
  <2>9. CASE UntrackItem(r)
    BY <2>9 DEF UntrackItem
  <2> QED BY <1>5, <2>1, <2>2, <2>3, <2>4, <2>5, <2>6, <2>7, <2>8, <2>9 DEF Revoke
<1>6. ASSUME NEW r \in Requests, EndResponse(r)
      PROVE  Excused(s)
  <2>1. \A q \in Sids : store'[q] # store[q] => store'[q] \in Contents
    BY <1>6 DEF EndResponse, Fresh, Ops
  <2>2. Absent \notin Contents
    BY SessionAssumption DEF Contents
  <2> QED BY <2>1, <2>2
<1>7. ASSUME NEW r \in Requests, Throw(r)
      PROVE  Excused(s)
  BY <1>7 DEF Throw
<1>8. ASSUME NEW r \in Requests, Crash(r)
      PROVE  Excused(s)
  BY <1>8 DEF Crash
<1>9. CASE SessionExpires
  BY <1>9 DEF SessionExpires
<1>10. CASE MarkerExpires
  BY <1>10 DEF MarkerExpires
<1>11. CASE IndexExpires
  BY <1>11 DEF IndexExpires, Detach
<1>12. CASE UNCHANGED vars
  BY <1>12 DEF vars
<1> QED BY <1>1, <1>2, <1>3, <1>4, <1>5, <1>6, <1>7, <1>8, <1>9, <1>10, <1>11, <1>12 DEF Next

\* A session disappears only by its expiry or by a request that is revoking its
\* owner's sessions, that session, or its own.
THEOREM SessionLosses == Spec => SessionsLostByTarget
<1>1. Init => SessionInv /\ ItemsTargeted
  BY SessionInit DEF Init, ItemsTargeted
<1>2. SessionInv /\ ItemsTargeted /\ [Next]_vars => (SessionInv /\ ItemsTargeted)'
  BY SessionStep, ItemsStep DEF SessionInv
<1>3. SessionInv /\ ItemsTargeted /\ [Next]_vars =>
         [\A s \in Live : store'[s] = Absent =>
            \/ pc' = pc
            \/ \E r \in Requests : pc'[r] # pc[r] /\ Targeted(r, s)]_vars
  BY LostExcused DEF Excused
<1> QED BY <1>1, <1>2, <1>3, PTL DEF Spec, SessionsLostByTarget

\* Only a request that holds a session writes it.
LEMMA NotRevived ==
    ASSUME TypeOK, StepInv, [Next]_vars, NEW s \in Sids, owner[s] # Absent, store[s] = Absent,
           ~\E r \in Requests : Holds(r, s)
    PROVE  store'[s] = Absent
<1> USE DEF TypeOK, StepInv, At, Goto, redis, locals, Holds
<1>1. ASSUME NEW r \in Requests, Arrive(r)
      PROVE  store'[s] = Absent
  BY <1>1 DEF Arrive, Start
<1>2. ASSUME NEW r \in Requests, ArriveWithoutSession(r)
      PROVE  store'[s] = Absent
  BY <1>2 DEF ArriveWithoutSession, Start
<1>3. ASSUME NEW r \in Requests, Find(r)
      PROVE  store'[s] = Absent
  <2>1. CASE CheckMarker(r)
    BY <2>1 DEF CheckMarker
  <2>2. CASE ScanKey(r)
    BY <2>2 DEF ScanKey
  <2>3. CASE TrackScanned(r)
    BY <2>3 DEF TrackScanned
  <2>4. CASE SetMarker(r)
    BY <2>4 DEF SetMarker
  <2>5. CASE ReadMembers(r)
    BY <2>5 DEF ReadMembers
  <2>6. CASE CheckAlive(r)
    BY <2>6 DEF CheckAlive
  <2>7. CASE DropStale(r)
    BY <2>7 DEF DropStale
  <2>8. CASE ListUserSessions(r)
    BY <2>8 DEF ListUserSessions
  <2> QED BY <1>3, <2>1, <2>2, <2>3, <2>4, <2>5, <2>6, <2>7, <2>8 DEF Find
<1>4. ASSUME NEW r \in Requests, Login(r)
      PROVE  store'[s] = Absent
  <2>1. CASE Regenerate(r)
    BY <2>1 DEF Regenerate, Delete
  <2>2. CASE SaveSession(r)
    BY <2>2 DEF SaveSession
  <2>3. CASE TrackSession(r)
    BY <2>3 DEF TrackSession
  <2>4. CASE LookUpSessions(r)
    BY <2>4 DEF LookUpSessions
  <2>5. CASE EvictOldest(r)
    BY <2>5 DEF EvictOldest, Delete, Untrack
  <2>6. CASE SaveAgain(r)
    BY <2>6 DEF SaveAgain
  <2> QED BY <1>4, <2>1, <2>2, <2>3, <2>4, <2>5, <2>6 DEF Login
<1>5. ASSUME NEW r \in Requests, Revoke(r)
      PROVE  store'[s] = Absent
  <2>1. CASE DeleteAll(r)
    BY <2>1 DEF DeleteAll, Delete
  <2>2. CASE ClearTracking(r)
    BY <2>2 DEF ClearTracking, Detach
  <2>3. CASE DeleteOthers(r)
    BY <2>3 DEF DeleteOthers, Delete, Untrack
  <2>4. CASE LogoutUntrack(r)
    BY <2>4 DEF LogoutUntrack
  <2>5. CASE DestroySession(r)
    BY <2>5 DEF DestroySession, Delete
  <2>6. CASE GetSession(r)
    BY <2>6 DEF GetSession
  <2>7. CASE BulkScanned(r)
    BY <2>7 DEF BulkScanned
  <2>8. CASE DeleteItem(r)
    BY <2>8 DEF DeleteItem, Delete
  <2>9. CASE UntrackItem(r)
    BY <2>9 DEF UntrackItem, Detach
  <2> QED BY <1>5, <2>1, <2>2, <2>3, <2>4, <2>5, <2>6, <2>7, <2>8, <2>9 DEF Revoke
<1>6. ASSUME NEW r \in Requests, EndResponse(r)
      PROVE  store'[s] = Absent
  BY <1>6 DEF EndResponse, Fresh
<1>7. ASSUME NEW r \in Requests, Throw(r)
      PROVE  store'[s] = Absent
  BY <1>7 DEF Throw
<1>8. ASSUME NEW r \in Requests, Crash(r)
      PROVE  store'[s] = Absent
  BY <1>8 DEF Crash
<1>9. CASE SessionExpires
  BY <1>9 DEF SessionExpires, Delete
<1>10. CASE MarkerExpires
  BY <1>10 DEF MarkerExpires
<1>11. CASE IndexExpires
  BY <1>11 DEF IndexExpires, Detach
<1>12. CASE UNCHANGED vars
  BY <1>12 DEF vars
<1> QED BY <1>1, <1>2, <1>3, <1>4, <1>5, <1>6, <1>7, <1>8, <1>9, <1>10, <1>11, <1>12 DEF Next

\* Once no request in flight holds a copy of a deleted session, it stays dead.
THEOREM SessionRevival == Spec => RevivedOnlyByHolder
<1>1. SessionInv /\ [Next]_vars =>
         [\A s \in Sids :
            (owner[s] # Absent /\ store[s] = Absent /\ ~\E r \in Requests : Holds(r, s))
               => store'[s] = Absent]_vars
  BY NotRevived DEF SessionInv
<1> QED BY <1>1, SessionInductive, PTL DEF Spec, RevivedOnlyByHolder

(***************************************************************************)
(* The refinement of SessionRegistry.                                      *)
(***************************************************************************)

\* Steps that touch neither the sessions nor anybody's copy are invisible.
LEMMA Unseen ==
    ASSUME UNCHANGED <<store, owner, op>>
    PROVE  UNCHANGED <<owner, store, Copies>>
BY DEF Copies

\* A step that removes sessions and leaves every copy alone.
LEMMA Removes ==
    ASSUME NEW S \in SUBSET (Sids \cup {Absent}), Delete(S), owner' = owner, Copies' = Copies
    PROVE  Registry!Next
<1>1. Registry!Without(S \cap Sids) = [s \in Sids |-> IF s \in S THEN Absent ELSE store[s]]
  BY DEF Registry!Without
<1>2. Registry!Remove(S \cap Sids)
  BY <1>1 DEF Registry!Remove, Delete
<1> QED BY <1>2 DEF Registry!Next

\* The copies after a step of one request.
LEMMA CopyOf ==
    ASSUME TypeOK, NEW r \in Requests, NEW o \in Ops, op' = [op EXCEPT ![r] = o]
    PROVE  Copies' = [Copies EXCEPT ![r] = o.sid]
BY DEF Copies, TypeOK

\* A request that forgets its session has no copy any more.
LEMMA ForgetCopy ==
    ASSUME TypeOK, NEW r \in Requests, Forget(r)
    PROVE  Copies' = [Copies EXCEPT ![r] = Absent]
<1>1. NoOp.sid = Absent
  BY DEF NoOp
<1> QED BY <1>1, CopyOf, NoOpType DEF Forget

\* Arrivals load a session or nothing.
LEMMA ArriveSimulated ==
    ASSUME SessionInv, NEW r \in Requests, Arrive(r) \/ ArriveWithoutSession(r)
    PROVE  Registry!Next \/ UNCHANGED <<owner, store, Copies>>
<1> USE DEF SessionInv
<1>1. ASSUME NEW h, NEW s \in Sids \cup {Absent}, NEW user, NEW t, Start(r, h, s, user, t)
      PROVE  /\ Copies' = [Copies EXCEPT ![r] = s] /\ Copies[r] = Absent
             /\ UNCHANGED <<owner, store>>
  <2>1. op[r].sid = Absent /\ Copies[r] = op[r].sid
    BY <1>1 DEF Start, StepInv, Copies
  <2>2. /\ op'[r].sid = s
        /\ \A q \in Requests : q # r => op'[q] = op[q]
    BY <1>1 DEF Start, TypeOK
  <2>3. Copies' = [Copies EXCEPT ![r] = s]
    BY <2>2 DEF Copies
  <2>4. UNCHANGED <<owner, store>>
    BY <1>1 DEF Start, redis
  <2> QED BY <2>1, <2>3, <2>4
<1>2. CASE Arrive(r)
  <2>1. PICK h \in Handlers, s \in Live :
           \E t \in Targets(h, store[s]) : Start(r, h, s, store[s], t)
    BY <1>2 DEF Arrive
  <2>2. Registry!Open(r)
    BY <1>1, <2>1 DEF Registry!Open, Live
  <2> QED BY <2>2 DEF Registry!Next
<1>3. CASE ArriveWithoutSession(r)
  <2>1. PICK h \in Handlers : \E t \in Targets(h, Anon) : Start(r, h, Absent, Anon, t)
    BY <1>3 DEF ArriveWithoutSession
  <2>2. /\ Copies' = [Copies EXCEPT ![r] = Absent] /\ Copies[r] = Absent
        /\ UNCHANGED <<owner, store>>
    BY <1>1, <2>1
  <2>3. Copies' = Copies
    BY <2>2 DEF Copies
  <2> QED BY <2>2, <2>3
<1> QED BY <1>2, <1>3

\* A login takes a fresh id, stores its session, and evicts others.
LEMMA LoginSimulated ==
    ASSUME SessionInv, NEW r \in Requests, Login(r)
    PROVE  Registry!Next \/ UNCHANGED <<owner, store, Copies>>
<1> USE DEF SessionInv
<1>1. CASE Regenerate(r)
  <2>1. PICK s \in Fresh :
            /\ Delete({op[r].sid})
            /\ owner' = [owner EXCEPT ![s] = op[r].target]
            /\ op' = [op EXCEPT ![r] = [@ EXCEPT !.sid = s, !.user = op[r].target,
                                                 !.dirty = TRUE]]
    BY <1>1 DEF Regenerate
  <2>2. op[r] \in Ops /\ op[r].target \in Users /\ s \in Sids /\ owner[s] = Absent
    BY <1>1, <2>1 DEF Regenerate, TypeOK, StepInv, At, FindHandlers, Fresh
  <2> DEFINE o == [op[r] EXCEPT !.sid = s, !.user = op[r].target, !.dirty = TRUE]
  <2>3. o \in Ops /\ o.sid = s
    BY <2>2, LoginOp DEF Ops
  <2>4. Copies' = [Copies EXCEPT ![r] = s]
    BY <2>1, <2>3, CopyOf
  <2>5. store' = Registry!Without({Copies[r]})
    BY <2>1 DEF Delete, Registry!Without, Copies
  <2>6. Registry!Regenerate(r, op[r].target)
    BY <2>1, <2>2, <2>4, <2>5 DEF Registry!Regenerate
  <2> QED BY <2>2, <2>6 DEF Registry!Next, Contents
<1>2. CASE SaveSession(r)
  <2>1. op[r].sid \in Sids /\ op[r].sid # Absent /\ owner[op[r].sid] = op[r].user
    BY <1>2, SessionAssumption DEF SaveSession, StepInv, At, OwnershipInv, HeldOwned
  <2>2. op[r] \in Ops /\ [op[r] EXCEPT !.dirty = FALSE] \in Ops
    BY CleanOp DEF TypeOK
  <2>3. [op[r] EXCEPT !.dirty = FALSE].sid = op[r].sid
    BY <2>2 DEF Ops
  <2>4. Copies' = [Copies EXCEPT ![r] = op[r].sid]
    BY <1>2, <2>2, <2>3, CopyOf DEF SaveSession
  <2>5. Copies' = Copies
    BY <2>4 DEF Copies
  <2>6. Registry!Save(r)
    BY <1>2, <2>1, <2>5 DEF SaveSession, Registry!Save, Registry!Holds, Registry!With, Copies
  <2> QED BY <2>6 DEF Registry!Next
<1>3. CASE TrackSession(r) \/ LookUpSessions(r)
  BY <1>3, Unseen DEF TrackSession, LookUpSessions, redis
<1>4. CASE EvictOldest(r)
  <2>1. PICK oldest \in SUBSET keys[r] : Delete(oldest)
    BY <1>4 DEF EvictOldest
  <2>2. oldest \in SUBSET (Sids \cup {Absent})
    BY <2>1 DEF TypeOK
  <2> QED BY <1>4, <2>1, <2>2, Removes DEF EvictOldest, Copies
<1>5. CASE SaveAgain(r)
  <2>1. op[r] \in Ops
    BY DEF TypeOK
  <2>2. Copies' = [Copies EXCEPT ![r] = op[r].sid]
    <3>1. op' = [op EXCEPT ![r] = [op[r] EXCEPT !.dirty = TRUE]]
      BY <1>5 DEF SaveAgain
    <3> QED BY <2>1, <3>1, DirtyOp, CopyOf
  <2>3. Copies' = Copies
    BY <2>2 DEF Copies
  <2> QED BY <1>5, <2>3 DEF SaveAgain, redis
<1> QED BY <1>1, <1>2, <1>3, <1>4, <1>5 DEF Login

\* A revocation removes sessions; the copies of requests in flight stay.
LEMMA RevokeSimulated ==
    ASSUME SessionInv, NEW r \in Requests, Revoke(r)
    PROVE  Registry!Next \/ UNCHANGED <<owner, store, Copies>>
<1> USE DEF SessionInv
<1>1. keys[r] \subseteq Sids /\ items[r] \subseteq Items /\ op[r] \in Ops
  BY DEF TypeOK
<1>2. CASE DeleteAll(r)
  BY <1>1, <1>2, Removes DEF DeleteAll, Copies
<1>3. CASE DeleteOthers(r)
  <2>1. keys[r] \ {op[r].sid} \in SUBSET (Sids \cup {Absent})
    BY <1>1
  <2> QED BY <1>3, <2>1, Removes DEF DeleteOthers, Copies
<1>4. CASE DeleteItem(r)
  <2>1. PICK i \in items[r] : Delete({i.sid})
    BY <1>4 DEF DeleteItem
  <2>2. {i.sid} \in SUBSET (Sids \cup {Absent})
    BY <1>1, <2>1 DEF Items
  <2> QED BY <1>4, <2>1, <2>2, Removes DEF DeleteItem, Copies
<1>5. CASE DestroySession(r)
  <2>1. [op[r] EXCEPT !.dirty = FALSE] \in Ops /\ [op[r] EXCEPT !.dirty = FALSE].sid = op[r].sid
    BY <1>1, CleanOp DEF Ops
  <2>2. Copies' = [Copies EXCEPT ![r] = op[r].sid]
    BY <1>5, <2>1, CopyOf DEF DestroySession
  <2>3. Copies' = Copies
    BY <2>2 DEF Copies
  <2>4. {op[r].sid} \in SUBSET (Sids \cup {Absent})
    BY <1>1 DEF Ops
  <2> QED BY <1>5, <2>3, <2>4, Removes DEF DestroySession
<1>6. CASE ClearTracking(r) \/ LogoutUntrack(r) \/ GetSession(r) \/ BulkScanned(r) \/ UntrackItem(r)
  BY <1>6, Unseen DEF ClearTracking, LogoutUntrack, GetSession, BulkScanned, UntrackItem, redis
<1> QED BY <1>2, <1>3, <1>4, <1>5, <1>6 DEF Revoke

\* The end of a response writes the request's own session, or draws a new id.
LEMMA EndSimulated ==
    ASSUME SessionInv, NEW r \in Requests, EndResponse(r)
    PROVE  Registry!Next \/ UNCHANGED <<owner, store, Copies>>
<1> USE DEF SessionInv
<1>1. Copies' = [Copies EXCEPT ![r] = Absent]
  BY ForgetCopy DEF EndResponse
<1>2. op[r] \in Ops /\ Copies[r] = op[r].sid
  BY DEF TypeOK, Copies
<1>3. CASE op[r].sid # Absent /\ (~op[r].dirty \/ store' = [store EXCEPT ![op[r].sid] = op[r].user])
          /\ (~op[r].dirty => store' = store) /\ owner' = owner
  <2>1. op[r].sid \in Sids /\ owner[op[r].sid] = op[r].user
    BY <1>2, <1>3 DEF Ops, OwnershipInv, HeldOwned
  <2>2. store' \in {store, Registry!With(op[r].sid)}
    BY <1>3, <2>1 DEF Registry!With
  <2>3. Registry!Close(r)
    BY <1>1, <1>2, <1>3, <2>1, <2>2 DEF Registry!Close, Registry!Holds
  <2> QED BY <2>3 DEF Registry!Next
<1>4. ASSUME op[r].sid = Absent
      PROVE  Registry!Next \/ UNCHANGED <<owner, store, Copies>>
  <2>1. Copies' = Copies
    BY <1>1, <1>2, <1>4 DEF Copies
  <2>2. CASE ~op[r].dirty
    BY <2>1, <2>2 DEF EndResponse
  <2>3. CASE op[r].dirty
    <3>1. PICK new \in Fresh : /\ store' = [store EXCEPT ![new] = op[r].user]
                               /\ owner' = [owner EXCEPT ![new] = op[r].user]
      BY <1>4, <2>3 DEF EndResponse
    <3>2. Registry!Create(op[r].user)
      BY <2>1, <3>1 DEF Registry!Create, Fresh
    <3>3. op[r].user \in Contents
      BY <1>2 DEF Ops
    <3> QED BY <3>2, <3>3 DEF Registry!Next
  <2> QED BY <2>2, <2>3
<1> QED BY <1>3, <1>4 DEF EndResponse

\* Every step of the session service is a step of the registry, or none.
LEMMA RegistrySimulated ==
    SessionInv /\ [Next]_vars => Registry!Next \/ UNCHANGED <<owner, store, Copies>>
<1> SUFFICES ASSUME SessionInv, [Next]_vars
             PROVE  Registry!Next \/ UNCHANGED <<owner, store, Copies>>
  OBVIOUS
<1>1. ASSUME NEW r \in Requests, Arrive(r) \/ ArriveWithoutSession(r)
      PROVE  Registry!Next \/ UNCHANGED <<owner, store, Copies>>
  BY <1>1, ArriveSimulated
<1>2. ASSUME NEW r \in Requests, Find(r) \/ Throw(r)
      PROVE  Registry!Next \/ UNCHANGED <<owner, store, Copies>>
  BY <1>2, Unseen DEF Find, CheckMarker, ScanKey, TrackScanned, SetMarker, ReadMembers, CheckAlive,
                      DropStale, ListUserSessions, Throw, redis
<1>3. ASSUME NEW r \in Requests, Login(r) \/ Revoke(r) \/ EndResponse(r)
      PROVE  Registry!Next \/ UNCHANGED <<owner, store, Copies>>
  BY <1>3, LoginSimulated, RevokeSimulated, EndSimulated
<1>4. ASSUME NEW r \in Requests, Crash(r)
      PROVE  Registry!Next \/ UNCHANGED <<owner, store, Copies>>
  <2>1. Copies' = [Copies EXCEPT ![r] = Absent] /\ UNCHANGED <<owner, store>>
    BY <1>4, ForgetCopy DEF Crash, redis, SessionInv
  <2>2. CASE Copies[r] = Absent
    <3>1. Copies' = Copies
      BY <2>1, <2>2 DEF Copies
    <3> QED BY <2>1, <3>1
  <2>3. CASE Copies[r] # Absent
    <3>1. Copies[r] \in Sids
      BY <2>3 DEF Copies, SessionInv, TypeOK, Ops
    <3>2. Registry!Close(r)
      BY <2>1, <2>3, <3>1 DEF Registry!Close, Registry!Holds
    <3> QED BY <3>2 DEF Registry!Next
  <2> QED BY <2>2, <2>3
<1>5. CASE SessionExpires
  <2>1. PICK s \in Live : Delete({s})
    BY <1>5 DEF SessionExpires
  <2>2. {s} \in SUBSET (Sids \cup {Absent})
    BY <2>1 DEF Live
  <2> QED BY <1>5, <2>1, <2>2, Removes DEF SessionExpires, Copies
<1>6. CASE MarkerExpires \/ IndexExpires \/ UNCHANGED vars
  BY <1>6, Unseen DEF MarkerExpires, IndexExpires, vars
<1> QED BY <1>1, <1>2, <1>3, <1>4, <1>5, <1>6 DEF Next

\* To whoever reads a session, the service is a registry of ids with one owner each,
\* whatever logins, revocations, failures and expiry interleave.
THEOREM SessionsAreRegistered == Spec => ImplementsRegistry
<1>1. Init => Registry!Init
  <2>1. NoOp.sid = Absent
    BY DEF NoOp
  <2> QED BY <2>1 DEF Init, Registry!Init, Copies
<1>2. SessionInv /\ [Next]_vars => [Registry!Next]_(Registry!vars)
  BY RegistrySimulated DEF Registry!vars
<1> QED BY <1>1, <1>2, SessionInductive, PTL DEF Spec, ImplementsRegistry, Registry!Spec

\* A dead session is neither loaded nor drawn nor written.
LEMMA DeadStep ==
    ASSUME SessionInv, NEW s \in Sids, Registry!Dead(s), [Registry!Next]_(Registry!vars)
    PROVE  Registry!Dead(s)'
<1> USE DEF Registry!Dead
<1>1. /\ DOMAIN store = Sids /\ DOMAIN owner = Sids /\ DOMAIN Copies = Requests
      /\ s # Absent
  BY SessionAssumption DEF SessionInv, TypeOK, Copies
<1>2. CASE UNCHANGED Registry!vars
  BY <1>2 DEF Registry!vars
<1>3. ASSUME NEW r \in Requests, Registry!Open(r) \/ Registry!Save(r) \/ Registry!Close(r)
      PROVE  Registry!Dead(s)'
  BY <1>1, <1>3 DEF Registry!Open, Registry!Save, Registry!Close, Registry!Holds, Registry!With,
                    Registry!Without
<1>4. ASSUME NEW user \in Contents, Registry!Create(user)
      PROVE  Registry!Dead(s)'
  BY <1>1, <1>4 DEF Registry!Create
<1>5. ASSUME NEW user \in Contents, NEW r \in Requests, Registry!Regenerate(r, user)
      PROVE  Registry!Dead(s)'
  BY <1>1, <1>5 DEF Registry!Regenerate, Registry!Without
<1>6. ASSUME NEW S \in SUBSET Sids, Registry!Remove(S)
      PROVE  Registry!Dead(s)'
  BY <1>1, <1>6 DEF Registry!Remove, Registry!Without
<1> QED BY <1>2, <1>3, <1>4, <1>5, <1>6 DEF Registry!Next

\* Revocation is final: a session that is deleted while no request holds a copy of it, or
\* whose last holder has ended without writing it, never comes back.
THEOREM RevokedForGood == Spec => Registry!RevocationFinal
<1>1. ASSUME NEW s \in Sids
      PROVE  Spec => [](Registry!Dead(s) => []Registry!Dead(s))
  <2>1. SessionInv /\ [Next]_vars => (Registry!Dead(s) => Registry!Dead(s)')
    BY RegistrySimulated, DeadStep DEF Registry!vars
  <2> QED BY <2>1, SessionInductive, PTL DEF Spec
<1> QED BY <1>1 DEF Registry!RevocationFinal

(***************************************************************************)
(* Requests one after the other                                            *)
(***************************************************************************)

\* One request at a time, none of which is an administrator's revocation, by its id, of
\* the session he makes it with, nor a login that evicts the session it has just made.
Undisturbed ==
    /\ \A q, r \in Requests : ~At(q, "idle") /\ ~At(r, "idle") => q = r
    /\ \A r \in Requests : op[r].handler = "revokeById" => op[r].target # op[r].sid
    /\ \A r \in Requests : op[r].handler = "login" /\ At(r, "end") => op[r].sid \in Live

\* Then index, marker and scan are exact: what an operation of the service has done to
\* the sessions, when its response ends, is what its name says.
Exact ==
    \A r \in Requests : At(r, "end") =>
        LET h == op[r].handler
            u == op[r].target
            s == op[r].sid
        IN
        /\ h = "revokeAll" => LiveOf(u) = {}
        /\ h = "revokeOthers" => LiveOf(u) \subseteq {s}
        /\ h = "list" => keys[r] = LiveOf(u)
        /\ h = "login" => Cardinality(LiveOf(u)) <= MaxSessions
        /\ h = "logout" => s \notin Live
        /\ h = "revokeById" => u \notin Live
        /\ h = "bulkRevoke" /\ u # Some => \A t \in Live : Matches(u, store[t]) => t = s

\* A migrated user's sessions are all on the index, except the one that is being put on
\* it or that is about to be destroyed.
Pending(r, s) == pc[r] \in {"track", "destroy"} /\ op[r].sid = s
Tracked ==
    \A u \in Users : migrated[u] =>
        \A s \in LiveOf(u) : s \in index[u] \/ \E r \in Requests : Pending(r, s)

\* The session of the request itself is about to be, or has been, removed.
Closing(r) == \/ op[r].handler = "revokeAll" /\ At(r, "destroy")
              \/ At(r, "clear") /\ op[r].target = op[r].user

\* What a request knows of the store when no other one runs.
Held(r) ==
    /\ op[r].handler = "logout" => ~op[r].dirty
    /\ op[r].handler = "login" /\ pc[r] \notin {"save", "end"} => ~op[r].dirty
    /\ op[r].dirty /\ op[r].sid # Absent /\ ~At(r, "save") /\ ~Closing(r) => op[r].sid \in Live
    /\ At(r, "srem") => todo[r] \cap Live = {} /\ keys[r] \subseteq Live
    /\ op[r].handler = "list" /\ At(r, "end") => keys[r] \subseteq Live
    /\ op[r].handler \in FindHandlers /\ pc[r] \notin {"regenerate", "save", "track", "marker"}
          => LiveOf(op[r].target) \subseteq due[r]

\* How far the administrator's revocations and the logout have got; a bulk revocation by
\* roles, whose choice is left open, owes no particular session.
Wanted(r) == {t \in Live \ {op[r].sid} : op[r].target # Some /\ Matches(op[r].target, store[t])}
Listed(r) == {i.sid : i \in items[r]}
Removed(r) ==
    /\ pc[r] \in {"delItem", "untrackItem"} => op[r].handler \in {"revokeById", "bulkRevoke"}
    /\ At(r, "untrackItem") => keys[r] \cap Live = {}
    /\ op[r].handler = "logout" /\ At(r, "end") => op[r].sid \notin Live
    /\ op[r].handler = "revokeById" =>
          /\ Listed(r) \subseteq {op[r].target}
          /\ pc[r] \in {"untrackItem", "end"} => op[r].target \notin Live
    /\ op[r].handler = "bulkRevoke" =>
          /\ op[r].sid \notin todo[r] \cup Listed(r)
          /\ At(r, "scan") => Wanted(r) \subseteq todo[r] \cup Listed(r)
          /\ pc[r] \in {"delItem", "untrackItem"} => Wanted(r) \subseteq Listed(r)
          /\ At(r, "end") => Wanted(r) = {}

SoloInv == Tracked /\ \A r \in Requests : Held(r) /\ Removed(r)

\* An idle request knows and lists nothing.
LEMMA IdleHeld ==
    ASSUME StepInv, NEW r \in Requests, At(r, "idle")
    PROVE  Held(r) /\ Removed(r)
BY DEF StepInv, Held, Removed, Listed, FindHandlers, At

\* The requests besides the one that moves are idle, before its step and after it.
LEMMA OthersIdle ==
    ASSUME SessionInv, Undisturbed, Undisturbed', NEW r \in Requests,
           \/ Arrive(r) \/ ArriveWithoutSession(r) \/ Find(r) \/ Login(r) \/ Revoke(r)
           \/ EndResponse(r)
    PROVE  \A q \in Requests \ {r} : At(q, "idle") /\ At(q, "idle")'
<1>1. \A q \in Requests \ {r} : pc'[q] = pc[q]
  BY OthersFramed DEF Frame
<1>2. CASE At(r, "idle")
  <2>1. Arrive(r) \/ ArriveWithoutSession(r)
    BY <1>2 DEF At, Find, CheckMarker, ScanKey, TrackScanned, SetMarker, ReadMembers, CheckAlive,
                DropStale, ListUserSessions, Login, Regenerate, SaveSession, TrackSession,
                LookUpSessions, EvictOldest, SaveAgain, Revoke, DeleteAll, ClearTracking, DeleteOthers,
                LogoutUntrack, DestroySession, GetSession, BulkScanned, DeleteItem, UntrackItem,
                EndResponse
  <2>2. \E h \in Handlers : \E user : pc'[r] = FirstStep(h, user)
    BY <2>1 DEF Arrive, ArriveWithoutSession, Start, Goto, SessionInv, TypeOK
  <2>3. pc'[r] # "idle"
    BY <2>2, SessionAssumption DEF FirstStep, Logout, AllHandlers
  <2> QED BY <1>1, <2>3 DEF Undisturbed, At
<1>3. CASE ~At(r, "idle")
  BY <1>1, <1>3 DEF Undisturbed, At
<1> QED BY <1>2, <1>3

\* Alone, the request that moves is the only one a session can be pending for.
LEMMA TrackedBy ==
    ASSUME NEW r \in Requests, \A q \in Requests \ {r} : At(q, "idle")
    PROVE  Tracked <=> \A u \in Users : migrated[u] =>
                          \A s \in LiveOf(u) : s \in index[u] \/ Pending(r, s)
BY DEF Tracked, Pending, At

\* A lookup starts its work with a user all of whose sessions are on the index, if the
\* user is migrated.
LEMMA StartSolo ==
    ASSUME SessionInv, SoloInv, NEW r \in Requests, NEW h \in Handlers,
           NEW s \in Sids \cup {Absent}, NEW user, s # Absent => s \in Live,
           NEW t \in Targets(h, user), Start(r, h, s, user, t),
           h = "revokeById" => t # s
    PROVE  /\ Held(r)' /\ Removed(r)'
           /\ UNCHANGED <<store, index, migrated>> /\ pc[r] = "idle"
<1>1. h \in AllHandlers
  BY SessionAssumption
<1>2. /\ op'[r] = [handler |-> h, sid |-> s, user |-> user, target |-> t,
                    dirty |-> h \in Guarded \cup {"csrfToken"}]
      /\ pc'[r] = FirstStep(h, user)
      /\ todo'[r] = (IF h = "bulkRevoke" THEN Live \ {s} ELSE {})
      /\ keys'[r] = {} /\ items'[r] = {} /\ due'[r] = {}
      /\ UNCHANGED <<store, index, migrated>> /\ pc[r] = "idle"
  BY DEF Start, Goto, SessionInv, TypeOK, StepInv, At, redis, Scannable
<1>3. /\ FirstStep(h, user) \in {"end", "regenerate", "destroy", "untrack", "marker", "get", "scan"}
      /\ h = "login" => FirstStep(h, user) = "regenerate"
      /\ h = "logout" => FirstStep(h, user) \in {"destroy", "untrack"}
      /\ h \in {"list", "revokeOthers", "revokeAll"} => FirstStep(h, user) = "marker"
      /\ h = "revokeById" => FirstStep(h, user) = "get"
      /\ h = "bulkRevoke" => FirstStep(h, user) = "scan"
  BY <1>1 DEF FirstStep, Logout, AllHandlers
<1>4. Held(r)'
  <2>1. Live' = Live
    BY <1>2 DEF Live
  <2>2. h \in {"login", "logout"} => ~op'[r].dirty
    <3>1. op'[r].dirty = (h \in Guarded \cup {"csrfToken"})
      BY <1>2
    <3>2. h \in {"login", "logout"} => h \notin Guarded \cup {"csrfToken"}
      BY DEF Guarded
    <3> QED BY <3>1, <3>2, Zenon
  <2>3. h \in FindHandlers => pc'[r] \in {"regenerate", "marker"}
    BY <1>2, <1>3 DEF FindHandlers
  <2>4. op'[r].handler = h /\ op'[r].sid = s /\ keys'[r] = {} /\ pc'[r] # "srem"
    BY <1>2, <1>3
  <2> QED BY <2>1, <2>2, <2>3, <2>4 DEF Held, At
<1>5. Removed(r)'
  BY <1>2, <1>3 DEF Removed, Wanted, Listed, At, Live
<1> QED BY <1>2, <1>4, <1>5

\* What the moving request has to show of the index when it is alone.
OwnTracked(r) ==
    \A u \in Users : migrated[u] => \A s \in LiveOf(u) : s \in index[u] \/ Pending(r, s)

\* It is all there is to show.
LEMMA TrackedAlone ==
    ASSUME NEW r \in Requests
    PROVE  OwnTracked(r)' => Tracked'
BY DEF OwnTracked, Tracked

\* A handler that looks sessions up never works through items.
LEMMA FinderRemoves ==
    ASSUME NEW r \in Requests, op'[r].handler \in FindHandlers, pc'[r] \notin {"delItem", "untrackItem"}
    PROVE  Removed(r)'
BY DEF Removed, FindHandlers, At

\* The lookup.
LEMMA SoloFind ==
    ASSUME NEW r \in Requests, SessionInv, SweepInv, OwnTracked(r), Held(r), Removed(r), Find(r)
    PROVE  OwnTracked(r)' /\ Held(r)' /\ Removed(r)'
<1> USE DEF SessionInv, TypeOK, StepInv, At, Goto, redis, locals
<1>1. CASE CheckMarker(r)
  <2> DEFINE u == op[r].target
  <2>1. /\ op[r].handler \in FindHandlers /\ u \in Users /\ pc[r] = "marker"
        /\ pc'[r] \in {"members", "scan"} /\ UNCHANGED <<store, index, migrated, op, keys>>
    BY <1>1 DEF CheckMarker
  <2>2. OwnTracked(r)'
    BY <2>1 DEF OwnTracked, Pending, LiveOf
  <2>3. LiveOf(u) \subseteq due'[r]
    <3>1. LiveOf(u) \subseteq Live
      BY <2>1, SessionAssumption DEF LiveOf, Live
    <3>2. migrated[u] => LiveOf(u) \subseteq index[u]
      BY <2>1 DEF OwnTracked, Pending
    <3> QED BY <1>1, <3>1, <3>2 DEF CheckMarker
  <2>4. Held(r)'
    BY <2>1, <2>3 DEF Held, Live, LiveOf, Closing
  <2> QED BY <2>1, <2>2, <2>4, FinderRemoves
<1>2. CASE ScanKey(r)
  <2>1. UNCHANGED <<store, index, migrated, op, pc, due>> /\ pc[r] = "scan"
    BY <1>2 DEF ScanKey
  <2>2. OwnTracked(r)' /\ Held(r)'
    BY <2>1 DEF OwnTracked, Pending, LiveOf, Held, Closing, Live
  <2>3. CASE op[r].handler \in FindHandlers
    BY <2>1, <2>2, <2>3, FinderRemoves
  <2>4. CASE op[r].handler = "bulkRevoke"
    <3>1. PICK s \in todo[r] \cup (Live \ {op[r].sid}) :
            /\ todo' = [todo EXCEPT ![r] = @ \ {s}]
            /\ \/ /\ ~Matches(op[r].target, store[s]) \/ op[r].target = Some
                  /\ UNCHANGED items
               \/ /\ Matches(op[r].target, store[s])
                  /\ items' = [items EXCEPT ![r] = @ \cup {[sid |-> s, user |-> store[s]]}]
      BY <1>2, <2>4 DEF ScanKey, Scannable
    <3>2. s # op[r].sid
      BY <2>4, <3>1 DEF Removed
    <3>3. Wanted(r)' = Wanted(r) /\ todo'[r] = todo[r] \ {s}
      BY <2>1, <3>1 DEF Wanted, Live
    <3>4. /\ Listed(r)' \subseteq Listed(r) \cup {s} /\ Listed(r) \subseteq Listed(r)'
          /\ op[r].target # Some /\ Matches(op[r].target, store[s]) => s \in Listed(r)'
      <4>1. CASE items' = [items EXCEPT ![r] = @ \cup {[sid |-> s, user |-> store[s]]}]
        <5> DEFINE i == [sid |-> s, user |-> store[s]]
        <5>1. items'[r] = items[r] \cup {i} /\ i.sid = s
          BY <3>1, <4>1
        <5> HIDE DEF i
        <5> QED BY <5>1 DEF Listed
      <4>2. CASE UNCHANGED items /\ (~Matches(op[r].target, store[s]) \/ op[r].target = Some)
        BY <4>2 DEF Listed
      <4> QED BY <3>1, <4>1, <4>2
    <3>5. s \in Wanted(r) => op[r].target # Some /\ Matches(op[r].target, store[s])
      BY DEF Wanted
    <3> QED BY <2>1, <2>2, <2>4, <3>2, <3>3, <3>4, <3>5 DEF Removed
  <2> QED BY <2>1, <2>3, <2>4
<1>3. CASE TrackScanned(r)
  <2>1. /\ UNCHANGED <<store, migrated, op, due, keys, todo>> /\ pc'[r] = "mark" /\ pc[r] = "scan"
        /\ op[r].handler \in FindHandlers /\ \A u \in Users : index[u] \subseteq index'[u]
    BY <1>3 DEF TrackScanned
  <2>2. OwnTracked(r)' /\ Held(r)'
    BY <2>1 DEF OwnTracked, Pending, LiveOf, Held, Closing, Live
  <2> QED BY <2>1, <2>2, FinderRemoves
<1>4. CASE SetMarker(r)
  <2> DEFINE u == op[r].target
  <2>1. /\ UNCHANGED <<store, index, op, due, keys, todo>> /\ pc'[r] = "members" /\ pc[r] = "mark"
        /\ op[r].handler \in FindHandlers /\ u \in Users
        /\ migrated' = [migrated EXCEPT ![u] = TRUE]
    BY <1>4 DEF SetMarker
  <2>2. LiveOf(u) \subseteq index[u]
    <3>1. LiveOf(u) \subseteq due[r] \cap Live
      BY <2>1, SessionAssumption DEF Held, LiveOf, Live
    <3> QED BY <2>1, <3>1 DEF SweepInv, Swept, Owed
  <2>3. OwnTracked(r)' /\ Held(r)'
    BY <2>1, <2>2 DEF OwnTracked, Pending, LiveOf, Held, Closing, Live
  <2> QED BY <2>1, <2>3, FinderRemoves
<1>5. CASE ReadMembers(r)
  <2>1. /\ UNCHANGED <<store, index, migrated, op, due>> /\ pc[r] = "members"
        /\ op[r].handler \in FindHandlers
        /\ pc'[r] \in {"exists", "clear", "del", "end", "lookup"}
        /\ pc'[r] = "end" => keys'[r] = {}
        /\ pc'[r] = "clear" => keys'[r] = {}
    BY <1>5, AfterFindStep DEF ReadMembers
  <2>2. OwnTracked(r)' /\ Held(r)'
    BY <2>1 DEF OwnTracked, Pending, LiveOf, Held, Closing, Live
  <2> QED BY <2>1, <2>2, FinderRemoves
<1>6. CASE CheckAlive(r)
  <2>1. /\ UNCHANGED <<store, index, migrated, op, due>> /\ pc[r] = "exists"
        /\ op[r].handler \in FindHandlers
        /\ pc'[r] \in {"srem", "clear", "del", "end", "lookup"}
        /\ keys'[r] \subseteq Live /\ todo'[r] \cap Live = {}
    BY <1>6, AfterFindStep DEF CheckAlive
  <2>2. OwnTracked(r)' /\ Held(r)'
    BY <2>1 DEF OwnTracked, Pending, LiveOf, Held, Closing, Live
  <2> QED BY <2>1, <2>2, FinderRemoves
<1>7. CASE DropStale(r)
  <2>1. /\ UNCHANGED <<store, migrated, op>> /\ pc[r] = "srem" /\ due'[r] = due[r]
        /\ op[r].handler \in FindHandlers
        /\ pc'[r] \in {"clear", "del", "end", "lookup"}
        /\ todo[r] \cap Live = {} /\ keys[r] \subseteq Live /\ keys' = keys /\ todo'[r] = {}
        /\ \A u \in Users : index[u] \ todo[r] \subseteq index'[u]
    BY <1>7, AfterFindStep DEF DropStale, Untrack, Detach, Held
  <2>2. \A u \in Users : LiveOf(u) \subseteq Live
    BY SessionAssumption DEF LiveOf, Live
  <2>3. OwnTracked(r)'
    BY <2>1, <2>2 DEF OwnTracked, Pending, LiveOf
  <2>4. Held(r)'
    BY <2>1 DEF LiveOf, Held, Closing, Live
  <2> QED BY <2>1, <2>3, <2>4, FinderRemoves
<1>8. CASE ListUserSessions(r)
  <2>1. /\ UNCHANGED <<store, index, migrated, op, due>> /\ pc[r] = "lookup" /\ pc'[r] = "end"
        /\ op[r].handler = "list" /\ keys'[r] \subseteq Live
    BY <1>8 DEF ListUserSessions
  <2>2. OwnTracked(r)' /\ Held(r)'
    BY <2>1 DEF OwnTracked, Pending, LiveOf, Held, Closing, Live
  <2> QED BY <2>1, <2>2, FinderRemoves DEF FindHandlers
<1> QED BY <1>1, <1>2, <1>3, <1>4, <1>5, <1>6, <1>7, <1>8 DEF Find

\* A login stores its new session before it puts it on the index.
LEMMA SoloLogin ==
    ASSUME NEW r \in Requests, SessionInv, SweepInv, Undisturbed,
           OwnTracked(r), Held(r), Removed(r), Login(r)
    PROVE  OwnTracked(r)' /\ Held(r)' /\ Removed(r)'
<1> USE DEF SessionInv, TypeOK, StepInv, At, Goto, redis, locals
<1>1. CASE Regenerate(r)
  <2>1. PICK s \in Fresh :
          /\ Delete({op[r].sid})
          /\ op' = [op EXCEPT ![r] = [@ EXCEPT !.sid = s, !.user = op[r].target, !.dirty = TRUE]]
    BY <1>1 DEF Regenerate
  <2>2. /\ UNCHANGED <<index, migrated, due>> /\ pc[r] = "regenerate" /\ pc'[r] = "save"
        /\ op[r].handler = "login"
    BY <1>1 DEF Regenerate
  <2>3. op'[r].handler = "login"
    BY <2>1, <2>2 DEF Ops
  <2>4. OwnTracked(r)'
    BY <2>1, <2>2, SessionAssumption DEF OwnTracked, Pending, LiveOf, Delete
  <2>5. Held(r)'
    BY <2>2, <2>3 DEF Held
  <2> QED BY <2>2, <2>3, <2>4, <2>5, FinderRemoves DEF FindHandlers
<1>2. CASE SaveSession(r)
  <2>1. /\ store' = [store EXCEPT ![op[r].sid] = op[r].user] /\ op[r].sid \in Sids
        /\ UNCHANGED <<index, migrated, due>> /\ pc[r] = "save" /\ pc'[r] = "track"
        /\ op[r].handler = "login"
    BY <1>2 DEF SaveSession
  <2>2. op'[r].handler = "login" /\ op'[r].sid = op[r].sid /\ ~op'[r].dirty
    BY <1>2 DEF SaveSession, Ops
  <2>3. OwnTracked(r)'
    BY <2>1, <2>2 DEF OwnTracked, Pending, LiveOf
  <2>4. Held(r)'
    BY <2>1, <2>2 DEF Held
  <2> QED BY <2>1, <2>2, <2>3, <2>4, FinderRemoves DEF FindHandlers
<1>3. CASE TrackSession(r)
  <2>1. /\ UNCHANGED <<store, migrated, op, due>> /\ pc[r] = "track" /\ pc'[r] = "marker"
        /\ index' = [index EXCEPT ![op[r].target] = @ \cup {op[r].sid}]
        /\ op[r].handler = "login" /\ op[r].target \in Users
    BY <1>3 DEF TrackSession, FindHandlers
  <2>2. \A u \in Users : op[r].sid \in LiveOf(u) => u = op[r].target
    BY <2>1, SessionAssumption DEF OwnershipInv, StoredOwned, HeldOwned, LiveOf, Live
  <2>3. OwnTracked(r)'
    BY <2>1, <2>2 DEF OwnTracked, Pending, LiveOf
  <2>4. Held(r)'
    BY <2>1 DEF Held
  <2> QED BY <2>1, <2>3, <2>4, FinderRemoves DEF FindHandlers
<1>4. CASE LookUpSessions(r)
  <2>1. /\ UNCHANGED <<store, index, migrated, op, due>> /\ pc[r] = "lookup"
        /\ pc'[r] \in {"end", "evict"} /\ op[r].handler = "login"
    BY <1>4 DEF LookUpSessions
  <2>2. OwnTracked(r)' /\ Held(r)'
    BY <2>1 DEF OwnTracked, Pending, LiveOf, Held
  <2> QED BY <2>1, <2>2, FinderRemoves DEF FindHandlers
<1>5. CASE EvictOldest(r)
  <2>1. PICK oldest \in SUBSET keys[r] :
          /\ Delete(oldest)
          /\ index' = [index EXCEPT ![op[r].target] = @ \ oldest]
    BY <1>5 DEF EvictOldest, Untrack
  <2>2. /\ UNCHANGED <<migrated, op, due>> /\ pc[r] = "evict" /\ pc'[r] = "end"
        /\ op[r].handler = "login" /\ op[r].target \in Users
    BY <1>5 DEF EvictOldest, FindHandlers
  <2>3. \A u \in Users : LiveOf(u)' = LiveOf(u) \ oldest
    BY <2>1, SessionAssumption DEF Delete, LiveOf
  <2>4. OwnTracked(r)'
    BY <2>1, <2>2, <2>3 DEF OwnTracked, Pending
  <2>5. Held(r)'
    BY <2>2, <2>3 DEF Held, FindHandlers
  <2> QED BY <2>2, <2>4, <2>5, FinderRemoves DEF FindHandlers
<1>6. CASE SaveAgain(r)
  <2>1. /\ UNCHANGED <<store, index, migrated, pc, due>> /\ pc[r] = "end"
        /\ op[r].handler = "login" /\ op[r].sid \in Live
    BY <1>6 DEF SaveAgain, Undisturbed
  <2>2. /\ op'[r].handler = "login" /\ op'[r].sid = op[r].sid
        /\ op'[r].target = op[r].target
    BY <1>6, <2>1 DEF SaveAgain, Ops
  <2>3. OwnTracked(r)'
    BY <2>1, <2>2 DEF OwnTracked, Pending, LiveOf
  <2>4. Held(r)'
    BY <2>1, <2>2 DEF Held, FindHandlers, Live, LiveOf
  <2> QED BY <2>1, <2>2, <2>3, <2>4, FinderRemoves DEF FindHandlers
<1> QED BY <1>1, <1>2, <1>3, <1>4, <1>5, <1>6 DEF Login

\* The revocations and the logout.  The session of the request itself is deleted only
\* when it is not going to be written again.
LEMMA SoloRevoke ==
    ASSUME NEW r \in Requests, SessionInv, SweepInv, Undisturbed,
           OwnTracked(r), Held(r), Removed(r), Revoke(r)
    PROVE  OwnTracked(r)' /\ Held(r)' /\ Removed(r)'
<1> USE DEF SessionInv, TypeOK, StepInv, At, Goto, redis, locals
<1>1. \A S : Delete(S) => /\ Live' = Live \ S
                          /\ \A u \in Users : LiveOf(u)' = LiveOf(u) \ S
  BY SessionAssumption DEF Delete, Live, LiveOf
<1>2. \A u \in Users : LiveOf(u) \subseteq Live
  BY SessionAssumption DEF Live, LiveOf
<1>3. CASE DeleteAll(r)
  <2>1. /\ Delete(keys[r]) /\ UNCHANGED <<index, migrated, op, due>>
        /\ pc[r] = "del" /\ pc'[r] = "clear" /\ op[r].handler = "revokeAll"
        /\ op[r].target \in Users
    BY <1>3 DEF DeleteAll, FindHandlers
  <2>2. OwnTracked(r)'
    BY <1>1, <2>1 DEF OwnTracked, Pending
  <2>3. op[r].sid # Absent /\ op[r].target # op[r].user => op[r].sid \notin keys[r]
    BY <2>1 DEF OwnershipInv, HeldOwned, KeysOwned
  <2>4. Held(r)'
    BY <1>1, <2>1, <2>3 DEF Held, Closing, FindHandlers
  <2> QED BY <2>1, <2>2, <2>4, FinderRemoves DEF FindHandlers
<1>4. CASE ClearTracking(r)
  <2> DEFINE u == op[r].target
  <2>1. /\ UNCHANGED <<store, op>> /\ due'[r] = due[r] /\ u \in Users
        /\ pc[r] = "clear" /\ pc'[r] = (IF u = op[r].user THEN "destroy" ELSE "end")
        /\ op[r].handler = "revokeAll"
        /\ index' = [index EXCEPT ![u] = {}] /\ migrated' = [migrated EXCEPT ![u] = FALSE]
    BY <1>4 DEF ClearTracking, Detach, FindHandlers
  <2>2. OwnTracked(r)'
    BY <2>1 DEF OwnTracked, Pending, LiveOf
  <2>3. Held(r)'
    BY <2>1 DEF Held, Closing, FindHandlers, Live, LiveOf
  <2> QED BY <2>1, <2>2, <2>3, FinderRemoves DEF FindHandlers
<1>5. CASE DeleteOthers(r)
  <2> DEFINE others == keys[r] \ {op[r].sid}
  <2>1. /\ Delete(others) /\ UNCHANGED <<migrated, op, due>> /\ op[r].target \in Users
        /\ index' = [index EXCEPT ![op[r].target] = @ \ others]
        /\ pc[r] = "del" /\ pc'[r] = "end" /\ op[r].handler = "revokeOthers"
    BY <1>5 DEF DeleteOthers, Untrack, FindHandlers
  <2>2. OwnTracked(r)'
    BY <1>1, <2>1 DEF OwnTracked, Pending
  <2>3. Held(r)'
    BY <1>1, <2>1 DEF Held, Closing, FindHandlers
  <2> QED BY <2>1, <2>2, <2>3, FinderRemoves DEF FindHandlers
<1>6. CASE LogoutUntrack(r)
  <2>1. /\ UNCHANGED <<store, migrated, op>> /\ pc[r] = "untrack" /\ pc'[r] = "destroy"
        /\ op[r].handler = "logout" /\ index' = [index EXCEPT ![op[r].user] = @ \ {op[r].sid}]
    BY <1>6 DEF LogoutUntrack, Untrack
  <2>2. OwnTracked(r)'
    BY <2>1 DEF OwnTracked, Pending, LiveOf
  <2>3. Held(r)' /\ Removed(r)'
    BY <2>1 DEF Held, FindHandlers, Removed
  <2> QED BY <2>2, <2>3
<1>7. CASE DestroySession(r)
  <2>1. /\ Delete({op[r].sid}) /\ UNCHANGED <<index, migrated, due>>
        /\ pc[r] = "destroy" /\ pc'[r] = "end" /\ op[r].handler \in {"logout", "revokeAll"}
    BY <1>7 DEF DestroySession
  <2>2. /\ op'[r].handler = op[r].handler /\ op'[r].sid = op[r].sid /\ ~op'[r].dirty
        /\ op'[r].target = op[r].target
    BY <1>7 DEF DestroySession, Ops
  <2>3. OwnTracked(r)'
    BY <1>1, <2>1 DEF OwnTracked, Pending
  <2>4. Held(r)'
    BY <1>1, <2>1, <2>2 DEF Held, FindHandlers
  <2>5. Removed(r)'
    BY <1>1, <2>1, <2>2 DEF Removed
  <2> QED BY <2>3, <2>4, <2>5
<1>8. CASE GetSession(r)
  <2>1. /\ UNCHANGED <<store, index, migrated, op, due>> /\ pc[r] = "get"
        /\ pc'[r] \in {"end", "delItem"} /\ op[r].handler = "revokeById"
        /\ pc'[r] = "end" => op[r].target \notin Live /\ items' = items
        /\ pc'[r] # "end" =>
             items'[r] = {[sid |-> op[r].target, user |-> store[op[r].target]]}
    BY <1>8 DEF GetSession, Live
  <2>2. OwnTracked(r)' /\ Held(r)'
    BY <2>1 DEF OwnTracked, Pending, LiveOf, Held, Closing, Live, FindHandlers
  <2>3. Removed(r)'
    <3>1. pc'[r] = "end" => Listed(r)' = Listed(r)
      BY <2>1 DEF Listed
    <3>2. pc'[r] # "end" => Listed(r)' = {op[r].target}
      <4> DEFINE i == [sid |-> op[r].target, user |-> store[op[r].target]]
      <4>1. i.sid = op[r].target /\ (pc'[r] # "end" => items'[r] = {i})
        BY <2>1
      <4> HIDE DEF i
      <4> QED BY <4>1 DEF Listed
    <3> QED BY <2>1, <3>1, <3>2 DEF Removed, Live
  <2> QED BY <2>2, <2>3
<1>9. CASE BulkScanned(r)
  <2>1. /\ UNCHANGED <<store, index, migrated, op, due, todo, items>> /\ pc[r] = "scan"
        /\ op[r].handler = "bulkRevoke" /\ todo[r] = {}
        /\ pc'[r] = (IF items[r] = {} THEN "end" ELSE "delItem")
    BY <1>9 DEF BulkScanned
  <2>2. OwnTracked(r)' /\ Held(r)'
    BY <2>1 DEF OwnTracked, Pending, LiveOf, Held, Closing, Live, FindHandlers
  <2>3. Removed(r)'
    BY <2>1 DEF Removed, Listed, Wanted, Live
  <2> QED BY <2>2, <2>3
<1>10. CASE DeleteItem(r)
  <2>1. PICK i \in items[r] : Delete({i.sid}) /\ keys' = [keys EXCEPT ![r] = {i.sid}]
    BY <1>10 DEF DeleteItem
  <2>2. /\ UNCHANGED <<index, migrated, op, due, todo, items>> /\ pc[r] = "delItem"
        /\ pc'[r] = "untrackItem" /\ op[r].handler \notin FindHandlers
    BY <1>10 DEF DeleteItem
  <2>3. OwnTracked(r)'
    BY <1>1, <2>1, <2>2 DEF OwnTracked, Pending
  <2>4. i.sid \in Listed(r) /\ op[r].handler \in {"revokeById", "bulkRevoke"}
    BY <2>1, <2>2 DEF Listed, Removed
  <2>5. i.sid # op[r].sid
    BY <2>4 DEF Removed, Undisturbed
  <2>6. Held(r)'
    BY <1>1, <2>1, <2>2, <2>4, <2>5 DEF Held, Closing, FindHandlers
  <2>7. Removed(r)'
    <3>1. Wanted(r)' \subseteq Wanted(r) /\ Listed(r)' = Listed(r)
      BY <1>1, <2>1, <2>2 DEF Wanted, Listed, Delete, Live
    <3> QED BY <1>1, <2>1, <2>2, <2>4, <3>1 DEF Removed
  <2> QED BY <2>3, <2>6, <2>7
<1>11. CASE UntrackItem(r)
  <2>1. PICK i \in items[r] :
          /\ i.sid \in keys[r]
          /\ index' = [u \in Users |-> IF u = i.user THEN index[u] \ {i.sid} ELSE index[u]]
          /\ items' = [items EXCEPT ![r] = @ \ {i}]
          /\ pc' = [pc EXCEPT ![r] = IF items[r] = {i} THEN "end" ELSE "delItem"]
    BY <1>11 DEF UntrackItem
  <2>2. /\ UNCHANGED <<store, migrated, op, keys, todo>> /\ pc[r] = "untrackItem"
        /\ op[r].handler \notin FindHandlers /\ keys[r] \cap Live = {}
    BY <1>11 DEF UntrackItem, Removed
  <2>3. OwnTracked(r)'
    BY <1>2, <2>1, <2>2 DEF OwnTracked, Pending, LiveOf
  <2>4. Held(r)'
    BY <2>1, <2>2 DEF Held, Closing, FindHandlers, Live
  <2>5. Removed(r)'
    <3>1. Wanted(r)' = Wanted(r) /\ Wanted(r) \subseteq Live /\ Live' = Live
      BY <2>2 DEF Wanted, Live
    <3>2. Listed(r)' \subseteq Listed(r) /\ Listed(r) \ {i.sid} \subseteq Listed(r)'
      BY <2>1 DEF Listed
    <3>3. pc'[r] = "end" => Listed(r) = {i.sid}
      BY <2>1 DEF Listed
    <3> QED BY <2>1, <2>2, <3>1, <3>2, <3>3 DEF Removed
  <2> QED BY <2>3, <2>4, <2>5
<1> QED BY <1>3, <1>4, <1>5, <1>6, <1>7, <1>8, <1>9, <1>10, <1>11 DEF Revoke

\* The write at the end of a response changes nothing: the session is still there.
LEMMA SoloEnd ==
    ASSUME NEW r \in Requests, SessionInv, OwnTracked(r), Held(r), EndResponse(r)
    PROVE  OwnTracked(r)' /\ At(r, "idle")'
<1> USE DEF SessionInv, TypeOK, At, Goto
<1>1. UNCHANGED <<index, migrated>> /\ pc[r] \in {"end", "failed"} /\ pc'[r] = "idle"
  BY DEF EndResponse, Forget
<1>2. \A u \in Users : LiveOf(u)' = LiveOf(u)
  <2>1. CASE UNCHANGED store
    BY <2>1 DEF LiveOf
  <2>2. CASE op[r].dirty /\ op[r].sid # Absent /\ store' = [store EXCEPT ![op[r].sid] = op[r].user]
    <3>1. op[r].sid \in Live
      BY <1>1, <2>2 DEF Held, Closing
    <3>2. store[op[r].sid] = op[r].user
      BY <2>2, <3>1 DEF OwnershipInv, StoredOwned, HeldOwned
    <3> QED BY <2>2, <3>2 DEF LiveOf
  <2>3. ASSUME op[r].sid = Absent, NEW new \in Fresh, store' = [store EXCEPT ![new] = op[r].user]
        PROVE  \A u \in Users : LiveOf(u)' = LiveOf(u)
    <3>1. op[r].user = Anon /\ store[new] = Absent /\ new \in Sids
      BY <2>3, FreshUnused DEF StepInv, Fresh
    <3> QED BY <2>3, <3>1, SessionAssumption DEF LiveOf
  <2> QED BY <2>1, <2>2, <2>3 DEF EndResponse
<1> QED BY <1>1, <1>2 DEF OwnTracked, Pending

\* Every step keeps the store as a request alone knows it.
LEMMA SoloStep ==
    ASSUME Faults = {}, SessionInv, SweepInv, SoloInv, Undisturbed, [Next]_vars,
           SessionInv', Undisturbed'
    PROVE  SoloInv'
<1>1. ASSUME NEW r \in Requests,
             \/ Arrive(r) \/ ArriveWithoutSession(r) \/ Find(r) \/ Login(r) \/ Revoke(r)
             \/ EndResponse(r)
      PROVE  SoloInv'
  <2>1. \A q \in Requests \ {r} : At(q, "idle") /\ At(q, "idle")'
    BY <1>1, OthersIdle
  <2>2. OwnTracked(r)
    BY <2>1, TrackedBy DEF SoloInv, OwnTracked
  <2>3. OwnTracked(r)' /\ Held(r)' /\ Removed(r)'
    <3>1. CASE Arrive(r)
      <4>1. PICK h \in Handlers, s \in Live : \E t \in Targets(h, store[s]) :
                   Start(r, h, s, store[s], t)
        BY <3>1 DEF Arrive
      <4>2. PICK t \in Targets(h, store[s]) : Start(r, h, s, store[s], t)
        BY <4>1
      <4>3. op'[r].handler = h /\ op'[r].target = t /\ op'[r].sid = s
        BY <4>2 DEF Start, SessionInv, TypeOK
      <4>4. s \in Sids \cup {Absent} /\ h = "revokeById" => t # s
        BY <4>3 DEF Live, Undisturbed
      <4>5. Held(r)' /\ Removed(r)' /\ UNCHANGED <<store, index, migrated>> /\ pc[r] = "idle"
        BY <4>2, <4>4, StartSolo DEF Live
      <4> QED BY <2>2, <4>5 DEF OwnTracked, Pending, LiveOf
    <3>2. CASE ArriveWithoutSession(r)
      <4>1. PICK h \in Handlers \cap {"csrfToken", "login"} : \E t \in Targets(h, Anon) :
                   Start(r, h, Absent, Anon, t)
        BY <3>2 DEF ArriveWithoutSession
      <4>2. Held(r)' /\ Removed(r)' /\ UNCHANGED <<store, index, migrated>> /\ pc[r] = "idle"
        BY <4>1, StartSolo
      <4> QED BY <2>2, <4>2 DEF OwnTracked, Pending, LiveOf
    <3>3. CASE EndResponse(r)
      <4>1. OwnTracked(r)' /\ At(r, "idle")'
        BY <2>2, <3>3, SoloEnd DEF SoloInv
      <4>2. Held(r)' /\ Removed(r)'
        BY <4>1 DEF SessionInv, StepInv, Held, Removed, Listed, FindHandlers, At
      <4> QED BY <4>1, <4>2
    <3> QED BY <1>1, <2>2, <3>1, <3>2, <3>3, SoloFind, SoloLogin, SoloRevoke DEF SoloInv
  <2>4. \A q \in Requests \ {r} : Held(q)' /\ Removed(q)'
    BY <2>1 DEF SessionInv, StepInv, Held, Removed, Listed, FindHandlers, At
  <2> QED BY <2>3, <2>4, TrackedAlone DEF SoloInv
<1>2. CASE UNCHANGED vars
  <2>1. Tracked'
    BY <1>2 DEF vars, SoloInv, Tracked, Pending, LiveOf
  <2>2. \A r \in Requests : Held(r)' /\ Removed(r)'
    BY <1>2 DEF vars, SoloInv, Held, Removed, Listed, Wanted, Closing, Live, LiveOf, At
  <2> QED BY <2>1, <2>2 DEF SoloInv
<1>3. /\ \A r \in Requests : ~Throw(r) /\ ~Crash(r)
      /\ ~SessionExpires /\ ~MarkerExpires /\ ~IndexExpires
  BY DEF Throw, Crash, SessionExpires, MarkerExpires, IndexExpires
<1> QED BY <1>1, <1>2, <1>3 DEF Next

\* What has been swept of a user whose every session was due is every session.
LEMMA SoloExact ==
    ASSUME SessionInv, SweepInv, SoloInv
    PROVE  Exact
<1> SUFFICES ASSUME NEW r \in Requests, At(r, "end")
             PROVE  LET h == op[r].handler
                        u == op[r].target
                        s == op[r].sid
                    IN
                    /\ h = "revokeAll" => LiveOf(u) = {}
                    /\ h = "revokeOthers" => LiveOf(u) \subseteq {s}
                    /\ h = "list" => keys[r] = LiveOf(u)
                    /\ h = "login" => Cardinality(LiveOf(u)) <= MaxSessions
                    /\ h = "logout" => s \notin Live
                    /\ h = "revokeById" => u \notin Live
                    /\ h = "bulkRevoke" /\ u # Some =>
                          \A t \in Live : Matches(u, store[t]) => t = s
  BY DEF Exact
<1> DEFINE u == op[r].target
<1>1. ASSUME op[r].handler \in FindHandlers
      PROVE  u \in Users /\ LiveOf(u) \subseteq Owed(r)
  BY <1>1, SessionAssumption DEF SessionInv, StepInv, SoloInv, Held, At, Owed, Live, LiveOf
<1>2. op[r].handler = "revokeAll" => LiveOf(u) = {}
  BY <1>1 DEF SweepInv, Swept, FindHandlers, At
<1>3. op[r].handler = "revokeOthers" => LiveOf(u) \subseteq {op[r].sid}
  BY <1>1 DEF SweepInv, Swept, FindHandlers
<1>4. ASSUME op[r].handler = "list"
      PROVE  keys[r] = LiveOf(u)
  <2>1. LiveOf(u) \subseteq keys[r] /\ keys[r] \subseteq Live
    BY <1>1, <1>4 DEF SweepInv, Swept, SoloInv, Held, FindHandlers
  <2>2. \A s \in keys[r] : store[s] = u
    BY <1>4, <2>1 DEF SessionInv, OwnershipInv, KeysOwned, StoredOwned
  <2> QED BY <2>1, <2>2 DEF LiveOf, Live
<1>5. ASSUME op[r].handler = "login"
      PROVE  Cardinality(LiveOf(u)) <= MaxSessions
  <2>1. PICK K \in SUBSET Sids : Owed(r) \subseteq K /\ Cardinality(K) <= MaxSessions
    BY <1>5 DEF SweepInv, Swept, FindHandlers
  <2>2. LiveOf(u) \subseteq K
    BY <1>1, <1>5, <2>1 DEF FindHandlers
  <2>3. IsFiniteSet(K) /\ MaxSessions \in Nat
    BY FS_Subset, SessionAssumption
  <2>4. /\ Cardinality(LiveOf(u)) <= Cardinality(K)
        /\ Cardinality(LiveOf(u)) \in Nat /\ Cardinality(K) \in Nat
    BY <2>2, <2>3, FS_Subset, FS_CardinalityType
  <2> QED BY <2>1, <2>3, <2>4
<1>6. /\ op[r].handler = "logout" => op[r].sid \notin Live
      /\ op[r].handler = "revokeById" => u \notin Live
  BY DEF SoloInv, Removed, At
<1>7. op[r].handler = "bulkRevoke" /\ u # Some => \A t \in Live : Matches(u, store[t]) => t = op[r].sid
  BY DEF SoloInv, Removed, Wanted
<1> QED BY <1>2, <1>3, <1>4, <1>5, <1>6, <1>7

\* Requests that come one after the other, without failures, leave nothing behind: a
\* revocation (in bulk: of one user or of all) has removed every session it was asked to,
\* the overview shows all, and a login leaves at most MaxSessions.  So every session such a
\* revocation of the code misses is due to an overlap, a failure, an administrator who
\* removes the session he works in, or a login that evicts the session it has just made.
THEOREM SequentialIsExact ==
    ASSUME Faults = {}
    PROVE  Spec /\ []Undisturbed => []Exact
<1>1. Init => SoloInv
  BY SessionAssumption
     DEF Init, SoloInv, Tracked, LiveOf, Held, Removed, Listed, NoOp, FindHandlers, At
<1>2. SessionInv /\ SweepInv /\ SoloInv /\ Undisturbed /\ [Next]_vars /\ SessionInv' /\ Undisturbed'
         => SoloInv'
  BY SoloStep
<1>3. SessionInv /\ SweepInv /\ SoloInv => Exact
  BY SoloExact
<1> QED BY <1>1, <1>2, <1>3, SweepInductive, PTL DEF Spec

=============================================================================
