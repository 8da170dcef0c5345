-------------------------- MODULE SessionLifecycle --------------------------
(***************************************************************************)
(* SessionLifecycleService (session-lifecycle.service.ts) on top of Redis, *)
(* together with the part of express-session that every request goes       *)
(* through: the session is loaded when the request arrives and, when the   *)
(* request changed it, written back when the response ends.                *)
(*                                                                         *)
(* A request is a sequential handler; every Redis command or pipeline it   *)
(* awaits is one step, and the steps of different requests interleave.     *)
(* Redis runs one pipeline's commands without interleaving others (they    *)
(* arrive in one buffer), so a pipeline is one step.                       *)
(***************************************************************************)
EXTENDS Naturals, FiniteSets

CONSTANTS
    Users,        \* user ids
    Sids,         \* session ids express-session may generate (each used once)
    Requests,     \* requests that may be in flight at the same time
    Handlers,     \* the handlers the requests of a run may reach
    Faults,       \* what may happen besides: {"throw", "crash", "expiry"} or less
    MaxSessions,  \* enforceSessionLimit(userId, 5)
    Anon,         \* content of a session that has no userId
    Absent,       \* no such Redis key, no session id yet
    All,          \* bulk-revoke filter { all: true }
    Some          \* bulk-revoke filter by roles, or by several userIds

AllHandlers == {"csrfToken", "visit", "login", "logout", "list", "revokeOthers",
                "revokeAll", "revokeById", "bulkRevoke"}

ASSUME SessionAssumption ==
    /\ MaxSessions \in Nat \ {0}
    /\ Handlers \subseteq AllHandlers
    /\ IsFiniteSet(Sids)
    /\ {Anon, Absent, All, Some} \cap (Users \cup Sids) = {}
    /\ Users \cap Sids = {}
    /\ Anon # Absent /\ Anon # All /\ Absent # All /\ Some \notin {Anon, Absent, All}

VARIABLES
    store,     \* Redis sess:{sid}: Absent, or the userId inside (Anon if none)
    index,     \* Redis Set user-sessions:{userId}
    migrated,  \* Redis marker user-sessions:{userId}:migrated exists
    owner,     \* for whom a session id was generated; Absent: not generated
    pc,        \* where a request's handler is
    op,        \* its handler, its in-memory session and its target
    keys,      \* the handler's list of session keys
    todo,      \* keys SCAN has still to return, or keys found stale
    items,     \* toDelete of revokeSessionById and bulkRevokeSessions
    due        \* history: the sessions this lookup is answerable for

redis   == <<store, index, migrated>>
locals  == <<keys, todo, items>>
vars    == <<store, index, migrated, owner, pc, op, keys, todo, items, due>>

Contents == Users \cup {Anon}
Steps == {"idle", "regenerate", "save", "track", "marker", "scan", "mark",
          "members", "exists", "srem", "lookup", "evict", "del", "clear",
          "untrack", "destroy", "get", "delItem", "untrackItem", "end", "failed"}
Ops == [handler : AllHandlers, sid : Sids \cup {Absent}, user : Contents,
        target : Users \cup {All, Some, Anon} \cup Sids, dirty : BOOLEAN]
Items == [sid : Sids, user : Contents]

TypeOK ==
    /\ store \in [Sids -> Contents \cup {Absent}]
    /\ index \in [Users -> SUBSET Sids]
    /\ migrated \in [Users -> BOOLEAN]
    /\ owner \in [Sids -> Contents \cup {Absent}]
    /\ pc \in [Requests -> Steps]
    /\ op \in [Requests -> Ops]
    /\ keys \in [Requests -> SUBSET Sids]
    /\ todo \in [Requests -> SUBSET Sids]
    /\ items \in [Requests -> SUBSET Items]
    /\ due \in [Requests -> SUBSET Sids]

Live      == {s \in Sids : store[s] # Absent}
LiveOf(u) == {s \in Sids : store[s] = u}
Fresh     == {s \in Sids : owner[s] = Absent}

NoOp == [handler |-> "visit", sid |-> Absent, user |-> Anon, target |-> Anon,
         dirty |-> FALSE]

Init ==
    /\ store = [s \in Sids |-> Absent]
    /\ index = [u \in Users |-> {}]
    /\ migrated = [u \in Users |-> FALSE]
    /\ owner = [s \in Sids |-> Absent]
    /\ pc = [r \in Requests |-> "idle"]
    /\ op = [r \in Requests |-> NoOp]
    /\ keys = [r \in Requests |-> {}]
    /\ todo = [r \in Requests |-> {}]
    /\ items = [r \in Requests |-> {}]
    /\ due = [r \in Requests |-> {}]

(***************************************************************************)
(* Shorthands of the actions.  Delete and Untrack are DEL and SREM.        *)
(***************************************************************************)
At(r, step)   == pc[r] = step
Goto(r, step) == pc' = [pc EXCEPT ![r] = step]
\* Mutant of Delete: a tombstone in place of DEL.
DeleteByTombstone(S) == store' = [s \in Sids |-> IF s \in S THEN All ELSE store[s]]
Delete(S) == store' = [s \in Sids |-> IF s \in S THEN Absent ELSE store[s]]
Untrack(u, S) == index' = [index EXCEPT ![u] = @ \ S]
\* Mutant of Matches: the filter on the session's userId is dropped.
MatchesAnyone(target, content) == content # Absent
Matches(target, content) ==
    CASE target = All  -> content # Absent
      [] target = Some -> content \in Users
      [] OTHER         -> content = target

\* bulkRevokeSessions leaves the administrator's own session alone.
Scannable(h, s) == IF h = "bulkRevoke" THEN Live \ {s} ELSE Live

\* A key taken off an index while the session lives is lost to the lookups that
\* have not read the index yet.
Detach(S) == due' = [q \in Requests |->
                IF pc[q] \in {"scan", "mark", "members"}
                THEN due[q] \ S ELSE due[q]]

(***************************************************************************)
(* A request arrives: express-session loads the session its cookie names.  *)
(* Guarded handlers answer 401 to a session without userId and change      *)
(* nothing, so they arrive with an authenticated session only.  AuthGuard  *)
(* writes lastActive, which makes the session dirty; /api/csrf-token saves *)
(* any session.                                                            *)
(***************************************************************************)
Guarded == {"visit", "list", "revokeOthers", "revokeAll", "revokeById", "bulkRevoke"}

\* Whose sessions an endpoint is asked for: one's own, or, by the administrator,
\* anybody else's, any session, any set of them.
GetSecurity(user)          == {user} \cap Users
RevokeOtherSessions(user)  == {user} \cap Users
RevokeAllSessions(user)    == {user} \cap Users
ForceLogout(admin)         == IF admin \in Users THEN Users \ {admin} ELSE {}
RevokeSession(admin)       == IF admin \in Users THEN Sids \ Fresh ELSE {}
BulkRevokeSessions(admin)  == IF admin \in Users THEN Users \cup {All, Some} ELSE {}

Targets(h, user) ==
    CASE h = "visit"                    -> {user} \cap Users
      [] h = "list"                     -> GetSecurity(user)
      [] h \in {"csrfToken", "logout"}  -> {user}
      [] h = "login"                    -> Users
      [] h = "revokeOthers"             -> RevokeOtherSessions(user)
      [] h = "revokeAll"                -> RevokeAllSessions(user) \cup ForceLogout(user)
      [] h = "revokeById"               -> RevokeSession(user)
      [] h = "bulkRevoke"               -> BulkRevokeSessions(user)

\* The logout of an anonymous session only destroys it.
Logout(user) == IF user = Anon THEN "destroy" ELSE "untrack"

FirstStep(h, user) ==
    CASE h \in {"csrfToken", "visit"}                -> "end"
      [] h = "login"                                 -> "regenerate"
      [] h = "logout"                                -> Logout(user)
      [] h \in {"list", "revokeOthers", "revokeAll"} -> "marker"
      [] h = "revokeById"                            -> "get"
      [] h = "bulkRevoke"                            -> "scan"

Start(r, h, s, user, t) ==
    /\ At(r, "idle")
    /\ t \in Targets(h, user)
    /\ op' = [op EXCEPT ![r] = [handler |-> h, sid |-> s, user |-> user, target |-> t,
                                dirty |-> h \in Guarded \cup {"csrfToken"}]]
    /\ Goto(r, FirstStep(h, user))
    /\ todo' = [todo EXCEPT ![r] = IF h = "bulkRevoke" THEN Scannable(h, s) ELSE {}]
    /\ UNCHANGED <<redis, owner, keys, items, due>>

Arrive(r) ==
    \E h \in Handlers, s \in Live : \E t \in Targets(h, store[s]) :
        Start(r, h, s, store[s], t)

\* No cookie, or one whose session is gone: an empty in-memory session.
ArriveWithoutSession(r) ==
    \E h \in Handlers \cap {"csrfToken", "login"} : \E t \in Targets(h, Anon) :
        Start(r, h, Absent, Anon, t)

(***************************************************************************)
(* findTrackedSessionKeys(userId): index first, one SCAN per user as long  *)
(* as the migrated marker is missing.  The caller continues at AfterFind.  *)
(***************************************************************************)
AfterFind(r, found) ==
    LET h == op[r].handler IN
    CASE h = "revokeAll"    -> IF found = {} THEN "clear" ELSE "del"
      [] h = "revokeOthers" -> IF found \ {op[r].sid} = {} THEN "end" ELSE "del"
      [] h = "login"        -> IF Cardinality(found) <= MaxSessions THEN "end" ELSE "lookup"
      [] h = "list"         -> IF found = {} THEN "end" ELSE "lookup"
      [] OTHER              -> "end"

\* Mutant of CheckMarker: a user counts as migrated when the index is not empty.
CheckIndexForMarker(r) ==
    LET u == op[r].target IN
    /\ At(r, "marker")
    /\ Goto(r, IF index[u] # {} THEN "members" ELSE "scan")
    /\ due' = [due EXCEPT ![r] = IF migrated[u] THEN index[u] \cap Live ELSE LiveOf(u)]
    /\ todo' = [todo EXCEPT ![r] = IF index[u] # {} THEN {} ELSE Live]
    /\ UNCHANGED <<redis, owner, op, keys, items>>

\* EXISTS marker.  From here the lookup answers for every session of the user
\* that is findable: the live members of the index, or, before the migration,
\* every live session.
CheckMarker(r) ==
    LET u == op[r].target IN
    /\ At(r, "marker")
    /\ \/ /\ migrated[u]
          /\ Goto(r, "members")
          /\ due' = [due EXCEPT ![r] = index[u] \cap Live]
          /\ UNCHANGED todo
       \/ /\ ~migrated[u]
          /\ Goto(r, "scan")
          /\ due' = [due EXCEPT ![r] = LiveOf(u)]
          /\ todo' = [todo EXCEPT ![r] = Scannable(op[r].handler, op[r].sid)]
    /\ UNCHANGED <<redis, owner, op, keys, items>>

\* SCAN returns some key; the GET of its value decides.  Every key present when
\* the scan began is returned, one written since may be.  Which sessions have one of
\* the roles of a filter, or one of its userIds, is left open.
ScanKey(r) ==
    /\ At(r, "scan")
    /\ \E s \in todo[r] \cup Scannable(op[r].handler, op[r].sid) :
        /\ todo' = [todo EXCEPT ![r] = @ \ {s}]
        /\ \/ /\ ~Matches(op[r].target, store[s]) \/ op[r].target = Some
              /\ UNCHANGED <<keys, items>>
           \/ /\ Matches(op[r].target, store[s]) /\ op[r].handler = "bulkRevoke"
              /\ items' = [items EXCEPT ![r] = @ \cup {[sid |-> s, user |-> store[s]]}]
              /\ UNCHANGED keys
           \/ /\ Matches(op[r].target, store[s]) /\ op[r].handler # "bulkRevoke"
              /\ keys' = [keys EXCEPT ![r] = @ \cup {s}]
              /\ UNCHANGED items
    /\ UNCHANGED <<redis, owner, pc, op, due>>

\* Mutant of TrackScanned: what SCAN found is not put on the index.
TrackNothing(r) ==
    /\ At(r, "scan") /\ todo[r] = {} /\ op[r].handler # "bulkRevoke"
    /\ Goto(r, "mark")
    /\ UNCHANGED <<redis, owner, op, locals, due>>

\* SADD index scanned (skipped when nothing was found), EXPIRE index.
TrackScanned(r) ==
    /\ At(r, "scan") /\ todo[r] = {} /\ op[r].handler # "bulkRevoke"
    /\ index' = [index EXCEPT ![op[r].target] = @ \cup keys[r]]
    /\ Goto(r, "mark")
    /\ UNCHANGED <<store, migrated, owner, op, locals, due>>

SetMarker(r) ==
    /\ At(r, "mark")
    /\ migrated' = [migrated EXCEPT ![op[r].target] = TRUE]
    /\ Goto(r, "members")
    /\ UNCHANGED <<store, index, owner, op, locals, due>>

\* SMEMBERS
ReadMembers(r) ==
    LET members == index[op[r].target] IN
    /\ At(r, "members")
    /\ keys' = [keys EXCEPT ![r] = members]
    /\ Goto(r, IF members = {} THEN AfterFind(r, {}) ELSE "exists")
    /\ UNCHANGED <<redis, owner, op, todo, items, due>>

\* One pipeline of EXISTS: the members split into alive and stale.
CheckAlive(r) ==
    LET alive == keys[r] \cap Live
        stale == keys[r] \ Live
    IN
    /\ At(r, "exists")
    /\ keys' = [keys EXCEPT ![r] = alive]
    /\ todo' = [todo EXCEPT ![r] = stale]
    /\ Goto(r, IF stale = {} THEN AfterFind(r, alive) ELSE "srem")
    /\ UNCHANGED <<redis, owner, op, items, due>>

DropStale(r) ==
    /\ At(r, "srem")
    /\ Untrack(op[r].target, todo[r])
    /\ Detach(todo[r] \cap Live)
    /\ todo' = [todo EXCEPT ![r] = {}]
    /\ Goto(r, AfterFind(r, keys[r]))
    /\ UNCHANGED <<store, migrated, owner, op, keys, items>>

(***************************************************************************)
(* establishAuthenticatedSession: regenerate (the old session is           *)
(* destroyed, a new id is drawn and its fields are set in memory), save,   *)
(* SADD, then enforceSessionLimit.                                         *)
(***************************************************************************)
\* Mutant of Regenerate: the session keeps the id it had before the login.
KeepSessionId(r) ==
    /\ At(r, "regenerate") /\ op[r].sid # Absent
    /\ op' = [op EXCEPT ![r] = [@ EXCEPT !.user = op[r].target, !.dirty = TRUE]]
    /\ Goto(r, "save")
    /\ UNCHANGED <<redis, owner, locals, due>>

Regenerate(r) ==
    /\ At(r, "regenerate")
    /\ \E s \in Fresh :
        /\ Delete({op[r].sid})
        /\ owner' = [owner EXCEPT ![s] = op[r].target]
        /\ op' = [op EXCEPT ![r] = [@ EXCEPT !.sid = s, !.user = op[r].target,
                                             !.dirty = TRUE]]
    /\ Goto(r, "save")
    /\ UNCHANGED <<index, migrated, locals, due>>

SaveSession(r) ==
    /\ At(r, "save")
    /\ store' = [store EXCEPT ![op[r].sid] = op[r].user]
    /\ op' = [op EXCEPT ![r].dirty = FALSE]
    /\ Goto(r, "track")
    /\ UNCHANGED <<index, migrated, owner, locals, due>>

TrackSession(r) ==
    /\ At(r, "track")
    /\ index' = [index EXCEPT ![op[r].target] = @ \cup {op[r].sid}]
    /\ Goto(r, "marker")
    /\ UNCHANGED <<store, migrated, owner, op, locals, due>>

\* enforceSessionLimit, too many keys found: one pipeline of GET.
LookUpSessions(r) ==
    LET present == keys[r] \cap Live IN
    /\ At(r, "lookup") /\ op[r].handler = "login"
    /\ keys' = [keys EXCEPT ![r] = present]
    /\ Goto(r, IF Cardinality(present) <= MaxSessions THEN "end" ELSE "evict")
    /\ UNCHANGED <<redis, owner, op, todo, items, due>>

\* Mutant of EvictOldest: one session too few is evicted.
EvictOneLess(r) ==
    /\ At(r, "evict")
    /\ \E oldest \in SUBSET keys[r] :
        /\ Cardinality(oldest) = Cardinality(keys[r]) - MaxSessions - 1
        /\ Delete(oldest)
        /\ Untrack(op[r].target, oldest)
    /\ Goto(r, "end")
    /\ UNCHANGED <<migrated, owner, op, locals, due>>

\* DEL and SREM of the least recently active ones.  lastActive is not part of
\* the model: which ones are the oldest is left open.
EvictOldest(r) ==
    /\ At(r, "evict")
    /\ \E oldest \in SUBSET keys[r] :
        /\ Cardinality(oldest) = Cardinality(keys[r]) - MaxSessions
        /\ Delete(oldest)
        /\ Untrack(op[r].target, oldest)
    /\ Goto(r, "end")
    /\ UNCHANGED <<migrated, owner, op, locals, due>>

\* The callback of OIDC saves the new session once more before it redirects: with the
\* write at the end of the response.
SaveAgain(r) ==
    /\ At(r, "end") /\ op[r].handler = "login" /\ ~op[r].dirty
    /\ op' = [op EXCEPT ![r].dirty = TRUE]
    /\ UNCHANGED <<redis, owner, pc, locals, due>>

\* listUserSessions: the same pipeline for all keys found.
ListUserSessions(r) ==
    /\ At(r, "lookup") /\ op[r].handler = "list"
    /\ keys' = [keys EXCEPT ![r] = @ \cap Live]
    /\ Goto(r, "end")
    /\ UNCHANGED <<redis, owner, op, todo, items, due>>

(***************************************************************************)
(* revokeAllUserSessions and revokeOtherUserSessions after the lookup.     *)
(***************************************************************************)
DeleteAll(r) ==
    /\ At(r, "del") /\ op[r].handler = "revokeAll"
    /\ Delete(keys[r])
    /\ Goto(r, "clear")
    /\ UNCHANGED <<index, migrated, owner, op, locals, due>>

\* DEL index and marker.  The user's own revoke-all then destroys the session
\* of the request itself.
ClearTracking(r) ==
    LET u == op[r].target IN
    /\ At(r, "clear")
    /\ index' = [index EXCEPT ![u] = {}]
    /\ migrated' = [migrated EXCEPT ![u] = FALSE]
    /\ Detach(index[u] \cap Live)
    /\ Goto(r, IF u = op[r].user THEN "destroy" ELSE "end")
    /\ UNCHANGED <<store, owner, op, locals>>

\* Mutant of DeleteOthers: SREM without DEL.
UntrackOthers(r) ==
    /\ At(r, "del") /\ op[r].handler = "revokeOthers"
    /\ Untrack(op[r].target, keys[r] \ {op[r].sid})
    /\ Goto(r, "end")
    /\ UNCHANGED <<store, migrated, owner, op, locals, due>>

DeleteOthers(r) ==
    LET others == keys[r] \ {op[r].sid} IN
    /\ At(r, "del") /\ op[r].handler = "revokeOthers"
    /\ Delete(others)
    /\ Untrack(op[r].target, others)
    /\ Goto(r, "end")
    /\ UNCHANGED <<migrated, owner, op, locals, due>>

(***************************************************************************)
(* logoutSession: off the index first, then session.destroy().  A          *)
(* destroyed session is not written back at the end of the response.       *)
(***************************************************************************)
LogoutUntrack(r) ==
    /\ At(r, "untrack")
    /\ Untrack(op[r].user, {op[r].sid})
    /\ Detach({op[r].sid})
    /\ Goto(r, "destroy")
    /\ UNCHANGED <<store, migrated, owner, op, locals>>

DestroySession(r) ==
    /\ At(r, "destroy")
    /\ Delete({op[r].sid})
    /\ op' = [op EXCEPT ![r].dirty = FALSE]
    /\ Goto(r, "end")
    /\ UNCHANGED <<index, migrated, owner, locals, due>>

(***************************************************************************)
(* revokeSessionById and bulkRevokeSessions: an item is a key and the      *)
(* userId read from it; DEL and SREM are awaited one after the other.      *)
(***************************************************************************)
GetSession(r) ==
    LET s == op[r].target IN
    /\ At(r, "get")
    /\ IF store[s] = Absent
       THEN Goto(r, "end") /\ UNCHANGED items
       ELSE /\ items' = [items EXCEPT ![r] = {[sid |-> s, user |-> store[s]]}]
            /\ Goto(r, "delItem")
    /\ UNCHANGED <<redis, owner, op, keys, todo, due>>

BulkScanned(r) ==
    /\ At(r, "scan") /\ todo[r] = {} /\ op[r].handler = "bulkRevoke"
    /\ Goto(r, IF items[r] = {} THEN "end" ELSE "delItem")
    /\ UNCHANGED <<redis, owner, op, locals, due>>

\* Mutant of DeleteItem: the session is written back to be expired, not deleted.
RewriteItem(r) ==
    /\ At(r, "delItem")
    /\ \E i \in items[r] :
        /\ store' = [store EXCEPT ![i.sid] = i.user]
        /\ keys' = [keys EXCEPT ![r] = {i.sid}]
    /\ Goto(r, "untrackItem")
    /\ UNCHANGED <<index, migrated, owner, op, todo, items, due>>

DeleteItem(r) ==
    /\ At(r, "delItem")
    /\ \E i \in items[r] : 
        /\ Delete({i.sid})
        /\ keys' = [keys EXCEPT ![r] = {i.sid}]
    /\ Goto(r, "untrackItem")
    /\ UNCHANGED <<index, migrated, owner, op, todo, items, due>>

UntrackItem(r) ==
    /\ At(r, "untrackItem")
    /\ \E i \in items[r] : 
        /\ i.sid \in keys[r]
        /\ index' = [u \in Users |-> IF u = i.user THEN index[u] \ {i.sid} ELSE index[u]]
        /\ Detach({i.sid} \cap Live)
        /\ items' = [items EXCEPT ![r] = @ \ {i}]
        /\ Goto(r, IF items[r] = {i} THEN "end" ELSE "delItem")
    /\ UNCHANGED <<store, migrated, owner, op, keys, todo>>

(***************************************************************************)
(* The end of the response (express-session): a session that was changed   *)
(* and not destroyed is written with an unconditional SET, whether or not  *)
(* its key still exists; a session without an id yet gets a fresh one.     *)
(***************************************************************************)
ForgetLocals(r) ==
    /\ keys' = [keys EXCEPT ![r] = {}]
    /\ todo' = [todo EXCEPT ![r] = {}]
    /\ items' = [items EXCEPT ![r] = {}]

Forget(r) ==
    /\ Goto(r, "idle")
    /\ op' = [op EXCEPT ![r] = NoOp]
    /\ ForgetLocals(r)

EndResponse(r) ==
    /\ pc[r] \in {"end", "failed"}
    /\ Forget(r)
    /\ LET s == op[r].sid IN
       \/ /\ ~op[r].dirty
          /\ due' = [due EXCEPT ![r] = {}]
          /\ UNCHANGED <<store, owner>>
       \/ /\ op[r].dirty /\ s # Absent
          /\ store' = [store EXCEPT ![s] = op[r].user]
          /\ due' = [q \in Requests |->
                        IF q = r THEN {}
                        ELSE IF store[s] = Absent THEN due[q] \ {s} ELSE due[q]]
          /\ UNCHANGED owner
       \/ /\ op[r].dirty /\ s = Absent
          /\ \E new \in Fresh :
                /\ store' = [store EXCEPT ![new] = op[r].user]
                /\ owner' = [owner EXCEPT ![new] = op[r].user]
          /\ due' = [due EXCEPT ![r] = {}]
    /\ UNCHANGED <<index, migrated>>

\* An awaited command rejects: the handler is abandoned where it is, the error
\* response ends like any other.
Throw(r) ==
    /\ "throw" \in Faults
    /\ pc[r] \notin {"idle", "end", "failed"}
    /\ Goto(r, "failed")
    /\ ForgetLocals(r)
    /\ due' = [due EXCEPT ![r] = {}]
    /\ UNCHANGED <<redis, owner, op>>

\* The API process dies, or the write at the end of the response fails.
Crash(r) ==
    /\ "crash" \in Faults
    /\ ~At(r, "idle")
    /\ Forget(r)
    /\ due' = [due EXCEPT ![r] = {}]
    /\ UNCHANGED <<redis, owner>>

(***************************************************************************)
(* Redis key expiry.  The TTL of the index is set by the logins and the    *)
(* migration, that of a session by every save: an index may lapse before   *)
(* the sessions on it.                                                     *)
(***************************************************************************)
SessionExpires ==
    /\ "expiry" \in Faults
    /\ \E s \in Live : Delete({s})
    /\ UNCHANGED <<index, migrated, owner, pc, op, locals, due>>

MarkerExpires ==
    /\ "expiry" \in Faults
    /\ \E u \in Users : migrated[u] /\ migrated' = [migrated EXCEPT ![u] = FALSE]
    /\ UNCHANGED <<store, index, owner, pc, op, locals, due>>

IndexExpires ==
    /\ "expiry" \in Faults
    /\ \E u \in Users :
        /\ index[u] # {}
        /\ index' = [index EXCEPT ![u] = {}]
        /\ Detach(index[u] \cap Live)
    /\ UNCHANGED <<store, migrated, owner, pc, op, locals>>

Find(r) == \/ CheckMarker(r) \/ ScanKey(r) \/ TrackScanned(r) \/ SetMarker(r)
           \/ ReadMembers(r) \/ CheckAlive(r) \/ DropStale(r) \/ ListUserSessions(r)
Login(r) == \/ Regenerate(r) \/ SaveSession(r) \/ TrackSession(r)
            \/ LookUpSessions(r) \/ EvictOldest(r) \/ SaveAgain(r)
Revoke(r) == \/ DeleteAll(r) \/ ClearTracking(r) \/ DeleteOthers(r)
             \/ LogoutUntrack(r) \/ DestroySession(r)
             \/ GetSession(r) \/ BulkScanned(r) \/ DeleteItem(r) \/ UntrackItem(r)

Next ==
    \/ \E r \in Requests : \/ Arrive(r) \/ ArriveWithoutSession(r)
                           \/ Find(r) \/ Login(r) \/ Revoke(r)
                           \/ EndResponse(r) \/ Throw(r) \/ Crash(r)
    \/ SessionExpires \/ MarkerExpires \/ IndexExpires

Spec == Init /\ [][Next]_vars

-----------------------------------------------------------------------------
(***************************************************************************)
(* Properties                                                              *)
(***************************************************************************)

\* A session id belongs for ever to the one it was generated for: whatever is
\* stored under it or held in memory by a request is that owner's, so an id
\* handed out before authentication never becomes an authenticated session
\* (session fixation), and the index of a user, and the list a revocation or
\* the session limit works on, hold nobody else's sessions.
StoredOwned  == \A s \in Live : store[s] = owner[s]
IndexOwned   == \A u \in Users : \A s \in index[u] : owner[s] = u
HeldOwned    == \A r \in Requests : op[r].sid # Absent => owner[op[r].sid] = op[r].user
KeysOwned    == \A r \in Requests : 
                   op[r].handler \in {"login", "list", "revokeOthers", "revokeAll"} =>
                      \A s \in keys[r] : owner[s] = op[r].target
ItemsOwned   == \A r \in Requests : \A i \in items[r] : owner[i.sid] = i.user
OwnershipInv == StoredOwned /\ IndexOwned /\ HeldOwned /\ KeysOwned /\ ItemsOwned

\* revokeAllUserSessions that reaches its end has removed every session it
\* could find when it began.  The exceptions are exactly those `due` forgets:
\* a session written again meanwhile by a request that had loaded it, and one
\* that another handler took off the index before the SMEMBERS.
RevokeAllSweeps ==
    \A r \in Requests :
        /\ op[r].handler = "revokeAll"
        /\ pc[r] \in {"clear", "destroy", "end"}
        => due[r] \cap Live = {}

\* revokeOtherUserSessions, under the same exceptions, spares at most the
\* session of the request itself.
RevokeOthersSweeps ==
    \A r \in Requests :
        (op[r].handler = "revokeOthers" /\ At(r, "end")) => due[r] \cap Live \subseteq {op[r].sid}

\* A login that runs to its end leaves at most MaxSessions of the sessions the
\* user had when enforceSessionLimit looked, its own included.
LoginKeepsLimit ==
    \A r \in Requests :
        (op[r].handler = "login" /\ At(r, "end")) => Cardinality(due[r] \cap Live) <= MaxSessions

\* The security overview shows every findable session that is still alive.
OverviewComplete ==
    \A r \in Requests :
        (op[r].handler = "list" /\ At(r, "end")) => due[r] \cap Live \subseteq keys[r]

\* A step that makes a session disappear is its expiry, or the step of a
\* request that is revoking that owner's sessions, that session, or its own.
Targeted(r, s) ==
    \/ op[r].sid = s
    \/ op[r].target \in {s, owner[s], All}
    \/ op[r].target = Some /\ owner[s] \in Users
SessionsLostByTarget ==
    [][\A s \in Live : store'[s] = Absent =>
          \/ pc' = pc
          \/ \E r \in Requests : pc'[r] # pc[r] /\ Targeted(r, s)]_vars

\* A revoked id is finally dead once no request in flight holds a copy of its
\* session: from then on nothing brings it back.
Holds(r, s) == pc[r] # "idle" /\ op[r].sid = s
RevivedOnlyByHolder ==
    [][\A s \in Sids : 
          (owner[s] # Absent /\ store[s] = Absent /\ ~\E r \in Requests : Holds(r, s))
             => store'[s] = Absent]_vars

\* So index, marker, scans and pipelines are invisible to whoever reads a session:
\* sessions behave like a registry in which an id is drawn once for one owner and only
\* a holder of a copy writes it.  RevivedOnlyByHolder and StoredOwned are what this
\* means for a single id.
Copies   == [r \in Requests |-> op[r].sid]
Registry == INSTANCE SessionRegistry WITH Owners <- Contents, None <- Absent, copy <- Copies
ImplementsRegistry == Registry!Spec

=============================================================================
