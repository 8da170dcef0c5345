---------------------------- MODULE AccessControl ----------------------------
(***************************************************************************)
(* Who is let in: validateSession and the guards that run before a handler *)
(* (StatusGuard, AuthGuard, AdminGuard, StepUpGuard, and the middleware in *)
(* front of the Bull Board), over a session that caches role and status    *)
(* for VerifyInterval, against an administrator who changes them in the    *)
(* database.                                                               *)
(*                                                                         *)
(* A request works on the copy of the session it loaded on arrival and     *)
(* writes the whole copy back when its response ends.  Code between two    *)
(* awaits takes no time; the clock moves while a request waits.            *)
(***************************************************************************)
EXTENDS Naturals

CONSTANTS
    Users, Sids, Requests,
    Kinds,           \* the endpoints a run calls
    Roles, Statuses, \* the roles and statuses of a run
    NoSession,       \* no session stored under the id
    VerifyInterval,  \* USER_VERIFY_INTERVAL_MS
    AbsoluteTtl,     \* ABSOLUTE_TTL_MS
    StepUpWindow,    \* STEP_UP_WINDOW_MS
    Latency,         \* bound on validateSession's database query
    Epoch, MaxTime   \* bounds of the clock; 0 stands for null timestamps

AllRoles    == {"USER", "OPERATOR", "ADMIN"}
AllStatuses == {"UNVERIFIED", "PENDING_REVIEW", "VERIFIED", "REJECTED", "BLOCKED", "DELETED"}
HardBlocked == {"BLOCKED", "DELETED"}

\* me: AuthGuard on an exempt path.  stepUp: the same, POST step-up/verify.
\* admin: a path of the administrators.  queues: the Bull Board middleware.
\* meSensitive, adminSensitive: the same with StepUpGuard.
AllKinds      == {"me", "meSensitive", "stepUp", "admin", "adminSensitive", "queues"}
BusinessKinds == {"admin", "adminSensitive"}
AdminKinds    == {"admin", "adminSensitive", "queues"}
StepUpKinds   == {"meSensitive", "adminSensitive"}

ASSUME AccessAssumption ==
    /\ Kinds \subseteq AllKinds /\ Roles \subseteq AllRoles /\ Statuses \subseteq AllStatuses
    /\ Users # {} /\ Sids # {}
    /\ VerifyInterval \in Nat /\ AbsoluteTtl \in Nat /\ StepUpWindow \in Nat
    /\ Latency \in Nat /\ Epoch \in Nat /\ MaxTime \in Nat
    /\ VerifyInterval < Epoch

Time == Nat
Contents == [role : AllRoles, status : AllStatuses \cup {""}, verifiedAt : Time,
             createdAt : Time, stepUpAt : Time]
ASSUME NoSessionAssumption == NoSession \notin Contents /\ NoSession \notin Users \cup Sids

VARIABLES
    now,      \* Date.now() of the API process
    user,     \* the User row: role and status
    store,    \* Redis: the session under an id
    born,     \* history: whose session an id is and when its login was
    proved,   \* history: the latest step-up verification of a session
    since,    \* history: since when a user has been blocked, no admin
    pc,       \* where a request is
    req       \* its endpoint, session id, copy of the session, and what it read

vars == <<now, user, store, born, proved, since, pc, req>>

Rows  == [role : AllRoles, status : AllStatuses]
Reqs  == [kind : AllKinds, sid : Sids, copy : Contents, row : Rows,
          asked : Time,       \* when validateSession sent its query
          admitted : Time,    \* when the guards let the request in
          dirty : BOOLEAN]    \* the copy was changed
NobodyYet == [user |-> CHOOSE u \in Users : TRUE, at |-> 0]

TypeOK ==
    /\ now \in Time
    /\ user \in [Users -> Rows]
    /\ store \in [Sids -> Contents \cup {NoSession}]
    /\ born \in [Sids -> [user : Users, at : Time]]
    /\ proved \in [Sids -> Time]
    /\ since \in [Users -> [blocked : Time, noAdmin : Time]]
    /\ pc \in [Requests -> {"idle", "read", "resume", "handler", "destroy", "end"}]
    /\ req \in [Requests -> Reqs]

BlankContent == [role |-> "USER", status |-> "", verifiedAt |-> 0, createdAt |-> 0,
                 stepUpAt |-> 0]
NoRequest == [kind |-> "me", sid |-> CHOOSE s \in Sids : TRUE, copy |-> BlankContent,
              row |-> [role |-> "USER", status |-> "UNVERIFIED"], asked |-> 0,
              admitted |-> 0, dirty |-> FALSE]

\* since[u] after the row of u has become row: 0 where the condition is false.
Onset(holds, old) == IF ~holds THEN 0 ELSE IF old = 0 THEN now ELSE old
SinceNow(u, row) ==
    [blocked  |-> Onset(row.status \in HardBlocked, since[u].blocked),
     noAdmin  |-> Onset(row.role # "ADMIN", since[u].noAdmin)]

Init ==
    /\ now = Epoch
    /\ user \in [Users -> [role : Roles, status : Statuses \cap {"UNVERIFIED", "VERIFIED"}]]
    /\ store = [s \in Sids |-> NoSession]
    /\ born = [s \in Sids |-> NobodyYet]
    /\ proved = [s \in Sids |-> 0]
    /\ since = [u \in Users |->
                  [blocked  |-> 0,
                   noAdmin  |-> IF user[u].role # "ADMIN" THEN Epoch ELSE 0]]
    /\ pc = [r \in Requests |-> "idle"]
    /\ req = [r \in Requests |-> NoRequest]

\* The clock.  Latency bounds the wait for the user row and nothing else.
Tick ==
    /\ now < MaxTime
    /\ \A r \in Requests : pc[r] \in {"read", "resume"} => now < req[r].asked + Latency
    /\ now' = now + 1
    /\ UNCHANGED <<user, store, born, proved, since, pc, req>>

(***************************************************************************)
(* The session of a login (establishAuthenticatedSession).  The role comes *)
(* from a row read earlier in the login, so it may be out of date; nothing *)
(* keeps a blocked user from logging in.                                   *)
(***************************************************************************)
Login(u) ==
    /\ \E s \in Sids, role \in Roles :
        /\ born[s].at = 0
        /\ store' = [store EXCEPT ![s] =
                        [BlankContent EXCEPT !.role = role, !.createdAt = now]]
        /\ born' = [born EXCEPT ![s] = [user |-> u, at |-> now]]
    /\ UNCHANGED <<now, user, proved, since, pc, req>>

(***************************************************************************)
(* The guards.                                                             *)
(***************************************************************************)
Continue(r, step, request) ==
    /\ pc' = [pc EXCEPT ![r] = step]
    /\ req' = [req EXCEPT ![r] = request]

\* Mutant of StepUpDone: any step-up will do, however old.
StepUpEver(content) == content.stepUpAt # 0
StepUpDone(content) ==
    content.stepUpAt # 0 /\ now - content.stepUpAt <= StepUpWindow

\* What is left of a request that was let in, and of one that was not or has been served.
LetIn(request)   == [request EXCEPT !.row = NoRequest.row, !.asked = 0, !.admitted = now]
Leaving(request) == [NoRequest EXCEPT !.sid = request.sid, !.copy = request.copy,
                                      !.dirty = request.dirty]

\* userRole and isAdmin are one field: validateSession writes both.  The Bull Board
\* asks for isAdmin only.
AdminAllows(content) == content.role = "ADMIN"
BoardAllows(content) == content.role = "ADMIN"

\* validateSession succeeded: AuthGuard sets lastActive (the Bull Board does
\* not), then AdminGuard and StepUpGuard decide.
PassAuth(r, request) ==
    LET marked  == [request EXCEPT !.dirty = @ \/ request.kind # "queues"]
        allowed == /\ request.kind \in BusinessKinds => AdminAllows(request.copy)
                   /\ request.kind = "queues" => BoardAllows(request.copy)
                   /\ request.kind \in StepUpKinds => StepUpDone(request.copy)
    IN IF allowed
       THEN Continue(r, "handler", LetIn(marked))
       ELSE Continue(r, "end", Leaving(marked))

\* StatusGuard is global and comes before AuthGuard: it sees the cached status,
\* and a session without one passes.
StatusRefuses(kind, content) ==
    kind \in BusinessKinds /\ content.status \notin {"", "VERIFIED"}
\* Mutant of Expired: measured from the latest verification.
ExpiredIdle(content) == content.verifiedAt # 0 /\ now - content.verifiedAt > AbsoluteTtl
Expired(content) == now - content.createdAt > AbsoluteTtl
MustVerify(content) == now - content.verifiedAt > VerifyInterval

Arrive(r) ==
    /\ pc[r] = "idle"
    /\ \E s \in Sids, kind \in Kinds :
        /\ store[s] # NoSession
        /\ LET request == [NoRequest EXCEPT !.kind = kind, !.sid = s, !.copy = store[s]]
           IN \/ /\ StatusRefuses(kind, store[s])
                 /\ Continue(r, "end", Leaving(request))
              \/ /\ ~StatusRefuses(kind, store[s]) /\ Expired(store[s])
                 /\ Continue(r, "destroy", Leaving(request))
              \/ /\ ~StatusRefuses(kind, store[s]) /\ ~Expired(store[s])
                 /\ IF MustVerify(store[s])
                    THEN Continue(r, "read", [request EXCEPT !.asked = now])
                    ELSE PassAuth(r, request)
    /\ UNCHANGED <<now, user, store, born, proved, since>>

\* prisma.user.findUnique: the row as the database has it now.
ReadUser(r) ==
    /\ pc[r] = "read"
    /\ Continue(r, "resume", [req[r] EXCEPT !.row = user[born[req[r].sid].user]])
    /\ UNCHANGED <<now, user, store, born, proved, since>>

\* The query is rejected, and so is the request.
ReadFails(r) ==
    /\ pc[r] = "read"
    /\ Continue(r, "end", Leaving(req[r]))
    /\ UNCHANGED <<now, user, store, born, proved, since>>

\* Mutants of Resume: the status is cached, a blocked one is not turned away; the role
\* stays that of the login.
ResumeCacheOnly(r) ==
    /\ pc[r] = "resume"
    /\ PassAuth(r, [req[r] EXCEPT !.copy.role = req[r].row.role,
                                  !.copy.status = req[r].row.status,
                                  !.copy.verifiedAt = now, !.dirty = TRUE])
    /\ UNCHANGED <<now, user, store, born, proved, since>>

ResumeStatusOnly(r) ==
    /\ pc[r] = "resume"
    /\ IF req[r].row.status \in HardBlocked
       THEN Continue(r, "destroy", Leaving(req[r]))
       ELSE PassAuth(r, [req[r] EXCEPT !.copy.status = req[r].row.status,
                                       !.copy.verifiedAt = now, !.dirty = TRUE])
    /\ UNCHANGED <<now, user, store, born, proved, since>>

\* The await is over: role and status are cached, a blocked user's session is
\* destroyed, and userVerifiedAt is the time of now, not of the query.
Resume(r) ==
    /\ pc[r] = "resume"
    /\ IF req[r].row.status \in HardBlocked
       THEN Continue(r, "destroy", Leaving(req[r]))
       ELSE PassAuth(r, [req[r] EXCEPT !.copy.role = req[r].row.role,
                                       !.copy.status = req[r].row.status,
                                       !.copy.verifiedAt = now, !.dirty = TRUE])
    /\ UNCHANGED <<now, user, store, born, proved, since>>

(***************************************************************************)
(* After the guards.                                                       *)
(***************************************************************************)
\* POST step-up/verify with a valid code: the copy is marked and saved at once.
StepUpVerify(r) ==
    LET marked == [req[r].copy EXCEPT !.stepUpAt = now] IN
    /\ pc[r] = "handler" /\ req[r].kind = "stepUp"
    /\ store' = [store EXCEPT ![req[r].sid] = marked]
    /\ proved' = [proved EXCEPT ![req[r].sid] = now]
    /\ Continue(r, "end", [Leaving(req[r]) EXCEPT !.copy = marked, !.dirty = FALSE])
    /\ UNCHANGED <<now, user, born, since>>

\* Mutant of DestroySession: the session is marked instead of deleted.
MarkDestroyed(r) ==
    /\ pc[r] = "destroy"
    /\ store' = [store EXCEPT ![req[r].sid] = [req[r].copy EXCEPT !.status = "DESTROYED"]]
    /\ Continue(r, "idle", NoRequest)
    /\ UNCHANGED <<now, user, born, proved, since>>

DestroySession(r) ==
    /\ pc[r] = "destroy"
    /\ store' = [store EXCEPT ![req[r].sid] = NoSession]
    /\ Continue(r, "idle", NoRequest)
    /\ UNCHANGED <<now, user, born, proved, since>>

\* express-session writes a changed copy back, whatever is there by now.
EndResponse(r) ==
    /\ pc[r] \in {"handler", "end"}
    /\ store' = IF req[r].dirty THEN [store EXCEPT ![req[r].sid] = req[r].copy] ELSE store
    /\ Continue(r, "idle", NoRequest)
    /\ UNCHANGED <<now, user, born, proved, since>>

\* Redis drops a session, or a revocation of another kind deletes it.
SessionEnds ==
    /\ \E s \in Sids : store[s] # NoSession /\ store' = [store EXCEPT ![s] = NoSession]
    /\ UNCHANGED <<now, user, born, proved, since, pc, req>>

(***************************************************************************)
(* The administrator.  blockUser and changeUserRole update the row and     *)
(* then revoke all sessions of the user; of the sessions it can find, that *)
(* is what SessionLifecycle establishes.                                   *)
(***************************************************************************)
SetUser(u, row) ==
    /\ user' = [user EXCEPT ![u] = row]
    /\ since' = [since EXCEPT ![u] = SinceNow(u, row)]
    /\ UNCHANGED <<now, store, born, proved, pc, req>>

BlockUser(u) ==
    /\ "BLOCKED" \in Statuses
    /\ user[u].status \notin HardBlocked
    /\ SetUser(u, [user[u] EXCEPT !.status = "BLOCKED"])

\* The last step of GdprService.eraseUser, whose revocation came first.
EraseUser(u) ==
    /\ "DELETED" \in Statuses
    /\ SetUser(u, [user[u] EXCEPT !.status = "DELETED"])

ChangeUserRole(u) == \E role \in Roles : SetUser(u, [user[u] EXCEPT !.role = role])

\* unblockUser, verifyUser, a review or a submitted profile: none of them asks
\* whether the user is blocked but the first.
ChangeStatus(u) ==
    \E status \in Statuses \cap {"PENDING_REVIEW", "VERIFIED", "REJECTED"} :
        SetUser(u, [user[u] EXCEPT !.status = status])

\* revokeAllUserSessions, called by blockUser, changeUserRole and others.
RevokeSessions(u) ==
    /\ store' = [s \in Sids |-> IF born[s].user = u THEN NoSession ELSE store[s]]
    /\ UNCHANGED <<now, user, born, proved, since, pc, req>>

Next ==
    \/ Tick \/ SessionEnds
    \/ \E u \in Users : \/ Login(u) \/ BlockUser(u) \/ EraseUser(u)
                        \/ ChangeUserRole(u) \/ ChangeStatus(u) \/ RevokeSessions(u)
    \/ \E r \in Requests : \/ Arrive(r) \/ ReadUser(r) \/ ReadFails(r) \/ Resume(r)
                           \/ StepUpVerify(r) \/ DestroySession(r) \/ EndResponse(r)

Spec == Init /\ [][Next]_vars

-----------------------------------------------------------------------------
Served(r)  == pc[r] = "handler"
UserOf(r)  == born[req[r].sid].user

\* However often a blocked user's sessions are revoked, written back by requests
\* in flight, or logged in anew: none of their requests is let in later than
\* VerifyInterval, plus one query, after the block.
BlockedExposureBounded ==
    \A r \in Requests :
        LET b == since[UserOf(r)].blocked IN
        Served(r) /\ b # 0 => req[r].admitted <= b + VerifyInterval + Latency

\* The same for the administrators' endpoints after a demotion, the Bull Board
\* included.
DemotedExposureBounded ==
    \A r \in Requests :
        LET d == since[UserOf(r)].noAdmin IN
        Served(r) /\ req[r].kind \in AdminKinds /\ d # 0
            => req[r].admitted <= d + VerifyInterval + Latency

\* No activity extends a session: nothing is let in later than AbsoluteTtl, plus
\* one query, after the login.
LifetimeBounded ==
    \A r \in Requests :
        Served(r) => req[r].admitted <= born[req[r].sid].at + AbsoluteTtl + Latency

\* A sensitive operation is let in only by a step-up verification that this very
\* session completed within StepUpWindow.
StepUpFresh ==
    \A r \in Requests :
        Served(r) /\ req[r].kind \in StepUpKinds =>
            /\ proved[req[r].sid] # 0
            /\ req[r].admitted <= proved[req[r].sid] + StepUpWindow

\* What the guards take the session service for is what it is: the sessions here obey
\* the same registry that SessionLifecycle implements, in which a session that was
\* destroyed or revoked comes back only by a request that had loaded it.
Owner    == [s \in Sids |-> IF born[s].at = 0 THEN NoSession ELSE born[s].user]
Stored   == [s \in Sids |-> IF store[s] = NoSession THEN NoSession ELSE born[s].user]
Copies   == [r \in Requests |-> IF pc[r] = "idle" THEN NoSession ELSE req[r].sid]
Registry == INSTANCE SessionRegistry
                WITH Owners <- Users, None <- NoSession, owner <- Owner, store <- Stored,
                     copy <- Copies
ImplementsRegistry == Registry!Spec

=============================================================================
