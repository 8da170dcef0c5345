------------------------------- MODULE Gateway -------------------------------
(***************************************************************************)
(* What a request passes before the router: the maintenance middleware     *)
(* with its cache of the flag in each API process, then one rate limiter   *)
(* after the other, each a sorted set in Redis under group and client.     *)
(*                                                                         *)
(* Code between two awaits takes no time.  A wait for Redis takes at most  *)
(* Latency, ioredis's retries included; the processes share one host's     *)
(* clock.                                                                  *)
(***************************************************************************)
EXTENDS Integers, Sequences, FiniteSets

CONSTANTS
    Requests, Clients,  \* a client is an IP address, by its hash
    Servers,            \* API processes
    Kinds,              \* the kinds of requests a run makes
    LimitOf, WindowOf,  \* RATE_LIMIT_{GROUP}_MAX and RATE_LIMIT_{GROUP}_WINDOW
    CacheTtl,           \* CACHE_TTL_MS
    Latency,            \* bound on a wait for Redis
    Epoch, MaxTime      \* bounds of the clock; 0 stands for never

\* The limiters a kind of request meets, in the order in which main.ts installs them;
\* "admin-session" is a request for an ordinary path in an administrator's session.
Groups == {"totp", "totp-setup", "passkey-login", "auth", "admin", "global"}
GroupsOf(kind) ==
    IF kind = "totp" THEN <<"totp", "auth", "global">>
    ELSE IF kind = "totp-setup" THEN <<"totp-setup", "auth", "global">>
    ELSE IF kind = "passkey" THEN <<"passkey-login", "auth", "global">>
    ELSE IF kind = "auth" THEN <<"auth", "global">>
    ELSE IF kind = "admin" THEN <<"admin", "global">>
    ELSE IF kind \in {"skipped", "health"} THEN <<>>
    ELSE <<"global">>
AllKinds == {"totp", "totp-setup", "passkey", "auth", "admin", "api", "admin-session",
             "skipped", "health"}
AuthGroups == {"auth", "totp", "totp-setup", "passkey-login"}
Exempt     == AllKinds \ {"api", "health"}  \* from maintenance

ASSUME GatewayAssumption ==
    /\ IsFiniteSet(Requests) /\ Kinds \subseteq AllKinds
    /\ LimitOf \in [Groups -> Nat] /\ WindowOf \in [Groups -> Nat]
    /\ CacheTtl \in Nat /\ Latency \in Nat /\ Epoch \in Nat /\ MaxTime \in Nat
    /\ CacheTtl < Epoch /\ Servers # {} /\ Clients # {}

Time == Nat
Keys == Groups \X Clients

VARIABLES
    now,         \* Date.now()
    flag,        \* Redis: is system:maintenance set
    since,       \* history: since when flag has its value
    cache,       \* cachedData and cachedAt of a process
    zset,        \* Redis: the scores in rl:{group}:{client}; 0 for no member
    expireAt,    \* when the key expires
    admittedAt,  \* history: when a request was counted and let through
    pc, req      \* where a request is; what it is and knows

vars == <<now, flag, since, cache, zset, expireAt, admittedAt, pc, req>>

Reqs == [server : Servers, client : Clients, kind : AllKinds,
         asked : Time,     \* the clock at its latest query
         got : BOOLEAN,    \* the flag it read
         gate : 0 .. 4]    \* the limiter it waits for, by its position
Answered == {"passed", "limited", "unavailable", "maintenance"}

TypeOK ==
    /\ now \in Time /\ since \in Time /\ flag \in BOOLEAN
    /\ cache \in [Servers -> [value : BOOLEAN, at : Time]]
    /\ zset \in [Keys -> [Requests -> Time]]
    /\ expireAt \in [Keys -> Time]
    /\ admittedAt \in [Keys -> [Requests -> Time]]
    /\ pc \in [Requests -> {"new", "fetch", "fetched", "pipeline"} \cup Answered]
    /\ req \in [Requests -> Reqs]

NoRequest == [server |-> CHOOSE s \in Servers : TRUE, client |-> CHOOSE c \in Clients : TRUE,
              kind |-> "skipped", asked |-> 0, got |-> FALSE, gate |-> 0]
Empty == [r \in Requests |-> 0]

Init ==
    /\ now = Epoch /\ since = Epoch /\ flag \in BOOLEAN
    /\ cache = [s \in Servers |-> [value |-> FALSE, at |-> 0]]
    /\ zset = [k \in Keys |-> Empty]
    /\ expireAt = [k \in Keys |-> 0]
    /\ admittedAt = [k \in Keys |-> Empty]
    /\ pc = [r \in Requests |-> "new"]
    /\ req = [r \in Requests |-> NoRequest]

Tick ==
    /\ now < MaxTime
    /\ \A r \in Requests : pc[r] \in {"fetch", "fetched", "pipeline"} =>
          now < req[r].asked + Latency
    /\ now' = now + 1
    /\ UNCHANGED <<flag, since, cache, zset, expireAt, admittedAt, pc, req>>

\* POST admin/maintenance: setJson, or del.
Toggle ==
    /\ flag' = ~flag /\ since' = now
    /\ UNCHANGED <<now, cache, zset, expireAt, admittedAt, pc, req>>

Answer(r, how) ==
    /\ pc' = [pc EXCEPT ![r] = how]
    /\ req' = [req EXCEPT ![r] = NoRequest]

(***************************************************************************)
(* next(): the limiter at position gate reads the clock and sends its      *)
(* pipeline; after the last one the request is with the router.            *)
(***************************************************************************)
Proceed(r, request, gate) ==
    IF gate > Len(GroupsOf(request.kind))
    THEN Answer(r, "passed")
    ELSE /\ pc' = [pc EXCEPT ![r] = "pipeline"]
         /\ req' = [req EXCEPT ![r] = [request EXCEPT !.gate = gate, !.asked = now,
                                                     !.got = FALSE]]

StaleWhileOff(s) == ~cache[s].value /\ now > cache[s].at + CacheTtl  \* mutant
Stale(s) == now > cache[s].at + CacheTtl

DecideMaintenance(r, request, enabled) ==
    IF enabled /\ request.kind \notin Exempt
    THEN Answer(r, "maintenance")
    ELSE Proceed(r, request, 1)

Arrive(r) ==
    /\ pc[r] = "new"
    /\ \E s \in Servers, c \in Clients, kind \in Kinds :
          LET request == [NoRequest EXCEPT !.server = s, !.client = c, !.kind = kind,
                                           !.asked = now] IN
          IF Stale(s)
          THEN /\ pc' = [pc EXCEPT ![r] = "fetch"]
               /\ req' = [req EXCEPT ![r] = request]
          ELSE DecideMaintenance(r, request, cache[s].value)
    /\ UNCHANGED <<now, flag, since, cache, zset, expireAt, admittedAt>>

Fetch(r) ==
    /\ pc[r] = "fetch"
    /\ pc' = [pc EXCEPT ![r] = "fetched"]
    /\ req' = [req EXCEPT ![r].got = flag]
    /\ UNCHANGED <<now, flag, since, cache, zset, expireAt, admittedAt>>

\* Mutant: the cache takes the time at which the answer arrived.
FetchedNow(r) ==
    /\ pc[r] = "fetched"
    /\ cache' = [cache EXCEPT ![req[r].server] = [value |-> req[r].got, at |-> now]]
    /\ DecideMaintenance(r, req[r], req[r].got)
    /\ UNCHANGED <<now, flag, since, zset, expireAt, admittedAt>>

\* The cache takes the time from before the query.
Fetched(r) ==
    /\ pc[r] = "fetched"
    /\ cache' = [cache EXCEPT ![req[r].server] = [value |-> req[r].got, at |-> req[r].asked]]
    /\ DecideMaintenance(r, req[r], req[r].got)
    /\ UNCHANGED <<now, flag, since, zset, expireAt, admittedAt>>

\* catch: the request is let through.
FetchFails(r) ==
    /\ pc[r] = "fetch"
    /\ Proceed(r, req[r], 1)
    /\ UNCHANGED <<now, flag, since, cache, zset, expireAt, admittedAt>>

GroupAt(r) == GroupsOf(req[r].kind)[req[r].gate]
KeyAt(r)   == <<GroupAt(r), req[r].client>>

\* Mutant: the member is the clock alone, and two requests of one tick are one member.
AfterByClock(k, r) ==
    [q \in Requests |-> IF q = r THEN req[r].asked
                        ELSE IF zset[k][q] + WindowOf[k[1]] > req[r].asked
                                /\ zset[k][q] # req[r].asked THEN zset[k][q]
                        ELSE 0]

\* The sorted set of a key once the pipeline of r ran: older scores removed, r added.
After(k, r) ==
    [q \in Requests |-> IF q = r THEN req[r].asked
                        ELSE IF zset[k][q] + WindowOf[k[1]] > req[r].asked THEN zset[k][q]
                        ELSE 0]
Members(scores) == {q \in Requests : scores[q] # 0}

\* Mutant: the key expires at the start of the window.
RunPipelineExpired(k, r) ==
    /\ zset' = [zset EXCEPT ![k] = After(k, r)]
    /\ expireAt' = [expireAt EXCEPT ![k] = now - WindowOf[k[1]]]

RunPipeline(k, r) ==
    /\ zset' = [zset EXCEPT ![k] = After(k, r)]
    /\ expireAt' = [expireAt EXCEPT ![k] = now + WindowOf[k[1]]]

\* zremrangebyscore, zadd, zcard, pexpire; then count > limit.
Pipeline(r) ==
    /\ pc[r] = "pipeline"
    /\ RunPipeline(KeyAt(r), r)
    /\ IF Cardinality(Members(After(KeyAt(r), r))) > LimitOf[GroupAt(r)]
       THEN Answer(r, "limited") /\ UNCHANGED admittedAt
       ELSE /\ Proceed(r, req[r], req[r].gate + 1)
            /\ admittedAt' = [admittedAt EXCEPT ![KeyAt(r)][r] = now]
    /\ UNCHANGED <<now, flag, since, cache>>

\* The answer is lost and ioredis sends the same commands again.
AnswerLost(r) ==
    /\ pc[r] = "pipeline"
    /\ RunPipeline(KeyAt(r), r)
    /\ UNCHANGED <<now, flag, since, cache, admittedAt, pc, req>>

\* exec() rejects: 503 for the groups of authentication, next() for the others.
PipelineFails(r) ==
    /\ pc[r] = "pipeline"
    /\ IF GroupAt(r) \in AuthGroups
       THEN Answer(r, "unavailable")
       ELSE Proceed(r, req[r], req[r].gate + 1)
    /\ UNCHANGED <<now, flag, since, cache, zset, expireAt, admittedAt>>

\* exec() resolves with an error for each command, as ioredis does when it gives up:
\* count is 0 and the request passes, whatever the group.
CommandsFail(r) ==
    /\ pc[r] = "pipeline"
    /\ Proceed(r, req[r], req[r].gate + 1)
    /\ UNCHANGED <<now, flag, since, cache, zset, expireAt, admittedAt>>

KeyExpires(k) ==
    /\ expireAt[k] \in 1 .. now
    /\ zset' = [zset EXCEPT ![k] = Empty]
    /\ expireAt' = [expireAt EXCEPT ![k] = 0]
    /\ UNCHANGED <<now, flag, since, cache, admittedAt, pc, req>>

Next ==
    \/ Tick
    \/ Toggle
    \/ \E k \in Keys : KeyExpires(k)
    \/ \E r \in Requests : \/ Arrive(r)   \/ Fetch(r)      \/ Fetched(r)
                           \/ FetchFails(r)
                           \/ Pipeline(r) \/ AnswerLost(r)
                           \/ PipelineFails(r) \/ CommandsFail(r)

Spec == Init /\ [][Next]_vars

(***************************************************************************)
(* Correctness.                                                            *)
(***************************************************************************)

\* Among the requests that were counted, the limiters implement a sliding window that
\* is shorter than the configured one by the latency of Redis: whatever the order in
\* which delayed, repeated and refused pipelines run, and whenever the key expires
\* (rateLimitSlidingWindow).
Counted == INSTANCE SlidingWindow WITH
    Limit  <- [k \in Keys |-> LimitOf[k[1]]],
    Window <- [k \in Keys |-> WindowOf[k[1]] - Latency]
ImplementsWindow == Counted!Spec

Larger(a, b) == IF a > b THEN a ELSE b
Settled == now > since + Larger(CacheTtl, Latency)

\* Once the flag has been set for CacheTtl, or for one query if that takes longer, no
\* process lets an ordinary request through to the limiters, unless it could not read
\* the flag at all, in whatever order the queries that refresh its cache are answered
\* (createMaintenanceMiddleware).
Ordinary(r) == req'[r].kind \notin Exempt
LetsThrough(r) == pc[r] \in {"new", "fetched"} /\ pc'[r] = "pipeline"
MaintenanceEffective ==
    [][\A r \in Requests : LetsThrough(r) /\ Ordinary(r) => ~(flag /\ Settled)]_vars

\* And once it has been removed for as long, nobody is turned away for maintenance.
TurnsAway(r) == pc[r] \in {"new", "fetched"} /\ pc'[r] = "maintenance"
MaintenanceLifted ==
    [][\A r \in Requests : TurnsAway(r) => ~(~flag /\ Settled)]_vars
=============================================================================
