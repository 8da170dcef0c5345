---------------------------- MODULE GatewayProofs ----------------------------
(***************************************************************************)
(* The sliding windows and the maintenance flag of Gateway, for any        *)
(* limits, windows, requests, processes and latency.                       *)
(***************************************************************************)
EXTENDS Gateway, FiniteSetTheorems, TLAPS

(***************************************************************************)
(* The inductive invariant.                                                *)
(***************************************************************************)
Waiting(r)   == pc[r] \in {"fetch", "fetched", "pipeline"}
ClockSound   == /\ 0 < Epoch /\ Epoch <= now /\ Epoch <= since /\ since <= now
                /\ \A s \in Servers : cache[s].at <= now
                /\ \A r \in Requests : Waiting(r) =>
                      0 < req[r].asked /\ req[r].asked <= now /\ now <= req[r].asked + Latency

\* What was read after the latest change of the flag is the flag.
CacheSound   == \A s \in Servers : cache[s].at > since => cache[s].value = flag
FetchedSound == \A r \in Requests : pc[r] = "fetched" /\ req[r].asked > since =>
                   req[r].got = flag

\* A request is counted once by each of its limiters, in their order.
Ahead(r, h)  == <<GroupsOf(req[r].kind)[h], req[r].client>>
OrderSound   == \A r \in Requests :
    /\ pc[r] \in {"new", "fetch", "fetched"} => \A k \in Keys : admittedAt[k][r] = 0
    /\ pc[r] = "pipeline" =>
          /\ req[r].gate \in 1 .. Len(GroupsOf(req[r].kind))
          /\ \A h \in req[r].gate .. Len(GroupsOf(req[r].kind)) : admittedAt[Ahead(r, h)][r] = 0

\* A request that was admitted recently is still in the sorted set of its key.
InSet(k, q)  == /\ zset[k][q] # 0
                /\ admittedAt[k][q] <= zset[k][q] + Latency
                /\ admittedAt[k][q] + WindowOf[k[1]] <= expireAt[k]
Remembered   == \A k \in Keys, q \in Requests : admittedAt[k][q] # 0 =>
    /\ admittedAt[k][q] <= now
    /\ admittedAt[k][q] + WindowOf[k[1]] - Latency > now => InSet(k, q)

GatewayInv == TypeOK /\ ClockSound /\ CacheSound /\ FetchedSound /\ OrderSound /\ Remembered

-----------------------------------------------------------------------------
LEMMA GroupsFacts ==
    ASSUME NEW kind \in AllKinds
    PROVE  /\ Len(GroupsOf(kind)) \in 0 .. 3
           /\ \A h \in 1 .. Len(GroupsOf(kind)) : GroupsOf(kind)[h] \in Groups
           /\ \A h, i \in 1 .. Len(GroupsOf(kind)) :
                 h # i => GroupsOf(kind)[h] # GroupsOf(kind)[i]
<1>1. CASE kind = "totp" BY <1>1 DEF GroupsOf, Groups
<1>2. CASE kind = "totp-setup" BY <1>2 DEF GroupsOf, Groups
<1>3. CASE kind = "passkey" BY <1>3 DEF GroupsOf, Groups
<1>4. CASE kind = "auth" BY <1>4 DEF GroupsOf, Groups
<1>5. CASE kind = "admin" BY <1>5 DEF GroupsOf, Groups
<1>6. CASE kind \in {"api", "admin-session"} BY <1>6 DEF GroupsOf, Groups
<1>7. CASE kind \in {"skipped", "health"} BY <1>7 DEF GroupsOf, Groups
<1> QED BY <1>1, <1>2, <1>3, <1>4, <1>5, <1>6, <1>7 DEF AllKinds

LEMMA NoRequestType == NoRequest \in Reqs
BY GatewayAssumption DEF NoRequest, Reqs, AllKinds, Time

LEMMA RequestType ==
    ASSUME NEW request \in Reqs, NEW gate \in 0 .. 4, NEW at \in Time, NEW got \in BOOLEAN
    PROVE  [request EXCEPT !.gate = gate, !.asked = at, !.got = got] \in Reqs
BY DEF Reqs

\* What next() comes to: an answer, or the pipeline of the next limiter.
Done(r) == \E how \in Answered : Answer(r, how)
Sent(r, request, gate) ==
    /\ gate <= Len(GroupsOf(request.kind))
    /\ pc' = [pc EXCEPT ![r] = "pipeline"]
    /\ req' = [req EXCEPT ![r] = [request EXCEPT !.gate = gate, !.asked = now, !.got = FALSE]]

LEMMA ProceedCases ==
    ASSUME NEW r, NEW request \in Reqs, NEW gate \in 1 .. 4, Proceed(r, request, gate)
    PROVE  Done(r) \/ Sent(r, request, gate)
<1>1. Len(GroupsOf(request.kind)) \in 0 .. 3 BY GroupsFacts DEF Reqs
<1> QED BY <1>1 DEF Proceed, Done, Sent, Answered

LEMMA DecideCases ==
    ASSUME NEW r, NEW request \in Reqs, NEW e, DecideMaintenance(r, request, e)
    PROVE  Done(r) \/ Sent(r, request, 1)
BY ProceedCases DEF DecideMaintenance, Done, Answered

\* What the two do to a request that is not yet in the hands of a limiter, or is at one.
LEMMA MoveType ==
    ASSUME TypeOK, NEW r \in Requests, NEW request \in Reqs, NEW gate \in 1 .. 4,
           Done(r) \/ Sent(r, request, gate)
    PROVE  /\ pc' \in [Requests -> {"new", "fetch", "fetched", "pipeline"} \cup Answered]
           /\ req' \in [Requests -> Reqs]
           /\ \A q \in Requests \ {r} : pc'[q] = pc[q] /\ req'[q] = req[q]
           /\ \/ pc'[r] \in Answered /\ req'[r] = NoRequest
              \/ /\ pc'[r] = "pipeline" /\ gate <= Len(GroupsOf(request.kind))
                 /\ req'[r] = [request EXCEPT !.gate = gate, !.asked = now, !.got = FALSE]
<1>1. CASE Done(r) BY <1>1, NoRequestType DEF Done, Answer, TypeOK
<1>2. CASE Sent(r, request, gate)
  <2>1. [request EXCEPT !.gate = gate, !.asked = now, !.got = FALSE] \in Reqs
    <3>1. gate \in 0 .. 4 /\ now \in Time /\ FALSE \in BOOLEAN BY DEF TypeOK
    <3> QED BY ONLY <3>1, request \in Reqs, RequestType
  <2> QED BY <1>2, <2>1 DEF Sent, TypeOK
<1> QED BY <1>1, <1>2

LEMMA InitInv == Init => GatewayInv
<1> SUFFICES ASSUME Init PROVE GatewayInv OBVIOUS
<1> USE GatewayAssumption, NoRequestType
<1>1. TypeOK BY DEF Init, TypeOK, Time, Empty
<1>2. ClockSound BY DEF Init, ClockSound, Waiting
<1>3. CacheSound /\ FetchedSound BY DEF Init, CacheSound, FetchedSound
<1>4. OrderSound BY DEF Init, OrderSound, Empty
<1>5. Remembered BY DEF Init, Remembered, Empty
<1> QED BY <1>1, <1>2, <1>3, <1>4, <1>5 DEF GatewayInv

LEMMA AfterType ==
    ASSUME TypeOK, NEW r \in Requests, NEW k \in Keys
    PROVE  After(k, r) \in [Requests -> Time]
<1>1. req[r].asked \in Time BY DEF TypeOK, Reqs
<1>2. \A q \in Requests : zset[k][q] \in Time BY DEF TypeOK
<1> QED BY <1>1, <1>2 DEF After, Time

LEMMA KeyAtType ==
    ASSUME TypeOK, OrderSound, NEW r \in Requests, pc[r] = "pipeline"
    PROVE  /\ KeyAt(r) \in Keys /\ KeyAt(r)[1] = GroupAt(r) /\ req[r].gate \in 1 .. 3
           /\ req[r] \in Reqs /\ req[r].gate + 1 \in 1 .. 4
<1>1. req[r] \in Reqs /\ req[r].client \in Clients /\ req[r].kind \in AllKinds
      BY DEF TypeOK, Reqs
<1>2. req[r].gate \in 1 .. Len(GroupsOf(req[r].kind)) BY DEF OrderSound
<1>3. /\ Len(GroupsOf(req[r].kind)) \in 0 .. 3
      /\ GroupsOf(req[r].kind)[req[r].gate] \in Groups BY <1>1, <1>2, GroupsFacts
<1> QED BY <1>1, <1>2, <1>3 DEF KeyAt, GroupAt, Keys

LEMMA PipelineType ==
    ASSUME TypeOK, OrderSound, NEW r \in Requests, pc[r] = "pipeline", RunPipeline(KeyAt(r), r)
    PROVE  zset' \in [Keys -> [Requests -> Time]] /\ expireAt' \in [Keys -> Time]
<1>1. KeyAt(r) \in Keys /\ After(KeyAt(r), r) \in [Requests -> Time]
      BY KeyAtType, AfterType
<1>2. KeyAt(r)[1] \in Groups BY <1>1 DEF Keys
<1>3. now + WindowOf[KeyAt(r)[1]] \in Time BY <1>2, GatewayAssumption DEF TypeOK, Time
<1> QED BY <1>1, <1>3 DEF RunPipeline, TypeOK

(***************************************************************************)
(* A request moves: the conjuncts about the requests themselves, for the   *)
(* actions that end in next() or an answer.                                *)
(***************************************************************************)
LEMMA MoveInv ==
    ASSUME TypeOK, ClockSound, FetchedSound, OrderSound,
           NEW r \in Requests, NEW request \in Reqs, NEW gate \in 1 .. 4,
           Done(r) \/ Sent(r, request, gate),
           UNCHANGED <<now, flag, since>>,
           (request.kind = req[r].kind /\ request.client = req[r].client) \/ pc[r] = "new",
           admittedAt' \in [Keys -> [Requests -> Time]],
           \A k \in Keys, q \in Requests \ {r} : admittedAt'[k][q] = admittedAt[k][q],
           \A h \in gate .. Len(GroupsOf(request.kind)) :
              admittedAt'[<<GroupsOf(request.kind)[h], request.client>>][r] = 0
    PROVE  /\ \A q \in Requests : Waiting(q)' =>
                 0 < req'[q].asked /\ req'[q].asked <= now' /\ now' <= req'[q].asked + Latency
           /\ FetchedSound' /\ OrderSound'
<1> DEFINE others == \A q \in Requests \ {r} : pc'[q] = pc[q] /\ req'[q] = req[q]
<1>0. Len(GroupsOf(request.kind)) \in 0 .. 3 BY GroupsFacts DEF Reqs
<1>1. others BY MoveType
<1>2. \/ pc'[r] \in Answered /\ req'[r] = NoRequest
      \/ /\ pc'[r] = "pipeline" /\ gate <= Len(GroupsOf(request.kind))
         /\ req'[r] = [request EXCEPT !.gate = gate, !.asked = now, !.got = FALSE] BY MoveType
<1>3. pc'[r] = "pipeline" =>
         /\ gate <= Len(GroupsOf(request.kind))
         /\ req'[r].gate = gate /\ req'[r].asked = now
         /\ req'[r].kind = request.kind /\ req'[r].client = request.client
      BY <1>2 DEF Reqs, Answered
<1>4. pc'[r] \in Answered \cup {"pipeline"} BY <1>2
<1>5. ASSUME NEW q \in Requests, Waiting(q)'
      PROVE  0 < req'[q].asked /\ req'[q].asked <= now' /\ now' <= req'[q].asked + Latency
  <2>1. CASE q = r BY <1>3, <1>4, <1>5, <2>1, GatewayAssumption DEF Waiting, Answered, ClockSound, TypeOK, Time
  <2>2. CASE q # r BY <1>1, <1>5, <2>2 DEF Waiting, ClockSound
  <2> QED BY <2>1, <2>2
<1>6. FetchedSound' BY <1>1, <1>4 DEF FetchedSound, Answered
<1>7. ASSUME NEW q \in Requests
      PROVE  /\ pc'[q] \in {"new", "fetch", "fetched"} => \A k \in Keys : admittedAt'[k][q] = 0
             /\ pc'[q] = "pipeline" =>
                /\ req'[q].gate \in 1 .. Len(GroupsOf(req'[q].kind))
                /\ \A h \in req'[q].gate .. Len(GroupsOf(req'[q].kind)) :
                      admittedAt'[<<GroupsOf(req'[q].kind)[h], req'[q].client>>][q] = 0
  <2>1. CASE q = r BY <1>0, <1>3, <1>4, <2>1 DEF Answered
  <2>2. CASE q # r
    <3>1. pc'[q] = pc[q] /\ req'[q] = req[q] BY <1>1, <2>2
    <3>2. pc[q] = "pipeline" =>
             /\ req[q].gate \in 1 .. Len(GroupsOf(req[q].kind))
             /\ \A h \in req[q].gate .. Len(GroupsOf(req[q].kind)) :
                   Ahead(q, h) \in Keys /\ admittedAt[Ahead(q, h)][q] = 0
      <4>1. req[q].kind \in AllKinds /\ req[q].client \in Clients BY DEF TypeOK, Reqs
      <4>2. Len(GroupsOf(req[q].kind)) \in 0 .. 3 /\
            \A h \in 1 .. Len(GroupsOf(req[q].kind)) : GroupsOf(req[q].kind)[h] \in Groups
            BY <4>1, GroupsFacts
      <4> QED BY <4>1, <4>2 DEF OrderSound, Ahead, Keys
    <3> QED BY <2>2, <3>1, <3>2 DEF OrderSound, Ahead
  <2> QED BY <2>1, <2>2
<1>8. OrderSound' BY <1>7 DEF OrderSound, Ahead
<1> QED BY <1>5, <1>6, <1>8

\* Remembered, when only a pipeline of r on its key may have run.
LEMMA PipelineRemembers ==
    ASSUME TypeOK, ClockSound, OrderSound, Remembered,
           NEW r \in Requests, pc[r] = "pipeline", RunPipeline(KeyAt(r), r), UNCHANGED now,
           \/ UNCHANGED admittedAt
           \/ admittedAt' = [admittedAt EXCEPT ![KeyAt(r)][r] = now]
    PROVE  Remembered'
<1> DEFINE k == KeyAt(r)
<1>1. k \in Keys /\ k[1] \in Groups BY KeyAtType DEF Keys
<1>2. WindowOf[k[1]] \in Nat /\ Latency \in Nat BY <1>1, GatewayAssumption
<1>3. /\ req[r].asked \in Nat /\ 0 < req[r].asked /\ req[r].asked <= now
      /\ now <= req[r].asked + Latency
      BY DEF ClockSound, Waiting, TypeOK, Reqs, Time
<1> SUFFICES ASSUME NEW l \in Keys, NEW q \in Requests, admittedAt'[l][q] # 0
             PROVE  /\ admittedAt'[l][q] <= now'
                    /\ admittedAt'[l][q] + WindowOf[l[1]] - Latency > now' => InSet(l, q)'
    BY DEF Remembered
<1>4. /\ zset[l][q] \in Nat /\ expireAt[l] \in Nat /\ now \in Nat /\ admittedAt[l][q] \in Nat
      /\ WindowOf[l[1]] \in Nat
      BY GatewayAssumption DEF TypeOK, Time, Keys
<1>5. CASE l # k
  <2>1. zset'[l] = zset[l] /\ expireAt'[l] = expireAt[l] /\ admittedAt'[l][q] = admittedAt[l][q]
        BY <1>1, <1>5 DEF RunPipeline, TypeOK
  <2> QED BY <2>1 DEF Remembered, InSet
<1>6. CASE l = k
  <2>1. zset'[l] = After(k, r) /\ expireAt'[l] = now + WindowOf[l[1]]
        BY <1>1, <1>6 DEF RunPipeline, TypeOK
  <2>2. CASE q = r
    <3>1. zset'[l][r] = req[r].asked BY <2>1 DEF After
    <3>2. admittedAt'[l][r] = admittedAt[l][r] \/ admittedAt'[l][r] = now
          BY <1>1, <1>6 DEF TypeOK
    <3>3. admittedAt'[l][r] <= now BY <2>2, <3>2, <1>4 DEF Remembered
    <3>4. admittedAt'[l][r] \in Nat BY <2>2, <3>2, <1>4
    <3> QED BY <1>2, <1>3, <1>4, <2>1, <2>2, <3>1, <3>3, <3>4 DEF InSet
  <2>3. CASE q # r
    <3>1. admittedAt'[l][q] = admittedAt[l][q] BY <1>1, <1>6, <2>3 DEF TypeOK
    <3>2. admittedAt[l][q] <= now BY <3>1 DEF Remembered
    <3>3. ASSUME admittedAt[l][q] + WindowOf[l[1]] - Latency > now PROVE InSet(l, q)'
      <4>1. zset[l][q] # 0 /\ admittedAt[l][q] <= zset[l][q] + Latency
            BY <3>1, <3>3 DEF Remembered, InSet
      <4>2. zset[l][q] + WindowOf[l[1]] > req[r].asked BY <1>2, <1>3, <1>4, <3>3, <4>1
      <4>3. zset'[l][q] = zset[l][q] BY <1>6, <2>1, <2>3, <4>2 DEF After
      <4> QED BY <1>4, <2>1, <3>1, <3>2, <4>1, <4>3 DEF InSet
    <3> QED BY <3>1, <3>2, <3>3
  <2> QED BY <2>2, <2>3
<1> QED BY <1>5, <1>6

\* What the steps that leave the requests alone preserve.
LEMMA ClockInv == GatewayInv /\ Tick => GatewayInv'
<1> SUFFICES ASSUME GatewayInv, Tick PROVE GatewayInv' OBVIOUS
<1> USE DEF GatewayInv
<1>1. TypeOK' BY DEF TypeOK, Tick, Time
<1>2. now' = now + 1 /\ now \in Nat /\ Latency \in Nat /\ UNCHANGED <<since, cache, pc, req>>
      BY GatewayAssumption DEF Tick, TypeOK, Time
<1>3. ClockSound'
  <2>1. ASSUME NEW r \in Requests, Waiting(r)'
        PROVE  0 < req'[r].asked /\ req'[r].asked <= now' /\ now' <= req'[r].asked + Latency
    <3>1. Waiting(r) /\ req'[r] = req[r] /\ now < req[r].asked + Latency
          BY <1>2, <2>1 DEF Tick, Waiting
    <3>2. req[r].asked \in Nat BY DEF TypeOK, Reqs, Time
    <3> QED BY <1>2, <3>1, <3>2 DEF ClockSound
  <2>2. \A s \in Servers : cache[s].at \in Nat BY DEF TypeOK, Time
  <2>3. since \in Nat /\ Epoch \in Nat BY GatewayAssumption DEF TypeOK, Time
  <2> QED BY <1>2, <2>1, <2>2, <2>3 DEF ClockSound
<1>4. CacheSound' /\ FetchedSound' /\ OrderSound'
      BY DEF CacheSound, FetchedSound, OrderSound, Tick, Ahead
<1>5. Remembered'
  <2> SUFFICES ASSUME NEW k \in Keys, NEW q \in Requests, admittedAt[k][q] # 0
               PROVE  /\ admittedAt[k][q] <= now + 1
                      /\ admittedAt[k][q] + WindowOf[k[1]] - Latency > now + 1 => InSet(k, q)
      BY DEF Remembered, InSet, Tick
  <2>1. admittedAt[k][q] \in Nat /\ WindowOf[k[1]] \in Nat
        BY GatewayAssumption DEF TypeOK, Time, Keys
  <2> QED BY <1>2, <2>1 DEF Remembered
<1> QED BY <1>1, <1>3, <1>4, <1>5

LEMMA ToggleInv == GatewayInv /\ Toggle => GatewayInv'
<1> SUFFICES ASSUME GatewayInv, Toggle PROVE GatewayInv' OBVIOUS
<1> USE DEF GatewayInv
<1>1. TypeOK' BY DEF TypeOK, Toggle
<1>2. now \in Nat /\ Epoch \in Nat /\ \A s \in Servers : cache[s].at \in Nat
      BY GatewayAssumption DEF TypeOK, Time
<1>3. ClockSound' BY <1>2 DEF ClockSound, Toggle, Waiting
<1>4. \A r \in Requests : req[r].asked \in Nat BY DEF TypeOK, Reqs, Time
<1>5. CacheSound' BY <1>2 DEF ClockSound, CacheSound, Toggle
<1>6. FetchedSound' BY <1>2, <1>4 DEF ClockSound, FetchedSound, Toggle, Waiting
<1>7. OrderSound' /\ Remembered' BY DEF OrderSound, Remembered, Toggle, Ahead, InSet
<1> QED BY <1>1, <1>3, <1>5, <1>6, <1>7

LEMMA ExpiresInv == ASSUME GatewayInv, NEW k \in Keys, KeyExpires(k) PROVE GatewayInv'
<1> USE DEF GatewayInv
<1>1. TypeOK' BY DEF TypeOK, KeyExpires, Empty, Time
<1>2. ClockSound' /\ CacheSound' /\ FetchedSound' /\ OrderSound'
      BY DEF ClockSound, CacheSound, FetchedSound, OrderSound, KeyExpires, Ahead, Waiting
<1>3. Remembered'
  <2> SUFFICES ASSUME NEW l \in Keys, NEW q \in Requests, admittedAt[l][q] # 0
               PROVE  /\ admittedAt[l][q] <= now
                      /\ admittedAt[l][q] + WindowOf[l[1]] - Latency > now => InSet(l, q)'
      BY DEF Remembered, KeyExpires
  <2>1. /\ admittedAt[l][q] \in Nat /\ now \in Nat /\ Latency \in Nat /\ WindowOf[l[1]] \in Nat
        /\ expireAt[l] \in Nat
        BY GatewayAssumption DEF TypeOK, Time, Keys
  <2>2. CASE l = k BY <2>1, <2>2 DEF Remembered, InSet, KeyExpires
  <2>3. CASE l # k BY <2>3 DEF Remembered, InSet, KeyExpires, TypeOK
  <2> QED BY <2>2, <2>3
<1> QED BY <1>1, <1>2, <1>3

LEMMA ArriveInv == ASSUME GatewayInv, NEW r \in Requests, Arrive(r) PROVE GatewayInv'
<1> USE DEF GatewayInv
<1>1. PICK s \in Servers, c \in Clients, kind \in Kinds :
        LET request == [NoRequest EXCEPT !.server = s, !.client = c, !.kind = kind,
                                         !.asked = now] IN
        IF Stale(s)
        THEN /\ pc' = [pc EXCEPT ![r] = "fetch"]
             /\ req' = [req EXCEPT ![r] = request]
        ELSE DecideMaintenance(r, request, cache[s].value)
      BY DEF Arrive
<1> DEFINE request == [NoRequest EXCEPT !.server = s, !.client = c, !.kind = kind, !.asked = now]
<1>2. /\ request \in Reqs /\ request.asked = now /\ request.client = c /\ request.kind = kind
      /\ kind \in AllKinds /\ now \in Nat /\ Latency \in Nat
  <2>1. now \in Nat /\ Latency \in Nat /\ kind \in AllKinds
        BY GatewayAssumption DEF TypeOK, Time
  <2>2. NoRequest \in Reqs BY NoRequestType
  <2> QED BY <2>1, <2>2 DEF Reqs, Time
<1>3. pc[r] = "new" /\ UNCHANGED <<now, flag, since, cache, zset, expireAt, admittedAt>>
      BY DEF Arrive
<1>4. CASE Stale(s)
  <2>1. pc' = [pc EXCEPT ![r] = "fetch"] /\ req' = [req EXCEPT ![r] = request]
        BY <1>1, <1>4
  <2> HIDE DEF request
  <2>2. TypeOK' BY <1>2, <1>3, <2>1 DEF TypeOK
  <2>3. ClockSound' BY <1>2, <1>3, <2>1, GatewayAssumption DEF ClockSound, Waiting, TypeOK, Time
  <2>4. CacheSound' /\ FetchedSound' BY <1>3, <2>1 DEF CacheSound, FetchedSound, TypeOK
  <2>5. OrderSound' BY <1>3, <2>1 DEF OrderSound, TypeOK, Ahead
  <2>6. Remembered' BY <1>3 DEF Remembered, InSet
  <2> QED BY <2>2, <2>3, <2>4, <2>5, <2>6
<1>5. CASE ~Stale(s)
  <2>1. Done(r) \/ Sent(r, request, 1) BY <1>1, <1>2, <1>5, DecideCases
  <2> HIDE DEF request
  <2>2. \A h \in 1 .. Len(GroupsOf(request.kind)) :
           admittedAt'[<<GroupsOf(request.kind)[h], request.client>>][r] = 0
    <3>1. \A k \in Keys : admittedAt[k][r] = 0 BY <1>3 DEF OrderSound
    <3> QED BY <1>2, <1>3, <3>1, GroupsFacts DEF Keys
  <2>3. TypeOK'
    <3>1. 1 \in 1 .. 4 OBVIOUS
    <3>2. /\ pc' \in [Requests -> {"new", "fetch", "fetched", "pipeline"} \cup Answered]
          /\ req' \in [Requests -> Reqs] BY <1>2, <2>1, <3>1, MoveType
    <3> QED BY <1>3, <3>2 DEF TypeOK
  <2>4. /\ admittedAt' \in [Keys -> [Requests -> Time]] /\ 1 \in 1 .. 4
        /\ \A k \in Keys, q \in Requests \ {r} : admittedAt'[k][q] = admittedAt[k][q]
        /\ UNCHANGED <<now, flag, since>>
        BY <1>3 DEF TypeOK
  <2>5. /\ \A q \in Requests : Waiting(q)' =>
              0 < req'[q].asked /\ req'[q].asked <= now' /\ now' <= req'[q].asked + Latency
        /\ FetchedSound' /\ OrderSound'
        BY <1>2, <1>3, <2>1, <2>2, <2>4, MoveInv
  <2>6. ClockSound' BY <1>3, <2>5 DEF ClockSound
  <2>7. CacheSound' /\ Remembered' BY <1>3 DEF CacheSound, Remembered, InSet
  <2> QED BY <2>3, <2>5, <2>6, <2>7
<1> QED BY <1>4, <1>5

LEMMA FetchInv == ASSUME GatewayInv, NEW r \in Requests, Fetch(r) PROVE GatewayInv'
<1> USE DEF GatewayInv
<1>1. /\ pc[r] = "fetch" /\ pc' = [pc EXCEPT ![r] = "fetched"]
      /\ req' = [req EXCEPT ![r].got = flag]
      /\ UNCHANGED <<now, flag, since, cache, zset, expireAt, admittedAt>> BY DEF Fetch
<1>2. req[r] \in Reqs /\ flag \in BOOLEAN BY DEF TypeOK
<1>3. req'[r] \in Reqs /\ req'[r].got = flag /\ req'[r].asked = req[r].asked
      BY <1>1, <1>2 DEF Reqs, TypeOK
<1>4. TypeOK' BY <1>1, <1>3 DEF TypeOK
<1>5. ClockSound' BY <1>1, <1>3 DEF ClockSound, Waiting, TypeOK
<1>6. CacheSound' /\ FetchedSound' BY <1>1, <1>3 DEF CacheSound, FetchedSound, TypeOK
<1>7. OrderSound' BY <1>1, <1>3 DEF OrderSound, TypeOK, Ahead
<1>8. Remembered' BY <1>1 DEF Remembered, InSet
<1> QED BY <1>4, <1>5, <1>6, <1>7, <1>8

\* The request goes to its first limiter, or is answered, after a query for the flag.
LEMMA AfterFetchInv ==
    ASSUME GatewayInv, NEW r \in Requests, pc[r] \in {"fetch", "fetched"},
           Done(r) \/ Sent(r, req[r], 1),
           UNCHANGED <<now, flag, since, zset, expireAt, admittedAt>>
    PROVE  /\ pc' \in [Requests -> {"new", "fetch", "fetched", "pipeline"} \cup Answered]
           /\ req' \in [Requests -> Reqs]
           /\ \A q \in Requests : Waiting(q)' =>
                 0 < req'[q].asked /\ req'[q].asked <= now' /\ now' <= req'[q].asked + Latency
           /\ FetchedSound' /\ OrderSound' /\ Remembered'
<1> USE DEF GatewayInv
<1>1. req[r] \in Reqs /\ req[r].kind \in AllKinds /\ req[r].client \in Clients
      BY DEF TypeOK, Reqs
<1>2. \A h \in 1 .. Len(GroupsOf(req[r].kind)) :
         admittedAt'[<<GroupsOf(req[r].kind)[h], req[r].client>>][r] = 0
  <2>1. \A k \in Keys : admittedAt[k][r] = 0 BY DEF OrderSound
  <2> QED BY <1>1, <2>1, GroupsFacts DEF Keys
<1>3. /\ admittedAt' \in [Keys -> [Requests -> Time]] /\ 1 \in 1 .. 4
      /\ \A k \in Keys, q \in Requests \ {r} : admittedAt'[k][q] = admittedAt[k][q]
      /\ UNCHANGED <<now, flag, since>>
      BY DEF TypeOK
<1>4. Remembered' BY DEF Remembered, InSet
<1> QED BY <1>1, <1>2, <1>3, <1>4, MoveType, MoveInv

LEMMA FetchedInv == ASSUME GatewayInv, NEW r \in Requests, Fetched(r) PROVE GatewayInv'
<1> USE DEF GatewayInv
<1>1. /\ pc[r] = "fetched" /\ UNCHANGED <<now, flag, since, zset, expireAt, admittedAt>>
      /\ cache' = [cache EXCEPT ![req[r].server] = [value |-> req[r].got, at |-> req[r].asked]]
      /\ DecideMaintenance(r, req[r], req[r].got) BY DEF Fetched
<1>2. /\ req[r] \in Reqs /\ req[r].server \in Servers /\ req[r].asked \in Time
      /\ req[r].got \in BOOLEAN BY DEF TypeOK, Reqs
<1>3. Done(r) \/ Sent(r, req[r], 1) BY <1>1, <1>2, DecideCases
<1>4. req[r].asked <= now BY <1>1 DEF ClockSound, Waiting
<1>5. TypeOK' BY <1>1, <1>2, <1>3, AfterFetchInv DEF TypeOK
<1>6. ClockSound' BY <1>1, <1>2, <1>3, <1>4, AfterFetchInv DEF ClockSound, TypeOK
<1>7. CacheSound' BY <1>1, <1>2 DEF CacheSound, FetchedSound, TypeOK
<1> QED BY <1>1, <1>3, <1>5, <1>6, <1>7, AfterFetchInv

LEMMA FetchFailsInv == ASSUME GatewayInv, NEW r \in Requests, FetchFails(r) PROVE GatewayInv'
<1> USE DEF GatewayInv
<1>1. /\ pc[r] = "fetch" /\ Proceed(r, req[r], 1)
      /\ UNCHANGED <<now, flag, since, cache, zset, expireAt, admittedAt>> BY DEF FetchFails
<1>2. Done(r) \/ Sent(r, req[r], 1) BY <1>1, ProceedCases DEF TypeOK
<1>3. TypeOK' BY <1>1, <1>2, AfterFetchInv DEF TypeOK
<1>4. ClockSound' BY <1>1, <1>2, AfterFetchInv DEF ClockSound
<1>5. CacheSound' BY <1>1 DEF CacheSound
<1> QED BY <1>1, <1>2, <1>3, <1>4, <1>5, AfterFetchInv

\* A request leaves a limiter.
LEMMA LimiterInv ==
    ASSUME GatewayInv, NEW r \in Requests, pc[r] = "pipeline",
           Done(r) \/ Sent(r, req[r], req[r].gate + 1),
           UNCHANGED <<now, flag, since, cache>>,
           zset' \in [Keys -> [Requests -> Time]], expireAt' \in [Keys -> Time],
           \/ UNCHANGED admittedAt
           \/ admittedAt' = [admittedAt EXCEPT ![KeyAt(r)][r] = now],
           Remembered'
    PROVE  GatewayInv'
<1> USE DEF GatewayInv
<1>1. /\ req[r] \in Reqs /\ req[r].gate + 1 \in 1 .. 4 /\ KeyAt(r) \in Keys
      /\ req[r].kind \in AllKinds /\ req[r].client \in Clients
      BY KeyAtType DEF Reqs
<1>2. admittedAt' \in [Keys -> [Requests -> Time]]
  <2>1. CASE UNCHANGED admittedAt BY <2>1 DEF TypeOK
  <2>2. CASE admittedAt' = [admittedAt EXCEPT ![KeyAt(r)][r] = now] BY <1>1, <2>2 DEF TypeOK
  <2> QED BY <2>1, <2>2
<1>3. \A k \in Keys, q \in Requests \ {r} : admittedAt'[k][q] = admittedAt[k][q]
      BY <1>1 DEF TypeOK
<1>4. \A h \in req[r].gate + 1 .. Len(GroupsOf(req[r].kind)) :
         admittedAt'[<<GroupsOf(req[r].kind)[h], req[r].client>>][r] = 0
  <2> SUFFICES ASSUME NEW h \in req[r].gate + 1 .. Len(GroupsOf(req[r].kind))
               PROVE  admittedAt'[Ahead(r, h)][r] = 0
      BY DEF Ahead
  <2>1. /\ req[r].gate \in 1 .. Len(GroupsOf(req[r].kind))
        /\ Len(GroupsOf(req[r].kind)) \in 0 .. 3
        BY <1>1, GroupsFacts DEF OrderSound
  <2>2. h \in req[r].gate .. Len(GroupsOf(req[r].kind)) /\ h # req[r].gate BY <1>1, <2>1
  <2>3. admittedAt[Ahead(r, h)][r] = 0 BY <2>2 DEF OrderSound
  <2>4. h \in 1 .. Len(GroupsOf(req[r].kind)) BY <2>1, <2>2
  <2>5. Ahead(r, h) \in Keys /\ Ahead(r, h) # KeyAt(r)
        BY <1>1, <2>1, <2>2, <2>4, GroupsFacts DEF Ahead, KeyAt, GroupAt, Keys
  <2> QED BY <1>1, <2>3, <2>5 DEF TypeOK
<1>5. TypeOK' BY <1>1, <1>2, MoveType DEF TypeOK
<1>6. /\ \A q \in Requests : Waiting(q)' =>
            0 < req'[q].asked /\ req'[q].asked <= now' /\ now' <= req'[q].asked + Latency
      /\ FetchedSound' /\ OrderSound'
      BY <1>1, <1>2, <1>3, <1>4, MoveInv
<1>7. ClockSound' BY <1>6 DEF ClockSound
<1>8. CacheSound' BY DEF CacheSound
<1> QED BY <1>5, <1>6, <1>7, <1>8

LEMMA PipelineInv == ASSUME GatewayInv, NEW r \in Requests, Pipeline(r) PROVE GatewayInv'
<1> USE DEF GatewayInv
<1>1. /\ pc[r] = "pipeline" /\ RunPipeline(KeyAt(r), r) /\ UNCHANGED <<now, flag, since, cache>>
      /\ \/ Answer(r, "limited") /\ UNCHANGED admittedAt
         \/ /\ Proceed(r, req[r], req[r].gate + 1)
            /\ admittedAt' = [admittedAt EXCEPT ![KeyAt(r)][r] = now] BY DEF Pipeline
<1>2. req[r] \in Reqs /\ req[r].gate + 1 \in 1 .. 4 BY <1>1, KeyAtType
<1>3. Done(r) \/ Sent(r, req[r], req[r].gate + 1)
      BY <1>1, <1>2, ProceedCases DEF Done, Answered
<1>4. Remembered' BY <1>1, PipelineRemembers
<1> QED BY <1>1, <1>3, <1>4, PipelineType, LimiterInv

LEMMA LostInv == ASSUME GatewayInv, NEW r \in Requests, AnswerLost(r) PROVE GatewayInv'
<1> USE DEF GatewayInv
<1>1. /\ pc[r] = "pipeline" /\ RunPipeline(KeyAt(r), r)
      /\ UNCHANGED <<now, flag, since, cache, admittedAt, pc, req>> BY DEF AnswerLost
<1>2. TypeOK' BY <1>1, PipelineType DEF TypeOK
<1>3. Remembered' BY <1>1, PipelineRemembers
<1>4. ClockSound' /\ CacheSound' /\ FetchedSound' /\ OrderSound'
      BY <1>1 DEF ClockSound, CacheSound, FetchedSound, OrderSound, Ahead, Waiting
<1> QED BY <1>2, <1>3, <1>4

LEMMA FailsInv ==
    ASSUME GatewayInv, NEW r \in Requests, PipelineFails(r) \/ CommandsFail(r)
    PROVE  GatewayInv'
<1> USE DEF GatewayInv
<1>1. /\ pc[r] = "pipeline"
      /\ Answer(r, "unavailable") \/ Proceed(r, req[r], req[r].gate + 1)
      /\ UNCHANGED <<now, flag, since, cache, zset, expireAt, admittedAt>>
      BY DEF PipelineFails, CommandsFail
<1>2. req[r] \in Reqs /\ req[r].gate + 1 \in 1 .. 4 BY <1>1, KeyAtType
<1>3. Done(r) \/ Sent(r, req[r], req[r].gate + 1)
      BY <1>1, <1>2, ProceedCases DEF Done, Answered
<1>4. Remembered' BY <1>1 DEF Remembered, InSet
<1>5. zset' \in [Keys -> [Requests -> Time]] /\ expireAt' \in [Keys -> Time]
      BY <1>1 DEF TypeOK
<1> QED BY <1>1, <1>3, <1>4, <1>5, LimiterInv

LEMMA StepInv == GatewayInv /\ [Next]_vars => GatewayInv'
<1> SUFFICES ASSUME GatewayInv, [Next]_vars PROVE GatewayInv' OBVIOUS
<1>1. CASE UNCHANGED vars
      BY <1>1 DEF vars, GatewayInv, TypeOK, ClockSound, CacheSound, FetchedSound, OrderSound,
                  Remembered, InSet, Ahead, Waiting
<1>2. CASE Tick BY <1>2, ClockInv
<1>3. CASE Toggle BY <1>3, ToggleInv
<1>4. CASE \E k \in Keys : KeyExpires(k) BY <1>4, ExpiresInv
<1>5. ASSUME NEW r \in Requests, Arrive(r) PROVE GatewayInv' BY <1>5, ArriveInv
<1>6. ASSUME NEW r \in Requests, Fetch(r) PROVE GatewayInv' BY <1>6, FetchInv
<1>7. ASSUME NEW r \in Requests, Fetched(r) PROVE GatewayInv' BY <1>7, FetchedInv
<1>8. ASSUME NEW r \in Requests, FetchFails(r) PROVE GatewayInv' BY <1>8, FetchFailsInv
<1>9. ASSUME NEW r \in Requests, Pipeline(r) PROVE GatewayInv' BY <1>9, PipelineInv
<1>10. ASSUME NEW r \in Requests, AnswerLost(r) PROVE GatewayInv' BY <1>10, LostInv
<1>11. ASSUME NEW r \in Requests, PipelineFails(r) \/ CommandsFail(r) PROVE GatewayInv'
       BY <1>11, FailsInv
<1> QED BY <1>1, <1>2, <1>3, <1>4, <1>5, <1>6, <1>7, <1>8, <1>9, <1>10, <1>11 DEF Next

\* In every reachable state a request that was counted recently is still in the sorted
\* set of its key, and what the maintenance cache holds was the flag when it was read.
THEOREM GatewayInvariant == Spec => []GatewayInv
<1>1. Init => GatewayInv BY InitInv
<1>2. GatewayInv /\ [Next]_vars => GatewayInv' BY StepInv
<1> QED BY <1>1, <1>2, PTL DEF Spec

\* Every variable of the middleware, of Redis and of the requests keeps its type.
THEOREM TypeCorrect == Spec => []TypeOK
<1>1. GatewayInv => TypeOK BY DEF GatewayInv
<1> QED BY <1>1, GatewayInvariant, PTL

-----------------------------------------------------------------------------
(***************************************************************************)
(* Refinement.                                                             *)
(***************************************************************************)
\* Whom the window holds, the sorted set held when the pipeline of r counted it.
LEMMA RecentCounted ==
    ASSUME GatewayInv, NEW r \in Requests, pc[r] = "pipeline"
    PROVE  Counted!Recent(KeyAt(r)) \subseteq Members(After(KeyAt(r), r)) \ {r}
<1> USE DEF GatewayInv
<1> DEFINE k == KeyAt(r)
<1>1. k \in Keys /\ k[1] \in Groups BY KeyAtType DEF Keys
<1>2. admittedAt[k][r] = 0
  <2>1. req[r].gate \in req[r].gate .. Len(GroupsOf(req[r].kind))
    <3>1. req[r] \in Reqs BY DEF TypeOK
    <3>2. Len(GroupsOf(req[r].kind)) \in 0 .. 3 BY <3>1, GroupsFacts DEF Reqs
    <3> QED BY <3>2 DEF OrderSound
  <2> QED BY <2>1 DEF OrderSound, KeyAt, GroupAt, Ahead
<1> SUFFICES ASSUME NEW q \in Requests, admittedAt[k][q] # 0,
                    admittedAt[k][q] + (WindowOf[k[1]] - Latency) > now
             PROVE  q \in Members(After(k, r)) \ {r}
    BY <1>1 DEF Counted!Recent
<1>3. /\ zset[k][q] \in Nat /\ now \in Nat /\ admittedAt[k][q] \in Nat
      /\ WindowOf[k[1]] \in Nat /\ Latency \in Nat
      /\ req[r].asked \in Nat /\ req[r].asked <= now
      BY <1>1, GatewayAssumption DEF TypeOK, Time, Reqs, ClockSound, Waiting
<1>4. q # r BY <1>2
<1>5. InSet(k, q) BY <1>1, <1>3 DEF Remembered
<1>6. zset[k][q] + WindowOf[k[1]] > req[r].asked BY <1>3, <1>5 DEF InSet
<1> QED BY <1>4, <1>5, <1>6 DEF Members, After, InSet

\* The cardinality of the abstract module is the one of this module.
LEMMA SameCardinality == ASSUME NEW S PROVE Counted!Cardinality(S) = Cardinality(S)
BY DEF Counted!Cardinality, Cardinality

LEMMA AdmitSimulated ==
    ASSUME GatewayInv, NEW r \in Requests, pc[r] = "pipeline",
           Cardinality(Members(After(KeyAt(r), r))) <= LimitOf[GroupAt(r)]
    PROVE  Cardinality(Counted!Recent(KeyAt(r))) < LimitOf[GroupAt(r)]
<1> DEFINE members == Members(After(KeyAt(r), r))
           recent  == Counted!Recent(KeyAt(r))
<1>1. members \subseteq Requests /\ IsFiniteSet(members)
      BY GatewayAssumption, FS_Subset DEF Members
<1>2. r \in members
  <2>1. req[r].asked # 0 /\ KeyAt(r) \in Keys
        BY KeyAtType DEF GatewayInv, ClockSound, Waiting
  <2> QED BY <2>1 DEF Members, After
<1>3. IsFiniteSet(members \ {r}) /\ Cardinality(members \ {r}) = Cardinality(members) - 1
      BY <1>1, <1>2, FS_RemoveElement
<1>4. recent \subseteq members \ {r} BY RecentCounted
<1>5. IsFiniteSet(recent) /\ Cardinality(recent) <= Cardinality(members \ {r})
      BY <1>3, <1>4, FS_Subset
<1>6. /\ Cardinality(recent) \in Nat /\ Cardinality(members) \in Nat
      /\ LimitOf[GroupAt(r)] \in Nat
  <2>1. GroupAt(r) \in Groups BY KeyAtType DEF GatewayInv, Keys
  <2> QED BY <1>1, <1>5, <2>1, FS_CardinalityType, GatewayAssumption
<1> QED BY <1>3, <1>5, <1>6

LEMMA StepSimulated == GatewayInv /\ [Next]_vars => [Counted!Next]_(Counted!vars)
<1> SUFFICES ASSUME GatewayInv, [Next]_vars, ~UNCHANGED <<now, admittedAt>>
             PROVE  Counted!Next
    BY DEF Counted!vars
<1>1. CASE Tick BY <1>1 DEF Tick, Counted!Next, Counted!Tick
<1>2. ASSUME NEW r \in Requests, Pipeline(r) PROVE Counted!Next
  <2>1. /\ pc[r] = "pipeline" /\ UNCHANGED now
        /\ Cardinality(Members(After(KeyAt(r), r))) <= LimitOf[GroupAt(r)]
        /\ admittedAt' = [admittedAt EXCEPT ![KeyAt(r)][r] = now]
    <3>1. IsFiniteSet(Members(After(KeyAt(r), r)))
          BY GatewayAssumption, FS_Subset DEF Members
    <3>2. GroupAt(r) \in Groups BY <1>2, KeyAtType DEF GatewayInv, Keys, Pipeline
    <3>3. /\ Cardinality(Members(After(KeyAt(r), r))) \in Nat
          /\ LimitOf[GroupAt(r)] \in Nat
          BY <3>1, <3>2, FS_CardinalityType, GatewayAssumption
    <3> QED BY <1>2, <3>3 DEF Pipeline
  <2>2. KeyAt(r) \in Keys /\ KeyAt(r)[1] = GroupAt(r) BY <2>1, KeyAtType DEF GatewayInv
  <2>3. Cardinality(Counted!Recent(KeyAt(r))) < LimitOf[GroupAt(r)] BY <2>1, AdmitSimulated
  <2>4. [k \in Keys |-> LimitOf[k[1]]][KeyAt(r)] = LimitOf[GroupAt(r)] BY <2>2
  <2>5. Counted!Admit(KeyAt(r), r) BY <2>1, <2>3, <2>4, SameCardinality DEF Counted!Admit
  <2> QED BY <2>2, <2>5 DEF Counted!Next
<1> QED BY <1>1, <1>2 DEF Next, vars, Toggle, KeyExpires, Arrive, Fetch, Fetched, FetchFails,
                         AnswerLost, PipelineFails, CommandsFail

\* rateLimitSlidingWindow, for every limit, window, latency and number of requests: what
\* the limiters count and let through is admitted by a sliding window that is shorter than
\* the configured one by the latency of Redis.
THEOREM LimitersImplementWindow == Spec => ImplementsWindow
<1>1. Init => Counted!Init BY GatewayAssumption DEF Init, Counted!Init, Empty
<1>2. GatewayInv /\ [Next]_vars => [Counted!Next]_(Counted!vars) BY StepSimulated
<1> QED BY <1>1, <1>2, GatewayInvariant, PTL DEF Spec, ImplementsWindow, Counted!Spec

\* An interval that holds the new admission holds, besides, only recent ones.
LEMMA WindowStep ==
    ASSUME GatewayInv, [Next]_vars, NEW k \in Keys, NEW from \in Nat,
           Cardinality(Counted!Within(k, from)) <= LimitOf[k[1]]
    PROVE  Cardinality(Counted!Within(k, from)') <= LimitOf[k[1]]
<1> DEFINE old    == Counted!Within(k, from)
           new    == Counted!Within(k, from)'
           recent == Counted!Recent(k)
           W      == WindowOf[k[1]] - Latency
<1>1. /\ IsFiniteSet(Requests) /\ W \in Int /\ LimitOf[k[1]] \in Nat /\ now \in Nat
      /\ admittedAt \in [Keys -> [Requests -> Nat]]
      BY GatewayAssumption DEF Keys, GatewayInv, TypeOK, Time
<1>2. old \in SUBSET Requests /\ recent \in SUBSET Requests
      BY DEF Counted!Within, Counted!Recent
<1>3. IsFiniteSet(old) /\ IsFiniteSet(recent) /\ Cardinality(old) \in Nat
      BY <1>1, <1>2, FS_Subset, FS_CardinalityType
<1>4. ASSUME new \subseteq old PROVE Cardinality(new) <= LimitOf[k[1]]
  <2>1. IsFiniteSet(new) /\ Cardinality(new) <= Cardinality(old) /\ Cardinality(new) \in Nat
        BY <1>3, <1>4, FS_Subset, FS_CardinalityType
  <2> QED BY <1>1, <1>3, <2>1
<1>5. CASE UNCHANGED admittedAt
  <2>1. new = old BY <1>5 DEF Counted!Within
  <2> QED BY <1>4, <2>1
<1>6. ASSUME NEW j \in Keys, NEW r \in Requests, Counted!Admit(j, r)
      PROVE  Cardinality(new) <= LimitOf[k[1]]
  <2>1. /\ Cardinality(Counted!Recent(j)) < [key \in Keys |-> LimitOf[key[1]]][j]
        /\ admittedAt' = [admittedAt EXCEPT ![j][r] = now]
        BY <1>6, SameCardinality DEF Counted!Admit
  <2>2. CASE j # k
    <3>1. admittedAt'[k] = admittedAt[k] BY <1>1, <2>1, <2>2
    <3>2. new = old BY <3>1 DEF Counted!Within
    <3> QED BY <1>4, <3>2
  <2>3. CASE j = k /\ r \notin new
    <3>1. \A q \in Requests \ {r} : admittedAt'[k][q] = admittedAt[k][q] BY <1>1, <2>1, <2>3
    <3>2. new \subseteq old BY <2>3, <3>1 DEF Counted!Within
    <3> QED BY <1>4, <3>2
  <2>4. CASE j = k /\ r \in new
    <3>1. /\ admittedAt'[k][r] = now
          /\ \A q \in Requests \ {r} : admittedAt'[k][q] = admittedAt[k][q]
          BY <1>1, <2>1, <2>4
    <3>2. from <= now /\ now < from + W BY <2>4, <3>1 DEF Counted!Within
    <3>3. new \subseteq recent \cup {r}
      <4> SUFFICES ASSUME NEW q \in new, q # r PROVE q \in recent OBVIOUS
      <4>1. /\ q \in Requests /\ admittedAt[k][q] # 0 /\ from <= admittedAt[k][q]
            BY <3>1 DEF Counted!Within
      <4>2. admittedAt[k][q] \in Nat BY <1>1, <4>1
      <4>3. admittedAt[k][q] + W > now BY <1>1, <3>2, <4>1, <4>2
      <4> QED BY <4>1, <4>3 DEF Counted!Recent
    <3>4. IsFiniteSet(recent \cup {r}) /\ Cardinality(recent \cup {r}) <= Cardinality(recent) + 1
          /\ Cardinality(recent) \in Nat
      <4> HIDE DEF recent
      <4>1. Cardinality(recent) \in Nat BY <1>3, FS_CardinalityType
      <4>2. IsFiniteSet(recent \cup {r}) BY <1>3, FS_AddElement
      <4>3. Cardinality(recent \cup {r}) \in {Cardinality(recent), Cardinality(recent) + 1}
            BY <1>3, FS_AddElement
      <4> QED BY <4>1, <4>2, <4>3
    <3>5. Cardinality(new) <= Cardinality(recent \cup {r}) /\ Cardinality(new) \in Nat
          /\ Cardinality(recent \cup {r}) \in Nat
          BY <3>3, <3>4, FS_Subset, FS_CardinalityType
    <3>6. Cardinality(recent) < LimitOf[k[1]] BY <2>1, <2>4
    <3> QED BY <1>1, <3>4, <3>5, <3>6
  <2> QED BY <2>2, <2>3, <2>4
<1>7. UNCHANGED admittedAt \/ \E j \in Keys, r \in Requests : Counted!Admit(j, r)
  <2>1. Counted!Next \/ UNCHANGED Counted!vars BY StepSimulated
  <2>2. CASE Counted!Tick BY <2>2 DEF Counted!Tick
  <2>3. CASE UNCHANGED Counted!vars BY <2>3 DEF Counted!vars
  <2> QED BY <2>1, <2>2, <2>3 DEF Counted!Next
<1> QED BY <1>5, <1>6, <1>7

\* rateLimitSlidingWindow, as its configuration is read: no interval as long as the window,
\* less the latency of Redis, sees more than the limit of a client's requests pass a
\* limiter that could count them.
THEOREM NoWindowExceeded == Spec => []Counted!AtMostLimit
<1> DEFINE Held == \A k \in Keys, from \in Nat :
                      Cardinality(Counted!Within(k, from)) <= LimitOf[k[1]]
<1>1. Init => Held
  <2> SUFFICES ASSUME Init, NEW k \in Keys, NEW from \in Nat
               PROVE  Cardinality(Counted!Within(k, from)) <= LimitOf[k[1]]
      OBVIOUS
  <2>1. Counted!Within(k, from) = {} BY DEF Init, Empty, Counted!Within
  <2>2. LimitOf[k[1]] \in Nat BY GatewayAssumption DEF Keys
  <2> QED BY <2>1, <2>2, FS_EmptySet
<1>2. GatewayInv /\ Held /\ [Next]_vars => Held' BY WindowStep
<1>3. GatewayInv /\ Held => Counted!AtMostLimit
  <2> SUFFICES ASSUME GatewayInv, Held, NEW k \in Keys, NEW from \in 0 .. now
               PROVE  Counted!Cardinality(Counted!Within(k, from)) <= LimitOf[k[1]]
      BY DEF Counted!AtMostLimit
  <2>1. from \in Nat BY DEF GatewayInv, TypeOK, Time
  <2> QED BY <2>1, SameCardinality
<1> HIDE DEF Held
<1> QED BY <1>1, <1>2, <1>3, GatewayInvariant, PTL DEF Spec

-----------------------------------------------------------------------------
(***************************************************************************)
(* Maintenance.                                                            *)
(***************************************************************************)
\* The flag a request is decided by, in the two actions that decide.
LEMMA DecidedByFlag ==
    ASSUME GatewayInv, [Next]_vars, NEW r \in Requests, pc[r] \in {"new", "fetched"},
           pc'[r] \in {"pipeline", "maintenance"}, Settled
    PROVE  \E request \in Reqs : /\ DecideMaintenance(r, request, flag)
                                 /\ request.kind \in AllKinds
<1> USE DEF GatewayInv
<1>1. now \in Nat /\ since \in Nat /\ CacheTtl \in Nat /\ Latency \in Nat
      BY GatewayAssumption DEF TypeOK, Time
<1>2. now > since + CacheTtl /\ now > since + Latency BY <1>1 DEF Settled, Larger
<1>3. pc'[r] # pc[r] OBVIOUS
<1>4. Arrive(r) \/ Fetched(r)
  <2>1. \A q \in Requests : pc'[q] = pc[q] \/ pc' # pc OBVIOUS
  <2>2. ASSUME NEW q \in Requests, q # r,
               \/ Arrive(q) \/ Fetch(q) \/ Fetched(q) \/ FetchFails(q)
               \/ Pipeline(q) \/ AnswerLost(q) \/ PipelineFails(q) \/ CommandsFail(q)
        PROVE  pc'[r] = pc[r]
    BY <2>2 DEF Arrive, Fetch, Fetched, FetchFails, Pipeline, AnswerLost, PipelineFails,
                CommandsFail, DecideMaintenance, Proceed, Answer, TypeOK
  <2>3. ~(\/ Fetch(r) \/ FetchFails(r) \/ Pipeline(r) \/ AnswerLost(r) \/ PipelineFails(r)
          \/ CommandsFail(r))
        BY DEF Fetch, FetchFails, Pipeline, AnswerLost, PipelineFails, CommandsFail
  <2>4. ~(Tick \/ Toggle \/ UNCHANGED vars \/ \E k \in Keys : KeyExpires(k))
        BY <1>3 DEF Tick, Toggle, KeyExpires, vars
  <2> QED BY <1>3, <2>2, <2>3, <2>4 DEF Next
<1>5. CASE Arrive(r)
  <2>1. PICK s \in Servers, c \in Clients, kind \in Kinds :
          LET request == [NoRequest EXCEPT !.server = s, !.client = c, !.kind = kind,
                                           !.asked = now] IN
          IF Stale(s)
          THEN /\ pc' = [pc EXCEPT ![r] = "fetch"]
               /\ req' = [req EXCEPT ![r] = request]
          ELSE DecideMaintenance(r, request, cache[s].value)
        BY <1>5 DEF Arrive
  <2> DEFINE request == [NoRequest EXCEPT !.server = s, !.client = c, !.kind = kind,
                                          !.asked = now]
  <2>2. request \in Reqs
    <3>1. now \in Nat /\ kind \in AllKinds BY GatewayAssumption DEF TypeOK, Time
    <3> QED BY <3>1, NoRequestType DEF Reqs, Time
  <2>3. ~Stale(s) BY <2>1 DEF TypeOK
  <2>4. cache[s].at \in Nat /\ since < cache[s].at BY <1>1, <1>2, <2>3 DEF Stale, TypeOK, Time
  <2>5. cache[s].value = flag BY <2>4 DEF CacheSound
  <2>6. DecideMaintenance(r, request, flag) BY <2>1, <2>3, <2>5
  <2> QED BY <2>2, <2>6 DEF Reqs
<1>6. CASE Fetched(r)
  <2>1. pc[r] = "fetched" /\ DecideMaintenance(r, req[r], req[r].got) BY <1>6 DEF Fetched
  <2>2. req[r] \in Reqs /\ req[r].asked \in Nat BY DEF TypeOK, Reqs, Time
  <2>3. since < req[r].asked BY <1>1, <1>2, <2>1, <2>2 DEF ClockSound, Waiting
  <2>4. req[r].got = flag BY <2>1, <2>3 DEF FetchedSound
  <2> QED BY <2>1, <2>2, <2>4 DEF Reqs
<1> QED BY <1>4, <1>5, <1>6

\* createMaintenanceMiddleware, for any number of processes and requests: a flag that has
\* been set for the life of the cache, or one query, turns away every ordinary request.
THEOREM MaintenanceIsEffective == Spec => MaintenanceEffective
<1>1. ASSUME GatewayInv, [Next]_vars, NEW r \in Requests, LetsThrough(r), Ordinary(r),
             flag, Settled
      PROVE  FALSE
  <2>1. PICK request \in Reqs : DecideMaintenance(r, request, flag)
        BY <1>1, DecidedByFlag DEF LetsThrough
  <2>2. request.kind \in Exempt
    <3> SUFFICES ASSUME request.kind \notin Exempt PROVE FALSE OBVIOUS
    <3>1. pc'[r] = "maintenance" BY <1>1, <2>1 DEF DecideMaintenance, Answer, GatewayInv, TypeOK
    <3> QED BY <1>1, <3>1 DEF LetsThrough
  <2>3. Proceed(r, request, 1) BY <2>2, <2>1 DEF DecideMaintenance
  <2>4. req'[r].kind = request.kind
    <3>1. pc'[r] = "pipeline" BY <1>1 DEF LetsThrough
    <3>2. req' = [req EXCEPT ![r] = [request EXCEPT !.gate = 1, !.asked = now, !.got = FALSE]]
          BY <2>3, <3>1, <1>1 DEF Proceed, Answer, GatewayInv, TypeOK
    <3>3. req'[r] = [request EXCEPT !.gate = 1, !.asked = now, !.got = FALSE]
          BY <1>1, <3>2 DEF GatewayInv, TypeOK
    <3> QED BY <3>3 DEF Reqs
  <2> QED BY <1>1, <2>2, <2>4 DEF Ordinary
<1>2. GatewayInv /\ [Next]_vars =>
        [\A r \in Requests : LetsThrough(r) /\ Ordinary(r) => ~(flag /\ Settled)]_vars
      BY <1>1
<1> QED BY <1>2, GatewayInvariant, PTL DEF Spec, MaintenanceEffective

\* And a flag that has been removed for as long turns nobody away.
THEOREM MaintenanceIsLifted == Spec => MaintenanceLifted
<1>1. ASSUME GatewayInv, [Next]_vars, NEW r \in Requests, TurnsAway(r), ~flag, Settled
      PROVE  FALSE
  <2>1. PICK request \in Reqs : DecideMaintenance(r, request, flag)
        BY <1>1, DecidedByFlag DEF TurnsAway
  <2>2. Proceed(r, request, 1) BY <1>1, <2>1 DEF DecideMaintenance
  <2> QED BY <1>1, <2>2 DEF Proceed, Answer, TurnsAway, GatewayInv, TypeOK
<1>2. GatewayInv /\ [Next]_vars =>
        [\A r \in Requests : TurnsAway(r) => ~(~flag /\ Settled)]_vars
      BY <1>1
<1> QED BY <1>2, GatewayInvariant, PTL DEF Spec, MaintenanceLifted
=============================================================================
