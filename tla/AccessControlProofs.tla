------------------------- MODULE AccessControlProofs -------------------------
(***************************************************************************)
(* How long a stale session lets anyone in, for any intervals, latency,    *)
(* users, sessions and requests.                                           *)
(***************************************************************************)
EXTENDS AccessControl, TLAPS

(***************************************************************************)
(* The inductive invariant: what every copy of a session, in Redis or in   *)
(* the memory of a request, says about its session and its user.           *)
(***************************************************************************)
Sound(content, s) ==
    LET past == since[born[s].user] IN
    /\ content.verifiedAt <= now
    /\ content.createdAt = born[s].at
    /\ content.stepUpAt <= proved[s]
    /\ past.blocked # 0 => content.verifiedAt <= past.blocked + Latency
    /\ past.noAdmin # 0 /\ content.role = "ADMIN" =>
          content.verifiedAt <= past.noAdmin + Latency

\* A query is under way, sent while the session was within its lifetime.
Asking(r) ==
    /\ req[r].asked <= now /\ now <= req[r].asked + Latency
    /\ req[r].asked <= born[req[r].sid].at + AbsoluteTtl

\* The row that was read was the user's when the query was sent or later.
RowFresh(r) ==
    LET past == since[born[req[r].sid].user] IN
    /\ past.blocked # 0 /\ req[r].row.status \notin HardBlocked =>
          req[r].asked <= past.blocked
    /\ past.noAdmin # 0 /\ req[r].row.role = "ADMIN" => req[r].asked <= past.noAdmin

\* The request was let in in time.
InTime(request) ==
    LET past == since[born[request.sid].user] IN
    /\ request.admitted <= now
    /\ past.blocked # 0 => request.admitted <= past.blocked + VerifyInterval + Latency
    /\ past.noAdmin # 0 /\ request.kind \in AdminKinds =>
          request.admitted <= past.noAdmin + VerifyInterval + Latency
    /\ request.admitted <= born[request.sid].at + AbsoluteTtl + Latency
    /\ request.kind \in StepUpKinds =>
          proved[request.sid] # 0 /\ request.admitted <= proved[request.sid] + StepUpWindow

RequestSound(r) == pc[r] # "idle" =>
    /\ born[req[r].sid].at # 0
    /\ Sound(req[r].copy, req[r].sid)
    /\ pc[r] \in {"read", "resume"} => Asking(r)
    /\ pc[r] = "resume" => RowFresh(r)
    /\ pc[r] = "handler" => InTime(req[r])

StoreSound  == \A s \in Sids : store[s] # NoSession =>
                  born[s].at # 0 /\ Sound(store[s], s)
SinceSound  == \A u \in Users :
                  /\ user[u].status \in HardBlocked <=> since[u].blocked # 0
                  /\ user[u].role # "ADMIN" <=> since[u].noAdmin # 0
ClockSound  == now # 0 /\ \A s \in Sids : born[s].at <= now /\ proved[s] <= now

AccessInv == /\ TypeOK /\ ClockSound /\ SinceSound /\ StoreSound
             /\ \A r \in Requests : RequestSound(r)

\* The values that stand for nothing yet have their types.
LEMMA BlankTypes == BlankContent \in Contents /\ NoRequest \in Reqs /\ NobodyYet.user \in Users
<1>1. BlankContent \in Contents
  BY DEF BlankContent, Contents, AllRoles, AllStatuses, Time
<1>2. NoRequest \in Reqs
  <2>1. (CHOOSE s \in Sids : TRUE) \in Sids
    BY AccessAssumption
  <2> QED BY <1>1, <2>1 DEF NoRequest, Reqs, Rows, AllKinds, AllRoles, AllStatuses, Time
<1>3. NobodyYet.user \in Users
  BY AccessAssumption DEF NobodyYet
<1> QED BY <1>1, <1>2, <1>3

\* What is left of a request keeps its session and its copy; let in, it keeps its
\* endpoint too and has the time of its admission.
LEMMA LeftOver ==
    ASSUME NEW request \in Reqs
    PROVE  /\ Leaving(request) \in Reqs
           /\ Leaving(request).sid = request.sid /\ Leaving(request).copy = request.copy
           /\ now \in Nat =>
                /\ LetIn(request) \in Reqs /\ LetIn(request).kind = request.kind
                /\ LetIn(request).sid = request.sid /\ LetIn(request).copy = request.copy
                /\ LetIn(request).admitted = now
BY BlankTypes DEF Leaving, LetIn, Reqs, Time

\* The invariant holds before anybody has logged in.
LEMMA AccessInit == Init => AccessInv
<1> SUFFICES ASSUME Init PROVE AccessInv
  OBVIOUS
<1> USE AccessAssumption, NoSessionAssumption, BlankTypes DEF Init
<1>1. TypeOK
  <2>1. born \in [Sids -> [user : Users, at : Time]]
    BY DEF NobodyYet, Time
  <2>2. user \in [Users -> Rows]
    BY DEF Rows
  <2>3. since \in [Users -> [blocked : Time, noAdmin : Time]]
    BY DEF Time
  <2> QED BY <2>1, <2>2, <2>3 DEF TypeOK, Time
<1>2. ClockSound
  <2>1. NobodyYet.at = 0 /\ Epoch \in Nat /\ Epoch # 0
    BY DEF NobodyYet
  <2> QED BY <2>1 DEF ClockSound
<1>3. SinceSound
  <2>1. Epoch # 0
    OBVIOUS
  <2>2. ASSUME NEW u \in Users
        PROVE  user[u].status \notin HardBlocked /\ since[u].blocked = 0
               /\ since[u].noAdmin = (IF user[u].role # "ADMIN" THEN Epoch ELSE 0)
    BY DEF HardBlocked
  <2> QED BY <2>1, <2>2 DEF SinceSound
<1>4. StoreSound /\ \A r \in Requests : RequestSound(r)
  BY DEF StoreSound, RequestSound
<1> QED BY <1>1, <1>2, <1>3, <1>4 DEF AccessInv

(***************************************************************************)
(* The steps.                                                              *)
(***************************************************************************)

\* What an operation of the administrator does to the row and its history.
LEMMA SetUserStep ==
    ASSUME AccessInv, NEW u \in Users, NEW row \in Rows, SetUser(u, row)
    PROVE  AccessInv'
<1> USE DEF AccessInv, SetUser, Time
<1>1. SinceNow(u, row) \in [blocked : Nat, noAdmin : Nat]
  BY DEF SinceNow, Onset, TypeOK
<1>2. since' = [since EXCEPT ![u] = SinceNow(u, row)]
  OBVIOUS
<1>3. TypeOK'
  BY <1>1 DEF TypeOK
<1>4. /\ SinceNow(u, row).blocked = 0 <=> row.status \notin HardBlocked
      /\ SinceNow(u, row).noAdmin = 0 <=> row.role = "ADMIN"
  BY DEF SinceNow, Onset, ClockSound, SinceSound, TypeOK
<1>5. ClockSound' /\ SinceSound'
  BY <1>1, <1>4 DEF ClockSound, SinceSound, TypeOK
<1>6. ASSUME NEW v \in Users
      PROVE  /\ since'[v].blocked # 0 => since'[v].blocked = now
                                          \/ since'[v].blocked = since[v].blocked
             /\ since'[v].noAdmin # 0 => since'[v].noAdmin = now
                                          \/ since'[v].noAdmin = since[v].noAdmin
  BY <1>1 DEF SinceNow, Onset, TypeOK
<1>7. ASSUME NEW content \in Contents, NEW s \in Sids, Sound(content, s)
      PROVE  Sound(content, s)'
  <2>1. born[s].user \in Users
    BY DEF TypeOK
  <2>2. content.verifiedAt \in Nat /\ content.verifiedAt <= now /\ now \in Nat
    BY <1>7 DEF Sound, TypeOK, Contents
  <2>3. since'[born[s].user].blocked # 0 =>
           content.verifiedAt <= since'[born[s].user].blocked + Latency
    BY <1>6, <1>7, <2>1, <2>2, AccessAssumption DEF Sound
  <2>4. since'[born[s].user].noAdmin # 0 /\ content.role = "ADMIN" =>
           content.verifiedAt <= since'[born[s].user].noAdmin + Latency
    BY <1>6, <1>7, <2>1, <2>2, AccessAssumption DEF Sound
  <2> QED BY <1>7, <2>3, <2>4 DEF Sound
<1>8. StoreSound'
  BY <1>7 DEF StoreSound, TypeOK
<1>9. ASSUME NEW r \in Requests
      PROVE  RequestSound(r)'
  <2>1. req[r].copy \in Contents /\ req[r].sid \in Sids /\ req[r].asked \in Nat
        /\ req[r].admitted \in Nat /\ born[req[r].sid].user \in Users /\ now \in Nat
    BY DEF TypeOK, Reqs
  <2>2. RequestSound(r)
    OBVIOUS
  <2>3. Asking(r) => Asking(r)'
    BY DEF Asking
  <2>4. Asking(r) /\ RowFresh(r) => RowFresh(r)'
    BY <1>6, <2>1 DEF Asking, RowFresh
  <2>5. InTime(req[r]) => InTime(req[r])'
    BY <1>6, <2>1, AccessAssumption DEF InTime, TypeOK
  <2> QED BY <1>7, <2>1, <2>2, <2>3, <2>4, <2>5 DEF RequestSound
<1> QED BY <1>3, <1>5, <1>8, <1>9

\* The last guards let a request in, in time, or send it away.
LEMMA PassAuthStep ==
    ASSUME AccessInv, NEW r \in Requests, NEW request \in Reqs, PassAuth(r, request),
           UNCHANGED <<now, user, store, born, proved, since>>,
           born[request.sid].at # 0, Sound(request.copy, request.sid),
           now <= request.copy.verifiedAt + VerifyInterval,
           now <= born[request.sid].at + AbsoluteTtl + Latency
    PROVE  AccessInv'
<1> USE DEF AccessInv, Time
<1> DEFINE marked == [request EXCEPT !.dirty = @ \/ request.kind # "queues"]
           entered == LetIn(marked)
           away    == Leaving(marked)
<1>a. marked \in Reqs /\ marked.sid = request.sid /\ marked.copy = request.copy
      /\ marked.kind = request.kind
  BY DEF Reqs
<1>b. /\ entered \in Reqs /\ entered.sid = request.sid /\ entered.copy = request.copy
      /\ entered.kind = request.kind /\ entered.admitted = now
      /\ away \in Reqs /\ away.sid = request.sid /\ away.copy = request.copy
  <2>1. now \in Nat
    BY DEF TypeOK
  <2> HIDE DEF marked
  <2> QED BY <1>a, <2>1, LeftOver
<1>c. \/ Continue(r, "end", away)
      \/ /\ Continue(r, "handler", entered)
         /\ request.kind \in AdminKinds => request.copy.role = "ADMIN"
         /\ request.kind \in StepUpKinds => StepUpDone(request.copy)
  BY DEF PassAuth, AdminAllows, BoardAllows, AdminKinds, BusinessKinds
<1>1. PICK next \in Reqs :
      /\ req' = [req EXCEPT ![r] = next]
      /\ next.sid = request.sid /\ next.copy = request.copy
      /\ \/ pc' = [pc EXCEPT ![r] = "end"]
         \/ /\ pc' = [pc EXCEPT ![r] = "handler"] /\ next.admitted = now
            /\ next.kind = request.kind
            /\ request.kind \in AdminKinds => request.copy.role = "ADMIN"
            /\ request.kind \in StepUpKinds => StepUpDone(request.copy)
  <2> HIDE DEF marked, entered, away
  <2>1. CASE Continue(r, "end", away)
    BY <1>b, <2>1 DEF Continue
  <2>2. CASE ~Continue(r, "end", away)
    BY <1>b, <1>c, <2>2 DEF Continue
  <2> QED BY <2>1, <2>2
<1>d. req'[r] = next
  BY <1>1 DEF TypeOK
<1> HIDE DEF marked, entered, away
<1>2. request.sid \in Sids /\ request.copy \in Contents /\ now \in Nat
      /\ born[request.sid] \in [user : Users, at : Nat] /\ proved[request.sid] \in Nat
      /\ since[born[request.sid].user] \in [blocked : Nat, noAdmin : Nat]
  BY DEF TypeOK, Reqs
<1>3. request.copy.verifiedAt \in Nat /\ request.copy.stepUpAt \in Nat
  BY <1>2 DEF Contents
<1>4. TypeOK'
  BY <1>1 DEF TypeOK
<1>5. RequestSound(r)'
  <2>1. Sound(req[r].copy, req[r].sid)' /\ born'[req'[r].sid].at # 0
    BY <1>1, <1>d DEF Sound
  <2>2. ASSUME pc'[r] = "handler"
        PROVE  InTime(req[r])'
    <3>1. next.admitted = now /\ next.kind = request.kind
          /\ (request.kind \in AdminKinds => request.copy.role = "ADMIN")
          /\ (request.kind \in StepUpKinds =>
                request.copy.stepUpAt # 0 /\ now - request.copy.stepUpAt <= StepUpWindow)
      BY <1>1, <2>2 DEF StepUpDone, TypeOK
    <3>2. request.kind \in StepUpKinds =>
             proved[request.sid] # 0 /\ now <= proved[request.sid] + StepUpWindow
      BY <1>2, <1>3, <3>1, AccessAssumption DEF Sound
    <3>3. LET past == since[born[request.sid].user] IN
          /\ past.blocked # 0 => now <= past.blocked + VerifyInterval + Latency
          /\ past.noAdmin # 0 /\ request.kind \in AdminKinds =>
                now <= past.noAdmin + VerifyInterval + Latency
      BY <1>2, <1>3, <3>1, AccessAssumption DEF Sound
    <3> QED BY <1>1, <1>d, <1>2, <3>1, <3>2, <3>3 DEF InTime
  <2>3. pc'[r] \in {"end", "handler"}
    BY <1>1 DEF TypeOK
  <2> QED BY <2>1, <2>2, <2>3 DEF RequestSound
<1>6. \A q \in Requests \ {r} : RequestSound(q)'
  BY <1>1 DEF RequestSound, Sound, Asking, RowFresh, InTime, TypeOK
<1>7. ClockSound' /\ SinceSound' /\ StoreSound'
  BY DEF ClockSound, SinceSound, StoreSound, Sound
<1> QED BY <1>4, <1>5, <1>6, <1>7

\* A request moves on or away: the others, and what they rest on, stay.
LEMMA MoveStep ==
    ASSUME AccessInv, NEW r \in Requests, NEW step \in {"idle", "read", "resume", "destroy", "end"},
           NEW request \in Reqs, Continue(r, step, request),
           UNCHANGED <<now, user, store, born, proved, since>>,
           step # "idle" => /\ born[request.sid].at # 0
                            /\ Sound(request.copy, request.sid),
           step \in {"read", "resume"} => Asking(r)',
           step = "resume" => RowFresh(r)'
    PROVE  AccessInv'
<1> USE DEF AccessInv, Continue, Time
<1>1. req'[r] = request /\ pc'[r] = step
      /\ \A q \in Requests \ {r} : req'[q] = req[q] /\ pc'[q] = pc[q]
  BY DEF TypeOK
<1>2. TypeOK'
  BY DEF TypeOK
<1>3. RequestSound(r)'
  BY <1>1 DEF RequestSound, Sound
<1>4. \A q \in Requests \ {r} : RequestSound(q)'
  BY <1>1 DEF RequestSound, Sound, Asking, RowFresh, InTime
<1>5. ClockSound' /\ SinceSound' /\ StoreSound'
  BY DEF ClockSound, SinceSound, StoreSound, Sound
<1> QED BY <1>2, <1>3, <1>4, <1>5

\* A request that arrives is stamped with the copy it loaded.
LEMMA ArriveStep == ASSUME AccessInv, NEW r \in Requests, Arrive(r) PROVE AccessInv'
<1> USE DEF AccessInv, Time
<1>1. PICK s \in Sids, kind \in Kinds :
        /\ store[s] # NoSession
        /\ LET request == [NoRequest EXCEPT !.kind = kind, !.sid = s, !.copy = store[s]]
           IN \/ /\ StatusRefuses(kind, store[s])
                 /\ Continue(r, "end", Leaving(request))
              \/ /\ ~StatusRefuses(kind, store[s]) /\ Expired(store[s])
                 /\ Continue(r, "destroy", Leaving(request))
              \/ /\ ~StatusRefuses(kind, store[s]) /\ ~Expired(store[s])
                 /\ IF MustVerify(store[s])
                    THEN Continue(r, "read", [request EXCEPT !.asked = now])
                    ELSE PassAuth(r, request)
  BY DEF Arrive
<1>2. UNCHANGED <<now, user, store, born, proved, since>>
  BY DEF Arrive
<1> DEFINE request == [NoRequest EXCEPT !.kind = kind, !.sid = s, !.copy = store[s]]
           asking  == [request EXCEPT !.asked = now]
           away    == Leaving(request)
<1>3. store[s] \in Contents /\ born[s].at # 0 /\ Sound(store[s], s) /\ kind \in AllKinds
  BY <1>1, AccessAssumption DEF TypeOK, StoreSound
<1>4. request \in Reqs /\ request.sid = s /\ request.copy = store[s]
  BY <1>3, BlankTypes DEF Reqs
<1>5. away \in Reqs /\ away.sid = s /\ away.copy = store[s]
  <2> HIDE DEF request
  <2> QED BY <1>4, LeftOver
<1>6. asking \in Reqs /\ asking.sid = s /\ asking.copy = store[s] /\ asking.asked = now
  BY <1>4 DEF Reqs, TypeOK
<1>7. \/ Continue(r, "end", away)
      \/ Continue(r, "destroy", away)
      \/ ~Expired(store[s]) /\ MustVerify(store[s]) /\ Continue(r, "read", asking)
      \/ ~Expired(store[s]) /\ ~MustVerify(store[s]) /\ PassAuth(r, request)
  BY <1>1
<1>8. now \in Nat /\ store[s].verifiedAt \in Nat /\ store[s].createdAt \in Nat
      /\ born[s].at \in Nat
  BY <1>3 DEF TypeOK, Contents
<1>9. ~Expired(store[s]) => now <= born[s].at + AbsoluteTtl
  BY <1>3, <1>8, AccessAssumption DEF Expired, Sound
<1>10. ~MustVerify(store[s]) => now <= store[s].verifiedAt + VerifyInterval
  BY <1>3, <1>8, AccessAssumption DEF MustVerify, Sound
<1> HIDE DEF request, asking, away
<1>11. CASE Continue(r, "end", away) \/ Continue(r, "destroy", away)
  BY <1>2, <1>3, <1>5, <1>11, MoveStep
<1>12. CASE ~Expired(store[s]) /\ Continue(r, "read", asking)
  <2>1. req'[r] = asking
    BY <1>12 DEF Continue, TypeOK
  <2>2. Asking(r)'
    BY <1>2, <1>6, <1>8, <1>9, <1>12, <2>1, AccessAssumption DEF Asking
  <2> QED BY <1>2, <1>3, <1>6, <1>12, <2>2, MoveStep
<1>13. CASE ~Expired(store[s]) /\ ~MustVerify(store[s]) /\ PassAuth(r, request)
  <2>1. now <= born[s].at + AbsoluteTtl + Latency
    BY <1>8, <1>9, <1>13, AccessAssumption
  <2> QED BY <1>2, <1>3, <1>4, <1>10, <1>13, <2>1, PassAuthStep
<1> QED BY <1>7, <1>11, <1>12, <1>13

\* The row is read after the query was sent: RowFresh.
LEMMA ReadUserStep == ASSUME AccessInv, NEW r \in Requests, ReadUser(r) PROVE AccessInv'
<1> USE DEF AccessInv, Time
<1> DEFINE answered == [req[r] EXCEPT !.row = user[born[req[r].sid].user]]
<1>1. pc[r] = "read" /\ Continue(r, "resume", answered)
      /\ UNCHANGED <<now, user, store, born, proved, since>>
  BY DEF ReadUser
<1>2. req[r] \in Reqs /\ born[req[r].sid].user \in Users
  BY DEF TypeOK, Reqs
<1>3. user[born[req[r].sid].user] \in Rows
  BY <1>2 DEF TypeOK
<1>4. answered \in Reqs /\ answered.sid = req[r].sid /\ answered.copy = req[r].copy
      /\ answered.asked = req[r].asked /\ answered.row = user[born[req[r].sid].user]
  BY <1>2, <1>3 DEF Reqs
<1>5. req'[r] = answered
  BY <1>1 DEF Continue, TypeOK
<1> HIDE DEF answered
<1>6. Asking(r)' /\ born[answered.sid].at # 0 /\ Sound(answered.copy, answered.sid)
  BY <1>1, <1>4, <1>5 DEF RequestSound, Asking
<1>7. RowFresh(r)'
  BY <1>1, <1>2, <1>4, <1>5 DEF RowFresh, SinceSound
<1> QED BY <1>1, <1>4, <1>6, <1>7, MoveStep

\* A request whose query was rejected takes nothing from the database with it.
LEMMA ReadFailsStep == ASSUME AccessInv, NEW r \in Requests, ReadFails(r) PROVE AccessInv'
<1>1. pc[r] = "read" /\ Continue(r, "end", Leaving(req[r]))
      /\ UNCHANGED <<now, user, store, born, proved, since>>
  BY DEF ReadFails
<1>2. req[r] \in Reqs /\ RequestSound(r)
  BY DEF AccessInv, TypeOK
<1>3. Leaving(req[r]) \in Reqs /\ born[Leaving(req[r]).sid].at # 0
      /\ Sound(Leaving(req[r]).copy, Leaving(req[r]).sid)
  BY <1>1, <1>2, LeftOver DEF RequestSound
<1> QED BY <1>1, <1>3, MoveStep

\* What the row said is no older than the query when the guards go on.
LEMMA ResumeStep == ASSUME AccessInv, NEW r \in Requests, Resume(r) PROVE AccessInv'
<1> USE DEF AccessInv, Time
<1> DEFINE refreshed == [req[r] EXCEPT !.copy.role = req[r].row.role,
                                       !.copy.status = req[r].row.status,
                                       !.copy.verifiedAt = now, !.dirty = TRUE]
<1>1. pc[r] = "resume" /\ UNCHANGED <<now, user, store, born, proved, since>>
      /\ \/ Continue(r, "destroy", Leaving(req[r]))
         \/ req[r].row.status \notin HardBlocked /\ PassAuth(r, refreshed)
  BY DEF Resume
<1>2. req[r] \in Reqs /\ req[r].sid \in Sids /\ req[r].copy \in Contents
      /\ req[r].row \in Rows /\ now \in Nat /\ req[r].asked \in Nat
  BY DEF TypeOK, Reqs
<1>3. RequestSound(r)
  OBVIOUS
<1>4. refreshed \in Reqs /\ refreshed.sid = req[r].sid
  BY <1>2 DEF Reqs, Contents, Rows
<1>5. /\ refreshed.copy.verifiedAt = now /\ refreshed.copy.role = req[r].row.role
      /\ refreshed.copy.createdAt = req[r].copy.createdAt
      /\ refreshed.copy.stepUpAt = req[r].copy.stepUpAt
  BY <1>2 DEF Reqs, Contents, Rows
<1> HIDE DEF refreshed
<1>6. CASE Continue(r, "destroy", Leaving(req[r]))
  <2>1. Leaving(req[r]) \in Reqs /\ born[Leaving(req[r]).sid].at # 0
        /\ Sound(Leaving(req[r]).copy, Leaving(req[r]).sid)
    BY <1>1, <1>2, <1>3, LeftOver DEF RequestSound
  <2> QED BY <1>1, <1>6, <2>1, MoveStep
<1>7. CASE req[r].row.status \notin HardBlocked /\ PassAuth(r, refreshed)
  <2>1. born[req[r].sid].at # 0 /\ Sound(req[r].copy, req[r].sid) /\ Asking(r) /\ RowFresh(r)
    BY <1>1, <1>3 DEF RequestSound
  <2>2. since[born[req[r].sid].user] \in [blocked : Nat, noAdmin : Nat]
        /\ born[req[r].sid].at \in Nat
    BY <1>2 DEF TypeOK
  <2>3. Sound(refreshed.copy, req[r].sid)
    BY <1>2, <1>5, <1>7, <2>1, <2>2, AccessAssumption DEF Sound, RowFresh, Asking
  <2>4. now <= born[req[r].sid].at + AbsoluteTtl + Latency
    BY <1>2, <2>1, <2>2, AccessAssumption DEF Asking
  <2>5. now <= refreshed.copy.verifiedAt + VerifyInterval
    BY <1>2, <1>5, AccessAssumption
  <2> QED BY <1>1, <1>4, <1>7, <2>1, <2>3, <2>4, <2>5, PassAuthStep
<1> QED BY <1>1, <1>6, <1>7

\* Other changes of the store: sessions go, or sound content is written.
LEMMA StoreStep ==
    ASSUME AccessInv, UNCHANGED <<now, user, since>>, TypeOK',
           \A s \in Sids : born[s].at # 0 => born'[s] = born[s],
           \A s \in Sids : born'[s].at <= now /\ proved'[s] <= now /\ proved[s] <= proved'[s],
           \A s \in Sids : proved[s] # 0 => proved'[s] # 0,
           \A s \in Sids : \/ store'[s] = NoSession
                           \/ store'[s] = store[s] /\ born'[s] = born[s]
                           \/ born'[s].at # 0 /\ Sound(store[s], s)',
           \A r \in Requests : \/ pc'[r] = "idle"
                               \/ pc'[r] = "end" /\ RequestSound(r)'
                               \/ pc'[r] = pc[r] /\ req'[r] = req[r]
    PROVE  AccessInv'
<1> USE DEF AccessInv, Time
<1>1. ClockSound' /\ SinceSound'
  BY DEF ClockSound, SinceSound
<1>2. ASSUME NEW content \in Contents, NEW s \in Sids, Sound(content, s), born'[s] = born[s]
      PROVE  Sound(content, s)'
  <2>1. content.stepUpAt \in Nat /\ proved[s] \in Nat /\ proved'[s] \in Nat
    BY DEF TypeOK, Contents
  <2> QED BY <1>2, <2>1 DEF Sound
<1>3. ASSUME NEW s \in Sids, store'[s] # NoSession
      PROVE  born'[s].at # 0 /\ Sound(store[s], s)'
  <2>1. CASE store'[s] = store[s] /\ born'[s] = born[s]
    <3>1. store[s] \in Contents /\ Sound(store[s], s) /\ born[s].at # 0
      BY <1>3, <2>1 DEF StoreSound, TypeOK
    <3> QED BY <1>2, <2>1, <3>1 DEF Sound
  <2> QED BY <1>3, <2>1
<1>4. ASSUME NEW r \in Requests
      PROVE  RequestSound(r)'
  <2>1. CASE pc'[r] = pc[r] /\ req'[r] = req[r] /\ pc[r] # "idle"
    <3>1. req[r].sid \in Sids /\ req[r].copy \in Contents /\ req[r].admitted \in Nat
          /\ proved[req[r].sid] \in Nat /\ proved'[req[r].sid] \in Nat
      BY DEF TypeOK, Reqs
    <3>2. RequestSound(r) /\ born[req[r].sid].at # 0 /\ born'[req[r].sid] = born[req[r].sid]
      BY <2>1, <3>1 DEF RequestSound
    <3>3. Sound(req[r].copy, req[r].sid)'
      BY <1>2, <2>1, <3>1, <3>2 DEF RequestSound, Sound
    <3>4. Asking(r) => Asking(r)'
      BY <2>1, <3>2 DEF Asking
    <3>5. RowFresh(r) => RowFresh(r)'
      BY <2>1, <3>2 DEF RowFresh
    <3>6. InTime(req[r]) => InTime(req[r])'
      BY <2>1, <3>1, <3>2, AccessAssumption DEF InTime
    <3> QED BY <2>1, <3>2, <3>3, <3>4, <3>5, <3>6 DEF RequestSound
  <2> QED BY <2>1 DEF RequestSound
<1> QED BY <1>1, <1>3, <1>4 DEF StoreSound

\* A login starts a session of its own user, born now.
LEMMA LoginStep == ASSUME AccessInv, NEW u \in Users, Login(u) PROVE AccessInv'
<1> USE DEF AccessInv, Time
<1>1. PICK s \in Sids, role \in Roles :
        /\ born[s].at = 0
        /\ store' = [store EXCEPT ![s] =
                        [BlankContent EXCEPT !.role = role, !.createdAt = now]]
        /\ born' = [born EXCEPT ![s] = [user |-> u, at |-> now]]
  BY DEF Login
<1>2. UNCHANGED <<now, user, proved, since, pc, req>>
  BY DEF Login
<1> DEFINE content == [BlankContent EXCEPT !.role = role, !.createdAt = now]
<1>3. role \in AllRoles /\ now \in Nat /\ now # 0
  BY AccessAssumption DEF TypeOK, ClockSound
<1>4. content \in Contents /\ content.verifiedAt = 0 /\ content.createdAt = now
      /\ content.stepUpAt = 0
  BY <1>3 DEF BlankContent, Contents, AllStatuses
<1> HIDE DEF content
<1>5. store' = [store EXCEPT ![s] = content]
  BY <1>1 DEF content
<1>6. TypeOK'
  BY <1>1, <1>2, <1>3, <1>4, <1>5 DEF TypeOK
<1>7. since[u] \in [blocked : Nat, noAdmin : Nat] /\ proved[s] \in Nat
  BY DEF TypeOK
<1>8. born'[s].at # 0 /\ Sound(store[s], s)'
  <2>1. store'[s] = content /\ born'[s] = [user |-> u, at |-> now]
    BY <1>1, <1>5 DEF TypeOK
  <2> QED BY <1>2, <1>3, <1>4, <1>7, <2>1, AccessAssumption DEF Sound
<1>9. \A t \in Sids \ {s} : store'[t] = store[t] /\ born'[t] = born[t]
  BY <1>1, <1>5 DEF TypeOK
<1>10. \A t \in Sids : born'[t].at <= now /\ proved'[t] <= now /\ proved[t] <= proved'[t]
  BY <1>1, <1>2, <1>3 DEF ClockSound, TypeOK
<1>11. \A t \in Sids : born[t].at # 0 => born'[t] = born[t]
  BY <1>1, <1>9
<1> QED BY <1>2, <1>6, <1>8, <1>9, <1>10, <1>11, StoreStep DEF TypeOK

\* Sessions only disappear.
LEMMA LosingStep ==
    ASSUME AccessInv, SessionEnds \/ \E u \in Users : RevokeSessions(u)
    PROVE  AccessInv'
<1> USE DEF AccessInv, Time
<1>1. UNCHANGED <<now, user, born, proved, since, pc, req>>
  BY DEF SessionEnds, RevokeSessions
<1>2. store' \in [Sids -> Contents \cup {NoSession}]
      /\ \A s \in Sids : store'[s] = NoSession \/ store'[s] = store[s]
  BY DEF SessionEnds, RevokeSessions, TypeOK
<1>3. TypeOK'
  BY <1>1, <1>2 DEF TypeOK
<1>4. \A s \in Sids : born'[s].at <= now /\ proved'[s] <= now /\ proved[s] <= proved'[s]
  BY <1>1 DEF ClockSound, TypeOK
<1> QED BY <1>1, <1>2, <1>3, <1>4, StoreStep

\* A step-up stores the copy with the time that proved it.
LEMMA StepUpVerifyStep == ASSUME AccessInv, NEW r \in Requests, StepUpVerify(r) PROVE AccessInv'
<1> USE DEF AccessInv, Time
<1>1. PICK s, marked, done :
         /\ s = req[r].sid /\ marked = [req[r].copy EXCEPT !.stepUpAt = now]
         /\ done = [Leaving(req[r]) EXCEPT !.copy = marked, !.dirty = FALSE]
         /\ pc[r] = "handler" /\ store' = [store EXCEPT ![s] = marked]
         /\ proved' = [proved EXCEPT ![s] = now] /\ Continue(r, "end", done)
         /\ UNCHANGED <<now, user, born, since>>
  BY DEF StepUpVerify
<1>2. s \in Sids /\ req[r] \in Reqs /\ req[r].copy \in Contents /\ now \in Nat /\ now # 0
  BY <1>1 DEF TypeOK, Reqs, ClockSound
<1>3. marked \in Contents /\ marked.stepUpAt = now /\ marked.role = req[r].copy.role
      /\ marked.verifiedAt = req[r].copy.verifiedAt /\ marked.createdAt = req[r].copy.createdAt
  BY <1>1, <1>2 DEF Contents
<1>4. done \in Reqs /\ done.sid = s /\ done.copy = marked
  BY <1>1, <1>2, <1>3, LeftOver DEF Reqs
<1>5. req'[r] = done /\ pc'[r] = "end"
      /\ \A q \in Requests \ {r} : req'[q] = req[q] /\ pc'[q] = pc[q]
  BY <1>1 DEF Continue, TypeOK
<1>6. TypeOK'
  BY <1>1, <1>2, <1>3, <1>4 DEF TypeOK, Continue
<1>7. born[s].at # 0 /\ Sound(req[r].copy, s)
  BY <1>1 DEF RequestSound
<1>8. Sound(marked, s)' /\ proved'[s] = now /\ store'[s] = marked
  BY <1>1, <1>2, <1>3, <1>7 DEF Sound, TypeOK
<1>9. RequestSound(r)'
  BY <1>1, <1>4, <1>5, <1>7, <1>8 DEF RequestSound, Sound
<1>10. \A t \in Sids : born'[t].at <= now /\ proved'[t] <= now /\ proved[t] <= proved'[t]
                       /\ (proved[t] # 0 => proved'[t] # 0)
  BY <1>1, <1>2 DEF ClockSound, TypeOK
<1>11. \A t \in Sids : \/ store'[t] = store[t] /\ born'[t] = born[t]
                       \/ born'[t].at # 0 /\ Sound(store[t], t)'
  BY <1>1, <1>7, <1>8 DEF Sound, TypeOK
<1> QED BY <1>1, <1>5, <1>6, <1>9, <1>10, <1>11, StoreStep DEF TypeOK

\* The end of a response stores a copy the request has held all along.
LEMMA EndStep ==
    ASSUME AccessInv, NEW r \in Requests, EndResponse(r) \/ DestroySession(r)
    PROVE  AccessInv'
<1> USE DEF AccessInv, Time
<1>1. /\ pc[r] # "idle" /\ Continue(r, "idle", NoRequest)
      /\ UNCHANGED <<now, user, born, proved, since>>
      /\ \/ store' = [store EXCEPT ![req[r].sid] = NoSession]
         \/ store' = [store EXCEPT ![req[r].sid] = req[r].copy]
         \/ store' = store
  BY DEF EndResponse, DestroySession
<1>2. req[r].sid \in Sids /\ req[r].copy \in Contents
  BY DEF TypeOK, Reqs
<1>3. born[req[r].sid].at # 0 /\ Sound(req[r].copy, req[r].sid)
  BY <1>1 DEF RequestSound
<1>4. TypeOK'
  BY <1>1, <1>2, BlankTypes DEF TypeOK, Continue
<1>5. \A s \in Sids : \/ store'[s] = NoSession
                      \/ store'[s] = store[s] /\ born'[s] = born[s]
                      \/ born'[s].at # 0 /\ Sound(store[s], s)'
  BY <1>1, <1>2, <1>3 DEF Sound, TypeOK
<1>6. \A q \in Requests : \/ pc'[q] = "idle"
                          \/ pc'[q] = pc[q] /\ req'[q] = req[q]
  BY <1>1 DEF Continue, TypeOK
<1>7. \A s \in Sids : born'[s].at <= now /\ proved'[s] <= now /\ proved[s] <= proved'[s]
  BY <1>1 DEF ClockSound, TypeOK
<1> QED BY <1>1, <1>4, <1>5, <1>6, <1>7, StoreStep DEF TypeOK

\* Time passes: every bound is on a moment that is already fixed.
LEMMA TickStep == ASSUME AccessInv, Tick PROVE AccessInv'
<1> USE DEF AccessInv, Time, Tick
<1>1. now \in Nat /\ now' = now + 1
  BY DEF TypeOK
<1>2. TypeOK'
  BY DEF TypeOK
<1>3. ClockSound' /\ SinceSound'
  BY <1>1 DEF ClockSound, SinceSound, TypeOK
<1>4. ASSUME NEW content \in Contents, NEW s \in Sids, Sound(content, s)
      PROVE  Sound(content, s)'
  <2>1. content.verifiedAt \in Nat
    BY DEF Contents
  <2>2. content.verifiedAt <= now
    BY <1>4 DEF Sound
  <2>3. content.verifiedAt <= now'
    BY <1>1, <2>1, <2>2
  <2> QED BY <1>1, <1>4, <2>3 DEF Sound
<1>5. StoreSound'
  BY <1>4 DEF StoreSound, TypeOK
<1>6. ASSUME NEW r \in Requests
      PROVE  RequestSound(r)'
  <2>1. req[r].copy \in Contents /\ req[r].sid \in Sids /\ req[r].asked \in Nat
        /\ req[r].admitted \in Nat
    BY DEF TypeOK, Reqs
  <2>2. RequestSound(r)
    OBVIOUS
  <2>3. pc[r] \in {"read", "resume"} /\ Asking(r) => Asking(r)'
    BY <1>1, <2>1, AccessAssumption DEF Asking
  <2>4. RowFresh(r) => RowFresh(r)'
    BY DEF RowFresh
  <2>5. InTime(req[r]) => InTime(req[r])'
    BY <1>1, <2>1 DEF InTime
  <2> QED BY <1>4, <2>1, <2>2, <2>3, <2>4, <2>5 DEF RequestSound
<1> QED BY <1>2, <1>3, <1>5, <1>6

\* The row of a user changes, whichever endpoint does it.
LEMMA AdminStep ==
    ASSUME AccessInv, NEW u \in Users,
           BlockUser(u) \/ EraseUser(u) \/ ChangeUserRole(u) \/ ChangeStatus(u)
    PROVE  AccessInv'
<1> USE DEF AccessInv
<1>1. user[u] \in Rows
  BY DEF TypeOK
<1>3. /\ \A status \in AllStatuses : [user[u] EXCEPT !.status = status] \in Rows
      /\ \A role \in Roles : [user[u] EXCEPT !.role = role] \in Rows
  BY <1>1, AccessAssumption DEF Rows
<1>4. CASE BlockUser(u)
  BY <1>3, <1>4, SetUserStep DEF BlockUser, AllStatuses
<1>5. CASE EraseUser(u)
  BY <1>3, <1>5, SetUserStep DEF EraseUser, AllStatuses
<1>6. CASE ChangeUserRole(u)
  <2>1. PICK role \in Roles : SetUser(u, [user[u] EXCEPT !.role = role])
    BY <1>6 DEF ChangeUserRole
  <2> QED BY <1>3, <2>1, SetUserStep DEF AllStatuses
<1>7. CASE ChangeStatus(u)
  <2>1. PICK status \in AllStatuses : SetUser(u, [user[u] EXCEPT !.status = status])
    BY <1>7 DEF ChangeStatus, AllStatuses
  <2> QED BY <1>3, <2>1, SetUserStep
<1> QED BY <1>4, <1>5, <1>6, <1>7

\* Every step preserves the invariant.
LEMMA AccessStep == AccessInv /\ [Next]_vars => AccessInv'
<1> SUFFICES ASSUME AccessInv, [Next]_vars
             PROVE  AccessInv'
  OBVIOUS
<1>1. CASE Tick \/ SessionEnds
  BY <1>1, TickStep, LosingStep
<1>2. CASE \E u \in Users : \/ Login(u) \/ BlockUser(u) \/ EraseUser(u) \/ ChangeUserRole(u)
                            \/ ChangeStatus(u) \/ RevokeSessions(u)
  BY <1>2, LoginStep, AdminStep, LosingStep
<1>3. CASE \E r \in Requests : \/ Arrive(r) \/ ReadUser(r) \/ ReadFails(r) \/ Resume(r)
                               \/ StepUpVerify(r) \/ DestroySession(r) \/ EndResponse(r)
  BY <1>3, ArriveStep, ReadUserStep, ReadFailsStep, ResumeStep, StepUpVerifyStep, EndStep
<1>4. CASE UNCHANGED vars
  BY <1>4 DEF vars, AccessInv, TypeOK, ClockSound, SinceSound, StoreSound, Sound,
              RequestSound, Asking, RowFresh, InTime
<1> QED BY <1>1, <1>2, <1>3, <1>4 DEF Next

\* The invariant is inductive: whatever is stored or held in memory was verified
\* no later than one query after the block or the demotion.
THEOREM AccessInductive == Spec => []AccessInv
BY AccessInit, AccessStep, PTL DEF Spec

\* What a handler serves was let in in time.
LEMMA ServedInTime == ASSUME AccessInv, NEW r \in Requests, Served(r) PROVE InTime(req[r])
BY DEF AccessInv, RequestSound, Served

\* Every copy of a session and every request is well-formed at all times.
THEOREM AccessTypes == Spec => []TypeOK
BY AccessInductive, PTL DEF AccessInv

\* Whatever the interval and the latency of the query, and whoever writes a stale
\* copy back: a blocked user is let in for their sum at most.
THEOREM BlockedExposure == Spec => []BlockedExposureBounded
<1>1. AccessInv => BlockedExposureBounded
  BY ServedInTime DEF InTime, BlockedExposureBounded, UserOf
<1> QED BY <1>1, AccessInductive, PTL

\* The same of a demoted administrator at the administrators' endpoints.
THEOREM DemotedExposure == Spec => []DemotedExposureBounded
<1>1. AccessInv => DemotedExposureBounded
  BY ServedInTime DEF InTime, DemotedExposureBounded, UserOf
<1> QED BY <1>1, AccessInductive, PTL

\* No session outlives the absolute limit, counted from its login.
THEOREM SessionLifetime == Spec => []LifetimeBounded
<1>1. AccessInv => LifetimeBounded
  BY ServedInTime DEF InTime, LifetimeBounded
<1> QED BY <1>1, AccessInductive, PTL

\* A sensitive operation rests on a recent step-up of the same session.
THEOREM StepUpFreshness == Spec => []StepUpFresh
<1>1. AccessInv => StepUpFresh
  BY ServedInTime DEF InTime, StepUpFresh
<1> QED BY <1>1, AccessInductive, PTL

(***************************************************************************)
(* The refinement of SessionRegistry, which SessionLifecycle implements    *)
(* too.                                                                    *)
(***************************************************************************)

\* Steps of the clock and of the user rows are invisible.
LEMMA Unseen ==
    ASSUME UNCHANGED <<store, born>>, Copies' = Copies
    PROVE  UNCHANGED <<Owner, Stored, Copies>>
BY DEF Owner, Stored

\* Who a session id was drawn for is seen as long as it was drawn.
LEMMA OwnerSeen ==
    ASSUME AccessInv, NEW s \in Sids, born[s].at # 0
    PROVE  Owner[s] = born[s].user /\ Owner[s] # NoSession
BY NoSessionAssumption DEF Owner, AccessInv, TypeOK

\* A request under way holds a session whose id was drawn.
LEMMA HeldSeen ==
    ASSUME AccessInv, NEW r \in Requests, pc[r] # "idle"
    PROVE  /\ req[r].sid \in Sids /\ Copies[r] = req[r].sid /\ req[r].sid # NoSession
           /\ Owner[req[r].sid] = born[req[r].sid].user
<1>1. req[r].sid \in Sids /\ born[req[r].sid].at # 0
  BY DEF AccessInv, TypeOK, Reqs, RequestSound
<1> QED BY <1>1, OwnerSeen, NoSessionAssumption DEF Copies

\* The copies after a request has gone on to a step of its own.
LEMMA CopyContinues ==
    ASSUME AccessInv, NEW r \in Requests, NEW step, NEW request, Continue(r, step, request)
    PROVE  /\ step # "idle" => Copies' = [Copies EXCEPT ![r] = request.sid]
           /\ step = "idle" => Copies' = [Copies EXCEPT ![r] = NoSession]
<1>1. pc' = [pc EXCEPT ![r] = step] /\ req' = [req EXCEPT ![r] = request]
  BY DEF Continue
<1>2. pc'[r] = step /\ req'[r] = request
  BY <1>1 DEF AccessInv, TypeOK
<1>3. \A q \in Requests : q # r => pc'[q] = pc[q] /\ req'[q] = req[q]
  BY <1>1
<1> QED BY <1>2, <1>3 DEF Copies

\* The guards send a request on with the session it came with.
LEMMA PassKeepsCopy ==
    ASSUME AccessInv, NEW r \in Requests, NEW request \in Reqs, PassAuth(r, request)
    PROVE  Copies' = [Copies EXCEPT ![r] = request.sid]
<1> DEFINE marked  == [request EXCEPT !.dirty = @ \/ request.kind # "queues"]
           entered == LetIn(marked)
           away    == Leaving(marked)
<1>1. marked.sid = request.sid /\ entered.sid = request.sid /\ away.sid = request.sid
  <2>1. marked \in Reqs /\ marked.sid = request.sid /\ now \in Nat
    BY DEF Reqs, AccessInv, TypeOK, Time
  <2> HIDE DEF marked
  <2> QED BY <2>1, LeftOver
<1>2. Continue(r, "handler", entered) \/ Continue(r, "end", away)
  BY DEF PassAuth
<1> HIDE DEF marked, entered, away
<1> QED BY <1>1, <1>2, CopyContinues

\* A request arrives with a copy of a stored session.
LEMMA ArriveSimulated ==
    ASSUME AccessInv, NEW r \in Requests, Arrive(r)
    PROVE  Registry!Next
<1>1. PICK s \in Sids, kind \in Kinds :
        /\ store[s] # NoSession
        /\ LET request == [NoRequest EXCEPT !.kind = kind, !.sid = s, !.copy = store[s]]
           IN \/ Continue(r, "end", Leaving(request))
              \/ Continue(r, "destroy", Leaving(request))
              \/ Continue(r, "read", [request EXCEPT !.asked = now])
              \/ PassAuth(r, request)
  BY DEF Arrive
<1> DEFINE request == [NoRequest EXCEPT !.kind = kind, !.sid = s, !.copy = store[s]]
           asking  == [request EXCEPT !.asked = now]
           away    == Leaving(request)
<1>2. request \in Reqs /\ request.sid = s /\ asking.sid = s
  BY <1>1, BlankTypes, AccessAssumption DEF Reqs, AccessInv, TypeOK
<1>3. \/ Continue(r, "end", away) \/ Continue(r, "destroy", away)
      \/ Continue(r, "read", asking) \/ PassAuth(r, request)
  BY <1>1
<1>a. away.sid = s
  <2> HIDE DEF request
  <2> QED BY <1>2, LeftOver
<1> HIDE DEF request, asking, away
<1>4. Copies' = [Copies EXCEPT ![r] = s]
  <2>1. CASE PassAuth(r, request)
    BY <1>2, <2>1, PassKeepsCopy
  <2>2. CASE Continue(r, "end", away) \/ Continue(r, "destroy", away)
    BY <1>a, <2>2, CopyContinues
  <2>3. CASE Continue(r, "read", asking)
    BY <1>2, <2>3, CopyContinues
  <2> QED BY <1>3, <2>1, <2>2, <2>3
<1>5. Copies[r] = NoSession
  BY DEF Arrive, Copies
<1>6. Stored[s] # NoSession
  BY <1>1, NoSessionAssumption DEF Stored, AccessInv, TypeOK
<1>7. UNCHANGED <<Owner, Stored>>
  BY DEF Arrive, Owner, Stored
<1>8. Registry!Open(r)
  BY <1>4, <1>5, <1>6, <1>7 DEF Registry!Open
<1> QED BY <1>8 DEF Registry!Next

\* What the guards do between arrival and handler is invisible.
LEMMA GuardsUnseen ==
    ASSUME AccessInv, NEW r \in Requests, ReadUser(r) \/ ReadFails(r) \/ Resume(r)
    PROVE  UNCHANGED <<Owner, Stored, Copies>>
<1>1. pc[r] # "idle" /\ req[r] \in Reqs /\ UNCHANGED <<store, born>>
  BY DEF ReadUser, ReadFails, Resume, AccessInv, TypeOK
<1>2. Copies' = [Copies EXCEPT ![r] = req[r].sid]
  <2>1. CASE ReadUser(r)
    <3> DEFINE answered == [req[r] EXCEPT !.row = user[born[req[r].sid].user]]
    <3>1. answered.sid = req[r].sid /\ Continue(r, "resume", answered)
      BY <1>1, <2>1 DEF Reqs, ReadUser
    <3> HIDE DEF answered
    <3> QED BY <3>1, CopyContinues
  <2>2. CASE Resume(r)
    <3> DEFINE request == [req[r] EXCEPT !.copy.role = req[r].row.role,
                                         !.copy.status = req[r].row.status,
                                         !.copy.verifiedAt = now, !.dirty = TRUE]
    <3>1. request \in Reqs /\ request.sid = req[r].sid
      BY <1>1 DEF Reqs, Contents, Rows, AccessInv, TypeOK
    <3>2. Continue(r, "destroy", Leaving(req[r])) \/ PassAuth(r, request)
      BY <2>2 DEF Resume
    <3> HIDE DEF request
    <3> QED BY <1>1, <3>1, <3>2, LeftOver, CopyContinues, PassKeepsCopy
  <2>3. CASE ReadFails(r)
    BY <1>1, <2>3, LeftOver, CopyContinues DEF ReadFails
  <2> QED BY <2>1, <2>2, <2>3
<1>3. Copies' = Copies
  BY <1>1, <1>2, HeldSeen DEF Copies
<1> QED BY <1>1, <1>3, Unseen

\* A request writes or removes the session it holds.
LEMMA HolderSimulated ==
    ASSUME AccessInv, NEW r \in Requests, StepUpVerify(r) \/ DestroySession(r) \/ EndResponse(r)
    PROVE  Registry!Next
<1> DEFINE s == req[r].sid
<1>1. /\ pc[r] # "idle" /\ req[r] \in Reqs /\ req[r].copy \in Contents /\ now \in Time
      /\ born' = born /\ Owner' = Owner
  BY DEF StepUpVerify, DestroySession, EndResponse, AccessInv, TypeOK, Reqs, Owner
<1>2. s \in Sids /\ Registry!Holds(r, s) /\ Owner[s] = born[s].user
  BY <1>1, HeldSeen DEF Registry!Holds
<1>3. ASSUME NEW content \in Contents, store' = [store EXCEPT ![s] = content]
      PROVE  Stored' = Registry!With(s)
  BY <1>1, <1>2, <1>3, NoSessionAssumption DEF Registry!With, Stored, AccessInv, TypeOK
<1>4. CASE StepUpVerify(r)
  <2> DEFINE done == [Leaving(req[r]) EXCEPT !.copy = [req[r].copy EXCEPT !.stepUpAt = now],
                                             !.dirty = FALSE]
  <2>1. [req[r].copy EXCEPT !.stepUpAt = now] \in Contents
    BY <1>1 DEF Contents
  <2>2. Stored' = Registry!With(s)
    BY <1>3, <1>4, <2>1 DEF StepUpVerify
  <2>3. done.sid = s /\ Continue(r, "end", done)
    BY <1>1, <1>4, LeftOver DEF Reqs, StepUpVerify
  <2>4. Copies' = [Copies EXCEPT ![r] = s]
    <3> HIDE DEF done
    <3> QED BY <2>3, CopyContinues
  <2>5. Copies' = Copies
    BY <1>1, <2>4, HeldSeen DEF Copies
  <2> QED BY <1>1, <1>2, <2>2, <2>5 DEF Registry!Next, Registry!Save
<1>5. CASE DestroySession(r) \/ EndResponse(r)
  <2>1. Copies' = [Copies EXCEPT ![r] = NoSession]
    BY <1>5, CopyContinues DEF DestroySession, EndResponse
  <2>2. Stored' \in {Stored, Registry!With(s), Registry!Without({s})}
    <3>1. CASE DestroySession(r)
      BY <1>1, <1>2, <3>1 DEF DestroySession, Registry!Without, Stored, AccessInv, TypeOK
    <3>2. CASE EndResponse(r) /\ req[r].dirty
      BY <1>1, <1>3, <3>2 DEF EndResponse
    <3>3. CASE EndResponse(r) /\ ~req[r].dirty
      BY <1>1, <3>3 DEF EndResponse, Stored
    <3> QED BY <1>5, <3>1, <3>2, <3>3
  <2> QED BY <1>1, <1>2, <2>1, <2>2 DEF Registry!Next, Registry!Close
<1> QED BY <1>4, <1>5

\* A login draws an id and stores its session.
LEMMA LoginSimulated == ASSUME AccessInv, NEW u \in Users, Login(u) PROVE Registry!Next
<1>1. PICK s \in Sids, role \in Roles :
        /\ born[s].at = 0
        /\ store' = [store EXCEPT ![s] =
                        [BlankContent EXCEPT !.role = role, !.createdAt = now]]
        /\ born' = [born EXCEPT ![s] = [user |-> u, at |-> now]]
  BY DEF Login
<1>2. now # 0 /\ store[s] = NoSession
  BY <1>1 DEF AccessInv, ClockSound, StoreSound
<1>3. [BlankContent EXCEPT !.role = role, !.createdAt = now] \in Contents
  BY BlankTypes, AccessAssumption DEF Contents, AccessInv, TypeOK
<1>4. Owner[s] = NoSession /\ Owner' = [Owner EXCEPT ![s] = u]
  BY <1>1, <1>2 DEF Owner, AccessInv, TypeOK
<1>5. Stored' = [Stored EXCEPT ![s] = u]
  BY <1>1, <1>3, NoSessionAssumption DEF Stored, AccessInv, TypeOK
<1>6. Copies' = Copies
  BY DEF Login, Copies
<1>7. Registry!Create(u)
  BY <1>4, <1>5, <1>6 DEF Registry!Create
<1> QED BY <1>7 DEF Registry!Next

\* Expiry and revocation remove sessions from the store and from nowhere else.
LEMMA LosingSimulated ==
    ASSUME AccessInv, SessionEnds \/ \E u \in Users : RevokeSessions(u)
    PROVE  Registry!Next
<1>1. \E S \in SUBSET Sids : store' = [s \in Sids |-> IF s \in S THEN NoSession ELSE store[s]]
  <2>1. CASE SessionEnds
    <3>1. PICK s \in Sids : store' = [store EXCEPT ![s] = NoSession]
      BY <2>1 DEF SessionEnds
    <3>2. store' = [t \in Sids |-> IF t \in {s} THEN NoSession ELSE store[t]]
      BY <3>1 DEF AccessInv, TypeOK
    <3> QED BY <3>2
  <2>2. ASSUME NEW u \in Users, RevokeSessions(u)
        PROVE  \E S \in SUBSET Sids :
                  store' = [s \in Sids |-> IF s \in S THEN NoSession ELSE store[s]]
    <3>1. store' = [s \in Sids |-> IF s \in {t \in Sids : born[t].user = u}
                                   THEN NoSession ELSE store[s]]
      BY <2>2 DEF RevokeSessions
    <3>2. {t \in Sids : born[t].user = u} \in SUBSET Sids
      OBVIOUS
    <3> QED BY <3>1, <3>2
  <2> QED BY <2>1, <2>2
<1>2. PICK S \in SUBSET Sids : store' = [s \in Sids |-> IF s \in S THEN NoSession ELSE store[s]]
  BY <1>1
<1>3. born' = born /\ pc' = pc /\ req' = req
  BY DEF SessionEnds, RevokeSessions
<1>4. Owner' = Owner /\ Copies' = Copies
  BY <1>3 DEF Owner, Copies
<1>5. Stored' = Registry!Without(S)
  BY <1>2, <1>3 DEF Stored, Registry!Without
<1>6. Registry!Remove(S)
  BY <1>4, <1>5 DEF Registry!Remove
<1> QED BY <1>6 DEF Registry!Next

\* Every step of guards and administrators is a step of the registry, or none.
LEMMA RegistrySimulated ==
    AccessInv /\ [Next]_vars => Registry!Next \/ UNCHANGED <<Owner, Stored, Copies>>
<1> SUFFICES ASSUME AccessInv, [Next]_vars
             PROVE  Registry!Next \/ UNCHANGED <<Owner, Stored, Copies>>
  OBVIOUS
<1>1. CASE Tick \/ UNCHANGED vars
  BY <1>1, Unseen DEF Tick, vars, Copies
<1>2. ASSUME NEW u \in Users,
             BlockUser(u) \/ EraseUser(u) \/ ChangeUserRole(u) \/ ChangeStatus(u)
      PROVE  UNCHANGED <<Owner, Stored, Copies>>
  BY <1>2, Unseen DEF BlockUser, EraseUser, ChangeUserRole, ChangeStatus, SetUser, Copies
<1>3. CASE SessionEnds \/ \E u \in Users : Login(u) \/ RevokeSessions(u)
  BY <1>3, LoginSimulated, LosingSimulated
<1>4. ASSUME NEW r \in Requests, \/ Arrive(r) \/ ReadUser(r) \/ ReadFails(r) \/ Resume(r)
                                 \/ StepUpVerify(r) \/ DestroySession(r) \/ EndResponse(r)
      PROVE  Registry!Next \/ UNCHANGED <<Owner, Stored, Copies>>
  BY <1>4, ArriveSimulated, GuardsUnseen, HolderSimulated
<1> QED BY <1>1, <1>2, <1>3, <1>4 DEF Next

\* The sessions that the guards admit by are those of the session service's registry.
THEOREM AccessUsesRegistry == Spec => ImplementsRegistry
<1>1. Init => Registry!Init
  <2>1. NobodyYet.at = 0
    BY DEF NobodyYet
  <2> QED BY <2>1 DEF Init, Registry!Init, Owner, Stored, Copies
<1>2. AccessInv /\ [Next]_vars => [Registry!Next]_(Registry!vars)
  BY RegistrySimulated DEF Registry!vars
<1> QED BY <1>1, <1>2, AccessInductive, PTL DEF Spec, ImplementsRegistry, Registry!Spec

\* A dead session is neither loaded nor drawn nor written.
LEMMA DeadStep ==
    ASSUME AccessInv, NEW s \in Sids, Registry!Dead(s), [Registry!Next]_(Registry!vars)
    PROVE  Registry!Dead(s)'
<1> USE DEF Registry!Dead
<1>1. DOMAIN Stored = Sids /\ DOMAIN Owner = Sids /\ DOMAIN Copies = Requests /\ s # NoSession
  BY NoSessionAssumption DEF Stored, Owner, Copies
<1>2. CASE UNCHANGED Registry!vars
  BY <1>2 DEF Registry!vars
<1>3. ASSUME NEW r \in Requests, Registry!Open(r) \/ Registry!Save(r) \/ Registry!Close(r)
      PROVE  Registry!Dead(s)'
  BY <1>1, <1>3 DEF Registry!Open, Registry!Save, Registry!Close, Registry!Holds, Registry!With,
                    Registry!Without
<1>4. ASSUME NEW u \in Users, Registry!Create(u)
      PROVE  Registry!Dead(s)'
  BY <1>1, <1>4 DEF Registry!Create
<1>5. ASSUME NEW u \in Users, NEW r \in Requests, Registry!Regenerate(r, u)
      PROVE  Registry!Dead(s)'
  BY <1>1, <1>5 DEF Registry!Regenerate, Registry!Without
<1>6. ASSUME NEW S \in SUBSET Sids, Registry!Remove(S)
      PROVE  Registry!Dead(s)'
  BY <1>1, <1>6 DEF Registry!Remove, Registry!Without
<1> QED BY <1>2, <1>3, <1>4, <1>5, <1>6 DEF Registry!Next

\* A session that a guard or an administrator has ended, and of which no request holds a
\* copy, admits nobody any more.
THEOREM EndedForGood == Spec => Registry!RevocationFinal
<1>1. ASSUME NEW s \in Sids
      PROVE  Spec => [](Registry!Dead(s) => []Registry!Dead(s))
  <2>1. AccessInv /\ [Next]_vars => (Registry!Dead(s) => Registry!Dead(s)')
    BY RegistrySimulated, DeadStep DEF Registry!vars
  <2> QED BY <2>1, AccessInductive, PTL DEF Spec
<1> QED BY <1>1 DEF Registry!RevocationFinal

=============================================================================
