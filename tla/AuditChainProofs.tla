--------------------------- MODULE AuditChainProofs ---------------------------
(***************************************************************************)
(* Proofs about AuditChain.  The invariant ties the table to the history:  *)
(* the history is one chain without a gap whose k-th hash has length k, a  *)
(* row of the table is its row of the history up to a replaced subject,    *)
(* and the newest row is never deleted, so that what a writer reads under  *)
(* the lock is the end of the history until it has appended to it.         *)
(***************************************************************************)
EXTENDS AuditChain, SequenceTheorems, FiniteSetTheorems, TLAPS

Last == history[Len(history)]

\* The history is one chain.
Chained == \A k \in DOMAIN history :
    /\ history[k].seq = k
    /\ Len(history[k].hash) = k
    /\ history[k].prev = IF k = 1 THEN <<>> ELSE history[k - 1].hash
    /\ history[k].hash = Append(history[k].prev, history[k].event)

\* A row of the table and the row of the history it was created as.
SameRow(row, written) ==
    \/ row = written
    \/ \E q \in Pseudonyms :
          /\ row = [written EXCEPT !.event.subject = q]
          /\ drawn[q] = written.event.subject /\ drawn[q] \in Users
Recorded == \A i \in DOMAIN table :
    table[i].seq \in DOMAIN history /\ SameRow(table[i], history[table[i].seq])

\* The newest row is the end of the history, and younger than MaxAge.
NewestKept ==
    /\ Len(table) = 0 <=> Len(history) = 0
    /\ Len(table) # 0 => Newest.seq = Len(history) /\ now <= Newest.event.ts + MaxAge

\* A process between its read and its create holds the lock and has read the
\* end of the history; its write is younger than MaxAge; the pseudonym of an
\* erasure is its user's.
ProcessInv(p) ==
    /\ pc[p] \in {"last", "create"} => lock = p
    /\ pc[p] = "create" => prev[p] = IF Len(history) = 0 THEN <<>> ELSE Last.hash
    /\ pc[p] # "idle" => event[p].ts <= now /\ now <= event[p].ts + MaxAge
    /\ job[p].user # Nobody =>
          job[p].pseudonym \in Pseudonyms /\ drawn[job[p].pseudonym] = job[p].user
    /\ pc[p] \in {"update", "commit"} \/ event[p].action = "session.revoke_all" =>
          job[p].user # Nobody

ChainInv == /\ TypeOK /\ Chained /\ Recorded /\ NewestKept
            /\ \A p \in Processes : ProcessInv(p)

-----------------------------------------------------------------------------
(***************************************************************************)
(* Sequences.                                                              *)
(***************************************************************************)

\* A function on 1 .. n is a sequence of length n.
LEMMA FunctionIsSeq ==
    ASSUME NEW S, NEW n \in Nat, NEW f \in [1 .. n -> S]
    PROVE  f \in Seq(S) /\ Len(f) = n /\ DOMAIN f = 1 .. n
<1>1. f \in Seq(S)
  BY SeqDef
<1> QED BY <1>1, LenProperties

\* What Append does, by position.
LEMMA Appended ==
    ASSUME NEW S, NEW s \in Seq(S), NEW e \in S
    PROVE  /\ Append(s, e) \in Seq(S)
           /\ Len(s) \in Nat
           /\ Len(Append(s, e)) = Len(s) + 1
           /\ DOMAIN Append(s, e) = 1 .. Len(s) + 1
           /\ \A i \in 1 .. Len(s) : Append(s, e)[i] = s[i]
           /\ Append(s, e)[Len(s) + 1] = e
  BY LenProperties

\* The types the initial state and the actions build their values from.
LEMMA BlankTypes ==
    /\ NoEvent \in Events /\ <<>> \in Hashes
    /\ NoJob \in [kind : AllJobs, user : Users \cup {Nobody}, pseudonym : Pseudonyms \cup {Nobody}]
  BY EmptySeq DEF NoEvent, Events, Hashes, NoJob, AllJobs, Actions

\* Rows of the table and of the history, by position.
LEMMA RowTypes ==
    ASSUME TypeOK
    PROVE  /\ Len(table) \in Nat /\ DOMAIN table = 1 .. Len(table)
           /\ Len(history) \in Nat /\ DOMAIN history = 1 .. Len(history)
           /\ \A i \in DOMAIN table : table[i] \in Rows
           /\ \A k \in DOMAIN history : history[k] \in Rows
  BY LenProperties, ElementOfSeq DEF TypeOK

\* A row agrees with its row of the history in all but the subject.
LEMMA SameRowFacts ==
    ASSUME NEW row \in Rows, NEW written \in Rows, SameRow(row, written)
    PROVE  /\ row.prev = written.prev /\ row.hash = written.hash /\ row.seq = written.seq
           /\ row.event.ts = written.event.ts
           /\ row.event = written.event => row = written
  BY DEF SameRow, Rows, Events

-----------------------------------------------------------------------------
(***************************************************************************)
(* The invariant implies the properties.                                   *)
(***************************************************************************)

\* Intact and Genuine say the same of every part of the table.
LEMMA IntactIsGenuine ==
    ASSUME ChainInv, NEW window \in SUBSET DOMAIN table
    PROVE  Intact(window) <=> Genuine(window)
<1> USE DEF ChainInv
<1>1. /\ Len(table) \in Nat /\ DOMAIN table = 1 .. Len(table)
      /\ Len(history) \in Nat /\ DOMAIN history = 1 .. Len(history)
      /\ \A i \in DOMAIN table : table[i] \in Rows
      /\ \A k \in DOMAIN history : history[k] \in Rows
  BY RowTypes
<1> SUFFICES ASSUME NEW i \in window
             PROVE  (/\ table[i].prev = Before(i)
                     /\ table[i].hash = Append(Before(i), table[i].event))
                    <=>
                    (/\ table[i] = history[table[i].seq]
                     /\ table[i].seq = IF i = 1 THEN 1 ELSE table[i - 1].seq + 1)
  BY DEF Intact, Genuine
<1> DEFINE s == table[i].seq
           w == history[s]
           t == IF i = 1 THEN 0 ELSE table[i - 1].seq
<1>2. s \in DOMAIN history /\ w \in Rows /\ table[i] \in Rows /\ SameRow(table[i], w)
  BY <1>1 DEF Recorded
<1>3. /\ table[i].prev = w.prev /\ table[i].hash = w.hash
      /\ table[i].event = w.event => table[i] = w
  <2> HIDE DEF s, w
  <2> QED BY <1>2, SameRowFacts
<1>4. /\ Len(w.hash) = s
      /\ w.prev = IF s = 1 THEN <<>> ELSE history[s - 1].hash
      /\ w.hash = Append(w.prev, w.event)
      /\ s # 1 => Len(history[s - 1].hash) = s - 1
  <2>1. s # 1 => s - 1 \in DOMAIN history
    BY <1>1, <1>2
  <2> HIDE DEF s
  <2> QED BY <1>2, <2>1 DEF Chained
<1>5. Before(i) = IF t = 0 THEN <<>> ELSE history[t].hash
  <2>1. CASE i = 1
    BY <2>1 DEF Before
  <2>2. CASE i # 1
    <3>1. i - 1 \in DOMAIN table
      BY <1>1, <2>2
    <3>2. t \in DOMAIN history /\ history[t] \in Rows /\ SameRow(table[i - 1], history[t])
      BY <1>1, <2>2, <3>1 DEF Recorded
    <3>3. table[i - 1].hash = history[t].hash
      BY <1>1, <3>1, <3>2, SameRowFacts
    <3> QED BY <1>1, <2>2, <3>2, <3>3 DEF Before
  <2> QED BY <2>1, <2>2
<1>6. t = 0 \/ (t \in DOMAIN history /\ Len(history[t].hash) = t)
  BY <1>1 DEF Recorded, Chained
<1>7. w.prev \in Hashes /\ w.event \in Events /\ table[i].event \in Events
  BY <1>2 DEF Rows
<1>8. ASSUME table[i].prev = Before(i), table[i].hash = Append(Before(i), table[i].event)
      PROVE  table[i] = w /\ s = t + 1
  <2>1. w.prev = Before(i) /\ Append(w.prev, w.event) = Append(w.prev, table[i].event)
    BY <1>3, <1>4, <1>8
  <2>2. table[i].event = w.event
    BY <1>7, <2>1, AppendInjective DEF Hashes
  <2>3. Len(w.prev) = s - 1 /\ Len(w.prev) = t
    <3>1. s \in Nat /\ t \in Nat /\ Len(<<>>) = 0
      BY <1>1, <1>2, <1>6, EmptySeq
    <3> HIDE DEF s, t, w
    <3> QED BY <1>4, <1>5, <1>6, <2>1, <3>1
  <2> QED BY <1>1, <1>2, <1>3, <1>6, <2>2, <2>3
<1>9. ASSUME table[i] = w, s = t + 1
      PROVE  table[i].prev = Before(i) /\ table[i].hash = Append(Before(i), table[i].event)
  <2>1. s \in Nat /\ s # 0 /\ t \in Nat /\ s - 1 = t
    BY <1>1, <1>2, <1>6, <1>9
  <2>2. Before(i) = w.prev
    <3> HIDE DEF s, t, w
    <3> QED BY <1>4, <1>5, <2>1
  <2> QED BY <1>3, <1>4, <1>9, <2>2
<1>10. s = t + 1 <=> table[i].seq = IF i = 1 THEN 1 ELSE table[i - 1].seq + 1
  BY <1>1
<1> QED BY <1>8, <1>9, <1>10

\* The invariant implies what the runs check.
LEMMA InvariantSuffices ==
    ChainInv => VerifiedIsGenuine /\ NoFalseAlarm /\ OnlyOwnSubjectReplaced
<1> SUFFICES ASSUME ChainInv
             PROVE  VerifiedIsGenuine /\ NoFalseAlarm /\ OnlyOwnSubjectReplaced
  OBVIOUS
<1>1. \A n : HeadWindow(n) \in SUBSET DOMAIN table /\ TailWindow(n) \in SUBSET DOMAIN table
  BY DEF HeadWindow, TailWindow
<1>2. VerifiedIsGenuine /\ NoFalseAlarm
  BY <1>1, IntactIsGenuine DEF VerifiedIsGenuine, NoFalseAlarm, VerifyChain, VerifyRecentChain
<1>3. OnlyOwnSubjectReplaced
  BY DEF ChainInv, Recorded, SameRow, OnlyOwnSubjectReplaced
<1> QED BY <1>2, <1>3

-----------------------------------------------------------------------------
(***************************************************************************)
(* The invariant holds initially and is preserved by every step.           *)
(***************************************************************************)
LEMMA ChainInit == Init => ChainInv
<1> SUFFICES ASSUME Init PROVE ChainInv
  OBVIOUS
<1> USE DEF Init
<1>1. Len(table) = 0 /\ Len(history) = 0 /\ DOMAIN table = {} /\ DOMAIN history = {}
  BY EmptySeq, LenProperties
<1>2. TypeOK
  <2>1. <<>> \in Seq(Rows)
    BY EmptySeq
  <2> QED BY <2>1, BlankTypes, AuditAssumption DEF TypeOK
<1>3. Chained /\ Recorded /\ NewestKept
  BY <1>1 DEF Chained, Recorded, NewestKept
<1>4. ASSUME NEW p \in Processes PROVE ProcessInv(p)
  BY DEF ProcessInv, NoJob, NoEvent
<1> QED BY <1>2, <1>3, <1>4 DEF ChainInv

\* A step that leaves the log alone, a pseudonym being drawn at most.
LEMMA LogKept ==
    ASSUME ChainInv, UNCHANGED <<now, table, history>>,
           \A q \in Pseudonyms : drawn[q] # Nobody => drawn'[q] = drawn[q]
    PROVE  Chained' /\ Recorded' /\ NewestKept'
<1> USE DEF ChainInv
<1>1. Chained' /\ NewestKept'
  BY DEF Chained, NewestKept, Newest
<1>2. Recorded'
  <2> SUFFICES ASSUME NEW i \in DOMAIN table
               PROVE  SameRow(table[i], history[table[i].seq])'
    BY DEF Recorded
  <2>1. SameRow(table[i], history[table[i].seq])
    BY DEF Recorded
  <2> QED BY <2>1, AuditAssumption DEF SameRow
<1> QED BY <1>1, <1>2

\* What another process does leaves the invariant of q alone: the history grows
\* only under the lock.
LEMMA OthersKept ==
    ASSUME ChainInv, NEW r \in Processes, NEW q \in Processes, q # r,
           now' = now, pc'[q] = pc[q], job'[q] = job[q], event'[q] = event[q],
           prev'[q] = prev[q], lock = q => lock' = q,
           history' = history \/ lock = r,
           \A x \in Pseudonyms : drawn[x] # Nobody => drawn'[x] = drawn[x]
    PROVE  ProcessInv(q)'
<1>1. ProcessInv(q)
  BY DEF ChainInv
<1> QED BY <1>1 DEF ProcessInv, Last

\* A job begins, whichever it is.
LEMMA BeginStep ==
    ASSUME ChainInv, NEW r \in Processes, Begin(r)
    PROVE  ChainInv'
<1> USE DEF ChainInv
<1>1. /\ pc[r] = "idle" /\ pc'[r] # "idle"
      /\ pc' \in [Processes -> {"idle", "lock", "last", "create", "update", "commit", "delete"}]
      /\ \A q \in Processes \ {r} : pc'[q] = pc[q] /\ job'[q] = job[q] /\ event'[q] = event[q]
      /\ pc'[r] \in {"lock", "delete"}
      /\ UNCHANGED <<now, table, lock, prev, chosen, erased, history>>
  BY DEF Begin, BeginEvent, BeginErase, BeginRetention, Goto, TypeOK
<1>2. now \in Nat /\ MaxAge \in Nat
  BY AuditAssumption DEF TypeOK
<1>3. \A x \in Pseudonyms : drawn[x] # Nobody => drawn'[x] = drawn[x]
  BY DEF Begin, BeginEvent, BeginErase, BeginRetention, TypeOK
<1>4. /\ TypeOK'
      /\ event'[r].ts = now
      /\ job'[r].user # Nobody =>
            job'[r].pseudonym \in Pseudonyms /\ drawn'[job'[r].pseudonym] = job'[r].user
      /\ event'[r].action = "session.revoke_all" => job'[r].user # Nobody
  <2>1. CASE BeginEvent(r)
    <3>1. PICK subject \in Users \cup {Nobody} :
              event' = [event EXCEPT ![r] = [NoEvent EXCEPT !.ts = now, !.subject = subject]]
      BY <2>1 DEF BeginEvent
    <3>2. event'[r] = [NoEvent EXCEPT !.ts = now, !.subject = subject]
      BY <3>1 DEF TypeOK
    <3>3. event'[r] \in Events /\ event'[r].ts = now /\ event'[r].action = "http.request"
      BY <1>2, <3>2 DEF NoEvent, Events, Actions
    <3>4. job' = job /\ drawn' = drawn /\ ProcessInv(r)
      BY <2>1 DEF BeginEvent
    <3>5. TypeOK'
      BY <1>1, <3>1, <3>2, <3>3, <3>4 DEF TypeOK
    <3> QED BY <3>3, <3>4, <3>5 DEF ProcessInv
  <2>2. CASE BeginErase(r)
    <3>1. PICK user \in Users, x \in Pseudonyms :
            /\ drawn' = [drawn EXCEPT ![x] = user]
            /\ job' = [job EXCEPT ![r] = [kind |-> "erase", user |-> user, pseudonym |-> x]]
            /\ event' = [event EXCEPT ![r] = [NoEvent EXCEPT !.ts = now, !.subject = user,
                                                         !.action = "session.revoke_all"]]
      BY <2>2 DEF BeginErase
    <3>2. /\ event'[r] = [NoEvent EXCEPT !.ts = now, !.subject = user,
                                         !.action = "session.revoke_all"]
          /\ job'[r] = [kind |-> "erase", user |-> user, pseudonym |-> x]
          /\ drawn'[x] = user
      BY <3>1 DEF TypeOK
    <3>3. event'[r] \in Events /\ event'[r].ts = now
      BY <1>2, <3>2 DEF NoEvent, Events, Actions
    <3>4. job'[r] \in [kind : AllJobs, user : Users \cup {Nobody},
                       pseudonym : Pseudonyms \cup {Nobody}]
      BY <3>2 DEF AllJobs
    <3>5. TypeOK'
      BY <1>1, <3>1, <3>2, <3>3, <3>4 DEF TypeOK
    <3> QED BY <3>2, <3>3, <3>5, AuditAssumption
  <2>3. CASE BeginRetention(r)
    <3>1. /\ job' = [job EXCEPT ![r].kind = "retention"]
          /\ event' = [event EXCEPT ![r] = [NoEvent EXCEPT !.ts = now,
                                               !.action = "gdpr.retention.cleanup"]]
          /\ drawn' = drawn /\ ProcessInv(r)
      BY <2>3 DEF BeginRetention
    <3>2. /\ event'[r] = [NoEvent EXCEPT !.ts = now, !.action = "gdpr.retention.cleanup"]
          /\ job'[r] = [job[r] EXCEPT !.kind = "retention"]
      BY <3>1 DEF TypeOK
    <3>3. event'[r] \in Events /\ event'[r].ts = now
          /\ event'[r].action = "gdpr.retention.cleanup"
      BY <1>2, <3>2 DEF NoEvent, Events, Actions
    <3>4. /\ job'[r] \in [kind : AllJobs, user : Users \cup {Nobody},
                          pseudonym : Pseudonyms \cup {Nobody}]
          /\ job'[r].user = job[r].user /\ job'[r].pseudonym = job[r].pseudonym
      <4>1. job[r] \in [kind : AllJobs, user : Users \cup {Nobody},
                         pseudonym : Pseudonyms \cup {Nobody}]
        BY DEF TypeOK
      <4> QED BY <3>2, <4>1 DEF AllJobs
    <3>5. TypeOK'
      BY <1>1, <3>1, <3>2, <3>3, <3>4 DEF TypeOK
    <3> QED BY <3>1, <3>3, <3>4, <3>5 DEF ProcessInv
  <2> QED BY <2>1, <2>2, <2>3 DEF Begin
<1>5. Chained' /\ Recorded' /\ NewestKept'
  BY <1>1, <1>3, LogKept
<1>6. ASSUME NEW q \in Processes PROVE ProcessInv(q)'
  <2>1. CASE q = r
    BY <1>1, <1>2, <1>4, <2>1 DEF ProcessInv
  <2>2. CASE q # r
    BY <1>1, <1>3, <2>2, OthersKept
  <2> QED BY <2>1, <2>2
<1> QED BY <1>4, <1>5, <1>6

\* The steps of a write before its create, and an aborted one.
LEMMA WriteStep ==
    ASSUME ChainInv, NEW r \in Processes,
           AcquireLock(r) \/ ReadLast(r) \/ UpdateMany(r) \/ Abort(r)
    PROVE  ChainInv'
<1> USE DEF ChainInv
<1>1. UNCHANGED <<now, table, drawn, erased, history>>
  BY DEF AcquireLock, ReadLast, UpdateMany, Abort
<1>2. Chained' /\ Recorded' /\ NewestKept'
  BY <1>1, LogKept
<1>3. \A q \in Processes \ {r} :
         /\ pc'[q] = pc[q] /\ job'[q] = job[q] /\ event'[q] = event[q] /\ prev'[q] = prev[q]
         /\ lock = q => lock' = q
  BY AuditAssumption DEF AcquireLock, ReadLast, UpdateMany, Abort, Goto, Release, Finish, local, TypeOK
<1>4. ASSUME NEW q \in Processes, q # r PROVE ProcessInv(q)'
  <2>1. /\ pc'[q] = pc[q] /\ job'[q] = job[q] /\ event'[q] = event[q]
        /\ prev'[q] = prev[q]
        /\ lock = q => lock' = q
    BY <1>3, <1>4
  <2> QED BY <1>1, <1>4, <2>1, OthersKept
<1>5. TypeOK' /\ ProcessInv(r)'
  <2>1. CASE AcquireLock(r)
    BY <2>1 DEF AcquireLock, Goto, local, TypeOK, ProcessInv
  <2>2. CASE ReadLast(r)
    <3> DEFINE end == IF table = <<>> THEN <<>> ELSE Newest.hash
    <3>1. end = (IF Len(history) = 0 THEN <<>> ELSE Last.hash) /\ end \in Hashes
      <4>1. table = <<>> <=> Len(table) = 0
        BY EmptySeq DEF TypeOK
      <4>2. CASE Len(table) = 0
        BY <4>1, <4>2, BlankTypes DEF NewestKept
      <4>3. CASE Len(table) # 0
        <5>1. Len(table) \in DOMAIN table /\ Len(history) # 0
          BY <4>3, RowTypes DEF NewestKept
        <5>2. /\ Newest.seq = Len(history) /\ Newest \in Rows /\ Last \in Rows
              /\ SameRow(Newest, Last)
          BY <4>3, <5>1, RowTypes DEF NewestKept, Newest, Last, Recorded
        <5>3. Newest.hash = Last.hash /\ Newest.hash \in Hashes
          <6>1. Newest.hash = Last.hash
            BY <5>2, SameRowFacts
          <6> QED BY <5>2, <6>1 DEF Rows
        <5> QED BY <4>1, <4>3, <5>1, <5>3
      <4> QED BY <4>2, <4>3
    <3> HIDE DEF end
    <3>2. /\ pc[r] = "last" /\ prev' = [prev EXCEPT ![r] = end]
          /\ pc' = [pc EXCEPT ![r] = "create"]
          /\ UNCHANGED <<now, table, lock, job, event, chosen, drawn, erased, history>>
      BY <2>2 DEF ReadLast, Goto, end
    <3>3. TypeOK'
      BY <3>1, <3>2 DEF TypeOK
    <3>4. prev'[r] = end /\ pc'[r] = "create" /\ ProcessInv(r)
      BY <3>2 DEF TypeOK
    <3> QED BY <3>1, <3>2, <3>3, <3>4 DEF ProcessInv, Last
  <2>3. CASE UpdateMany(r)
    <3>1. {table[i].seq : i \in {j \in DOMAIN table : table[j].event.subject = job[r].user}}
             \in SUBSET Nat
      BY RowTypes DEF Rows
    <3>2. TypeOK'
      BY <2>3, <3>1 DEF UpdateMany, Goto, TypeOK
    <3> QED BY <2>3, <3>2 DEF UpdateMany, Goto, TypeOK, ProcessInv
  <2>4. CASE Abort(r)
    <3>1. TypeOK'
      BY <2>4, BlankTypes DEF Abort, Goto, Release, Finish, TypeOK
    <3>2. pc'[r] = "idle" /\ job'[r] = NoJob /\ event'[r] = NoEvent
      BY <2>4 DEF Abort, Goto, Finish, TypeOK
    <3> QED BY <3>1, <3>2 DEF ProcessInv, NoJob, NoEvent
  <2> QED BY <2>1, <2>2, <2>3, <2>4
<1>6. \A q \in Processes : ProcessInv(q)'
  BY <1>4, <1>5
<1> QED BY <1>2, <1>5, <1>6

\* The row is appended to the table and to the history: the writer holds the lock,
\* so what it read is still the end of the history.
LEMMA CreateStep ==
    ASSUME ChainInv, NEW r \in Processes, Create(r)
    PROVE  ChainInv'
<1> USE DEF ChainInv
<1> DEFINE n == Len(history)
           row == [seq |-> n + 1, event |-> event[r], prev |-> prev[r],
                   hash |-> Append(prev[r], event[r])]
<1>1. /\ pc[r] = "create" /\ table' = Append(table, row) /\ history' = Append(history, row)
      /\ Release(r) /\ UNCHANGED <<now, drawn, erased>>
      /\ \/ event[r].action = "session.revoke_all" /\ Goto(r, "update") /\ UNCHANGED local
         \/ event[r].action # "session.revoke_all" /\ Goto(r, "idle") /\ Finish(r)
  BY DEF Create
<1>2. /\ Len(table) \in Nat /\ DOMAIN table = 1 .. Len(table)
      /\ n \in Nat /\ DOMAIN history = 1 .. n
      /\ \A i \in DOMAIN table : table[i] \in Rows
      /\ \A k \in DOMAIN history : history[k] \in Rows
  BY RowTypes
<1>3. event[r] \in Events /\ prev[r] \in Hashes /\ now \in Nat /\ MaxAge \in Nat
  BY AuditAssumption DEF TypeOK
<1>4. /\ Append(prev[r], event[r]) \in Hashes
      /\ Len(Append(prev[r], event[r])) = Len(prev[r]) + 1
  BY <1>3, AppendProperties DEF Hashes
<1>5. row \in Rows
  BY <1>2, <1>3, <1>4 DEF Rows
<1>6. lock = r /\ prev[r] = (IF n = 0 THEN <<>> ELSE Last.hash)
      /\ event[r].ts <= now /\ now <= event[r].ts + MaxAge
  BY <1>1 DEF ProcessInv
<1> HIDE DEF row
<1>7. /\ table' \in Seq(Rows) /\ Len(table') = Len(table) + 1
      /\ DOMAIN table' = 1 .. Len(table) + 1
      /\ \A i \in 1 .. Len(table) : table'[i] = table[i]
      /\ table'[Len(table) + 1] = row
  BY <1>1, <1>5, Appended DEF TypeOK
<1>8. /\ history' \in Seq(Rows) /\ Len(history') = n + 1
      /\ DOMAIN history' = 1 .. n + 1
      /\ \A k \in 1 .. n : history'[k] = history[k]
      /\ history'[n + 1] = row
  BY <1>1, <1>5, Appended DEF TypeOK
<1>9. TypeOK'
  <2>1. /\ pc' \in [Processes -> {"idle", "lock", "last", "create", "update", "commit", "delete"}]
        /\ lock' \in Processes \cup {Nobody}
    BY <1>1 DEF Goto, Release, TypeOK
  <2>2. /\ job' \in [Processes -> [kind : AllJobs, user : Users \cup {Nobody},
                                   pseudonym : Pseudonyms \cup {Nobody}]]
        /\ event' \in [Processes -> Events] /\ prev' \in [Processes -> Hashes]
        /\ chosen' \in [Processes -> SUBSET Nat]
    <3>1. CASE UNCHANGED local
      BY <3>1 DEF local, TypeOK
    <3>2. CASE Finish(r)
      BY <3>2, BlankTypes DEF Finish, TypeOK
    <3> QED BY <1>1, <3>1, <3>2
  <2> QED BY <1>1, <1>7, <1>8, <2>1, <2>2 DEF TypeOK
<1>10. row.seq = n + 1 /\ row.event = event[r] /\ row.prev = prev[r]
       /\ row.hash = Append(prev[r], event[r])
  BY DEF row
<1>11. Chained'
  <2> SUFFICES ASSUME NEW k \in 1 .. n + 1
               PROVE  /\ history'[k].seq = k
                      /\ Len(history'[k].hash) = k
                      /\ history'[k].prev = IF k = 1 THEN <<>> ELSE history'[k - 1].hash
                      /\ history'[k].hash = Append(history'[k].prev, history'[k].event)
    BY <1>8 DEF Chained
  <2>1. CASE k \in 1 .. n
    <3>1. k # 1 => k - 1 \in 1 .. n
      BY <1>2
    <3> QED BY <1>2, <1>8, <2>1, <3>1 DEF Chained
  <2>2. CASE k = n + 1
    <3>1. CASE n = 0
      <4>1. prev[r] = <<>> /\ k = 1 /\ history'[k] = row
        BY <1>6, <1>8, <2>2, <3>1
      <4>2. Len(prev[r]) = 0
        BY <4>1, EmptySeq
      <4> QED BY <1>4, <1>10, <2>2, <3>1, <4>1, <4>2
    <3>2. CASE n # 0
      <4>1. n \in 1 .. n /\ k # 1 /\ k - 1 = n
        BY <1>2, <2>2, <3>2
      <4>2. prev[r] = history'[k - 1].hash /\ Len(prev[r]) = n
        BY <1>2, <1>6, <1>8, <3>2, <4>1 DEF Last, Chained
      <4> QED BY <1>4, <1>8, <1>10, <2>2, <4>1, <4>2
    <3> QED BY <3>1, <3>2
  <2> QED BY <1>2, <2>1, <2>2
<1>12. Recorded'
  <2> SUFFICES ASSUME NEW i \in 1 .. Len(table) + 1
               PROVE  /\ table'[i].seq \in 1 .. n + 1
                      /\ SameRow(table'[i], history'[table'[i].seq])
    BY <1>1, <1>7, <1>8 DEF Recorded, SameRow
  <2>1. CASE i \in 1 .. Len(table)
    <3>1. table[i].seq \in 1 .. n /\ SameRow(table[i], history[table[i].seq])
      BY <1>2, <2>1 DEF Recorded
    <3> QED BY <1>2, <1>7, <1>8, <2>1, <3>1
  <2>2. CASE i = Len(table) + 1
    BY <1>2, <1>7, <1>8, <1>10, <2>2 DEF SameRow
  <2> QED BY <1>2, <2>1, <2>2
<1>13. NewestKept'
  BY <1>1, <1>2, <1>6, <1>7, <1>8, <1>10 DEF NewestKept, Newest
<1>14. ASSUME NEW q \in Processes PROVE ProcessInv(q)'
  <2>1. CASE q = r
    <3>1. CASE event[r].action = "session.revoke_all"
      BY <1>1, <1>3, <1>6, <2>1, <3>1 DEF Goto, local, ProcessInv, TypeOK
    <3>2. CASE event[r].action # "session.revoke_all"
      <4>1. pc'[r] = "idle" /\ job'[r] = NoJob /\ event'[r] = NoEvent
        BY <1>1, <3>2 DEF Goto, Finish, TypeOK
      <4> QED BY <2>1, <4>1 DEF ProcessInv, NoJob, NoEvent
    <3> QED BY <3>1, <3>2
  <2>2. CASE q # r
    <3>1. /\ pc'[q] = pc[q] /\ job'[q] = job[q] /\ event'[q] = event[q]
          /\ prev'[q] = prev[q] /\ lock # q
      BY <1>1, <1>6, <2>2 DEF Goto, Finish, local, TypeOK
    <3> QED BY <1>1, <1>6, <2>2, <3>1, OthersKept
  <2> QED BY <2>1, <2>2
<1> QED BY <1>9, <1>11, <1>12, <1>13, <1>14

\* The rows of the erased user get its pseudonym; nothing else about any row
\* changes.
LEMMA CommitStep ==
    ASSUME ChainInv, NEW r \in Processes, CommitErasure(r)
    PROVE  ChainInv'
<1> USE DEF ChainInv
<1>1. /\ pc[r] = "commit"
      /\ table' = [i \in DOMAIN table |-> Relabel(r, table[i])]
      /\ erased' = erased \cup {job[r].user}
      /\ event' = [event EXCEPT ![r] =
                      [ts |-> now, action |-> "gdpr.erasure", subject |-> Admin,
                       entity |-> job[r].user, mentions |-> job[r].pseudonym]]
      /\ pc' = [pc EXCEPT ![r] = "lock"]
      /\ UNCHANGED <<now, lock, job, prev, chosen, drawn, history>>
  BY DEF CommitErasure, Goto
<1>2. /\ Len(table) \in Nat /\ DOMAIN table = 1 .. Len(table)
      /\ \A i \in DOMAIN table : table[i] \in Rows
      /\ \A k \in DOMAIN history : history[k] \in Rows
  BY RowTypes
<1>3. /\ job[r].user \in Users /\ job[r].pseudonym \in Pseudonyms
      /\ drawn[job[r].pseudonym] = job[r].user
  BY <1>1, AuditAssumption DEF ProcessInv, TypeOK
<1>4. ASSUME NEW row \in Rows
      PROVE  /\ Relabel(r, row) \in Rows
             /\ Relabel(r, row).seq = row.seq /\ Relabel(r, row).event.ts = row.event.ts
             /\ \/ Relabel(r, row) = row
                \/ /\ row.event.subject = job[r].user
                   /\ Relabel(r, row) = [row EXCEPT !.event.subject = job[r].pseudonym]
  <2>1. [row EXCEPT !.event.subject = job[r].pseudonym] \in Rows
    BY <1>3 DEF Rows, Events
  <2> QED BY <2>1 DEF Relabel, Rows, Events
<1>5. /\ table' \in Seq(Rows) /\ Len(table') = Len(table) /\ DOMAIN table' = DOMAIN table
      /\ \A i \in DOMAIN table : table'[i] = Relabel(r, table[i])
  <2>1. table' \in [1 .. Len(table) -> Rows]
    BY <1>1, <1>2, <1>4
  <2> QED BY <1>1, <1>2, <2>1, FunctionIsSeq
<1>6. TypeOK'
  <2>1. [ts |-> now, action |-> "gdpr.erasure", subject |-> Admin,
         entity |-> job[r].user, mentions |-> job[r].pseudonym] \in Events
    BY <1>3 DEF Events, Actions, TypeOK
  <2> QED BY <1>1, <1>3, <1>5, <2>1 DEF TypeOK
<1>7. Chained'
  BY <1>1 DEF Chained
<1>8. Recorded'
  <2> SUFFICES ASSUME NEW i \in DOMAIN table
               PROVE  /\ table'[i].seq \in DOMAIN history
                      /\ SameRow(table'[i], history[table'[i].seq])
    BY <1>1, <1>5 DEF Recorded, SameRow
  <2> DEFINE row == table[i]
             written == history[table[i].seq]
  <2>1. /\ row \in Rows /\ row.seq \in DOMAIN history /\ written \in Rows
        /\ SameRow(row, written) /\ table'[i] = Relabel(r, row)
    BY <1>2, <1>5 DEF Recorded
  <2>2. table'[i].seq = row.seq
    BY <1>4, <2>1
  <2> HIDE DEF row
  <2>3. SameRow(table'[i], written)
    <3> HIDE DEF written
    <3>1. CASE Relabel(r, row) = row
      BY <2>1, <3>1
    <3>2. CASE /\ row.event.subject = job[r].user
               /\ Relabel(r, row) = [row EXCEPT !.event.subject = job[r].pseudonym]
      <4>1. row = written
        <5>1. ASSUME NEW x \in Pseudonyms, row = [written EXCEPT !.event.subject = x]
              PROVE  FALSE
          <6>1. row.event.subject = x
            BY <2>1, <5>1 DEF Rows, Events
          <6> QED BY <1>3, <3>2, <6>1, AuditAssumption
        <5> QED BY <2>1, <5>1 DEF SameRow
      <4> QED BY <1>3, <2>1, <3>2, <4>1 DEF SameRow
    <3> QED BY <1>4, <2>1, <3>1, <3>2
  <2> QED BY <2>1, <2>2, <2>3 DEF row
<1>9. NewestKept'
  <2>1. Len(table) # 0 => Len(table) \in DOMAIN table
    BY <1>2
  <2> QED BY <1>1, <1>2, <1>4, <1>5, <2>1 DEF NewestKept, Newest
<1>10. ASSUME NEW q \in Processes PROVE ProcessInv(q)'
  <2>1. CASE q = r
    <3>1. event'[r].ts = now /\ event'[r].action = "gdpr.erasure" /\ pc'[r] = "lock"
      BY <1>1 DEF TypeOK
    <3>2. now \in Nat /\ MaxAge \in Nat
      BY AuditAssumption DEF TypeOK
    <3> QED BY <1>1, <1>3, <2>1, <3>1, <3>2 DEF ProcessInv
  <2>2. CASE q # r
    <3>1. pc'[q] = pc[q] /\ event'[q] = event[q]
      BY <1>1, <2>2 DEF TypeOK
    <3> QED BY <1>1, <2>2, <3>1, OthersKept
  <2> QED BY <2>1, <2>2
<1> QED BY <1>6, <1>7, <1>8, <1>9, <1>10

\* The newest row is younger than MaxAge and remains, at the end of the table.
LEMMA DeleteStep ==
    ASSUME ChainInv, NEW r \in Processes, DeleteOld(r)
    PROVE  ChainInv'
<1> USE DEF ChainInv
<1> DEFINE young == {i \in DOMAIN table : table[i].event.ts + MaxAge >= event[r].ts}
           m == Cardinality(young)
<1>1. /\ pc[r] = "delete"
      /\ event' = [event EXCEPT ![r].ts = now]
      /\ pc' = [pc EXCEPT ![r] = "lock"]
      /\ UNCHANGED <<now, lock, job, prev, chosen, drawn, erased, history>>
      /\ \/ \E f \in [1 .. m -> young] :
                InOrder(f, young) /\ table' = [i \in DOMAIN f |-> table[f[i]]]
         \/ table' = table
  BY DEF DeleteOld, Goto
<1>2. /\ Len(table) \in Nat /\ DOMAIN table = 1 .. Len(table)
      /\ \A i \in DOMAIN table : table[i] \in Rows
  BY RowTypes
<1>3. now \in Nat /\ MaxAge \in Nat /\ event[r] \in Events
      /\ event[r].ts <= now /\ now <= event[r].ts + MaxAge
  BY <1>1, AuditAssumption DEF TypeOK, ProcessInv
<1>4. event'[r] \in Events /\ event'[r].ts = now /\ event'[r].action = event[r].action
  <2>1. event'[r] = [event[r] EXCEPT !.ts = now]
    BY <1>1 DEF TypeOK
  <2> QED BY <1>3, <2>1 DEF Events
<1>5. m \in Nat
  <2>1. IsFiniteSet(1 .. Len(table))
    BY <1>2, FS_Interval
  <2>2. young \subseteq 1 .. Len(table)
    BY <1>2
  <2> HIDE DEF young
  <2> QED BY <2>1, <2>2, FS_Subset, FS_CardinalityType
<1>6. Len(table) # 0 => Len(table) \in young
  <2>1. Len(table) # 0 => Newest \in Rows /\ now <= Newest.event.ts + MaxAge
                          /\ Newest = table[Len(table)] /\ Len(table) \in DOMAIN table
    BY <1>2 DEF NewestKept, Newest
  <2> QED BY <1>3, <2>1 DEF Rows, Events
<1> HIDE DEF young, m
<1>7. /\ table' \in Seq(Rows)
      /\ \A i \in DOMAIN table' : \E j \in DOMAIN table : table'[i] = table[j]
      /\ Len(table') = 0 <=> Len(table) = 0
      /\ Len(table) # 0 => Newest' = Newest
  <2>1. CASE table' = table
    BY <2>1 DEF TypeOK, Newest
  <2>2. ASSUME NEW f \in [1 .. m -> young], InOrder(f, young),
               table' = [i \in DOMAIN f |-> table[f[i]]]
        PROVE  /\ table' \in Seq(Rows)
               /\ \A i \in DOMAIN table' : \E j \in DOMAIN table : table'[i] = table[j]
               /\ Len(table') = 0 <=> Len(table) = 0
               /\ Len(table) # 0 => Newest' = Newest
    <3>1. young \subseteq DOMAIN table
      BY DEF young
    <3>2. table' \in [1 .. m -> Rows]
      BY <1>2, <2>2, <3>1
    <3>3. table' \in Seq(Rows) /\ Len(table') = m /\ DOMAIN table' = 1 .. m
      BY <1>5, <3>2, FunctionIsSeq
    <3>4. \A i \in 1 .. m : f[i] \in DOMAIN table /\ table'[i] = table[f[i]]
      BY <2>2, <3>1
    <3>5. Len(table) # 0 => m # 0 /\ f[m] = Len(table)
      <4> SUFFICES ASSUME Len(table) # 0 PROVE m # 0 /\ f[m] = Len(table)
        OBVIOUS
      <4>1. PICK i \in 1 .. m : f[i] = Len(table)
        BY <1>6, <2>2 DEF InOrder
      <4>2. i < m => f[i] < f[m]
        BY <1>5, <2>2 DEF InOrder
      <4>3. m \in 1 .. m
        BY <1>5, <4>1
      <4>4. ~(f[i] < f[m])
        BY <1>2, <3>4, <4>1, <4>3
      <4> QED BY <1>5, <4>1, <4>2, <4>4
    <3>6. Len(table) = 0 => m = 0
      <4> SUFFICES ASSUME Len(table) = 0, m # 0 PROVE FALSE
        OBVIOUS
      <4>1. 1 \in 1 .. m
        BY <1>5
      <4> QED BY <1>2, <3>4, <4>1
    <3>7. Len(table) # 0 => m \in 1 .. m /\ table'[m] = table[Len(table)]
      BY <1>5, <3>4, <3>5
    <3> QED BY <3>3, <3>4, <3>5, <3>6, <3>7 DEF Newest
  <2> QED BY <1>1, <2>1, <2>2
<1>8. TypeOK'
  BY <1>1, <1>4, <1>7 DEF TypeOK
<1>9. Chained' /\ NewestKept'
  BY <1>1, <1>7 DEF Chained, NewestKept
<1>10. Recorded'
  <2> SUFFICES ASSUME NEW i \in DOMAIN table'
               PROVE  /\ table'[i].seq \in DOMAIN history
                      /\ SameRow(table'[i], history[table'[i].seq])
    BY <1>1 DEF Recorded, SameRow
  <2>1. PICK j \in DOMAIN table : table'[i] = table[j]
    BY <1>7
  <2> QED BY <2>1 DEF Recorded
<1>11. ASSUME NEW q \in Processes PROVE ProcessInv(q)'
  <2>1. CASE q = r
    BY <1>1, <1>3, <1>4, <2>1 DEF ProcessInv, TypeOK
  <2>2. CASE q # r
    <3>1. pc'[q] = pc[q] /\ event'[q] = event[q]
      BY <1>1, <2>2 DEF TypeOK
    <3> QED BY <1>1, <2>2, <3>1, OthersKept
  <2> QED BY <2>1, <2>2
<1> QED BY <1>8, <1>9, <1>10, <1>11

\* The clock waits for the writes and for the newest row.
LEMMA TickStep == ASSUME ChainInv, Tick PROVE ChainInv'
<1> USE DEF ChainInv
<1>1. /\ now' = now + 1 /\ now \in Nat /\ MaxAge \in Nat
      /\ table # <<>> => now < Newest.event.ts + MaxAge
      /\ \A p \in Processes : pc[p] # "idle" => now < event[p].ts + MaxAge
      /\ UNCHANGED <<table, lock, pc, local, drawn, erased, history>>
  BY AuditAssumption DEF Tick, TypeOK
<1>2. TypeOK'
  BY <1>1 DEF TypeOK, local
<1>3. Chained' /\ Recorded'
  BY <1>1 DEF Chained, Recorded, SameRow
<1>4. NewestKept'
  <2>1. Len(table) # 0 => Newest \in Rows /\ Newest.event.ts \in Nat /\ table # <<>>
    BY RowTypes, EmptySeq DEF Newest, Rows, Events
  <2> QED BY <1>1, <2>1 DEF NewestKept, Newest
<1>5. ASSUME NEW p \in Processes PROVE ProcessInv(p)'
  <2>1. event[p].ts \in Nat /\ ProcessInv(p)
    BY DEF TypeOK, Events
  <2> QED BY <1>1, <2>1 DEF ProcessInv, Last, local
<1> QED BY <1>2, <1>3, <1>4, <1>5

\* Every step preserves the invariant.
LEMMA ChainStep == ChainInv /\ [Next]_vars => ChainInv'
<1> SUFFICES ASSUME ChainInv, [Next]_vars
             PROVE  ChainInv'
  OBVIOUS
<1>1. CASE Tick
  BY <1>1, TickStep
<1>2. ASSUME NEW p \in Processes, Begin(p) \/ Step(p)
      PROVE  ChainInv'
  BY <1>2, BeginStep, WriteStep, CreateStep, CommitStep, DeleteStep DEF Step
<1>3. CASE UNCHANGED vars
  BY <1>3 DEF vars, ChainInv, TypeOK, Chained, Recorded, SameRow, NewestKept, Newest,
              ProcessInv, Last
<1> QED BY <1>1, <1>2, <1>3 DEF Next

-----------------------------------------------------------------------------
(***************************************************************************)
(* The log implements the atomic one.                                      *)
(***************************************************************************)

\* The k-th hash covers the first k events.  It follows from Chained by induction on
\* k, but is proved as an invariant.
Covers == \A k \in DOMAIN history : history[k].hash = [i \in 1 .. k |-> history[i].event]

LogInv == ChainInv /\ Covers

LEMMA WrittenTypes ==
    ASSUME TypeOK
    PROVE  Written \in Seq(Events) /\ Len(Written) = Len(history) /\ DOMAIN Written = DOMAIN history
<1>1. Len(history) \in Nat /\ DOMAIN history = 1 .. Len(history)
      /\ \A k \in DOMAIN history : history[k] \in Rows
  BY RowTypes
<1>2. Written \in [1 .. Len(history) -> Events]
  BY <1>1 DEF Written, Rows
<1> QED BY <1>1, <1>2, FunctionIsSeq

\* What a writer has read when it creates its row is all that was ever written.
LEMMA CreateWrites ==
    ASSUME LogInv, NEW r \in Processes, Create(r)
    PROVE  /\ prev[r] = Written
           /\ Len(Written') = Len(Written) + 1 /\ Written'[Len(Written')] = event[r]
           /\ Written' = Append(Written, event[r])
           /\ Covers'
<1> USE DEF LogInv, ChainInv
<1> DEFINE n == Len(history)
           row == [seq |-> n + 1, event |-> event[r], prev |-> prev[r],
                   hash |-> Append(prev[r], event[r])]
<1>1. history' = Append(history, row) /\ pc[r] = "create"
  BY DEF Create
<1>2. /\ n \in Nat /\ DOMAIN history = 1 .. n
      /\ event[r] \in Events /\ prev[r] \in Hashes
  BY RowTypes DEF TypeOK
<1>3. Written \in Seq(Events) /\ Len(Written) = n /\ DOMAIN Written = 1 .. n
  BY <1>2, WrittenTypes
<1>4. prev[r] = Written
  <2>1. prev[r] = IF n = 0 THEN <<>> ELSE Last.hash
    BY <1>1 DEF ProcessInv
  <2>2. CASE n = 0
    BY <1>3, <2>1, <2>2, EmptySeq
  <2>3. CASE n # 0
    <3>1. n \in DOMAIN history
      BY <1>2, <2>3
    <3> QED BY <1>2, <2>1, <2>3, <3>1 DEF Covers, Written, Last
  <2> QED BY <2>2, <2>3
<1>5. row \in Rows
  <2>1. Append(prev[r], event[r]) \in Hashes
    BY <1>2, AppendProperties DEF Hashes
  <2> QED BY <1>2, <2>1 DEF Rows
<1>6. row.event = event[r] /\ row.hash = Append(prev[r], event[r])
  OBVIOUS
<1> HIDE DEF row
<1>7. /\ history' \in Seq(Rows) /\ Len(history') = n + 1 /\ DOMAIN history' = 1 .. n + 1
      /\ \A k \in 1 .. n : history'[k] = history[k]
      /\ history'[n + 1] = row
  BY <1>1, <1>5, Appended DEF TypeOK
<1>8. /\ Written' \in Seq(Events) /\ Len(Written') = n + 1 /\ DOMAIN Written' = 1 .. n + 1
      /\ \A k \in 1 .. n : Written'[k] = Written[k]
      /\ Written'[n + 1] = event[r]
  <2>1. Written' = [k \in 1 .. n + 1 |-> history'[k].event]
    BY <1>7 DEF Written
  <2>2. \A k \in 1 .. n + 1 : history'[k] \in Rows
    BY <1>7, ElementOfSeq
  <2>3. Written' \in [1 .. n + 1 -> Events]
    BY <2>1, <2>2 DEF Rows
  <2>4. \A k \in 1 .. n : Written'[k] = Written[k]
    BY <1>2, <1>7, <2>1 DEF Written
  <2>5. n + 1 \in 1 .. n + 1 /\ n + 1 \in Nat
    BY <1>2
  <2>6. Written' \in Seq(Events) /\ Len(Written') = n + 1 /\ DOMAIN Written' = 1 .. n + 1
    <3> HIDE DEF n
    <3> QED BY <2>3, <2>5, FunctionIsSeq
  <2>7. Written'[n + 1] = event[r]
    BY <1>6, <1>7, <2>1, <2>5
  <2> QED BY <2>4, <2>6, <2>7
<1>9. Written' = Append(Written, event[r])
  <2>1. /\ Append(Written, event[r]) \in Seq(Events)
        /\ Len(Append(Written, event[r])) = n + 1
        /\ \A k \in 1 .. n : Append(Written, event[r])[k] = Written[k]
        /\ Append(Written, event[r])[n + 1] = event[r]
    BY <1>2, <1>3, Appended
  <2>2. \A k \in 1 .. n + 1 : Written'[k] = Append(Written, event[r])[k]
    BY <1>2, <1>8, <2>1
  <2> HIDE DEF n
  <2> QED BY <1>8, <2>1, <2>2, SeqEqual
<1>10. Covers'
  <2> SUFFICES ASSUME NEW k \in 1 .. n + 1
               PROVE  history'[k].hash = [i \in 1 .. k |-> history'[i].event]
    BY <1>7 DEF Covers
  <2>1. CASE k \in 1 .. n
    <3>1. history[k].hash = [i \in 1 .. k |-> history[i].event]
      BY <1>2, <2>1 DEF Covers
    <3>2. \A i \in 1 .. k : history'[i] = history[i]
      BY <1>2, <1>7, <2>1
    <3> QED BY <1>7, <2>1, <3>1, <3>2
  <2>2. CASE k = n + 1
    <3>1. history'[k].hash = Written'
      BY <1>4, <1>6, <1>7, <1>9, <2>2
    <3> QED BY <1>7, <2>2, <3>1 DEF Written
  <2> QED BY <1>2, <2>1, <2>2
<1> QED BY <1>3, <1>4, <1>8, <1>9, <1>10

\* Only a create adds to the history.
LEMMA HistoryGrows ==
    ASSUME [Next]_vars
    PROVE  history' = history \/ \E r \in Processes : Create(r)
BY DEF Next, vars, Tick, Begin, BeginEvent, BeginErase, BeginRetention, Step, AcquireLock,
       ReadLast, UpdateMany, CommitErasure, DeleteOld, Abort

LEMMA LogInvStep == LogInv /\ [Next]_vars => LogInv'
<1> SUFFICES ASSUME LogInv, [Next]_vars PROVE LogInv'
  OBVIOUS
<1>1. ChainInv'
  BY ChainStep DEF LogInv
<1>2. CASE history' = history
  BY <1>1, <1>2 DEF LogInv, Covers
<1> QED BY <1>1, <1>2, HistoryGrows, CreateWrites DEF LogInv

LEMMA LogInvInit == Init => LogInv
<1> SUFFICES ASSUME Init PROVE LogInv
  OBVIOUS
<1>1. ChainInv /\ history = <<>>
  BY ChainInit DEF Init
<1> QED BY <1>1 DEF LogInv, Covers

\* A create is the step in which the entry is written.
LEMMA CreateSimulated ==
    ASSUME LogInv, NEW r \in Processes, Create(r)
    PROVE  Atomic!Write
<1>1. /\ prev[r] = Written
      /\ Len(Written') = Len(Written) + 1 /\ Written'[Len(Written')] = event[r]
      /\ Written' = Append(Written, event[r])
  BY CreateWrites
<1>2. /\ table' = Append(table, [seq |-> Len(history) + 1, event |-> event[r], prev |-> prev[r],
                                 hash |-> Append(prev[r], event[r])])
      /\ drawn' = drawn
  BY DEF Create
<1>3. event[r] \in Events /\ Len(Written) = Len(history)
  BY WrittenTypes DEF LogInv, ChainInv, TypeOK
<1> QED BY <1>1, <1>2, <1>3 DEF Atomic!Write

\* The commit of an erasure relabels rows of its user.
LEMMA CommitSimulated ==
    ASSUME LogInv, NEW r \in Processes, CommitErasure(r)
    PROVE  \E q \in Pseudonyms : Atomic!Relabel(q)
<1> DEFINE q == job[r].pseudonym
           hit == {i \in DOMAIN table : /\ table[i].seq \in chosen[r]
                                        /\ table[i].event.subject = job[r].user}
<1>1. table' = [i \in DOMAIN table |-> Relabel(r, table[i])] /\ UNCHANGED <<drawn, history>>
  BY DEF CommitErasure
<1>2. q \in Pseudonyms /\ drawn[q] = job[r].user /\ job[r].user \in Users
  BY AuditAssumption DEF LogInv, ChainInv, ProcessInv, TypeOK, CommitErasure
<1>3. hit \in SUBSET {i \in DOMAIN table : table[i].event.subject = drawn[q]}
  BY <1>2
<1>4. table' = [i \in DOMAIN table |-> IF i \in hit THEN [table[i] EXCEPT !.event.subject = q]
                                                    ELSE table[i]]
  BY <1>1 DEF Relabel
<1>5. Written' = Written
  BY <1>1 DEF Written
<1> HIDE DEF hit, q
<1>6. Atomic!Relabel(q)
  BY <1>1, <1>2, <1>3, <1>4, <1>5 DEF Atomic!Relabel
<1> QED BY <1>2, <1>6

LEMMA SameCount == ASSUME NEW S PROVE Atomic!Cardinality(S) = Cardinality(S)
BY DEF Atomic!Cardinality, Cardinality

\* What deleteMany removes is older than MaxAge, what it leaves is not.
LEMMA DeleteSimulated ==
    ASSUME LogInv, NEW r \in Processes, DeleteOld(r)
    PROVE  Atomic!Retire \/ UNCHANGED Atomic!vars
<1> USE DEF LogInv, ChainInv
<1> DEFINE young == {i \in DOMAIN table : table[i].event.ts + MaxAge >= event[r].ts}
           m == Cardinality(young)
<1>1. /\ pc[r] = "delete" /\ UNCHANGED <<drawn, history>>
      /\ \/ \E f \in [1 .. m -> young] :
                InOrder(f, young) /\ table' = [i \in DOMAIN f |-> table[f[i]]]
         \/ table' = table
  BY DEF DeleteOld
<1>2. Written' = Written
  BY <1>1 DEF Written
<1>3. /\ Len(table) \in Nat /\ DOMAIN table = 1 .. Len(table)
      /\ \A i \in DOMAIN table : table[i].event.ts \in Nat
      /\ MaxAge \in Nat /\ event[r].ts \in Nat /\ now \in Nat /\ event[r].ts <= now
  BY <1>1, RowTypes, AuditAssumption DEF Rows, Events, TypeOK, ProcessInv
<1>4. young \in SUBSET DOMAIN table
      /\ \A i \in young, j \in DOMAIN table \ young : table[j].event.ts < table[i].event.ts
  BY <1>3
<1>5. Len(table) # 0 => Len(table) \in young
  BY <1>3 DEF NewestKept, Newest
<1> HIDE DEF young
<1>6. CASE table' = table
  BY <1>1, <1>2, <1>6 DEF Atomic!vars
<1>7. ASSUME NEW f \in [1 .. m -> young], InOrder(f, young),
             table' = [i \in DOMAIN f |-> table[f[i]]]
      PROVE  Atomic!Retire \/ UNCHANGED Atomic!vars
  <2>1. CASE Len(table) = 0
    <3>1. table = <<>> /\ young = {}
      BY <1>3, <1>4, <2>1, EmptySeq DEF TypeOK
    <3>2. m = 0
      BY <3>1, FS_EmptySet
    <3>3. DOMAIN table' = 1 .. 0 /\ table' = [i \in 1 .. 0 |-> table[f[i]]]
      BY <1>7, <3>2
    <3>4. table' = table
      BY <1>3, <2>1, <3>1, <3>3
    <3> QED BY <1>6, <3>4
  <2>2. CASE Len(table) # 0
    <3>1. /\ f \in [1 .. Atomic!Cardinality(young) -> young]
          /\ \A i, j \in DOMAIN f : i < j => f[i] < f[j]
          /\ \A s \in young : \E i \in DOMAIN f : f[i] = s
      BY <1>7, SameCount DEF InOrder
    <3>2. Atomic!Kept(young, table')
      BY <1>7, <3>1 DEF Atomic!Kept
    <3> QED BY <1>1, <1>2, <1>4, <1>5, <2>2, <3>2 DEF Atomic!Retire
  <2> QED BY <2>1, <2>2
<1> QED BY <1>1, <1>6, <1>7

\* An erasure draws its pseudonym when it begins; no other step is seen.
LEMMA EraseSimulated ==
    ASSUME LogInv, NEW r \in Processes, BeginErase(r)
    PROVE  \E q \in Pseudonyms, user \in Users : Atomic!Draw(q, user)
BY DEF BeginErase, Atomic!Draw, Written

LEMMA LogSimulated == LogInv /\ [Next]_vars => [Atomic!Next]_(Atomic!vars)
<1> SUFFICES ASSUME LogInv, [Next]_vars PROVE Atomic!Next \/ UNCHANGED Atomic!vars
  OBVIOUS
<1>1. CASE UNCHANGED <<table, drawn, history>>
  BY <1>1 DEF Atomic!vars, Written
<1>2. ASSUME NEW r \in Processes,
             Create(r) \/ CommitErasure(r) \/ DeleteOld(r) \/ BeginErase(r)
      PROVE  Atomic!Next \/ UNCHANGED Atomic!vars
  BY <1>2, CreateSimulated, CommitSimulated, DeleteSimulated, EraseSimulated DEF Atomic!Next
<1>3. \/ UNCHANGED <<table, drawn, history>>
      \/ \E r \in Processes :
            Create(r) \/ CommitErasure(r) \/ DeleteOld(r) \/ BeginErase(r)
  BY DEF vars, Next, Tick, Begin, BeginEvent, BeginRetention, Step, AcquireLock, ReadLast,
         UpdateMany, Abort
<1> QED BY <1>1, <1>2, <1>3

-----------------------------------------------------------------------------
(***************************************************************************)
(* The lock.                                                               *)
(***************************************************************************)

\* The advisory lock is free, or its holder is between its read and its create and
\* so about to end its transaction: no abort, in whatever step, leaves it behind.
LockHeld == lock # Nobody => pc[lock] \in {"last", "create"}

LEMMA LockStep == ChainInv /\ LockHeld /\ [Next]_vars => LockHeld'
<1> SUFFICES ASSUME ChainInv, LockHeld, [Next]_vars PROVE LockHeld'
  OBVIOUS
<1> USE DEF ChainInv
<1>1. pc \in [Processes -> {"idle", "lock", "last", "create", "update", "commit", "delete"}]
      /\ lock \in Processes \cup {Nobody} /\ Nobody \notin Processes
  BY AuditAssumption DEF TypeOK
<1>2. CASE UNCHANGED <<pc, lock>>
  BY <1>2 DEF LockHeld
<1>3. ASSUME NEW r \in Processes, Begin(r) \/ UpdateMany(r) \/ CommitErasure(r) \/ DeleteOld(r)
      PROVE  LockHeld'
  <2>1. /\ pc[r] \notin {"last", "create"} /\ lock' = lock
        /\ \A p \in Processes \ {r} : pc'[p] = pc[p]
    BY <1>1, <1>3 DEF Begin, BeginEvent, BeginErase, BeginRetention, UpdateMany, CommitErasure,
                      DeleteOld, Goto
  <2> QED BY <1>1, <2>1 DEF LockHeld
<1>4. ASSUME NEW r \in Processes, AcquireLock(r) PROVE LockHeld'
  BY <1>1, <1>4 DEF AcquireLock, Goto, LockHeld
<1>5. ASSUME NEW r \in Processes, ReadLast(r) PROVE LockHeld'
  BY <1>1, <1>5 DEF ReadLast, Goto, LockHeld, ProcessInv
<1>6. ASSUME NEW r \in Processes, Create(r) \/ Abort(r) PROVE LockHeld'
  <2>1. lock' = (IF lock = r THEN Nobody ELSE lock)
        /\ \A p \in Processes \ {r} : pc'[p] = pc[p]
    BY <1>1, <1>6 DEF Create, Abort, Release, Goto
  <2> QED BY <1>1, <2>1 DEF LockHeld
<1>7. CASE Tick
  BY <1>2, <1>7 DEF Tick
<1> QED BY <1>2, <1>3, <1>4, <1>5, <1>6, <1>7 DEF Next, Step, vars

-----------------------------------------------------------------------------
(***************************************************************************)
(* The theorems.                                                           *)
(***************************************************************************)

\* The invariant is inductive.
THEOREM ChainInductive == Spec => []ChainInv
<1> QED BY ChainInit, ChainStep, PTL DEF Spec

\* Every variable keeps its type, whatever the jobs do.
THEOREM ChainTypes == Spec => []TypeOK
<1>1. ChainInv => TypeOK
  BY DEF ChainInv
<1> QED BY <1>1, ChainInductive, PTL

\* A window that verifyChainWindow accepts, from either end and of any length, is
\* what was written, with no row altered or missing.
THEOREM ChainSound == Spec => []VerifiedIsGenuine
<1> QED BY InvariantSuffices, ChainInductive, PTL

\* verifyChainWindow accepts every window in which no row was altered or is
\* missing, however the writes interleaved.
THEOREM ChainComplete == Spec => []NoFalseAlarm
<1> QED BY InvariantSuffices, ChainInductive, PTL

\* An erasure replaces the subject of its own user's rows and alters nothing else.
THEOREM ErasureConfined == Spec => []OnlyOwnSubjectReplaced
<1> QED BY InvariantSuffices, ChainInductive, PTL

\* Every write, however it interleaves, is an atomic append whose hash covers all
\* that was written before; erasures and retention change the rows as AuditLog says.
THEOREM LogIsAtomic == Spec => ImplementsLog
<1>1. Init => Atomic!Init
  <2> SUFFICES ASSUME Init PROVE Atomic!Init
    OBVIOUS
  <2>1. history = <<>> /\ table = <<>> /\ drawn = [q \in Pseudonyms |-> Nobody] /\ LogInv
    BY LogInvInit DEF Init
  <2>2. Written \in Seq(Events) /\ Len(Written) = 0
    BY <2>1, WrittenTypes, EmptySeq DEF LogInv, ChainInv
  <2>3. Written = <<>>
    BY <2>2, EmptySeq
  <2> QED BY <2>1, <2>3 DEF Atomic!Init
<1> QED BY <1>1, LogInvInit, LogInvStep, LogSimulated, PTL DEF Spec, ImplementsLog, Atomic!Spec

\* Whoever waits for the lock waits for a transaction that is under way, never for
\* one that is over: the safety that LockGranted rests on.
THEOREM LockNotOrphaned == Spec => []LockHeld
<1>1. Init => LockHeld
  BY DEF Init, LockHeld
<1> QED BY <1>1, LockStep, ChainInductive, PTL DEF Spec

=============================================================================
