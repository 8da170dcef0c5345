--------------------------- MODULE AuditExportProofs ---------------------------
(***************************************************************************)
(* Proofs about AuditExport: the log with its exports is still the log of  *)
(* AuditChain, so all that is proved about that holds here; and an export  *)
(* is final.  The argument for the latter: a writer that is not one of     *)
(* those on their way at the export took its timestamp after it, and the   *)
(* exported range ended before.                                            *)
(***************************************************************************)
EXTENDS AuditExport, AuditChainProofs

\* Rows are in the order of their numbers.
Ordered == \A i, j \in DOMAIN table : i < j => table[i].seq < table[j].seq

ExportInv ==
    /\ ChainInv
    /\ Ordered
    /\ archive.to \in Nat /\ archive.to <= now
    /\ awaited \subseteq Processes
    /\ \A p \in Processes : pc[p] # "idle" => p \in awaited \/ event[p].ts >= archive.to
    /\ ExportComplete

-----------------------------------------------------------------------------
(***************************************************************************)
(* What a step of the log does to timestamps and rows.                     *)
(***************************************************************************)

\* The clock does not go back, and an event is new, and of now, or as it was.
LEMMA LogTimes ==
    ASSUME ChainInv, Next
    PROVE  /\ now <= now' /\ now \in Nat /\ now' \in Nat
           /\ \A p \in Processes : pc'[p] # "idle" =>
                 \/ pc[p] # "idle" /\ event'[p] = event[p]
                 \/ event'[p].ts = now
<1> USE DEF ChainInv, TypeOK
<1>1. CASE Tick
  BY <1>1 DEF Tick, local
<1>2. ASSUME NEW r \in Processes, Begin(r) \/ Step(r)
      PROVE  /\ now' = now
             /\ \A p \in Processes : pc'[p] # "idle" =>
                   \/ pc[p] # "idle" /\ event'[p] = event[p]
                   \/ event'[p].ts = now
  <2>1. CASE BeginEvent(r)
    BY <2>1 DEF BeginEvent, Goto, NoEvent
  <2>2. CASE BeginErase(r)
    BY <2>2 DEF BeginErase, Goto, NoEvent
  <2>3. CASE BeginRetention(r)
    BY <2>3 DEF BeginRetention, Goto, NoEvent
  <2>4. CASE AcquireLock(r) \/ ReadLast(r) \/ UpdateMany(r)
    BY <2>4 DEF AcquireLock, ReadLast, UpdateMany, Goto, local
  <2>5. CASE Create(r)
    BY <2>5 DEF Create, Goto, Finish, local
  <2>6. CASE CommitErasure(r)
    BY <2>6 DEF CommitErasure, Goto
  <2>7. CASE DeleteOld(r)
    <3>1. event[r] \in Events /\ event' = [event EXCEPT ![r].ts = now] /\ now' = now
          /\ pc' = [pc EXCEPT ![r] = "lock"]
      BY <2>7 DEF DeleteOld, Goto
    <3>2. event'[r].ts = now /\ \A p \in Processes \ {r} : event'[p] = event[p] /\ pc'[p] = pc[p]
      BY <3>1 DEF Events
    <3> QED BY <3>1, <3>2
  <2>8. CASE Abort(r)
    BY <2>8 DEF Abort, Goto, Finish
  <2> QED BY <1>2, <2>1, <2>2, <2>3, <2>4, <2>5, <2>6, <2>7, <2>8 DEF Begin, Step
<1> QED BY <1>1, <1>2 DEF Next

\* A row is the one that is being created, or has the number and the timestamp of
\* a row that was there before, the rows in between keeping their order.
Carried == \A i \in DOMAIN table' :
    \/ \E j \in DOMAIN table :
          table'[i].seq = table[j].seq /\ table'[i].event.ts = table[j].event.ts
    \/ \E p \in Processes :
          Creates(p) /\ table'[i].seq = Len(history') /\ table'[i].event.ts = event[p].ts

LEMMA CreateRows ==
    ASSUME ChainInv, Ordered, NEW r \in Processes, Create(r)
    PROVE  Carried /\ Ordered'
<1> USE DEF ChainInv
<1> DEFINE row == [seq |-> Len(history) + 1, event |-> event[r], prev |-> prev[r],
                   hash |-> Append(prev[r], event[r])]
<1>1. /\ table' = Append(table, row) /\ history' = Append(history, row)
      /\ pc[r] = "create" /\ pc'[r] # "create"
  BY DEF Create, Goto, TypeOK
<1>2. /\ Len(table) \in Nat /\ DOMAIN table = 1 .. Len(table)
      /\ Len(history) \in Nat /\ DOMAIN history = 1 .. Len(history)
  BY RowTypes
<1>3. event[r] \in Events /\ prev[r] \in Hashes
  BY DEF TypeOK
<1>4. row \in Rows
  <2>1. Append(prev[r], event[r]) \in Hashes
    BY <1>3, AppendProperties DEF Hashes
  <2> QED BY <1>2, <1>3, <2>1 DEF Rows
<1>5. row.seq = Len(history) + 1 /\ row.event = event[r]
  OBVIOUS
<1> HIDE DEF row
<1>6. /\ DOMAIN table' = 1 .. Len(table) + 1
      /\ \A i \in 1 .. Len(table) : table'[i] = table[i]
      /\ table'[Len(table) + 1] = row
      /\ Len(history') = Len(history) + 1
  BY <1>1, <1>4, Appended DEF TypeOK
<1>7. Creates(r)
  <2>1. history' # history
    <3>1. SUFFICES ASSUME history' = history PROVE FALSE
      OBVIOUS
    <3>2. Len(history') = Len(history)
      BY <3>1
    <3> QED BY <1>2, <1>6, <3>2
  <2> QED BY <1>1, <2>1 DEF Creates
<1>8. Carried
  BY <1>2, <1>5, <1>6, <1>7 DEF Carried
<1>9. Ordered'
  <2> SUFFICES ASSUME NEW i \in 1 .. Len(table) + 1, NEW j \in 1 .. Len(table) + 1, i < j
               PROVE  table'[i].seq < table'[j].seq
    BY <1>6 DEF Ordered
  <2>1. i \in 1 .. Len(table)
    BY <1>2
  <2>2. table[i].seq \in 1 .. Len(history)
    BY <1>2, <2>1 DEF Recorded
  <2> QED BY <1>2, <1>5, <1>6, <2>1, <2>2 DEF Ordered
<1> QED BY <1>8, <1>9

LEMMA CommitRows ==
    ASSUME ChainInv, Ordered, NEW r \in Processes, CommitErasure(r)
    PROVE  Carried /\ Ordered'
<1> USE DEF ChainInv
<1>1. /\ \A i \in DOMAIN table : table[i] \in Rows
      /\ table' = [i \in DOMAIN table |-> Relabel(r, table[i])]
  BY RowTypes DEF CommitErasure
<1>2. ASSUME NEW i \in DOMAIN table
      PROVE  table'[i].seq = table[i].seq /\ table'[i].event.ts = table[i].event.ts
  BY <1>1 DEF Relabel, Rows, Events
<1>3. DOMAIN table' = DOMAIN table
  BY <1>1
<1> QED BY <1>2, <1>3 DEF Carried, Ordered

LEMMA DeleteRows ==
    ASSUME ChainInv, Ordered, NEW r \in Processes, DeleteOld(r)
    PROVE  Carried /\ Ordered'
<1> USE DEF ChainInv
<1> DEFINE young == {i \in DOMAIN table : table[i].event.ts + MaxAge >= event[r].ts}
           m == Cardinality(young)
<1>1. \/ \E f \in [1 .. m -> young] :
             InOrder(f, young) /\ table' = [i \in DOMAIN f |-> table[f[i]]]
      \/ table' = table
  BY DEF DeleteOld
<1>2. CASE table' = table
  BY <1>2 DEF Carried, Ordered
<1>3. ASSUME NEW f \in [1 .. m -> young], InOrder(f, young),
             table' = [i \in DOMAIN f |-> table[f[i]]]
      PROVE  Carried /\ Ordered'
  <2>1. /\ DOMAIN table' = DOMAIN f
        /\ \A i \in DOMAIN f : f[i] \in DOMAIN table /\ table'[i] = table[f[i]]
        /\ \A i, j \in DOMAIN f : i < j => f[i] < f[j]
    BY <1>3 DEF InOrder
  <2> QED BY <2>1 DEF Carried, Ordered
<1> QED BY <1>1, <1>2, <1>3

LEMMA LogRows ==
    ASSUME ChainInv, Ordered, Next
    PROVE  Carried /\ Ordered'
<1>1. CASE table' = table
  BY <1>1 DEF Carried, Ordered
<1>2. ASSUME NEW r \in Processes, Create(r) \/ CommitErasure(r) \/ DeleteOld(r)
      PROVE  Carried /\ Ordered'
  BY <1>2, CreateRows, CommitRows, DeleteRows
<1>3. table' = table \/ \E r \in Processes : Create(r) \/ CommitErasure(r) \/ DeleteOld(r)
  BY DEF Next, Tick, Begin, BeginEvent, BeginErase, BeginRetention, Step, AcquireLock,
         ReadLast, UpdateMany, Abort
<1> QED BY <1>1, <1>2, <1>3

-----------------------------------------------------------------------------
(***************************************************************************)
(* An export holds the rows of its range.                                  *)
(***************************************************************************)

\* As many numbers as rows.
LEMMA SeqsCounted ==
    ASSUME ChainInv, Ordered, NEW S \in SUBSET DOMAIN table
    PROVE  Cardinality({table[i].seq : i \in S}) = Cardinality(S)
<1> USE DEF ChainInv
<1> DEFINE T == {table[i].seq : i \in S}
           f == [i \in S |-> table[i].seq]
<1>1. Len(table) \in Nat /\ DOMAIN table = 1 .. Len(table)
      /\ \A i \in DOMAIN table : table[i] \in Rows
  BY RowTypes
<1>2. IsFiniteSet(S)
  <2>1. IsFiniteSet(1 .. Len(table))
    BY <1>1, FS_Interval
  <2> QED BY <1>1, <2>1, FS_Subset
<1>3. f \in Surjection(S, T)
  BY DEF Surjection
<1>4. f \in Injection(S, T)
  <2>1. \A i, j \in S : table[i].seq = table[j].seq => i = j
    <3> SUFFICES ASSUME NEW i \in S, NEW j \in S, table[i].seq = table[j].seq
                 PROVE  i = j
      OBVIOUS
    <3>1. i \in Nat /\ j \in Nat /\ table[i].seq \in Nat
      BY <1>1 DEF Rows
    <3>2. ~ (i < j) /\ ~ (j < i)
      BY <3>1 DEF Ordered
    <3> QED BY <3>1, <3>2
  <2> QED BY <2>1 DEF Injection, IsInjective
<1> QED BY <1>2, <1>3, <1>4, FS_Surjection

LEMMA ExportStep ==
    ASSUME ExportInv, Export
    PROVE  ExportInv'
<1> USE DEF ExportInv
<1>1. UNCHANGED vars /\ awaited' = Processes \ Resting
  BY DEF Export
<1>2. ChainInv'
  BY <1>1, ChainStep
<1>3. Ordered'
  BY <1>1 DEF Ordered, vars
<1>4. now \in Nat /\ Day \in Nat /\ Periods \subseteq Nat \ {0}
  BY ExportAssumption DEF ChainInv, TypeOK
<1>5. PICK range : ExportRange(range) /\ range.to \in Nat /\ range.to <= now
  <2>1. CASE ExportRange(DefaultRange)
    BY <1>4, <2>1 DEF DefaultRange
  <2>2. ASSUME NEW period \in Periods, ExportRange(PeriodRange(period))
        PROVE  PeriodRange(period).to \in Nat /\ PeriodRange(period).to <= now
    <3>1. now % period \in 0 .. now
      BY <1>4, <2>2
    <3> QED BY <1>4, <3>1 DEF PeriodRange
  <2> QED BY <2>1, <2>2 DEF Export
<1>6. PICK S \in Selections(range) :
         archive' = [from |-> range.from, to |-> range.to, rows |-> {table[i].seq : i \in S}]
  BY <1>5 DEF ExportRange
<1>7. archive'.from = range.from /\ archive'.to = range.to
      /\ archive'.rows = {table[i].seq : i \in S}
  BY <1>6
<1>8. ExportComplete'
  <2>1. InRange(archive)' = InRange(range)
    BY <1>1, <1>7 DEF InRange, vars
  <2>2. CASE S = InRange(range)
    BY <1>1, <1>7, <2>1, <2>2 DEF ExportComplete, vars
  <2>3. CASE S # InRange(range)
    <3>1. Cardinality(S) = Limit /\ S \in SUBSET DOMAIN table
      BY <1>6, <2>3 DEF Selections, InRange
    <3>2. Cardinality(archive'.rows) = Limit
      BY <1>7, <3>1, SeqsCounted
    <3> QED BY <3>2 DEF ExportComplete
  <2> QED BY <2>2, <2>3
<1>9. awaited' \subseteq Processes
      /\ \A p \in Processes : pc'[p] # "idle" => p \in awaited'
  BY <1>1 DEF Resting, vars
<1> QED BY <1>1, <1>2, <1>3, <1>4, <1>5, <1>7, <1>8, <1>9 DEF vars

LEMMA LogStep ==
    ASSUME ExportInv, Log
    PROVE  ExportInv'
<1> USE DEF ExportInv
<1>1. /\ Next /\ archive' = archive
      /\ awaited' = {p \in awaited : pc'[p] # "idle"}
      /\ late' = IF \E p \in awaited : Creates(p) THEN late \cup {Len(history')} ELSE late
  BY DEF Log
<1>2. ChainInv'
  BY <1>1, ChainStep
<1>3. Carried /\ Ordered'
  BY <1>1, LogRows
<1>4. /\ now <= now' /\ now \in Nat /\ now' \in Nat
      /\ \A p \in Processes : pc'[p] # "idle" =>
            \/ pc[p] # "idle" /\ event'[p] = event[p]
            \/ event'[p].ts = now
  BY <1>1, LogTimes
<1>5. archive'.to \in Nat /\ archive'.to <= now'
  BY <1>1, <1>4
<1>6. ASSUME NEW p \in Processes, pc'[p] # "idle"
      PROVE  p \in awaited' \/ event'[p].ts >= archive'.to
  BY <1>1, <1>4, <1>6
<1>7. ASSUME NEW i \in InRange(archive)', Cardinality(archive.rows) # Limit
      PROVE  table'[i].seq \in archive.rows \cup late'
  <2>1. i \in DOMAIN table' /\ archive.from <= table'[i].event.ts /\ table'[i].event.ts < archive.to
    BY <1>1, <1>7 DEF InRange
  <2>2. ASSUME NEW j \in DOMAIN table, table'[i].seq = table[j].seq,
               table'[i].event.ts = table[j].event.ts
        PROVE  table'[i].seq \in archive.rows \cup late'
    <3>1. j \in InRange(archive)
      BY <2>1, <2>2 DEF InRange
    <3> QED BY <1>1, <1>7, <2>2, <3>1 DEF ExportComplete
  <2>3. ASSUME NEW p \in Processes, Creates(p), table'[i].seq = Len(history'),
               table'[i].event.ts = event[p].ts
        PROVE  table'[i].seq \in archive.rows \cup late'
    <3>1. pc[p] # "idle" /\ event[p].ts \in Nat
      BY <2>3 DEF Creates, ChainInv, TypeOK, Events
    <3>2. ~ (event[p].ts >= archive.to)
      BY <2>1, <2>3, <3>1
    <3>3. p \in awaited
      BY <3>1, <3>2
    <3> QED BY <1>1, <2>3, <3>3
  <2> QED BY <1>3, <2>1, <2>2, <2>3 DEF Carried
<1>8. ExportComplete'
  BY <1>1, <1>7 DEF ExportComplete
<1> QED BY <1>1, <1>2, <1>3, <1>5, <1>6, <1>8

LEMMA ExportStart == ExportInit => ExportInv
<1> SUFFICES ASSUME ExportInit PROVE ExportInv
  OBVIOUS
<1>1. ChainInv /\ table = <<>> /\ archive = NoArchive /\ awaited = {} /\ now \in Nat
      /\ \A p \in Processes : pc[p] = "idle"
  BY ChainInit, AuditAssumption DEF ExportInit, Init
<1>2. DOMAIN table = {}
  BY <1>1, LenProperties, EmptySeq
<1>3. Ordered /\ ExportComplete
  BY <1>2 DEF Ordered, ExportComplete, InRange
<1>4. archive.to = 0
  BY <1>1 DEF NoArchive
<1> QED BY <1>1, <1>3, <1>4 DEF ExportInv

LEMMA ExportInvStep == ExportInv /\ [ExportNext]_allVars => ExportInv'
<1> SUFFICES ASSUME ExportInv, [ExportNext]_allVars
             PROVE  ExportInv'
  OBVIOUS
<1>1. CASE UNCHANGED allVars
  <2>1. ChainInv'
    BY <1>1, ChainStep DEF ExportInv, allVars
  <2>2. UNCHANGED <<vars, archive, awaited, late>>
    BY <1>1 DEF allVars, exportVars
  <2>3. UNCHANGED <<table, now, pc, event>>
    BY <2>2 DEF vars
  <2> QED BY <2>1, <2>2, <2>3 DEF ExportInv, Ordered, ExportComplete, InRange
<1> QED BY <1>1, ExportStep, LogStep DEF ExportNext

-----------------------------------------------------------------------------
(***************************************************************************)
(* The theorems.                                                           *)
(***************************************************************************)

\* Exports do not touch the log: what happens to it is a behaviour of AuditChain.
THEOREM ExportKeepsLog == ExportSpec => Spec
<1>1. ExportInit => Init
  BY DEF ExportInit
<1>2. [ExportNext]_allVars => [Next]_vars
  BY DEF ExportNext, Export, Log, allVars
<1> QED BY <1>1, <1>2, PTL DEF ExportSpec, Spec

\* So the verification finds the log genuine, or not, as in AuditChain.
THEOREM ExportVerifies == ExportSpec => [](VerifiedIsGenuine /\ NoFalseAlarm)
<1> QED BY ExportKeepsLog, ChainSound, ChainComplete, PTL

\* And whoever reads the log while it is exported finds the atomic log as well.
THEOREM ExportLogIsAtomic == ExportSpec => ImplementsLog
<1> QED BY ExportKeepsLog, LogIsAtomic, PTL

THEOREM ExportInvariant == ExportSpec => []ExportInv
<1> QED BY ExportStart, ExportInvStep, PTL DEF ExportSpec

\* However long the log goes on after an export, the file lacks no row of its range
\* but those whose writers were at it when it was made, or it is full.
THEOREM ExportIsComplete == ExportSpec => []ExportComplete
<1>1. ExportInv => ExportComplete
  BY DEF ExportInv
<1> QED BY <1>1, ExportInvariant, PTL

================================================================================
