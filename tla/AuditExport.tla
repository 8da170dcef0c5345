------------------------------ MODULE AuditExport ------------------------------
(***************************************************************************)
(* The archive of the audit log: AuditExportService selects the rows of a  *)
(* range of timestamps and writes them to a signed file.  The scheduled    *)
(* job asks for the last full day, week or month, an administrator for any *)
(* range, by default the day up to now.  Meanwhile the log of AuditChain   *)
(* goes on: events are written, users erased, old rows deleted.            *)
(*                                                                         *)
(* A row's timestamp is taken before its transaction begins, so a row can  *)
(* appear in a range after that range was exported.                        *)
(***************************************************************************)
EXTENDS AuditChain

CONSTANTS
    Periods,   \* the lengths of the scheduled exports, in ticks
    Day,       \* the length of the range an administrator gets by default
    Limit      \* AUDIT_EXPORT_DEFAULT_LIMIT: the most rows of one file

ASSUME ExportAssumption ==
    /\ Periods \subseteq Nat \ {0}
    /\ Day \in Nat \ {0} /\ Limit \in Nat

VARIABLES
    archive,   \* the last file: its range and the seq of its rows
    awaited,   \* history: writers on their way since that export was made
    late       \* history: the rows these writers have created

exportVars == <<archive, awaited, late>>
allVars    == <<vars, exportVars>>

NoArchive == [from |-> 0, to |-> 0, rows |-> {}]

ExportInit == Init /\ archive = NoArchive /\ awaited = {} /\ late = {}

\* Mutant of PeriodRange: the period that has begun, in place of the one before.
PeriodRangeBegun(period) ==
    LET from == now - (now % period) IN [from |-> from, to |-> from + period]

\* The last full period: it ended where the current one began.
PeriodRange(period) ==
    LET to == now - (now % period)
    IN  [from |-> IF to < period THEN 0 ELSE to - period, to |-> to]

\* The range of GET /admin/audit/export without from and to.
DefaultRange == [from |-> IF now < Day THEN 0 ELSE now - Day, to |-> now]

\* The positions of the rows with from <= ts < to.
InRange(range) ==
    {i \in DOMAIN table : range.from <= table[i].event.ts /\ table[i].event.ts < range.to}

\* findMany, ordered by the timestamp (and then by a random id) up to the limit.
Selections(range) ==
    {S \in SUBSET InRange(range) :
        /\ Cardinality(S) <= Limit
        /\ S # InRange(range) =>
             /\ Cardinality(S) = Limit
             /\ \A i \in S, j \in InRange(range) \ S : table[i].event.ts <= table[j].event.ts}

\* One query decides what is in the file.
ExportRange(range) ==
    \E S \in Selections(range) :
        archive' = [from |-> range.from, to |-> range.to, rows |-> {table[i].seq : i \in S}]

\* The scheduled export, and the one an administrator asks for.
Export ==
    /\ \/ \E period \in Periods : ExportRange(PeriodRange(period))
       \/ ExportRange(DefaultRange)
    /\ awaited' = Processes \ Resting
    /\ late' = {}
    /\ UNCHANGED vars

\* Writer p creates a row in this step.
Creates(p) == pc[p] = "create" /\ pc'[p] # "create" /\ history' # history

\* The log goes on.
Log ==
    /\ Next
    /\ awaited' = {p \in awaited : pc'[p] # "idle"}
    /\ late' = IF \E p \in awaited : Creates(p) THEN late \cup {Len(history')} ELSE late
    /\ UNCHANGED archive

ExportNext == Export \/ Log

ExportSpec     == ExportInit /\ [][ExportNext]_allVars
FairExportSpec == ExportSpec /\ Fairness

-----------------------------------------------------------------------------
\* An export is final: however long the log goes on afterwards, every row of the
\* exported range is in the file, unless the file was full, or the row was being
\* written by somebody who was already at it when the export was made.
ExportComplete ==
    \A i \in InRange(archive) :
        table[i].seq \in archive.rows \cup late \/ Cardinality(archive.rows) = Limit

================================================================================
