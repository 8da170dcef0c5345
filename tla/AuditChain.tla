------------------------------ MODULE AuditChain ------------------------------
(***************************************************************************)
(* The audit log: AuditService.write appends a row under a PostgreSQL      *)
(* advisory lock, its HMAC covering the event and the hash of the row      *)
(* before; verifyChainWindow recomputes a window of rows.  Two jobs change *)
(* rows that are already there: GdprService.eraseUser, which replaces the  *)
(* subject of a user's rows, and the retention job, which deletes old ones.*)
(*                                                                         *)
(* HMAC-SHA256 is modelled as free of collisions: the hash of a row is the *)
(* sequence of the events it was computed from, <<>> standing for the null *)
(* prevHash of a first row.                                                *)
(***************************************************************************)
EXTENDS Naturals, Sequences, FiniteSets

CONSTANTS
    Processes,      \* callers of write and jobs that may be under way at once
    Users,          \* users whose requests are audited and who may be erased
    Pseudonyms,     \* ERASED-<uuid>, each drawn once
    Jobs,           \* what the processes of a run do
    Nobody,         \* null: no subject, no entity; also: nobody holds the lock
    Admin,          \* the administrator who erases
    MaxAge,         \* the ten years of the retention job, in ticks
    MaxRows, MaxTime \* bounds: no job starts, the clock stops

AllJobs == {"event", "erase", "retention"}

ASSUME AuditAssumption ==
    /\ Jobs \subseteq AllJobs
    /\ MaxAge \in Nat \ {0} /\ MaxRows \in Nat /\ MaxTime \in Nat
    /\ Nobody \notin Processes \cup Users \cup Pseudonyms \cup {Admin}
    /\ Admin \notin Users \cup Pseudonyms
    /\ Users \cap Pseudonyms = {}

VARIABLES
    now,       \* the clock
    table,     \* the AuditLog rows, in the order of their seq
    lock,      \* who holds pg_advisory_xact_lock(LOCK_ID)
    pc,        \* where a process is
    job,       \* what it does and, for an erasure, of whom
    event,     \* the event it is writing
    prev,      \* the prevHash it has read
    chosen,    \* the rows its updateMany has matched
    drawn,     \* whose pseudonym a pseudonym is
    erased,    \* users with status DELETED
    history    \* history: every row as it was created

local == <<job, event, prev, chosen>>
vars  == <<now, table, lock, pc, job, event, prev, chosen, drawn, erased, history>>

Actions == {"http.request", "session.revoke_all", "gdpr.erasure", "gdpr.retention.cleanup"}
Events == [ts : Nat, action : Actions, subject : Users \cup Pseudonyms \cup {Admin, Nobody},
           entity : Users \cup {Nobody}, mentions : Pseudonyms \cup {Nobody}]
Hashes == Seq(Events)
Rows   == [seq : Nat, event : Events, prev : Hashes, hash : Hashes]

NoEvent == [ts |-> 0, action |-> "http.request", subject |-> Nobody, entity |-> Nobody,
            mentions |-> Nobody]
NoJob   == [kind |-> "event", user |-> Nobody, pseudonym |-> Nobody]

TypeOK ==
    /\ now \in Nat
    /\ table \in Seq(Rows)
    /\ lock \in Processes \cup {Nobody}
    /\ pc \in [Processes -> {"idle", "lock", "last", "create", "update", "commit", "delete"}]
    /\ job \in [Processes -> [kind : AllJobs, user : Users \cup {Nobody},
                              pseudonym : Pseudonyms \cup {Nobody}]]
    /\ event \in [Processes -> Events]
    /\ prev \in [Processes -> Hashes]
    /\ chosen \in [Processes -> SUBSET Nat]
    /\ drawn \in [Pseudonyms -> Users \cup {Nobody}]
    /\ erased \in SUBSET Users
    /\ history \in Seq(Rows)

Init ==
    /\ now = MaxAge
    /\ table = <<>> /\ history = <<>>
    /\ lock = Nobody
    /\ pc = [p \in Processes |-> "idle"]
    /\ job = [p \in Processes |-> NoJob]
    /\ event = [p \in Processes |-> NoEvent]
    /\ prev = [p \in Processes |-> <<>>]
    /\ chosen = [p \in Processes |-> {}]
    /\ drawn = [q \in Pseudonyms |-> Nobody]
    /\ erased = {}

Newest == table[Len(table)]

\* The clock.  The retention job writes an entry every night, so the newest row
\* is never as old as MaxAge, and no write takes that long.
Tick ==
    /\ now < MaxTime
    /\ table # <<>> => now < Newest.event.ts + MaxAge
    /\ \A p \in Processes : pc[p] # "idle" => now < event[p].ts + MaxAge
    /\ now' = now + 1
    /\ UNCHANGED <<table, lock, pc, local, drawn, erased, history>>

(***************************************************************************)
(* A job begins.  write() takes its timestamp before it asks for the lock. *)
(***************************************************************************)
Goto(p, step) == pc' = [pc EXCEPT ![p] = step]
Resting == {p \in Processes : pc[p] = "idle"}
Room    == Len(history) + Cardinality(Processes \ Resting) < MaxRows

\* Some service, or auditMiddleware when a response has finished: a request of
\* one of the users, or of nobody.
BeginEvent(p) ==
    /\ "event" \in Jobs /\ pc[p] = "idle" /\ Room
    /\ \E subject \in (Users \ erased) \cup {Nobody} :
          event' = [event EXCEPT ![p] = [NoEvent EXCEPT !.ts = now, !.subject = subject]]
    /\ Goto(p, "lock")
    /\ UNCHANGED <<now, table, lock, job, prev, chosen, drawn, erased, history>>

\* eraseUser: the revocation of the sessions comes first and audits itself.
\* Nothing keeps a user from being erased twice.
BeginErase(p) ==
    /\ "erase" \in Jobs /\ pc[p] = "idle" /\ Room
    /\ \E user \in Users, q \in {x \in Pseudonyms : drawn[x] = Nobody} :
        /\ drawn' = [drawn EXCEPT ![q] = user]
        /\ job' = [job EXCEPT ![p] = [kind |-> "erase", user |-> user, pseudonym |-> q]]
        /\ event' = [event EXCEPT ![p] = [NoEvent EXCEPT !.ts = now, !.subject = user,
                                                         !.action = "session.revoke_all"]]
    /\ Goto(p, "lock")
    /\ UNCHANGED <<now, table, lock, prev, chosen, erased, history>>

\* The retention job: what it is to delete depends on the clock now.
BeginRetention(p) ==
    /\ "retention" \in Jobs /\ pc[p] = "idle" /\ Room
    /\ job' = [job EXCEPT ![p].kind = "retention"]
    /\ event' = [event EXCEPT ![p] = [NoEvent EXCEPT !.ts = now,
                                                     !.action = "gdpr.retention.cleanup"]]
    /\ Goto(p, "delete")
    /\ UNCHANGED <<now, table, lock, prev, chosen, drawn, erased, history>>

(***************************************************************************)
(* AuditService.write: one transaction; the lock is free again when it     *)
(* ends, however it ends.                                                  *)
(***************************************************************************)
Finish(p) ==
    /\ job' = [job EXCEPT ![p] = NoJob]
    /\ event' = [event EXCEPT ![p] = NoEvent]
    /\ prev' = [prev EXCEPT ![p] = <<>>]
    /\ chosen' = [chosen EXCEPT ![p] = {}]
Release(p) == lock' = IF lock = p THEN Nobody ELSE lock

\* Mutant of AcquireLock: the lock is not waited for.
LockOfNoUse(p) ==
    /\ pc[p] = "lock"
    /\ lock' = p
    /\ Goto(p, "last")
    /\ UNCHANGED <<now, table, local, drawn, erased, history>>

AcquireLock(p) ==
    /\ pc[p] = "lock"
    /\ lock = Nobody
    /\ lock' = p
    /\ Goto(p, "last")
    /\ UNCHANGED <<now, table, local, drawn, erased, history>>

\* findFirst, seq descending.
ReadLast(p) ==
    /\ pc[p] = "last"
    /\ prev' = [prev EXCEPT ![p] = IF table = <<>> THEN <<>> ELSE Newest.hash]
    /\ Goto(p, "create")
    /\ UNCHANGED <<now, table, lock, job, event, chosen, drawn, erased, history>>

\* create and the commit.  An erasure goes on after its first entry.  (Numbers
\* that a rolled back create takes from the sequence are not counted.)
Create(p) ==
    LET row == [seq |-> Len(history) + 1, event |-> event[p], prev |-> prev[p],
                hash |-> Append(prev[p], event[p])]
    IN
    /\ pc[p] = "create"
    /\ table' = Append(table, row)
    /\ history' = Append(history, row)
    /\ Release(p)
    /\ IF event[p].action = "session.revoke_all"
       THEN Goto(p, "update") /\ UNCHANGED local
       ELSE Goto(p, "idle") /\ Finish(p)
    /\ UNCHANGED <<now, drawn, erased>>

\* Mutant of Abort: a lock of the database session outlives the transaction.
AbortLocked(p) ==
    /\ pc[p] # "idle"
    /\ Goto(p, "idle")
    /\ Finish(p)
    /\ UNCHANGED <<now, table, lock, drawn, erased, history>>

\* A query fails or the transaction times out: it is rolled back, write() rejects
\* and the caller gives up.
Abort(p) ==
    /\ pc[p] # "idle"
    /\ Release(p)
    /\ Goto(p, "idle")
    /\ Finish(p)
    /\ UNCHANGED <<now, table, drawn, erased, history>>

(***************************************************************************)
(* The transaction of eraseUser, as far as the audit log is concerned: the *)
(* rows updateMany matches are those committed when it runs; others see    *)
(* the change after the commit.  Then the erasure is audited.              *)
(***************************************************************************)
UpdateMany(p) ==
    /\ pc[p] = "update"
    /\ chosen' = [chosen EXCEPT ![p] =
                     {table[i].seq : i \in {j \in DOMAIN table :
                                               table[j].event.subject = job[p].user}}]
    /\ Goto(p, "commit")
    /\ UNCHANGED <<now, table, lock, job, event, prev, drawn, erased, history>>

\* Mutant of Relabel: the where clause is lost.
RelabelAll(p, row) == [row EXCEPT !.event.subject = job[p].pseudonym]
\* A row another erasure has relabelled meanwhile no longer matches.
Relabel(p, row) ==
    IF row.seq \in chosen[p] /\ row.event.subject = job[p].user
    THEN [row EXCEPT !.event.subject = job[p].pseudonym] ELSE row

\* Mutant of CommitErasure: entityId and erasedId are swapped.
CommitSwapped(p) ==
    /\ pc[p] = "commit"
    /\ table' = [i \in DOMAIN table |-> Relabel(p, table[i])]
    /\ erased' = erased \cup {job[p].user}
    /\ event' = [event EXCEPT ![p] =
                    [ts |-> now, action |-> "gdpr.erasure", subject |-> Admin,
                     entity |-> job[p].pseudonym, mentions |-> job[p].user]]
    /\ Goto(p, "lock")
    /\ UNCHANGED <<now, lock, job, prev, chosen, drawn, history>>

CommitErasure(p) ==
    /\ pc[p] = "commit"
    /\ table' = [i \in DOMAIN table |-> Relabel(p, table[i])]
    /\ erased' = erased \cup {job[p].user}
    /\ event' = [event EXCEPT ![p] =
                    [ts |-> now, action |-> "gdpr.erasure", subject |-> Admin,
                     entity |-> job[p].user, mentions |-> job[p].pseudonym]]
    /\ Goto(p, "lock")
    /\ UNCHANGED <<now, lock, job, prev, chosen, drawn, history>>

(***************************************************************************)
(* Tier 1 of the retention job: the rows that are not too old remain, in   *)
(* their order.  A failure of deleteMany is logged and the job goes on.    *)
(***************************************************************************)
InOrder(f, S) ==
    /\ \A i, j \in DOMAIN f : i < j => f[i] < f[j]
    /\ \A s \in S : \E i \in DOMAIN f : f[i] = s

DeleteOld(p) ==
    LET young == {i \in DOMAIN table : table[i].event.ts + MaxAge >= event[p].ts} IN
    /\ pc[p] = "delete"
    /\ \/ \E f \in [1 .. Cardinality(young) -> young] :
              InOrder(f, young) /\ table' = [i \in DOMAIN f |-> table[f[i]]]
       \/ UNCHANGED table
    /\ event' = [event EXCEPT ![p].ts = now]
    /\ Goto(p, "lock")
    /\ UNCHANGED <<now, lock, job, prev, chosen, drawn, erased, history>>

Step(p) == \/ AcquireLock(p) \/ ReadLast(p) \/ Create(p) \/ UpdateMany(p)
           \/ CommitErasure(p) \/ DeleteOld(p) \/ Abort(p)
Begin(p) == BeginEvent(p) \/ BeginErase(p) \/ BeginRetention(p)
Next == Tick \/ \E p \in Processes : Begin(p) \/ Step(p)

Spec == Init /\ [][Next]_vars

\* A query ends or its transaction does (Prisma's timeout), and PostgreSQL
\* grants an advisory lock in the order in which it was asked for.  Who waits
\* for it need not give up.
Proceed(p) == pc[p] # "lock" /\ Step(p)
Fairness == \A p \in Processes : WF_vars(Proceed(p)) /\ SF_vars(AcquireLock(p))
FairSpec == Spec /\ Fairness

-----------------------------------------------------------------------------
(***************************************************************************)
(* verifyChainWindow: a window of the table from the head or to the tail,  *)
(* checked against the hash of the row before it, if there is one.         *)
(***************************************************************************)
Before(i) == IF i = 1 THEN <<>> ELSE table[i - 1].hash

\* Mutant of Intact: the hash is recomputed from the stored prevHash.
IntactRows(window) ==
    \A i \in window : table[i].hash = Append(table[i].prev, table[i].event)
Intact(window) ==
    \A i \in window : /\ table[i].prev = Before(i)
                      /\ table[i].hash = Append(Before(i), table[i].event)

HeadWindow(n) == {i \in DOMAIN table : i <= n}
TailWindow(n) == {i \in DOMAIN table : i + n > Len(table)}
VerifyChain(n)       == Intact(HeadWindow(n))
VerifyRecentChain(n) == Intact(TailWindow(n))

-----------------------------------------------------------------------------
(***************************************************************************)
(* Properties                                                              *)
(***************************************************************************)
\* Each row is as it was created and comes right after the one before it.
Genuine(window) ==
    \A i \in window : /\ table[i] = history[table[i].seq]
                      /\ table[i].seq = IF i = 1 THEN 1 ELSE table[i - 1].seq + 1

\* What the verification accepts is true: the window, from either end and of
\* whatever length, is a stretch of the log exactly as it was written, with no
\* row altered and none missing, whatever erasures and retention have done and
\* whoever is writing meanwhile.
VerifiedIsGenuine ==
    \A n \in 1 .. Len(table) :
        /\ VerifyChain(n) => Genuine(HeadWindow(n))
        /\ VerifyRecentChain(n) => Genuine(TailWindow(n))

\* And it raises no false alarm: where no row was altered and none is missing it
\* succeeds, however the writes interleaved.
NoFalseAlarm ==
    \A n \in 1 .. Len(table) :
        /\ Genuine(HeadWindow(n)) => VerifyChain(n)
        /\ Genuine(TailWindow(n)) => VerifyRecentChain(n)

\* A row that is still there says what was written, but for a subject replaced by
\* a pseudonym that was drawn for this very user: an erasure alters no row of
\* anyone else, and no pseudonym stands for two users.
OnlyOwnSubjectReplaced ==
    \A i \in DOMAIN table :
        LET row == table[i]  written == history[table[i].seq] IN
        \/ row = written
        \/ \E q \in Pseudonyms :
              /\ row = [written EXCEPT !.event.subject = q]
              /\ drawn[q] = written.event.subject /\ drawn[q] \in Users

\* Whoever reads the log may take write, eraseUser and the retention job for single
\* steps: the writers' reads and creates fall together, the hash of each row covers
\* every event ever written before it, a user's rows change to one of the user's own
\* pseudonyms in one step, and what is deleted is older than all that remains.
Written == [k \in DOMAIN history |-> history[k].event]
Atomic  == INSTANCE AuditLog WITH written <- Written, rows <- table
ImplementsLog == Atomic!Spec

\* Who waits for the advisory lock gets it, or gives up.
LockGranted == \A p \in Processes : pc[p] = "lock" ~> pc[p] # "lock"

-----------------------------------------------------------------------------
(***************************************************************************)
(* What the comments in the code promise.                                  *)
(***************************************************************************)

\* gdpr.service.ts:91, "the HMAC chain stays intact, we change only subjectId":
\* without the retention job, the whole chain always verifies.
ErasureKeepsChain == VerifyChain(Len(table))

=============================================================================
