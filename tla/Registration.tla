---------------------------- MODULE Registration ----------------------------
(***************************************************************************)
(* How an account comes to its TOTP secret: registration, the link in the  *)
(* e-mail, the creation of the account, the set-up of TOTP with its limit  *)
(* on wrong codes, the set-up of a session that is logged in, and the      *)
(* administrator who creates accounts, removes the identities of one or    *)
(* erases it, and mails a new set-up link.  PostgreSQL holds users and     *)
(* identities, Redis everything in between.                                *)
(*                                                                         *)
(* One command of Redis or one query is one step of a request; a user is   *)
(* named by the e-mail address, which is unique and never changes here.    *)
(***************************************************************************)
EXTENDS Integers, FiniteSets

CONSTANTS
    Emails, Requests,
    Tokens, Secrets, RowIds,  \* drawn once
    MaxRate,                  \* registrations of an address per hour
    MaxTries,                 \* tries of a set-up code
    MaxFaults,                \* bound on the requests that fail
    None, Blank               \* no value; the empty providerId

ASSUME RegistrationAssumption ==
    /\ IsFiniteSet(Requests)
    /\ MaxRate \in Nat \ {0} /\ MaxTries \in Nat \ {0} /\ MaxFaults \in Nat
    /\ None \notin Emails \cup Tokens \cup Secrets \cup RowIds
    /\ Blank \notin Emails

VARIABLES
    accounts,       \* User: the addresses with an account, an erased one too
    rows,           \* Identity: the TOTP rows
    rate,           \* reg-rate:{email}; 0 for no key
    verify,         \* email-verify:{token}
    latest,         \* email-verify-token:{email}
    setup,          \* totp-setup:{token}
    pending,        \* totp-pending:{user}
    attempts, ttl,  \* totp-setup-attempts:{user}; 0 for no key
    known,          \* the tokens that were mailed or sent to a browser
    proved,         \* history: the secrets a user has shown a code for
    given,          \* history: the secrets given to a session of a user (totpSetup)
    stored,         \* history: the secrets that were stored
    wrong,          \* history: the wrong codes a secret was compared with
    faults,         \* how many requests have failed
    pc, req         \* what a request does next; what it knows

redis   == <<rate, verify, latest, setup, pending, attempts, ttl>>
history == <<known, proved, given, stored, wrong, faults>>
vars    == <<accounts, rows, redis, history, pc, req>>

Rows  == [id : RowIds, user : Emails, providerId : Emails \cup {Blank},
          secret : Secrets \cup {None}]
Steps == {"idle", "readRate", "count", "readLatest", "dropPrevious",
          "putToken", "putLatest", "mail",                               \* register
          "dropVerify", "checkUser", "create", "putSetup",  \* verifyEmail
          "putPending",                                     \* totpSetupInit
          "readAttempts", "giveUp", "readPending", "incr", "expire",
          "findRow", "update", "createRow", "fallback", "clean"}         \* totpSetupVerify
Reqs  == [user : Emails \cup {None}, token : Tokens \cup {None}, previous : Tokens \cup {None},
          secret : Secrets \cup {None}, row : RowIds \cup {None},
          reset : BOOLEAN]  \* history: identities were removed since it came

TypeOK ==
    /\ accounts \subseteq Emails /\ rows \subseteq Rows
    /\ rate \in [Emails -> Nat] /\ attempts \in [Emails -> Nat]
    /\ verify \in [Tokens -> Emails \cup {None}] /\ latest \in [Emails -> Tokens \cup {None}]
    /\ setup \in [Tokens -> Emails \cup {None}] /\ pending \in [Emails -> Secrets \cup {None}]
    /\ ttl \in [Emails -> {"never", "later", "sooner"}]
    /\ known \subseteq Tokens /\ stored \subseteq Secrets
    /\ proved \in [Emails -> SUBSET Secrets] /\ given \in [Emails -> SUBSET Secrets]
    /\ wrong \in [Secrets -> Nat] /\ faults \in Nat
    /\ pc \in [Requests -> Steps] /\ req \in [Requests -> Reqs]

NoRequest == [user |-> None, token |-> None, previous |-> None, secret |-> None,
              row |-> None, reset |-> FALSE]

Init ==
    /\ accounts = {} /\ rows = {}
    /\ rate = [e \in Emails |-> 0] /\ attempts = [e \in Emails |-> 0]
    /\ verify = [t \in Tokens |-> None] /\ setup = [t \in Tokens |-> None]
    /\ latest = [e \in Emails |-> None] /\ pending = [e \in Emails |-> None]
    /\ ttl = [e \in Emails |-> "never"]
    /\ known = {} /\ stored = {} /\ wrong = [s \in Secrets |-> 0]
    /\ proved = [e \in Emails |-> {}] /\ given = [e \in Emails |-> {}] /\ faults = 0
    /\ pc = [r \in Requests |-> "idle"] /\ req = [r \in Requests |-> NoRequest]

\* randomBytes(32), generateSecret and uuid never repeat themselves.
FreshToken(t) ==
    /\ t \notin known /\ verify[t] = None /\ setup[t] = None
    /\ \A e \in Emails : latest[e] # t
    /\ \A r \in Requests : req[r].token # t /\ req[r].previous # t
FreshSecret(s) ==
    /\ wrong[s] = 0 /\ \A e \in Emails : pending[e] # s /\ s \notin proved[e] \cup given[e]
    /\ \A row \in rows : row.secret # s
    /\ \A r \in Requests : req[r].secret # s
FreshRow(i) == (\A row \in rows : row.id # i) /\ \A r \in Requests : req[r].row # i

Goto(r, step) == pc' = [pc EXCEPT ![r] = step] /\ UNCHANGED req
Answer(r) == pc' = [pc EXCEPT ![r] = "idle"] /\ req' = [req EXCEPT ![r] = NoRequest]
Begin(r, step, user, token) ==
    /\ pc[r] = "idle" /\ user # None
    /\ pc' = [pc EXCEPT ![r] = step]
    /\ req' = [req EXCEPT ![r] = [NoRequest EXCEPT !.user = user, !.token = token]]
    /\ UNCHANGED <<accounts, rows, redis, history>>

(***************************************************************************)
(* register.  A request that its first query refuses leaves no trace.      *)
(***************************************************************************)
Register(r) == \E e \in Emails \ accounts : Begin(r, "readRate", e, None)

\* Mutant: the limit itself is let through.
ReadRateLate(r) ==
    /\ pc[r] = "readRate"
    /\ IF rate[req[r].user] > MaxRate THEN Answer(r) ELSE Goto(r, "count")
    /\ UNCHANGED <<accounts, rows, redis, history>>

ReadRate(r) ==
    /\ pc[r] = "readRate"
    /\ IF rate[req[r].user] >= MaxRate THEN Answer(r) ELSE Goto(r, "count")
    /\ UNCHANGED <<accounts, rows, redis, history>>

\* INCR, then EXPIRE: the TTL of this counter is left out, it may expire at any time.
Count(r) ==
    /\ pc[r] = "count" /\ Goto(r, "readLatest")
    /\ rate' = [rate EXCEPT ![req[r].user] = @ + 1]
    /\ UNCHANGED <<accounts, rows, verify, latest, setup, pending, attempts, ttl, history>>

ReadLatest(r) ==
    /\ pc[r] = "readLatest"
    /\ LET previous == latest[req[r].user] IN
       /\ pc' = [pc EXCEPT ![r] = IF previous = None THEN "putToken" ELSE "dropPrevious"]
       /\ req' = [req EXCEPT ![r].previous = previous]
    /\ UNCHANGED <<accounts, rows, redis, history>>

DropPrevious(r) ==
    /\ pc[r] = "dropPrevious" /\ Goto(r, "putToken")
    /\ verify' = [verify EXCEPT ![req[r].previous] = None]
    /\ UNCHANGED <<accounts, rows, rate, latest, setup, pending, attempts, ttl, history>>

PutToken(r) ==
    /\ pc[r] = "putToken"
    /\ \E t \in Tokens :
          /\ FreshToken(t)
          /\ verify' = [verify EXCEPT ![t] = req[r].user]
          /\ pc' = [pc EXCEPT ![r] = "putLatest"]
          /\ req' = [req EXCEPT ![r].token = t]
    /\ UNCHANGED <<accounts, rows, rate, latest, setup, pending, attempts, ttl, history>>

PutLatest(r) ==
    /\ pc[r] = "putLatest" /\ Goto(r, "mail")
    /\ latest' = [latest EXCEPT ![req[r].user] = req[r].token]
    /\ UNCHANGED <<accounts, rows, rate, verify, setup, pending, attempts, ttl, history>>

Mail(r) ==
    /\ pc[r] = "mail" /\ Answer(r)
    /\ known' = known \cup {req[r].token}
    /\ UNCHANGED <<accounts, rows, redis, proved, given, stored, wrong, faults>>

(***************************************************************************)
(* verifyEmail                                                             *)
(***************************************************************************)
VerifyEmail(r) == \E t \in known : Begin(r, "dropVerify", verify[t], t)

\* One DEL of both keys; then the data are decrypted, or are not.
DropVerify(r) ==
    /\ pc[r] = "dropVerify"
    /\ verify' = [verify EXCEPT ![req[r].token] = None]
    /\ latest' = [latest EXCEPT ![req[r].user] = None]
    /\ Goto(r, "checkUser") \/ Answer(r)
    /\ UNCHANGED <<accounts, rows, rate, setup, pending, attempts, ttl, history>>

CheckUser(r) ==
    /\ pc[r] = "checkUser"
    /\ IF req[r].user \in accounts THEN Answer(r) ELSE Goto(r, "create")
    /\ UNCHANGED <<accounts, rows, redis, history>>

\* @@unique([provider, providerId]); the address is unique as well.
Taken(among, providerId) == \E row \in among : row.providerId = providerId

\* The account and its TOTP row in one transaction.
Create(r) ==
    /\ pc[r] = "create"
    /\ IF req[r].user \in accounts \/ Taken(rows, Blank)
       THEN Answer(r) /\ UNCHANGED <<accounts, rows>>
       ELSE /\ accounts' = accounts \cup {req[r].user}
            /\ \E i \in RowIds :
                  /\ FreshRow(i)
                  /\ rows' = rows \cup {[id |-> i, user |-> req[r].user,
                                         providerId |-> Blank, secret |-> None]}
            /\ Goto(r, "putSetup")
    /\ UNCHANGED <<redis, history>>

\* The set-up token, and the redirect that carries it.
PutSetup(r) ==
    /\ pc[r] = "putSetup" /\ Answer(r)
    /\ \E t \in Tokens : /\ FreshToken(t)
                         /\ setup' = [setup EXCEPT ![t] = req[r].user]
                         /\ known' = known \cup {t}
    /\ UNCHANGED <<accounts, rows, rate, verify, latest, pending, attempts, ttl,
                   proved, given, stored, wrong, faults>>

(***************************************************************************)
(* totpSetupInit and totpSetupVerify                                       *)
(***************************************************************************)
TotpSetupInit(r)   == \E t \in known : Begin(r, "putPending", setup[t], t)
TotpSetupVerify(r) == \E t \in known : Begin(r, "readAttempts", setup[t], t)

\* A new pending secret may outlive the counter, whose TTL was set before.
PutPending(r) ==
    /\ pc[r] = "putPending" /\ Answer(r)
    /\ LET user == req[r].user IN
       /\ \E s \in Secrets : FreshSecret(s) /\ pending' = [pending EXCEPT ![user] = s]
       /\ ttl' = [ttl EXCEPT ![user] = IF @ = "later" THEN "sooner" ELSE @]
    /\ UNCHANGED <<accounts, rows, rate, verify, latest, setup, attempts, history>>

ReadAttempts(r) ==
    /\ pc[r] = "readAttempts"
    /\ IF attempts[req[r].user] >= MaxTries THEN Goto(r, "giveUp") ELSE Goto(r, "readPending")
    /\ UNCHANGED <<accounts, rows, redis, history>>

DropSetup(r) ==
    /\ setup' = [setup EXCEPT ![req[r].token] = None]
    /\ pending' = [pending EXCEPT ![req[r].user] = None]
    /\ attempts' = [attempts EXCEPT ![req[r].user] = 0]
    /\ ttl' = [ttl EXCEPT ![req[r].user] = "never"]
    /\ UNCHANGED <<rate, verify, latest>>

\* Mutant: the pending secret stays, only the counter goes.
GiveUpCounter(r) ==
    /\ pc[r] = "giveUp" /\ Answer(r)
    /\ attempts' = [attempts EXCEPT ![req[r].user] = 0]
    /\ UNCHANGED <<accounts, rows, rate, verify, latest, setup, pending, ttl, history>>

GiveUp(r) ==
    /\ pc[r] = "giveUp" /\ Answer(r) /\ DropSetup(r)
    /\ UNCHANGED <<accounts, rows, history>>

\* The code is compared with the secret that was read.
ReadPending(r) ==
    /\ pc[r] = "readPending"
    /\ LET secret == pending[req[r].user] IN
       IF secret = None
       THEN Answer(r) /\ UNCHANGED <<proved, wrong>>
       ELSE \E valid \in BOOLEAN :
            /\ wrong' = IF valid THEN wrong ELSE [wrong EXCEPT ![secret] = @ + 1]
            /\ proved' = IF valid THEN [proved EXCEPT ![req[r].user] = @ \cup {secret}]
                         ELSE proved
            /\ pc' = [pc EXCEPT ![r] = IF valid THEN "findRow" ELSE "incr"]
            /\ req' = [req EXCEPT ![r].secret = secret]
    /\ UNCHANGED <<accounts, rows, redis, known, given, stored, faults>>

\* Mutant of Incr: the key is read as a negative count of the tries that are left.
IncrDown(r) ==
    /\ pc[r] = "incr" /\ Goto(r, "expire")
    /\ attempts' = [attempts EXCEPT ![req[r].user] = @ - 1]
    /\ UNCHANGED <<accounts, rows, rate, verify, latest, setup, pending, ttl, history>>

Incr(r) ==
    /\ pc[r] = "incr" /\ Goto(r, "expire")
    /\ attempts' = [attempts EXCEPT ![req[r].user] = @ + 1]
    /\ UNCHANGED <<accounts, rows, rate, verify, latest, setup, pending, ttl, history>>

\* The counter is given the TTL of a pending secret: it goes later than the one there is.
ExpireAttempts(r) ==
    /\ pc[r] = "expire" /\ Answer(r)
    /\ ttl' = [ttl EXCEPT ![req[r].user] = IF attempts[req[r].user] > 0 THEN "later" ELSE @]
    /\ UNCHANGED <<accounts, rows, rate, verify, latest, setup, pending, attempts, history>>

RowsOf(user) == {row \in rows : row.user = user}

\* Mutant: a row that was never set up is not seen.
FindSetUpRow(r) ==
    /\ pc[r] = "findRow"
    /\ \/ \E row \in RowsOf(req[r].user) :
             /\ row.secret # None
             /\ pc' = [pc EXCEPT ![r] = "update"] /\ req' = [req EXCEPT ![r].row = row.id]
       \/ /\ \A row \in RowsOf(req[r].user) : row.secret = None
          /\ Goto(r, "createRow")
    /\ UNCHANGED <<accounts, rows, redis, history>>

FindRow(r) ==
    /\ pc[r] = "findRow"
    /\ \/ \E row \in RowsOf(req[r].user) :
             pc' = [pc EXCEPT ![r] = "update"] /\ req' = [req EXCEPT ![r].row = row.id]
       \/ RowsOf(req[r].user) = {} /\ Goto(r, "createRow")
    /\ UNCHANGED <<accounts, rows, redis, history>>

\* Mutants of Saved: the pending secret is read again when it is saved; the row keeps its
\* providerId.
SavedPending(r, row) == [row EXCEPT !.secret = pending[req[r].user], !.providerId = req[r].user]
SavedInPlace(r, row) == [row EXCEPT !.secret = req[r].secret]
Saved(r, row) == [row EXCEPT !.secret = req[r].secret, !.providerId = req[r].user]

Store(r) == stored' = stored \cup {req[r].secret}

\* P2025 when the row is gone, and P2002, which is not caught here, when it is the ''
\* row and totpSetup has made another.
Update(r) ==
    /\ pc[r] = "update"
    /\ \/ \E row \in rows : /\ row.id = req[r].row /\ ~Taken(rows \ {row}, req[r].user)
                            /\ rows' = (rows \ {row}) \cup {Saved(r, row)}
                            /\ Store(r)
                            /\ Goto(r, "clean")
       \/ /\ \A row \in rows : row.id = req[r].row => Taken(rows \ {row}, req[r].user)
          /\ Answer(r) /\ UNCHANGED <<rows, stored>>
    /\ UNCHANGED <<accounts, redis, known, proved, given, wrong, faults>>

CreateRow(r) ==
    /\ pc[r] = "createRow"
    /\ IF Taken(rows, req[r].user)
       THEN Goto(r, "fallback") /\ UNCHANGED <<rows, stored>>
       ELSE /\ \E i \in RowIds :
                  /\ FreshRow(i)
                  /\ rows' = rows \cup {[id |-> i, user |-> req[r].user,
                                         providerId |-> req[r].user, secret |-> req[r].secret]}
            /\ Store(r)
            /\ Goto(r, "clean")
    /\ UNCHANGED <<accounts, redis, known, proved, given, wrong, faults>>

\* Mutant: the collision is logged and nothing is updated.
FallbackLogs(r) ==
    /\ pc[r] = "fallback" /\ Goto(r, "clean")
    /\ UNCHANGED <<accounts, rows, redis, history>>

\* P2002: updateMany.  No '' row is among them: an account has it from its creation.
Fallback(r) ==
    /\ pc[r] = "fallback" /\ Goto(r, "clean")
    /\ rows' = (rows \ RowsOf(req[r].user)) \cup {Saved(r, row) : row \in RowsOf(req[r].user)}
    /\ stored' = IF RowsOf(req[r].user) = {} THEN stored ELSE stored \cup {req[r].secret}
    /\ UNCHANGED <<accounts, redis, known, proved, given, wrong, faults>>

Clean(r) ==
    /\ pc[r] = "clean" /\ Answer(r) /\ DropSetup(r)
    /\ UNCHANGED <<accounts, rows, history>>

(***************************************************************************)
(* totpSetup: a user who is logged in, by OIDC or a passkey, replaces the  *)
(* secret.  The upsert finds the row by its providerId, and no code is     *)
(* asked for.                                                              *)
(***************************************************************************)
TotpSetup(e) ==
    /\ e \in accounts
    /\ \E s \in Secrets :
          /\ FreshSecret(s)
          /\ given' = [given EXCEPT ![e] = @ \cup {s}]
          /\ \/ \E row \in rows : /\ row.providerId = e
                                  /\ rows' = (rows \ {row}) \cup {[row EXCEPT !.secret = s]}
             \/ /\ ~Taken(rows, e)
                /\ \E i \in RowIds :
                      /\ FreshRow(i)
                      /\ rows' = rows \cup {[id |-> i, user |-> e, providerId |-> e, secret |-> s]}
    /\ UNCHANGED <<accounts, redis, known, proved, stored, wrong, faults, pc, req>>

(***************************************************************************)
(* The administrator, the clock of Redis, failures.                        *)
(***************************************************************************)
\* createUser, or a first login by OIDC.
AdminCreates(e) ==
    /\ e \notin accounts
    /\ accounts' = accounts \cup {e}
    /\ UNCHANGED <<rows, redis, history, pc, req>>

RemoveRows(e) ==
    /\ e \in accounts
    /\ rows' = rows \ RowsOf(e)
    /\ req' = [r \in Requests |-> IF req[r].user = e THEN [req[r] EXCEPT !.reset = TRUE]
                                  ELSE req[r]]
    /\ UNCHANGED <<accounts, redis, history, pc>>

\* The transaction of resetCredentials; its link is SendSetupLink.
Reset(e) == RemoveRows(e)

\* The transaction of eraseUser.  The keys of Redis stay: a link to a set-up still works.
\* That the address is free again, and gets no new link, is left out.
Erase(e) == RemoveRows(e)

SendSetupLink(e) ==
    /\ e \in accounts
    /\ \E t \in Tokens : /\ FreshToken(t)
                         /\ setup' = [setup EXCEPT ![t] = e] /\ known' = known \cup {t}
    /\ UNCHANGED <<accounts, rows, rate, verify, latest, pending, attempts, ttl,
                   proved, given, stored, wrong, faults, pc, req>>

ExpireKey ==
    /\ \/ \E e \in Emails : /\ rate[e] > 0 /\ rate' = [rate EXCEPT ![e] = 0]
                            /\ UNCHANGED <<verify, latest, setup, pending, attempts, ttl>>
       \/ \E t \in Tokens : /\ verify[t] # None /\ verify' = [verify EXCEPT ![t] = None]
                            /\ UNCHANGED <<rate, latest, setup, pending, attempts, ttl>>
       \/ \E e \in Emails : /\ latest[e] # None /\ latest' = [latest EXCEPT ![e] = None]
                            /\ UNCHANGED <<rate, verify, setup, pending, attempts, ttl>>
       \/ \E t \in Tokens : /\ setup[t] # None /\ setup' = [setup EXCEPT ![t] = None]
                            /\ UNCHANGED <<rate, verify, latest, pending, attempts, ttl>>
       \/ \E e \in Emails : /\ pending[e] # None /\ pending' = [pending EXCEPT ![e] = None]
                            /\ UNCHANGED <<rate, verify, latest, setup, attempts, ttl>>
       \/ \E e \in Emails : /\ attempts[e] > 0
                            /\ ttl[e] = "sooner" \/ (ttl[e] = "later" /\ pending[e] = None)
                            /\ attempts' = [attempts EXCEPT ![e] = 0]
                            /\ ttl' = [ttl EXCEPT ![e] = "never"]
                            /\ UNCHANGED <<rate, verify, latest, setup, pending>>
    /\ UNCHANGED <<accounts, rows, history, pc, req>>

\* An await rejects, or the process ends.
Fail(r) ==
    /\ pc[r] # "idle" /\ Answer(r)
    /\ faults < MaxFaults /\ faults' = faults + 1
    /\ UNCHANGED <<accounts, rows, redis, known, proved, given, stored, wrong>>

RequestStep(r) ==
    \/ Register(r) \/ ReadRate(r) \/ Count(r) \/ ReadLatest(r) \/ DropPrevious(r)
    \/ PutToken(r) \/ PutLatest(r) \/ Mail(r)
    \/ VerifyEmail(r) \/ DropVerify(r) \/ CheckUser(r) \/ Create(r) \/ PutSetup(r)
    \/ TotpSetupInit(r) \/ PutPending(r)
    \/ TotpSetupVerify(r) \/ ReadAttempts(r) \/ GiveUp(r) \/ ReadPending(r)
    \/ Incr(r) \/ ExpireAttempts(r) \/ FindRow(r) \/ Update(r) \/ CreateRow(r) \/ Fallback(r)
    \/ Clean(r)

Next ==
    \/ \E r \in Requests : RequestStep(r) \/ Fail(r)
    \/ \E e \in Emails : AdminCreates(e) \/ Reset(e) \/ Erase(e) \/ SendSetupLink(e)
                           \/ TotpSetup(e)
    \/ ExpireKey

Spec == Init /\ [][Next]_vars

(***************************************************************************)
(* Correctness.                                                            *)
(***************************************************************************)

\* A secret that is stored was shown a valid code for by this user, though another set-up
\* may replace the pending secret while it is being stored (totpSetupVerify), unless it
\* was given to a session of this user, which is asked for no code (totpSetup).
SecretProven ==
    \A row \in rows : row.secret # None => row.secret \in proved[row.user] \cup given[row.user]

\* An account never has two TOTP secrets, one of which a login would find, though it may
\* have two TOTP rows: the '' row of its creation and that of totpSetup (the providerId
\* that totpSetupVerify writes, its P2002 path, and the upsert of totpSetup).
OneTotpSecret ==
    \A row, other \in rows :
        row.user = other.user /\ row.secret # None /\ other.secret # None => row = other

\* A set-up that reports success has stored the secret of its code, and the account still
\* has one, unless an administrator has removed the identities meanwhile.
Succeeds(r) == pc[r] = "clean" /\ faults' = faults /\ pc'[r] = "idle"
SuccessMeansSecret ==
    [][\A r \in Requests : Succeeds(r) =>
          \/ req[r].reset
          \/ req[r].secret \in stored /\ \E row \in RowsOf(req[r].user) : row.secret # None]_vars

\* Overlapping registrations of an address pass the limit by their number at most, since
\* the counter is read before it is increased (register).
RateBounded == \A e \in Emails : rate[e] <= MaxRate - 1 + Cardinality(Requests)

\* A pending secret is not compared with more wrong codes than the limit, the requests that
\* overlap, and those that fail before they have counted (totpSetupVerify): the counter
\* does not go before the secret it protects.
TriesBounded ==
    \A s \in Secrets : wrong[s] <= MaxTries - 1 + 2 * Cardinality(Requests) + faults

\* A link that was mailed to an address without an account creates one, if its request does
\* not fail and nobody else creates it (the providerId '' is to be there for a while only).
LinkCreates ==
    [][\A r \in Requests : pc[r] = "create" /\ pc'[r] = "idle" /\ faults' = faults =>
          req[r].user \in accounts]_vars
=============================================================================
