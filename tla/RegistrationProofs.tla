-------------------------- MODULE RegistrationProofs --------------------------
(***************************************************************************)
(* Proofs about Registration, in three invariants: the rows and what the   *)
(* requests on their way know of them (RegInv), the counter of             *)
(* registrations (RateInv) and that of the tries of a set-up (TriesInv).   *)
(***************************************************************************)
EXTENDS Registration, FiniteSetTheorems, TLAPS

Saving  == {"findRow", "update", "createRow", "fallback", "clean"}
Setting == {"putPending", "readAttempts", "giveUp", "readPending", "incr", "expire"} \cup Saving

\* What a request needs at its step is there.
ReqTyped(r) ==
    /\ pc[r] # "idle" => req[r].user \in Emails
    /\ pc[r] \notin {"idle", "readRate", "count", "readLatest", "dropPrevious", "putToken"} =>
          req[r].token \in Tokens
    /\ pc[r] = "dropPrevious" => req[r].previous \in Tokens
    /\ pc[r] \in Saving \cup {"incr", "expire"} => req[r].secret \in Secrets
    /\ pc[r] = "update" => req[r].row \in RowIds

\* What a request at its step knows of the rows.
RowPart(r) ==
    /\ pc[r] = "update" => \A row \in rows : row.id = req[r].row => row.user = req[r].user
    /\ pc[r] \in {"createRow", "fallback"} =>
          \A row \in rows : row.user = req[r].user => row.providerId = req[r].user
    /\ pc[r] = "fallback" /\ ~req[r].reset => \E row \in rows : row.user = req[r].user
    /\ pc[r] = "clean" /\ ~req[r].reset =>
          /\ req[r].secret \in stored
          /\ \E row \in rows : row.user = req[r].user /\ row.secret # None

ReqInv(r) ==
    /\ ReqTyped(r)
    /\ pc[r] \in Setting \cup {"putSetup"} => req[r].user \in accounts
    /\ pc[r] \in Saving => req[r].secret \in proved[req[r].user]
    /\ RowPart(r)

Unique == \A row, other \in rows :
              row.id = other.id \/ row.providerId = other.providerId => row = other

\* The '' row of an account has no secret: who stores one gives it a providerId.
RowsInv ==
    /\ SecretProven /\ Unique
    /\ \A row \in rows : /\ row.user \in accounts /\ row.providerId \in {Blank, row.user}
                         /\ row.providerId = Blank => row.secret = None
SetupInv == \A t \in Tokens : setup[t] # None => setup[t] \in accounts

RegInv == TypeOK /\ RowsInv /\ SetupInv /\ \A r \in Requests : ReqInv(r)

-----------------------------------------------------------------------------
(***************************************************************************)
(* How a step moves its request, and what the others keep.                 *)
(***************************************************************************)
Others(r) == \A q \in Requests : q # r => pc'[q] = pc[q] /\ req'[q] = req[q]
ReqTypes  == pc \in [Requests -> Steps] /\ req \in [Requests -> Reqs]

LEMMA BlankRequest == NoRequest \in Reqs
  BY DEF NoRequest, Reqs

LEMMA Answered ==
    ASSUME TypeOK, NEW r \in Requests, Answer(r)
    PROVE  pc'[r] = "idle" /\ req'[r] = NoRequest /\ ReqInv(r)' /\ Others(r) /\ ReqTypes'
<1>1. pc'[r] = "idle" /\ req'[r] = NoRequest
  BY DEF Answer, TypeOK
<1>2. ReqInv(r)'
  BY <1>1 DEF ReqInv, ReqTyped, RowPart, Saving, Setting
<1>3. ReqTypes'
  BY BlankRequest DEF Answer, TypeOK, ReqTypes, Steps
<1> QED BY <1>1, <1>2, <1>3 DEF Answer, TypeOK, Others

LEMMA Went ==
    ASSUME TypeOK, NEW r \in Requests, NEW step \in Steps, Goto(r, step)
    PROVE  pc'[r] = step /\ req'[r] = req[r] /\ Others(r) /\ ReqTypes'
  BY DEF Goto, TypeOK, Others, ReqTypes

\* The step of r learns something on its way.
LEMMA Learned ==
    ASSUME TypeOK, NEW r \in Requests, NEW step \in Steps, NEW x \in Reqs,
           pc' = [pc EXCEPT ![r] = step], req' = [req EXCEPT ![r] = x]
    PROVE  pc'[r] = step /\ req'[r] = x /\ Others(r) /\ ReqTypes'
  BY DEF TypeOK, Others, ReqTypes

\* The rows are as they were for q.
LEMMA OtherKept ==
    ASSUME RegInv, NEW q \in Requests, pc'[q] = pc[q], req'[q] = req[q],
           accounts \subseteq accounts', \A e \in Emails : proved[e] \subseteq proved'[e],
           RowPart(q)'
    PROVE  ReqInv(q)'
<1>1. ReqInv(q) /\ (pc[q] \in Saving => req[q].user \in Emails)
  BY DEF RegInv, ReqInv, ReqTyped, Saving
<1> QED BY <1>1 DEF ReqInv, ReqTyped

\* A step of r that leaves rows and accounts alone.
LEMMA QuietStep ==
    ASSUME RegInv, NEW r \in Requests, Others(r), TypeOK', ReqInv(r)', SetupInv',
           UNCHANGED <<accounts, rows, stored, given>>,
           \A e \in Emails : proved[e] \subseteq proved'[e]
    PROVE  RegInv'
<1>1. RowsInv'
  BY DEF RegInv, RowsInv, SecretProven, Unique, TypeOK, Rows
<1>2. ASSUME NEW q \in Requests, q # r PROVE ReqInv(q)'
  <2>1. pc'[q] = pc[q] /\ req'[q] = req[q]
    BY <1>2 DEF Others
  <2>2. RowPart(q)'
    BY <2>1 DEF RegInv, ReqInv, RowPart
  <2> QED BY <2>1, <2>2, OtherKept
<1> QED BY <1>1, <1>2 DEF RegInv

\* The same for a step that is nobody's.
LEMMA QuietOutside ==
    ASSUME RegInv, UNCHANGED <<pc, req, rows, stored, proved, given>>, TypeOK', SetupInv',
           accounts \subseteq accounts'
    PROVE  RegInv'
<1>1. RowsInv'
  BY DEF RegInv, RowsInv, SecretProven, Unique
<1>2. ASSUME NEW q \in Requests PROVE ReqInv(q)'
  <2>1. RowPart(q)'
    BY DEF RegInv, ReqInv, RowPart
  <2> QED BY <2>1, OtherKept
<1> QED BY <1>1, <1>2 DEF RegInv

-----------------------------------------------------------------------------
(***************************************************************************)
(* register and verifyEmail, but for the creation of the account.          *)
(***************************************************************************)
LEMMA BeginStep ==
    ASSUME RegInv, NEW r \in Requests,
           Register(r) \/ VerifyEmail(r) \/ TotpSetupInit(r) \/ TotpSetupVerify(r)
    PROVE  RegInv'
<1>1. PICK step \in {"readRate", "dropVerify", "putPending", "readAttempts"},
           e \in Emails, t \in Tokens \cup {None} :
         /\ Begin(r, step, e, t)
         /\ step # "readRate" => t \in Tokens
         /\ step \in {"putPending", "readAttempts"} => e \in accounts
  BY DEF RegInv, SetupInv, TypeOK, Register, VerifyEmail, TotpSetupInit, TotpSetupVerify, Begin
<1> DEFINE x == [NoRequest EXCEPT !.user = e, !.token = t]
<1>2. x \in Reqs /\ x.user = e /\ x.token = t
  BY DEF NoRequest, Reqs
<1>3. TypeOK /\ step \in Steps
  BY DEF RegInv, Steps
<1>4. pc' = [pc EXCEPT ![r] = step] /\ req' = [req EXCEPT ![r] = x]
      /\ UNCHANGED <<accounts, rows, redis, history>>
  BY <1>1 DEF Begin
<1> HIDE DEF x
<1>5. pc'[r] = step /\ req'[r] = x /\ Others(r) /\ ReqTypes'
  BY <1>2, <1>3, <1>4, Learned
<1>6. ReqInv(r)'
  BY <1>1, <1>2, <1>4, <1>5 DEF ReqInv, ReqTyped, RowPart, Saving, Setting
<1>7. TypeOK' /\ SetupInv'
  BY <1>3, <1>4, <1>5 DEF TypeOK, ReqTypes, RegInv, SetupInv, redis, history
<1> QED BY <1>4, <1>5, <1>6, <1>7, QuietStep DEF history

LEMMA RegisterStep ==
    ASSUME RegInv, NEW r \in Requests,
           ReadRate(r) \/ Count(r) \/ DropPrevious(r) \/ PutLatest(r) \/ Mail(r)
    PROVE  RegInv'
<1>1. TypeOK /\ ReqInv(r) /\ ReqTyped(r) /\ UNCHANGED <<accounts, rows, stored, proved, given, setup>>
  BY DEF RegInv, ReqInv, ReadRate, Count, DropPrevious, PutLatest, Mail, redis, history
<1>2. SetupInv'
  BY <1>1 DEF RegInv, SetupInv
<1>3. ASSUME NEW step \in {"count", "readLatest", "putToken", "mail"}, Goto(r, step), TypeOK',
             step = "mail" => req[r].token \in Tokens, req[r].user \in Emails
      PROVE  RegInv'
  <2>1. pc'[r] = step /\ req'[r] = req[r] /\ Others(r)
    BY <1>1, <1>3, Went DEF Steps
  <2>2. ReqInv(r)'
    BY <1>3, <2>1 DEF ReqInv, ReqTyped, RowPart, Saving, Setting
  <2> QED BY <1>1, <1>2, <1>3, <2>1, <2>2, QuietStep
<1>4. ASSUME Answer(r), TypeOK' PROVE RegInv'
  BY <1>1, <1>2, <1>4, Answered, QuietStep
<1>5. CASE ReadRate(r)
  <2>1. req[r].user \in Emails
    BY <1>1, <1>5 DEF ReadRate, ReqTyped
  <2>2. Answer(r) \/ Goto(r, "count")
    BY <1>5 DEF ReadRate
  <2>3. ReqTypes'
    BY <1>1, <2>2, Answered, Went DEF Steps
  <2>4. TypeOK'
    BY <1>1, <1>5, <2>3 DEF ReadRate, TypeOK, ReqTypes, redis, history
  <2> QED BY <1>3, <1>4, <2>1, <2>2, <2>4
<1>6. CASE Count(r)
  <2>1. req[r].user \in Emails /\ Goto(r, "readLatest")
    BY <1>1, <1>6 DEF Count, ReqTyped
  <2>2. ReqTypes'
    BY <1>1, <2>1, Went DEF Steps
  <2>3. TypeOK'
    BY <1>1, <1>6, <2>1, <2>2 DEF Count, TypeOK, ReqTypes, history
  <2> QED BY <1>3, <2>1, <2>3
<1>7. CASE DropPrevious(r)
  <2>1. req[r].user \in Emails /\ req[r].previous \in Tokens /\ Goto(r, "putToken")
    BY <1>1, <1>7 DEF DropPrevious, ReqTyped
  <2>2. ReqTypes'
    BY <1>1, <2>1, Went DEF Steps
  <2>3. TypeOK'
    BY <1>1, <1>7, <2>1, <2>2 DEF DropPrevious, TypeOK, ReqTypes, history
  <2> QED BY <1>3, <2>1, <2>3
<1>8. CASE PutLatest(r)
  <2>1. req[r].user \in Emails /\ req[r].token \in Tokens /\ Goto(r, "mail")
    BY <1>1, <1>8 DEF PutLatest, ReqTyped
  <2>2. ReqTypes'
    BY <1>1, <2>1, Went DEF Steps
  <2>3. TypeOK'
    BY <1>1, <1>8, <2>1, <2>2 DEF PutLatest, TypeOK, ReqTypes, history
  <2> QED BY <1>3, <2>1, <2>3
<1>9. CASE Mail(r)
  <2>1. req[r].token \in Tokens /\ Answer(r)
    BY <1>1, <1>9 DEF Mail, ReqTyped
  <2>2. ReqTypes'
    BY <1>1, <2>1, Answered
  <2>3. TypeOK'
    BY <1>1, <1>9, <2>1, <2>2 DEF Mail, TypeOK, ReqTypes, redis
  <2> QED BY <1>4, <2>1, <2>3
<1> QED BY <1>5, <1>6, <1>7, <1>8, <1>9

LEMMA ReadLatestStep ==
    ASSUME RegInv, NEW r \in Requests, ReadLatest(r)
    PROVE  RegInv'
<1>1. TypeOK /\ ReqTyped(r) /\ req[r] \in Reqs /\ pc[r] = "readLatest"
      /\ UNCHANGED <<accounts, rows, redis, history>>
  BY DEF RegInv, ReqInv, ReadLatest, TypeOK
<1>2. PICK step \in {"putToken", "dropPrevious"}, t \in Tokens \cup {None} :
         /\ step = "dropPrevious" => t \in Tokens
         /\ pc' = [pc EXCEPT ![r] = step] /\ req' = [req EXCEPT ![r].previous = t]
  <2>1. latest[req[r].user] \in Tokens \cup {None}
    BY <1>1 DEF ReqTyped, TypeOK
  <2> QED BY <2>1 DEF ReadLatest
<1> DEFINE x == [req[r] EXCEPT !.previous = t]
<1>3. x \in Reqs /\ x.user = req[r].user /\ x.previous = t /\ req' = [req EXCEPT ![r] = x]
  BY <1>1, <1>2 DEF Reqs
<1> HIDE DEF x
<1>4. pc'[r] = step /\ req'[r] = x /\ Others(r) /\ ReqTypes'
  BY <1>1, <1>2, <1>3, Learned DEF Steps
<1>5. ReqInv(r)'
  BY <1>1, <1>2, <1>3, <1>4 DEF ReqInv, ReqTyped, RowPart, Saving, Setting
<1>6. TypeOK' /\ SetupInv'
  BY <1>1, <1>4 DEF TypeOK, ReqTypes, RegInv, SetupInv, redis, history
<1> QED BY <1>1, <1>4, <1>5, <1>6, QuietStep DEF history

LEMMA PutTokenStep ==
    ASSUME RegInv, NEW r \in Requests, PutToken(r)
    PROVE  RegInv'
<1>1. TypeOK /\ ReqTyped(r) /\ req[r] \in Reqs /\ pc[r] = "putToken"
      /\ UNCHANGED <<accounts, rows, rate, latest, setup, pending, attempts, ttl, history>>
  BY DEF RegInv, ReqInv, PutToken, TypeOK
<1>2. PICK t \in Tokens : /\ verify' = [verify EXCEPT ![t] = req[r].user]
                          /\ pc' = [pc EXCEPT ![r] = "putLatest"]
                          /\ req' = [req EXCEPT ![r].token = t]
  BY DEF PutToken
<1> DEFINE x == [req[r] EXCEPT !.token = t]
<1>3. x \in Reqs /\ x.user = req[r].user /\ x.token = t /\ req' = [req EXCEPT ![r] = x]
  BY <1>1, <1>2 DEF Reqs
<1> HIDE DEF x
<1>4. pc'[r] = "putLatest" /\ req'[r] = x /\ Others(r) /\ ReqTypes'
  BY <1>1, <1>2, <1>3, Learned DEF Steps
<1>5. ReqInv(r)'
  BY <1>1, <1>2, <1>3, <1>4 DEF ReqInv, ReqTyped, RowPart, Saving, Setting
<1>6. TypeOK' /\ SetupInv'
  BY <1>1, <1>2, <1>4 DEF TypeOK, ReqTypes, RegInv, SetupInv, ReqTyped, history
<1> QED BY <1>1, <1>4, <1>5, <1>6, QuietStep DEF history

LEMMA VerifyStep ==
    ASSUME RegInv, NEW r \in Requests, DropVerify(r) \/ CheckUser(r) \/ PutSetup(r)
    PROVE  RegInv'
<1>1. TypeOK /\ ReqInv(r) /\ ReqTyped(r) /\ UNCHANGED <<accounts, rows, stored, proved, given>>
  BY DEF RegInv, ReqInv, DropVerify, CheckUser, PutSetup, redis, history
<1>2. pc[r] # "idle" /\ req[r].user \in Emails /\ req[r].token \in Tokens
  BY <1>1 DEF ReqTyped, DropVerify, CheckUser, PutSetup
<1>3. CASE DropVerify(r) \/ CheckUser(r)
  <2>1. PICK step \in {"checkUser", "create"} : Answer(r) \/ Goto(r, step)
    BY <1>3 DEF DropVerify, CheckUser
  <2>2. ReqTypes' /\ Others(r) /\ ReqInv(r)'
    <3>1. CASE Goto(r, step)
      <4>1. pc'[r] = step /\ req'[r] = req[r] /\ Others(r) /\ ReqTypes'
        BY <1>1, <3>1, Went DEF Steps
      <4> QED BY <1>2, <4>1 DEF ReqInv, ReqTyped, RowPart, Saving, Setting
    <3> QED BY <1>1, <2>1, <3>1, Answered
  <2>3. TypeOK' /\ SetupInv'
    <3>1. CASE DropVerify(r)
      BY <1>1, <1>2, <2>2, <3>1 DEF DropVerify, TypeOK, ReqTypes, RegInv, SetupInv, history
    <3>2. CASE CheckUser(r)
      BY <1>1, <2>2, <3>2 DEF CheckUser, TypeOK, ReqTypes, RegInv, SetupInv, redis, history
    <3> QED BY <1>3, <3>1, <3>2
  <2> QED BY <1>1, <2>2, <2>3, QuietStep
<1>4. CASE PutSetup(r)
  <2>1. PICK t \in Tokens : setup' = [setup EXCEPT ![t] = req[r].user] /\ known' = known \cup {t}
    BY <1>4 DEF PutSetup
  <2>2. Answer(r) /\ req[r].user \in accounts
    BY <1>1, <1>4 DEF PutSetup, ReqInv
  <2>3. ReqTypes' /\ Others(r) /\ ReqInv(r)'
    BY <1>1, <2>2, Answered
  <2>4. TypeOK' /\ SetupInv'
    BY <1>1, <1>2, <1>4, <2>1, <2>2, <2>3 DEF PutSetup, TypeOK, ReqTypes, RegInv, SetupInv
  <2> QED BY <1>1, <2>3, <2>4, QuietStep
<1> QED BY <1>3, <1>4

-----------------------------------------------------------------------------
(***************************************************************************)
(* Rows come and change.                                                   *)
(***************************************************************************)

\* A new account: nobody is setting it up yet.
LEMMA CreateStep ==
    ASSUME RegInv, NEW r \in Requests, Create(r)
    PROVE  RegInv'
<1>1. TypeOK /\ ReqInv(r) /\ ReqTyped(r) /\ pc[r] = "create" /\ UNCHANGED <<redis, history>>
  BY DEF RegInv, ReqInv, Create
<1>2. req[r].user \in Emails /\ req[r].token \in Tokens
  BY <1>1 DEF ReqTyped
<1>3. CASE Answer(r) /\ UNCHANGED <<accounts, rows>>
  <2>1. ReqTypes' /\ Others(r) /\ ReqInv(r)'
    BY <1>1, <1>3, Answered
  <2>2. TypeOK' /\ SetupInv'
    BY <1>1, <1>3, <2>1 DEF TypeOK, ReqTypes, RegInv, SetupInv, redis, history
  <2> QED BY <1>1, <1>3, <2>1, <2>2, QuietStep DEF history
<1>4. ASSUME NEW i \in RowIds, FreshRow(i), req[r].user \notin accounts, ~Taken(rows, Blank),
             accounts' = accounts \cup {req[r].user},
             rows' = rows \cup {[id |-> i, user |-> req[r].user, providerId |-> Blank,
                                 secret |-> None]},
             Goto(r, "putSetup")
      PROVE  RegInv'
  <2> DEFINE e == req[r].user
             new == [id |-> i, user |-> e, providerId |-> Blank, secret |-> None]
  <2>1. pc'[r] = "putSetup" /\ req'[r] = req[r] /\ Others(r) /\ ReqTypes'
    BY <1>1, <1>4, Went DEF Steps
  <2>2. new \in Rows /\ new.id = i /\ new.user = e /\ new.providerId = Blank /\ new.secret = None
    BY <1>2 DEF Rows
  <2> HIDE DEF new
  <2>3. rows' = rows \cup {new}
    BY <1>4 DEF new
  <2>4. TypeOK'
    BY <1>1, <1>2, <1>4, <2>1, <2>2, <2>3 DEF TypeOK, ReqTypes, redis, history
  <2>5. \A row \in rows : row.user # e /\ row.id # i /\ row.providerId # Blank
    BY <1>4 DEF RegInv, RowsInv, FreshRow, Taken
  <2>6. RowsInv'
    BY <1>1, <1>4, <2>2, <2>3, <2>5 DEF RegInv, RowsInv, SecretProven, Unique, history
  <2>7. SetupInv'
    BY <1>1, <1>4 DEF RegInv, SetupInv, redis
  <2>8. ReqInv(r)'
    BY <1>1, <1>2, <1>4, <2>1 DEF ReqInv, ReqTyped, RowPart, Saving, Setting
  <2>9. ASSUME NEW q \in Requests, q # r PROVE ReqInv(q)'
    <3>1. pc'[q] = pc[q] /\ req'[q] = req[q] /\ ReqInv(q)
      BY <2>1, <2>9 DEF Others, RegInv
    <3>2. pc[q] \in Saving => req[q].user # e
      BY <1>4, <3>1 DEF ReqInv, Setting
    <3>3. req[q].row # i
      BY <1>4 DEF FreshRow
    <3>4. RowPart(q)'
      BY <1>1, <2>2, <2>3, <3>1, <3>2, <3>3 DEF ReqInv, RowPart, Saving, history
    <3> QED BY <1>1, <1>4, <3>1, <3>4, OtherKept DEF history
  <2> QED BY <2>4, <2>6, <2>7, <2>8, <2>9 DEF RegInv
<1> QED BY <1>3, <1>4 DEF Create

\* The row that r has found, or no row: those there are later come from other set-ups.
LEMMA FindRowStep ==
    ASSUME RegInv, NEW r \in Requests, FindRow(r)
    PROVE  RegInv'
<1>1. /\ TypeOK /\ ReqInv(r) /\ ReqTyped(r) /\ pc[r] = "findRow" /\ req[r] \in Reqs
      /\ UNCHANGED <<accounts, rows, redis, history>>
  BY DEF RegInv, ReqInv, FindRow, TypeOK
<1>2. /\ req[r].user \in Emails /\ req[r].token \in Tokens /\ req[r].secret \in Secrets
      /\ req[r].user \in accounts /\ req[r].secret \in proved[req[r].user]
  BY <1>1 DEF ReqInv, ReqTyped, Saving, Setting
<1>3. SetupInv'
  BY <1>1 DEF RegInv, SetupInv, redis
<1>4. ASSUME NEW row \in RowsOf(req[r].user), pc' = [pc EXCEPT ![r] = "update"],
             req' = [req EXCEPT ![r].row = row.id]
      PROVE  RegInv'
  <2> DEFINE x == [req[r] EXCEPT !.row = row.id]
  <2>1. row \in rows /\ row.user = req[r].user /\ row.id \in RowIds
    BY <1>1 DEF RowsOf, TypeOK, Rows
  <2>2. /\ x \in Reqs /\ x.user = req[r].user /\ x.token = req[r].token
        /\ x.secret = req[r].secret /\ x.row = row.id /\ req' = [req EXCEPT ![r] = x]
    BY <1>1, <1>4, <2>1 DEF Reqs
  <2> HIDE DEF x
  <2>3. pc'[r] = "update" /\ req'[r] = x /\ Others(r) /\ ReqTypes'
    BY <1>1, <1>4, <2>2, Learned DEF Steps
  <2>4. \A other \in rows : other.id = row.id => other.user = req[r].user
    BY <2>1 DEF RegInv, RowsInv, Unique
  <2>5. ReqInv(r)'
    BY <1>1, <1>2, <2>1, <2>2, <2>3, <2>4 DEF ReqInv, ReqTyped, RowPart, Saving, Setting, history
  <2>6. TypeOK'
    BY <1>1, <2>3 DEF TypeOK, ReqTypes, redis, history
  <2> QED BY <1>1, <1>3, <2>3, <2>5, <2>6, QuietStep DEF history
<1>5. CASE RowsOf(req[r].user) = {} /\ Goto(r, "createRow")
  <2>1. pc'[r] = "createRow" /\ req'[r] = req[r] /\ Others(r) /\ ReqTypes'
    BY <1>1, <1>5, Went DEF Steps
  <2>2. ReqInv(r)'
    BY <1>1, <1>2, <1>5, <2>1 DEF ReqInv, ReqTyped, RowPart, RowsOf, Saving, Setting, history
  <2>3. TypeOK'
    BY <1>1, <2>1 DEF TypeOK, ReqTypes, redis, history
  <2> QED BY <1>1, <1>3, <2>1, <2>2, <2>3, QuietStep DEF history
<1> QED BY <1>4, <1>5 DEF FindRow

\* What the three ways of storing start from.
LEMMA SavingFacts ==
    ASSUME RegInv, NEW r \in Requests, pc[r] \in {"update", "createRow", "fallback"}
    PROVE  /\ req[r].user \in Emails /\ req[r].token \in Tokens /\ req[r].secret \in Secrets
           /\ req[r].user \in accounts /\ req[r].secret \in proved[req[r].user]
           /\ req[r].secret # None
<1>1. ReqInv(r) /\ ReqTyped(r)
  BY DEF RegInv, ReqInv
<1> QED BY <1>1, RegistrationAssumption DEF ReqInv, ReqTyped, Saving, Setting

\* The row with the secret in it is like the one before.
LEMMA SavedRow ==
    ASSUME RegInv, NEW r \in Requests, pc[r] \in {"update", "fallback"}, NEW row \in rows,
           row.user = req[r].user
    PROVE  /\ Saved(r, row) \in Rows /\ Saved(r, row).id = row.id
           /\ Saved(r, row).user = row.user /\ Saved(r, row).providerId = row.user
           /\ Saved(r, row).secret = req[r].secret
  BY SavingFacts DEF Saved, RegInv, TypeOK, Rows

LEMMA UpdateStep ==
    ASSUME RegInv, NEW r \in Requests, Update(r)
    PROVE  RegInv'
<1>1. /\ TypeOK /\ ReqInv(r) /\ pc[r] = "update"
      /\ UNCHANGED <<accounts, redis, known, proved, given, wrong, faults>>
  BY DEF RegInv, Update
<1>2. SetupInv'
  BY <1>1 DEF RegInv, SetupInv, redis
<1>3. CASE Answer(r) /\ UNCHANGED <<rows, stored>>
  <2>1. ReqTypes' /\ Others(r) /\ ReqInv(r)'
    BY <1>1, <1>3, Answered
  <2>2. TypeOK'
    BY <1>1, <1>3, <2>1 DEF TypeOK, ReqTypes, redis
  <2> QED BY <1>1, <1>2, <1>3, <2>1, <2>2, QuietStep
<1>4. ASSUME NEW row \in rows, row.id = req[r].row, ~Taken(rows \ {row}, req[r].user),
             rows' = (rows \ {row}) \cup {Saved(r, row)},
             stored' = stored \cup {req[r].secret}, Goto(r, "clean")
      PROVE  RegInv'
  <2> DEFINE new == Saved(r, row)
  <2>1. row.user = req[r].user
    BY <1>1, <1>4 DEF ReqInv, RowPart
  <2>2. /\ new \in Rows /\ new.id = row.id /\ new.user = row.user
        /\ new.providerId = row.user /\ new.secret = req[r].secret
    BY <1>1, <2>1, SavedRow
  <2> HIDE DEF new
  <2>3. rows' = (rows \ {row}) \cup {new}
    BY <1>4 DEF new
  <2>4. pc'[r] = "clean" /\ req'[r] = req[r] /\ Others(r) /\ ReqTypes'
    BY <1>1, <1>4, Went DEF Steps
  <2>5. TypeOK'
    BY <1>1, <1>4, <2>2, <2>3, <2>4, SavingFacts DEF TypeOK, ReqTypes, redis
  <2>6. RowsInv'
    BY <1>1, <1>4, <2>1, <2>2, <2>3, SavingFacts, RegistrationAssumption
       DEF RegInv, RowsInv, SecretProven, Unique, Taken
  <2>7. ReqInv(r)'
    BY <1>1, <1>4, <2>1, <2>2, <2>3, <2>4, SavingFacts
       DEF ReqInv, ReqTyped, RowPart, Saving, Setting
  <2>8. ASSUME NEW q \in Requests, q # r PROVE ReqInv(q)'
    <3>1. pc'[q] = pc[q] /\ req'[q] = req[q] /\ RowPart(q)
      BY <2>4, <2>8 DEF Others, RegInv, ReqInv
    <3>2. RowPart(q)'
      BY <1>1, <1>4, <2>1, <2>2, <2>3, <3>1, SavingFacts DEF RowPart
    <3> QED BY <1>1, <3>1, <3>2, OtherKept
  <2> QED BY <1>2, <2>5, <2>6, <2>7, <2>8 DEF RegInv
<1> QED BY <1>3, <1>4 DEF Update, Store

\* There is no row yet, or the one that another set-up created is found by its providerId.
LEMMA CreateRowStep ==
    ASSUME RegInv, NEW r \in Requests, CreateRow(r)
    PROVE  RegInv'
<1>1. /\ TypeOK /\ ReqInv(r) /\ RowPart(r) /\ pc[r] = "createRow"
      /\ UNCHANGED <<accounts, redis, known, proved, given, wrong, faults>>
  BY DEF RegInv, ReqInv, CreateRow
<1>2. SetupInv'
  BY <1>1 DEF RegInv, SetupInv, redis
<1>3. CASE Taken(rows, req[r].user) /\ Goto(r, "fallback") /\ UNCHANGED <<rows, stored>>
  <2>1. pc'[r] = "fallback" /\ req'[r] = req[r] /\ Others(r) /\ ReqTypes'
    BY <1>1, <1>3, Went DEF Steps
  <2>2. \E row \in rows : row.user = req[r].user
    <3>1. PICK row \in rows : row.providerId = req[r].user
      BY <1>3 DEF Taken
    <3>2. row.providerId \in {Blank, row.user} /\ req[r].user # Blank
      BY <1>1, SavingFacts, RegistrationAssumption DEF RegInv, RowsInv
    <3> QED BY <3>1, <3>2
  <2>3. ReqInv(r)'
    BY <1>1, <1>3, <2>1, <2>2, SavingFacts DEF ReqInv, ReqTyped, RowPart, Saving, Setting
  <2>4. TypeOK'
    BY <1>1, <1>3, <2>1 DEF TypeOK, ReqTypes, redis
  <2> QED BY <1>1, <1>2, <1>3, <2>1, <2>3, <2>4, QuietStep
<1>4. ASSUME NEW i \in RowIds, FreshRow(i), ~Taken(rows, req[r].user),
             rows' = rows \cup {[id |-> i, user |-> req[r].user, providerId |-> req[r].user,
                                 secret |-> req[r].secret]},
             stored' = stored \cup {req[r].secret}, Goto(r, "clean")
      PROVE  RegInv'
  <2> DEFINE e == req[r].user
             new == [id |-> i, user |-> e, providerId |-> e, secret |-> req[r].secret]
  <2>1. /\ new \in Rows /\ new.id = i /\ new.user = e
        /\ new.providerId = e /\ new.secret = req[r].secret
    BY <1>1, SavingFacts DEF Rows
  <2> HIDE DEF new
  <2>2. rows' = rows \cup {new}
    BY <1>4 DEF new
  <2>3. pc'[r] = "clean" /\ req'[r] = req[r] /\ Others(r) /\ ReqTypes'
    BY <1>1, <1>4, Went DEF Steps
  <2>4. TypeOK'
    BY <1>1, <1>4, <2>1, <2>2, <2>3, SavingFacts DEF TypeOK, ReqTypes, redis
  <2>5. \A row \in rows : row.providerId # e /\ row.id # i
    BY <1>4 DEF Taken, FreshRow
  <2>6. RowsInv'
    BY <1>1, <2>1, <2>2, <2>5, SavingFacts, RegistrationAssumption
       DEF RegInv, RowsInv, SecretProven, Unique
  <2>7. ReqInv(r)'
    BY <1>1, <1>4, <2>1, <2>2, <2>3, SavingFacts DEF ReqInv, ReqTyped, RowPart, Saving, Setting
  <2>8. ASSUME NEW q \in Requests, q # r PROVE ReqInv(q)'
    <3>1. pc'[q] = pc[q] /\ req'[q] = req[q] /\ RowPart(q)
      BY <2>3, <2>8 DEF Others, RegInv, ReqInv
    <3>2. req[q].row # i
      BY <1>4 DEF FreshRow
    <3>3. RowPart(q)'
      BY <1>4, <2>1, <2>2, <3>1, <3>2 DEF RowPart
    <3> QED BY <1>1, <3>1, <3>3, OtherKept
  <2> QED BY <1>2, <2>4, <2>6, <2>7, <2>8 DEF RegInv
<1> QED BY <1>3, <1>4 DEF CreateRow, Store

\* updateMany changes every row of the user, of which there is at most one:
\* it has the providerId of its user already.
LEMMA FallbackStep ==
    ASSUME RegInv, NEW r \in Requests, Fallback(r)
    PROVE  RegInv'
<1> DEFINE e == req[r].user
<1>1. /\ TypeOK /\ ReqInv(r) /\ RowPart(r) /\ pc[r] = "fallback" /\ Goto(r, "clean")
      /\ rows' = (rows \ RowsOf(e)) \cup {Saved(r, row) : row \in RowsOf(e)}
      /\ stored' = IF RowsOf(e) = {} THEN stored ELSE stored \cup {req[r].secret}
      /\ UNCHANGED <<accounts, redis, known, proved, given, wrong, faults>>
  BY DEF RegInv, ReqInv, Fallback
<1>2. SetupInv'
  BY <1>1 DEF RegInv, SetupInv, redis
<1>3. ASSUME NEW row \in RowsOf(e)
      PROVE  /\ Saved(r, row) \in Rows /\ Saved(r, row).id = row.id /\ Saved(r, row).user = e
             /\ Saved(r, row).providerId = e /\ Saved(r, row).secret = req[r].secret
             /\ Saved(r, row) \in rows'
  <2>1. row \in rows /\ row.user = e
    BY DEF RowsOf
  <2> QED BY <1>1, <2>1, SavedRow
<1>4. ASSUME NEW new \in rows'
      PROVE  \/ new \in rows /\ new.user # e
             \/ \E row \in rows : /\ row.user = e /\ new = Saved(r, row)
                                  /\ new \in Rows /\ new.id = row.id /\ new.user = e
                                  /\ new.providerId = e /\ new.secret = req[r].secret
  BY <1>1, <1>3 DEF RowsOf
<1>5. pc'[r] = "clean" /\ req'[r] = req[r] /\ Others(r) /\ ReqTypes'
  BY <1>1, Went DEF Steps
<1>6. TypeOK'
  <2>1. rows' \subseteq Rows /\ stored' \subseteq Secrets
    BY <1>1, <1>4, SavingFacts DEF TypeOK
  <2> QED BY <1>1, <1>5, <2>1 DEF TypeOK, ReqTypes, redis
<1>7. RowsInv'
  <2>1. SecretProven'
    BY <1>1, <1>4, SavingFacts DEF RegInv, RowsInv, SecretProven
  <2>2. \A new, other \in rows' :
           new.id = other.id \/ new.providerId = other.providerId => new = other
    <3> SUFFICES ASSUME NEW new \in rows', NEW other \in rows',
                        new.id = other.id \/ new.providerId = other.providerId
                 PROVE  new = other
      OBVIOUS
    <3>1. \A row, x \in rows : row.id = x.id \/ row.providerId = x.providerId => row = x
      BY DEF RegInv, RowsInv, Unique
    <3>2. \A row \in rows : row.user = e => row.providerId = e
      BY <1>1 DEF RowPart
    <3>3. \A row \in rows : row.user # e => row.providerId # e
      BY <1>1, SavingFacts, RegistrationAssumption DEF RegInv, RowsInv
    <3>4. CASE new.user = e /\ other.user = e
      BY <1>4, <3>1, <3>2, <3>4
    <3>5. CASE new.user # e /\ other.user # e
      BY <1>4, <3>1, <3>5
    <3>6. CASE new.user = e /\ other.user # e
      BY <1>4, <3>1, <3>3, <3>6
    <3>7. CASE new.user # e /\ other.user = e
      BY <1>4, <3>1, <3>3, <3>7
    <3> QED BY <3>4, <3>5, <3>6, <3>7
  <2>3. \A new \in rows' : /\ new.user \in accounts' /\ new.providerId \in {Blank, new.user}
                           /\ new.providerId = Blank => new.secret = None
    BY <1>1, <1>4, SavingFacts, RegistrationAssumption DEF RegInv, RowsInv
  <2>4. Unique'
    BY <2>2 DEF Unique
  <2> QED BY <2>1, <2>3, <2>4 DEF RowsInv
<1>8. ReqInv(r)'
  <2>1. ~req[r].reset => /\ req[r].secret \in stored'
                         /\ \E new \in rows' : new.user = e /\ new.secret # None
    <3> SUFFICES ASSUME ~req[r].reset
                 PROVE  /\ req[r].secret \in stored'
                        /\ \E new \in rows' : new.user = e /\ new.secret # None
      OBVIOUS
    <3>1. PICK row \in rows : row.user = e
      BY <1>1 DEF RowPart
    <3>2. row \in RowsOf(e)
      BY <3>1 DEF RowsOf
    <3> QED BY <1>1, <1>3, <3>2, SavingFacts
  <2> QED BY <1>1, <1>5, <2>1, SavingFacts DEF ReqInv, ReqTyped, RowPart, Saving, Setting
<1>9. ASSUME NEW q \in Requests, q # r PROVE ReqInv(q)'
  <2>1. pc'[q] = pc[q] /\ req'[q] = req[q] /\ RowPart(q)
    BY <1>5, <1>9 DEF Others, RegInv, ReqInv
  <2>2. pc[q] = "update" => \A new \in rows' : new.id = req[q].row => new.user = req[q].user
    BY <1>4, <2>1 DEF RowPart
  <2>3. pc[q] \in {"createRow", "fallback"} =>
          \A new \in rows' : new.user = req[q].user => new.providerId = req[q].user
    BY <1>4, <2>1 DEF RowPart
  <2>4. \A row \in rows : \E new \in rows' :
           new.user = row.user /\ (row.secret # None => new.secret # None)
    <3> SUFFICES ASSUME NEW row \in rows
                 PROVE  \E new \in rows' :
                           new.user = row.user /\ (row.secret # None => new.secret # None)
      OBVIOUS
    <3>1. CASE row.user = e
      <4>1. row \in RowsOf(e)
        BY <3>1 DEF RowsOf
      <4> QED BY <1>1, <1>3, <3>1, <4>1, SavingFacts
    <3>2. CASE row.user # e
      BY <1>1, <3>2 DEF RowsOf
    <3> QED BY <3>1, <3>2
  <2>5. stored \subseteq stored'
    BY <1>1
  <2>6. RowPart(q)'
    BY <2>1, <2>2, <2>3, <2>4, <2>5 DEF RowPart
  <2> QED BY <1>1, <2>1, <2>6, OtherKept
<1> QED BY <1>2, <1>6, <1>7, <1>8, <1>9 DEF RegInv

-----------------------------------------------------------------------------
(***************************************************************************)
(* The other steps of a set-up.                                            *)
(***************************************************************************)

\* Steps that end the request.
LEMMA SetUpEnds ==
    ASSUME RegInv, NEW r \in Requests,
           PutPending(r) \/ GiveUp(r) \/ ExpireAttempts(r) \/ Clean(r) \/ Fail(r)
    PROVE  RegInv'
<1>1. /\ TypeOK /\ ReqTyped(r) /\ Answer(r) /\ pc[r] # "idle"
      /\ UNCHANGED <<accounts, rows, known, proved, given, stored, wrong>>
  BY DEF RegInv, ReqInv, PutPending, GiveUp, ExpireAttempts, Clean, Fail, history
<1>2. ReqTypes' /\ Others(r) /\ ReqInv(r)' /\ req[r].user \in Emails
  BY <1>1, Answered DEF ReqTyped
<1>3. TypeOK' /\ SetupInv'
  <2>1. CASE PutPending(r)
    <3>1. PICK s \in Secrets : pending' = [pending EXCEPT ![req[r].user] = s]
      BY <2>1 DEF PutPending
    <3> QED BY <1>1, <1>2, <2>1, <3>1
            DEF PutPending, TypeOK, ReqTypes, RegInv, SetupInv, history
  <2>2. CASE GiveUp(r) \/ Clean(r)
    <3>1. req[r].token \in Tokens /\ DropSetup(r) /\ UNCHANGED history
      BY <1>1, <2>2 DEF GiveUp, Clean, ReqTyped
    <3> QED BY <1>1, <1>2, <3>1 DEF DropSetup, TypeOK, ReqTypes, RegInv, SetupInv, history
  <2>3. CASE ExpireAttempts(r)
    BY <1>1, <1>2, <2>3 DEF ExpireAttempts, TypeOK, ReqTypes, RegInv, SetupInv, history
  <2>4. CASE Fail(r)
    BY <1>1, <1>2, <2>4 DEF Fail, TypeOK, ReqTypes, RegInv, SetupInv, redis
  <2> QED BY <2>1, <2>2, <2>3, <2>4
<1> QED BY <1>1, <1>2, <1>3, QuietStep

LEMMA SetUpGoes ==
    ASSUME RegInv, NEW r \in Requests, ReadAttempts(r) \/ Incr(r)
    PROVE  RegInv'
<1>1. /\ TypeOK /\ ReqInv(r) /\ ReqTyped(r) /\ UNCHANGED <<accounts, rows, history, setup>>
  BY DEF RegInv, ReqInv, ReadAttempts, Incr, redis
<1>2. PICK step \in {"giveUp", "readPending", "expire"} :
         Goto(r, step) /\ (step = "expire" => pc[r] = "incr")
  BY DEF ReadAttempts, Incr
<1>3. pc[r] \in {"readAttempts", "incr"}
  BY DEF ReadAttempts, Incr
<1>4. /\ req[r].user \in Emails /\ req[r].token \in Tokens /\ req[r].user \in accounts
      /\ pc[r] = "incr" => req[r].secret \in Secrets
  BY <1>1, <1>3 DEF ReqInv, ReqTyped, Saving, Setting
<1>5. pc'[r] = step /\ req'[r] = req[r] /\ Others(r) /\ ReqTypes'
  BY <1>1, <1>2, Went DEF Steps
<1>6. ReqInv(r)'
  BY <1>1, <1>2, <1>4, <1>5 DEF ReqInv, ReqTyped, RowPart, Saving, Setting
<1>7. TypeOK' /\ SetupInv'
  <2>1. CASE ReadAttempts(r)
    BY <1>1, <1>5, <2>1 DEF ReadAttempts, TypeOK, ReqTypes, RegInv, SetupInv, redis, history
  <2>2. CASE Incr(r)
    BY <1>1, <1>4, <1>5, <2>2 DEF Incr, TypeOK, ReqTypes, RegInv, SetupInv, history
  <2> QED BY <2>1, <2>2
<1> QED BY <1>1, <1>5, <1>6, <1>7, QuietStep DEF history

\* A valid code proves the secret that was read, a wrong one is counted later.
LEMMA ReadPendingStep ==
    ASSUME RegInv, NEW r \in Requests, ReadPending(r)
    PROVE  RegInv'
<1> DEFINE secret == pending[req[r].user]
<1>1. /\ TypeOK /\ ReqInv(r) /\ ReqTyped(r) /\ pc[r] = "readPending" /\ req[r] \in Reqs
      /\ UNCHANGED <<accounts, rows, redis, known, given, stored, faults>>
  BY DEF RegInv, ReqInv, ReadPending, TypeOK
<1>2. /\ req[r].user \in Emails /\ req[r].token \in Tokens /\ req[r].user \in accounts
      /\ secret \in Secrets \cup {None}
  BY <1>1 DEF ReqInv, ReqTyped, Setting, TypeOK
<1>3. SetupInv'
  BY <1>1 DEF RegInv, SetupInv, redis
<1>4. CASE secret = None
  <2>1. Answer(r) /\ UNCHANGED <<proved, wrong>>
    BY <1>4 DEF ReadPending
  <2>2. ReqTypes' /\ Others(r) /\ ReqInv(r)'
    BY <1>1, <2>1, Answered
  <2>3. TypeOK'
    BY <1>1, <2>1, <2>2 DEF TypeOK, ReqTypes, redis
  <2> QED BY <1>1, <1>3, <2>1, <2>2, <2>3, QuietStep
<1>5. ASSUME NEW valid \in BOOLEAN, secret # None,
             wrong' = IF valid THEN wrong ELSE [wrong EXCEPT ![secret] = @ + 1],
             proved' = IF valid THEN [proved EXCEPT ![req[r].user] = @ \cup {secret}] ELSE proved,
             pc' = [pc EXCEPT ![r] = IF valid THEN "findRow" ELSE "incr"],
             req' = [req EXCEPT ![r].secret = secret]
      PROVE  RegInv'
  <2> DEFINE x == [req[r] EXCEPT !.secret = secret]
  <2>1. PICK step \in {"findRow", "incr"} :
           pc' = [pc EXCEPT ![r] = step] /\ (step = "findRow" <=> valid)
    BY <1>5
  <2>2. secret \in Secrets
    BY <1>2, <1>5
  <2>3. x \in Reqs /\ x.user = req[r].user /\ x.token = req[r].token /\ x.secret = secret
        /\ req' = [req EXCEPT ![r] = x]
    BY <1>1, <1>5, <2>2 DEF Reqs
  <2> HIDE DEF x
  <2>4. pc'[r] = step /\ req'[r] = x /\ Others(r) /\ ReqTypes'
    BY <1>1, <2>1, <2>3, Learned DEF Steps
  <2>5. /\ \A e \in Emails : proved[e] \subseteq proved'[e]
        /\ valid => secret \in proved'[req[r].user]
        /\ proved' \in [Emails -> SUBSET Secrets] /\ wrong' \in [Secrets -> Nat]
    BY <1>1, <1>2, <1>5, <2>2 DEF TypeOK
  <2>6. ReqInv(r)'
    BY <1>1, <1>2, <2>1, <2>2, <2>3, <2>4, <2>5 DEF ReqInv, ReqTyped, RowPart, Saving, Setting
  <2>7. TypeOK'
    BY <1>1, <2>4, <2>5 DEF TypeOK, ReqTypes, redis
  <2> QED BY <1>1, <1>3, <2>4, <2>5, <2>6, <2>7, QuietStep
<1> QED BY <1>4, <1>5 DEF ReadPending

-----------------------------------------------------------------------------
(***************************************************************************)
(* The administrator, expiry, and the whole.                               *)
(***************************************************************************)

\* The rows of an account go, and its requests are told.
LEMMA RemoveStep ==
    ASSUME RegInv, NEW e \in Emails, RemoveRows(e)
    PROVE  RegInv'
<1>1. /\ TypeOK /\ rows' = rows \ RowsOf(e) /\ UNCHANGED <<accounts, redis, history, pc>>
      /\ req' = [r \in Requests |-> IF req[r].user = e THEN [req[r] EXCEPT !.reset = TRUE]
                                    ELSE req[r]]
  BY DEF RegInv, RemoveRows
<1>2. RowsInv' /\ SetupInv'
  BY <1>1 DEF RegInv, RowsInv, SecretProven, Unique, SetupInv, redis, history
<1>3. ASSUME NEW q \in Requests
      PROVE  /\ req'[q] \in Reqs /\ req'[q].user = req[q].user /\ req'[q].token = req[q].token
             /\ req'[q].previous = req[q].previous /\ req'[q].secret = req[q].secret
             /\ req'[q].row = req[q].row
             /\ req[q].user = e => req'[q].reset
             /\ req[q].user # e => req'[q] = req[q]
  <2>1. req[q] \in Reqs
    BY <1>1 DEF TypeOK
  <2> QED BY <1>1, <2>1 DEF Reqs
<1>4. TypeOK'
  <2>1. req' \in [Requests -> Reqs]
    BY <1>1, <1>3
  <2> QED BY <1>1, <2>1 DEF TypeOK, redis, history
<1>5. ASSUME NEW q \in Requests PROVE ReqInv(q)'
  <2>1. ReqInv(q) /\ pc'[q] = pc[q] /\ proved' = proved /\ stored' = stored
    BY <1>1 DEF RegInv, history
  <2>2. \A row \in rows : row.user # e => row \in rows'
    BY <1>1 DEF RowsOf
  <2>3. RowPart(q)'
    BY <1>1, <1>3, <2>1, <2>2 DEF ReqInv, RowPart
  <2> QED BY <1>1, <1>3, <2>1, <2>3 DEF ReqInv, ReqTyped
<1> QED BY <1>2, <1>4, <1>5 DEF RegInv

\* What the upsert finds or makes is the only row with the providerId of its user.
LEMMA TotpSetupStep ==
    ASSUME RegInv, NEW e \in Emails, TotpSetup(e)
    PROVE  RegInv'
<1>1. /\ TypeOK /\ e \in accounts
      /\ UNCHANGED <<accounts, redis, known, proved, stored, wrong, faults, pc, req>>
  BY DEF RegInv, TotpSetup
<1>2. PICK s \in Secrets :
         /\ given' = [given EXCEPT ![e] = @ \cup {s}]
         /\ \/ \E row \in rows : /\ row.providerId = e
                                 /\ rows' = (rows \ {row}) \cup {[row EXCEPT !.secret = s]}
            \/ /\ ~Taken(rows, e)
               /\ \E i \in RowIds :
                     /\ FreshRow(i)
                     /\ rows' = rows \cup {[id |-> i, user |-> e, providerId |-> e, secret |-> s]}
  BY DEF TotpSetup
<1>3. SetupInv' /\ s # None /\ e # Blank
  BY <1>1, RegistrationAssumption DEF RegInv, SetupInv, redis
<1>4. /\ given' \in [Emails -> SUBSET Secrets] /\ s \in given'[e]
      /\ \A f \in Emails : given[f] \subseteq given'[f]
  BY <1>1, <1>2 DEF TypeOK
\* The new row, which takes the place of old or is there for the first time.
<1>5. ASSUME NEW new \in Rows, new.user = e, new.providerId = e, new.secret = s,
             NEW gone \in SUBSET rows, rows' = (rows \ gone) \cup {new},
             \A row \in rows \ gone : row.id # new.id /\ row.providerId # e,
             \A row \in gone : row.user = e,
             \A q \in Requests : pc[q] = "update" /\ req[q].row = new.id => req[q].user = e
      PROVE  RegInv'
  <2>1. TypeOK'
    BY <1>1, <1>2, <1>4, <1>5 DEF TypeOK, redis
  <2>2. RowsInv'
    <3>1. SecretProven'
      <4> SUFFICES ASSUME NEW row \in rows', row.secret # None
                   PROVE  row.secret \in proved'[row.user] \cup given'[row.user]
        BY DEF SecretProven
      <4>1. CASE row = new
        BY <1>4, <1>5, <4>1
      <4>2. CASE row \in rows
        <5>1. row.user \in Emails /\ row.secret \in proved[row.user] \cup given[row.user]
          BY <1>1, <4>2 DEF RegInv, RowsInv, SecretProven, TypeOK, Rows
        <5> QED BY <1>1, <1>4, <5>1
      <4> QED BY <1>5, <4>1, <4>2
    <3>2. Unique'
      BY <1>5 DEF RegInv, RowsInv, Unique
    <3> QED BY <1>1, <1>3, <1>5, <3>1, <3>2 DEF RegInv, RowsInv
  <2>3. ASSUME NEW q \in Requests PROVE ReqInv(q)'
    <3>1. pc'[q] = pc[q] /\ req'[q] = req[q] /\ RowPart(q) /\ stored' = stored
      BY <1>1 DEF RegInv, ReqInv
    <3>2. RowPart(q)'
      BY <1>3, <1>5, <3>1 DEF RowPart
    <3> QED BY <1>1, <3>1, <3>2, OtherKept
  <2> QED BY <1>3, <2>1, <2>2, <2>3 DEF RegInv
<1>6. ASSUME NEW row \in rows, row.providerId = e,
             rows' = (rows \ {row}) \cup {[row EXCEPT !.secret = s]}
      PROVE  RegInv'
  <2> DEFINE new == [row EXCEPT !.secret = s]
  <2>1. row \in Rows /\ row.user = e
    BY <1>1, <1>3, <1>6 DEF RegInv, RowsInv, TypeOK
  <2>2. /\ new \in Rows /\ new.id = row.id /\ new.user = e /\ new.providerId = e
        /\ new.secret = s
    BY <1>6, <2>1 DEF Rows
  <2> HIDE DEF new
  <2>3. rows' = (rows \ {row}) \cup {new}
    BY <1>6 DEF new
  <2>4. \A other \in rows \ {row} : other.id # new.id /\ other.providerId # e
    BY <1>6, <2>2 DEF RegInv, RowsInv, Unique
  <2>5. \A q \in Requests : pc[q] = "update" /\ req[q].row = new.id => req[q].user = e
    BY <2>1, <2>2 DEF RegInv, ReqInv, RowPart
  <2> QED BY <1>5, <2>1, <2>2, <2>3, <2>4, <2>5
<1>7. ASSUME NEW i \in RowIds, FreshRow(i), ~Taken(rows, e),
             rows' = rows \cup {[id |-> i, user |-> e, providerId |-> e, secret |-> s]}
      PROVE  RegInv'
  <2> DEFINE new == [id |-> i, user |-> e, providerId |-> e, secret |-> s]
  <2>1. /\ new \in Rows /\ new.id = i /\ new.user = e /\ new.providerId = e
        /\ new.secret = s
    BY DEF Rows
  <2> HIDE DEF new
  <2>2. rows' = (rows \ {}) \cup {new}
    BY <1>7 DEF new
  <2>3. \A other \in rows \ {} : other.id # new.id /\ other.providerId # e
    BY <1>7, <2>1 DEF FreshRow, Taken
  <2>4. \A q \in Requests : pc[q] = "update" /\ req[q].row = new.id => req[q].user = e
    BY <1>7, <2>1 DEF FreshRow
  <2>5. {} \in SUBSET rows /\ \A row \in {} : row.user = e
    OBVIOUS
  <2> QED BY <1>5, <2>1, <2>2, <2>3, <2>4, <2>5
<1> QED BY <1>2, <1>6, <1>7

LEMMA OutsideStep ==
    ASSUME RegInv,
           \/ \E e \in Emails : AdminCreates(e) \/ SendSetupLink(e)
           \/ ExpireKey
    PROVE  RegInv'
<1>1. TypeOK
  BY DEF RegInv
<1>2. ASSUME NEW e \in Emails, AdminCreates(e) PROVE RegInv'
  <2>1. TypeOK' /\ SetupInv'
    BY <1>1, <1>2 DEF AdminCreates, TypeOK, RegInv, SetupInv, redis, history
  <2> QED BY <1>2, <2>1, QuietOutside DEF AdminCreates, history
<1>3. ASSUME NEW e \in Emails, SendSetupLink(e) PROVE RegInv'
  <2>1. TypeOK' /\ SetupInv'
    BY <1>1, <1>3 DEF SendSetupLink, TypeOK, RegInv, SetupInv
  <2> QED BY <1>3, <2>1, QuietOutside DEF SendSetupLink
<1>4. CASE ExpireKey
  <2>1. TypeOK' /\ SetupInv'
    BY <1>1, <1>4 DEF ExpireKey, TypeOK, RegInv, SetupInv, history
  <2> QED BY <1>4, <2>1, QuietOutside DEF ExpireKey, history
<1> QED BY <1>2, <1>3, <1>4

LEMMA RegistrationInit == Init => RegInv
<1> SUFFICES ASSUME Init PROVE RegInv
  OBVIOUS
<1>1. TypeOK
  BY BlankRequest DEF Init, TypeOK, Steps
<1>2. RowsInv /\ SetupInv
  BY DEF Init, RowsInv, SecretProven, Unique, SetupInv
<1>3. \A r \in Requests : ReqInv(r)
  BY DEF Init, ReqInv, ReqTyped, RowPart, Saving, Setting
<1> QED BY <1>1, <1>2, <1>3 DEF RegInv

LEMMA RegistrationStep == RegInv /\ [Next]_vars => RegInv'
<1> SUFFICES ASSUME RegInv, [Next]_vars
             PROVE  RegInv'
  OBVIOUS
<1>1. CASE UNCHANGED vars
  <2>1. UNCHANGED <<accounts, rows, redis, history, pc, req>>
    BY <1>1 DEF vars
  <2>2. TypeOK' /\ SetupInv'
    BY <2>1 DEF RegInv, TypeOK, SetupInv, redis, history
  <2> QED BY <2>1, <2>2, QuietOutside DEF history
<1>2. ASSUME NEW r \in Requests, RequestStep(r) PROVE RegInv'
  BY <1>2, BeginStep, RegisterStep, ReadLatestStep, PutTokenStep, VerifyStep, CreateStep,
     FindRowStep, UpdateStep, CreateRowStep, FallbackStep, SetUpEnds, SetUpGoes, ReadPendingStep
     DEF RequestStep
<1> QED BY <1>1, <1>2, SetUpEnds, RemoveStep, TotpSetupStep, OutsideStep DEF Next, Reset, Erase

\* The invariant on the rows, for any number of addresses and requests.
THEOREM RegistrationInvariant == Spec => []RegInv
<1> QED BY RegistrationInit, RegistrationStep, PTL DEF Spec

\* Every variable keeps its type, whatever overlaps.
THEOREM TypeCorrect == Spec => []TypeOK
<1>1. RegInv => TypeOK
  BY DEF RegInv
<1> QED BY <1>1, RegistrationInvariant, PTL

\* Whatever replaces a pending secret meanwhile, what is stored was proved by its user or
\* given to a session of the user.
THEOREM SecretIsProven == Spec => []SecretProven
<1>1. RegInv => SecretProven
  BY DEF RegInv, RowsInv
<1> QED BY <1>1, RegistrationInvariant, PTL

\* No interleaving of set-ups by a link, set-ups of a session, resets and erasures gives an
\* account two TOTP secrets: who stores one gives the row the providerId of its user, which
\* no two rows share.
THEOREM OneSecretEach == Spec => []OneTotpSecret
<1>1. RegInv => OneTotpSecret
  BY DEF RegInv, RowsInv, Unique, OneTotpSecret
<1> QED BY <1>1, RegistrationInvariant, PTL

\* A success that totpSetupVerify reports is one.
THEOREM SuccessIsTrue == Spec => SuccessMeansSecret
<1>1. RegInv => [\A r \in Requests : Succeeds(r) =>
                    \/ req[r].reset
                    \/ req[r].secret \in stored /\ \E row \in RowsOf(req[r].user) : row.secret # None]_vars
  BY DEF RegInv, ReqInv, RowPart, Succeeds, RowsOf
<1> QED BY <1>1, RegistrationInvariant, PTL DEF Spec, SuccessMeansSecret


-----------------------------------------------------------------------------
(***************************************************************************)
(* Counting the requests at a step.                                        *)
(***************************************************************************)
N == Cardinality(Requests)

LEMMA Part ==
    ASSUME NEW S \in SUBSET Requests
    PROVE  IsFiniteSet(S) /\ Cardinality(S) \in Nat /\ N \in Nat /\ Cardinality(S) <= N
  BY RegistrationAssumption, FS_Subset, FS_CardinalityType DEF N

\* Only r has moved.
LEMMA Recount ==
    ASSUME NEW r \in Requests, NEW S \in SUBSET Requests, NEW T \in SUBSET Requests,
           S \ {r} = T \ {r}
    PROVE  /\ Cardinality(S) \in Nat /\ Cardinality(T) \in Nat
           /\ Cardinality(T) + (IF r \in S THEN 1 ELSE 0) = Cardinality(S) + (IF r \in T THEN 1 ELSE 0)
<1>1. IsFiniteSet(S) /\ IsFiniteSet(T) /\ Cardinality(S) \in Nat /\ Cardinality(T) \in Nat
  BY Part
<1>2. Cardinality(S \ {r}) = IF r \in S THEN Cardinality(S) - 1 ELSE Cardinality(S)
  BY <1>1, FS_RemoveElement
<1>3. Cardinality(T \ {r}) = IF r \in T THEN Cardinality(T) - 1 ELSE Cardinality(T)
  BY <1>1, FS_RemoveElement
<1> QED BY <1>1, <1>2, <1>3

LEMMA Apart ==
    ASSUME NEW S \in SUBSET Requests, NEW T \in SUBSET Requests, NEW U \in SUBSET Requests,
           S \cap T = {}, (S \cup T) \cap U = {}
    PROVE  Cardinality(S) + Cardinality(T) + Cardinality(U) <= N
<1>1. IsFiniteSet(S) /\ IsFiniteSet(T) /\ IsFiniteSet(U) /\ IsFiniteSet(S \cup T)
  BY Part
<1>2. /\ Cardinality(S) \in Nat /\ Cardinality(T) \in Nat /\ Cardinality(U) \in Nat
      /\ Cardinality(S \cup T) \in Nat /\ Cardinality((S \cup T) \cup U) <= N
      /\ N \in Nat
  BY Part
<1>3. Cardinality(S \cup T) = Cardinality(S) + Cardinality(T) - Cardinality(S \cap T)
  BY <1>1, FS_Union
<1>4. Cardinality((S \cup T) \cup U)
        = Cardinality(S \cup T) + Cardinality(U) - Cardinality((S \cup T) \cap U)
  BY <1>1, FS_Union
<1>5. Cardinality({}) = 0
  BY FS_EmptySet
<1> QED BY <1>2, <1>3, <1>4, <1>5

-----------------------------------------------------------------------------
(***************************************************************************)
(* The counter of registrations: a request that was let through has not    *)
(* counted yet.                                                            *)
(***************************************************************************)
Counting(e) == {r \in Requests : pc[r] = "count" /\ req[r].user = e}
RateInv == \A e \in Emails : rate[e] + Cardinality(Counting(e)) <= MaxRate - 1 + N

\* Fewer are about to count, and the counter is not higher.
LEMMA RateKept ==
    ASSUME TypeOK, TypeOK', RateInv, \A e \in Emails : rate'[e] <= rate[e],
           \A q \in Requests : pc'[q] = "count" =>
              pc[q] = "count" /\ req'[q].user = req[q].user
    PROVE  RateInv'
<1> SUFFICES ASSUME NEW e \in Emails
             PROVE  (rate[e] + Cardinality(Counting(e)))' <= MaxRate - 1 + N
  BY DEF RateInv, N
<1>1. Counting(e)' \in SUBSET Counting(e) /\ Counting(e) \in SUBSET Requests
  BY DEF Counting
<1>2. Cardinality(Counting(e)') <= Cardinality(Counting(e)) /\ Cardinality(Counting(e)) \in Nat
      /\ Cardinality(Counting(e)') \in Nat /\ N \in Nat
  BY <1>1, Part, FS_Subset
<1>3. rate[e] \in Nat /\ rate'[e] \in Nat /\ rate'[e] <= rate[e] /\ MaxRate \in Nat
  BY RegistrationAssumption DEF TypeOK
<1>4. rate[e] + Cardinality(Counting(e)) <= MaxRate - 1 + N
  BY DEF RateInv
<1>5. Cardinality(Counting(e))' = Cardinality(Counting(e)')
  OBVIOUS
<1> QED BY <1>2, <1>3, <1>4, <1>5

LEMMA RateCounts ==
    ASSUME TypeOK, TypeOK', RateInv, NEW r \in Requests, ReadRate(r) \/ Count(r),
           ReqTyped(r)
    PROVE  RateInv'
<1> SUFFICES ASSUME NEW e \in Emails
             PROVE  (rate[e] + Cardinality(Counting(e)))' <= MaxRate - 1 + N
  BY DEF RateInv, N
<1>1. /\ Counting(e) \in SUBSET Requests /\ Counting(e)' \in SUBSET Requests
      /\ Counting(e) \ {r} = Counting(e)' \ {r}
  BY DEF Counting, ReadRate, Count, Goto, Answer, TypeOK
<1>2. /\ Cardinality(Counting(e)) \in Nat /\ Cardinality(Counting(e)') \in Nat /\ N \in Nat
      /\ Cardinality(Counting(e)') <= N /\ Cardinality(Counting(e))' = Cardinality(Counting(e)')
      /\ Cardinality(Counting(e)') + (IF r \in Counting(e) THEN 1 ELSE 0)
           = Cardinality(Counting(e)) + (IF r \in Counting(e)' THEN 1 ELSE 0)
  BY <1>1, Part, Recount
<1>3. /\ rate[e] \in Nat /\ MaxRate \in Nat
      /\ rate[e] + Cardinality(Counting(e)) <= MaxRate - 1 + N
  BY RegistrationAssumption DEF TypeOK, RateInv
<1>4. CASE ReadRate(r)
  <2>1. rate' = rate
    BY <1>4 DEF ReadRate, redis
  <2>2. r \in Counting(e)' => rate[e] < MaxRate
    <3>1. r \in Counting(e)' => Goto(r, "count")
      BY <1>4 DEF ReadRate, Counting, Answer, TypeOK
    <3>2. Goto(r, "count") => req' = req
      BY DEF Goto
    <3>3. Goto(r, "count") => ~(rate[req[r].user] >= MaxRate)
      BY <1>4 DEF ReadRate, Goto, Answer, TypeOK, NoRequest, ReqTyped
    <3> QED BY <1>3, <3>1, <3>2, <3>3 DEF Counting
  <2>3. r \notin Counting(e)
    BY <1>4 DEF ReadRate, Counting
  <2>4. CASE r \in Counting(e)'
    BY <1>2, <1>3, <2>1, <2>2, <2>4
  <2>5. CASE r \notin Counting(e)'
    BY <1>2, <1>3, <2>1, <2>3, <2>5
  <2> QED BY <2>4, <2>5
<1>5. CASE Count(r)
  <2>1. r \notin Counting(e)'
    BY <1>5 DEF Count, Counting, Goto, TypeOK
  <2>2. CASE req[r].user = e
    <3>1. r \in Counting(e) /\ rate'[e] = rate[e] + 1
      BY <1>5, <2>2 DEF Count, Counting, TypeOK
    <3> QED BY <1>2, <1>3, <2>1, <3>1
  <2>3. CASE req[r].user # e
    <3>1. r \notin Counting(e) /\ rate'[e] = rate[e]
      BY <1>5, <2>3 DEF Count, Counting, TypeOK
    <3> QED BY <1>2, <1>3, <2>1, <3>1
  <2> QED BY <2>2, <2>3
<1> QED BY <1>4, <1>5

\* Every step but the two above.
LEMMA RateOther ==
    ASSUME TypeOK, TypeOK', RateInv, [Next]_vars,
           \A r \in Requests : ~ReadRate(r) /\ ~Count(r)
    PROVE  RateInv'
<1> DEFINE Fewer == \A q \in Requests : pc'[q] = "count" =>
                       pc[q] = "count" /\ req'[q].user = req[q].user
           Lower == \A e \in Emails : rate'[e] <= rate[e]
<1>1. rate' = rate => Lower
  BY DEF TypeOK
<1>2. UNCHANGED <<pc, req>> => Fewer
  OBVIOUS
<1>3. CASE UNCHANGED vars
  BY <1>1, <1>2, <1>3, RateKept DEF vars, redis
<1>4. ASSUME NEW r \in Requests, RequestStep(r) \/ Fail(r) PROVE RateInv'
  <2>1. rate' = rate /\ Fewer
    <3>1. CASE \/ Register(r) \/ VerifyEmail(r) \/ TotpSetupInit(r) \/ TotpSetupVerify(r)
      BY <3>1 DEF Register, VerifyEmail, TotpSetupInit, TotpSetupVerify, Begin, redis, TypeOK
    <3>2. CASE \/ ReadLatest(r) \/ DropPrevious(r) \/ PutToken(r) \/ PutLatest(r) \/ Mail(r)
      BY <3>2 DEF ReadLatest, DropPrevious, PutToken, PutLatest, Mail, Goto, Answer, redis, TypeOK
    <3>3. CASE \/ DropVerify(r) \/ CheckUser(r) \/ Create(r) \/ PutSetup(r) \/ Fail(r)
      BY <3>3 DEF DropVerify, CheckUser, Create, PutSetup, Fail, Goto, Answer, redis, TypeOK
    <3>4. CASE \/ PutPending(r) \/ ReadAttempts(r) \/ GiveUp(r) \/ Incr(r)
               \/ ExpireAttempts(r) \/ Clean(r)
      BY <3>4 DEF PutPending, ReadAttempts, GiveUp, Incr, ExpireAttempts, Clean, DropSetup,
                  Goto, Answer, redis, TypeOK
    <3>5. CASE ReadPending(r)
      BY <3>5 DEF ReadPending, Answer, redis, TypeOK
    <3>6. CASE FindRow(r) \/ Update(r) \/ CreateRow(r) \/ Fallback(r)
      BY <3>6 DEF FindRow, Update, CreateRow, Fallback, Goto, Answer, redis, TypeOK
    <3> QED BY <1>4, <3>1, <3>2, <3>3, <3>4, <3>5, <3>6 DEF RequestStep
  <2> QED BY <1>1, <2>1, RateKept
<1>5. ASSUME NEW e \in Emails, AdminCreates(e) \/ SendSetupLink(e) \/ TotpSetup(e)
      PROVE  RateInv'
  BY <1>1, <1>2, <1>5, RateKept DEF AdminCreates, SendSetupLink, TotpSetup, redis
<1>6. ASSUME NEW e \in Emails, RemoveRows(e) PROVE RateInv'
  <2>1. Fewer
    BY <1>6 DEF RemoveRows, TypeOK, Reqs
  <2> QED BY <1>1, <1>6, <2>1, RateKept DEF RemoveRows, redis
<1>7. CASE ExpireKey
  <2>1. Lower /\ UNCHANGED <<pc, req>>
    BY <1>7 DEF ExpireKey, TypeOK
  <2> QED BY <1>2, <2>1, RateKept
<1> QED BY <1>3, <1>4, <1>5, <1>6, <1>7 DEF Next, Reset, Erase

LEMMA RateInit == Init => RateInv
<1> SUFFICES ASSUME Init, NEW e \in Emails
             PROVE  rate[e] + Cardinality(Counting(e)) <= MaxRate - 1 + N
  BY DEF RateInv
<1>1. Counting(e) = {} /\ Counting(e) \in SUBSET Requests
  BY DEF Init, Counting
<1> QED BY <1>1, Part, FS_EmptySet, RegistrationAssumption DEF Init

LEMMA RateStep == RegInv /\ RegInv' /\ RateInv /\ [Next]_vars => RateInv'
<1>1. ASSUME RegInv, RegInv', RateInv, NEW r \in Requests, ReadRate(r) \/ Count(r)
      PROVE  RateInv'
  BY <1>1, RateCounts DEF RegInv, ReqInv
<1> QED BY <1>1, RateOther DEF RegInv

\* Overlapping registrations pass the limit by their number at most.
THEOREM RateIsBounded == Spec => []RateBounded
<1>1. RateInv /\ RegInv => RateBounded
  <2> SUFFICES ASSUME RateInv, RegInv, NEW e \in Emails
               PROVE  rate[e] <= MaxRate - 1 + N
    BY DEF RateBounded, N
  <2>1. Counting(e) \in SUBSET Requests
    BY DEF Counting
  <2> QED BY <2>1, Part, RegistrationAssumption DEF RateInv, RegInv, TypeOK
<1> QED BY <1>1, RegistrationInvariant, RateInit, RateStep, PTL DEF Spec

-----------------------------------------------------------------------------
(***************************************************************************)
(* The counter of the tries.  Wrong codes for the secret that is pending   *)
(* are counted already, or their requests are about to count, or these     *)
(* have failed; a counter that may go before the secret does so once, when *)
(* no request has renewed its TTL since the secret was drawn.              *)
(***************************************************************************)
Trial == {"readPending", "incr", "expire"}
Doing(step, e)  == {r \in Requests : pc[r] = step /\ req[r].user = e}
Trying(step, e) == {r \in Doing(step, e) : req[r].secret = pending[e]}
MostTries == MaxTries - 1 + 2 * N + faults

TriesOf(e) == pending[e] # None =>
    /\ ttl[e] = "sooner" =>
          wrong[pending[e]] <= Cardinality(Trying("incr", e)) + Cardinality(Trying("expire", e)) + faults
    /\ ttl[e] # "sooner" =>
          wrong[pending[e]] <= attempts[e] + Cardinality(Trying("incr", e)) + N + faults
    /\ wrong[pending[e]] + Cardinality(Doing("readPending", e)) <= MostTries

CounterThere == \A e \in Emails : ttl[e] # "never" => attempts[e] > 0
OneOwner     == \A e, f \in Emails : pending[e] = pending[f] /\ pending[e] # None => e = f
TriesInv ==
    /\ CounterThere /\ OneOwner
    /\ \A e \in Emails : TriesOf(e)
    /\ \A s \in Secrets : wrong[s] <= MostTries

LEMMA Numbers ==
    ASSUME TypeOK, NEW e \in Emails
    PROVE  /\ \A step \in Trial : /\ Doing(step, e) \in SUBSET Requests
                                  /\ Trying(step, e) \in SUBSET Requests
                                  /\ Cardinality(Doing(step, e)) \in Nat
                                  /\ Cardinality(Trying(step, e)) \in Nat
           /\ N \in Nat /\ MaxTries \in Nat \ {0} /\ faults \in Nat /\ MostTries \in Nat
           /\ attempts[e] \in Nat /\ \A s \in Secrets : wrong[s] \in Nat
           /\ pending[e] \in Secrets \cup {None} /\ ttl[e] \in {"never", "later", "sooner"}
<1>1. ASSUME NEW step \in Trial
      PROVE  Doing(step, e) \in SUBSET Requests /\ Trying(step, e) \in SUBSET Requests
  BY DEF Doing, Trying
<1>2. N \in Nat
  BY RegistrationAssumption, FS_CardinalityType DEF N
<1> QED BY <1>1, <1>2, Part, RegistrationAssumption DEF TypeOK, MostTries

\* The requests at their tries stay where they are, what is pending is what was or nothing.
Aside == \A q \in Requests : pc[q] \in Trial \/ pc'[q] \in Trial =>
            pc'[q] = pc[q] /\ req'[q].user = req[q].user /\ req'[q].secret = req[q].secret
LEMMA TriesKept ==
    ASSUME TypeOK, TypeOK', TriesInv, Aside, UNCHANGED <<wrong, faults>>, CounterThere',
           \A e \in Emails : \/ pending'[e] = None
                             \/ UNCHANGED <<pending[e], attempts[e], ttl[e]>>
    PROVE  TriesInv'
<1>1. OneOwner'
  BY DEF TriesInv, OneOwner
<1>2. MostTries' = MostTries
  BY DEF MostTries, N
<1>3. ASSUME NEW e \in Emails, pending'[e] # None PROVE TriesOf(e)'
  <2>1. UNCHANGED <<pending[e], attempts[e], ttl[e]>>
    BY <1>3
  <2>2. \A step \in Trial : Doing(step, e)' = Doing(step, e) /\ Trying(step, e)' = Trying(step, e)
    BY <2>1 DEF Aside, Doing, Trying
  <2>3. TriesOf(e) /\ N' = N
    BY DEF TriesInv, N
  <2> QED BY <1>2, <2>1, <2>2, <2>3 DEF TriesOf, Trial
<1> QED BY <1>1, <1>2, <1>3 DEF TriesInv, TriesOf

\* Only r moves, and nothing becomes pending.
LEMMA Retried ==
    ASSUME TypeOK, TypeOK', NEW r \in Requests, Others(r), NEW e \in Emails, pending' = pending,
           NEW step \in Trial
    PROVE  /\ Cardinality(Trying(step, e))' \in Nat /\ Cardinality(Doing(step, e))' \in Nat
           /\ Cardinality(Trying(step, e))' + (IF r \in Trying(step, e) THEN 1 ELSE 0)
                = Cardinality(Trying(step, e)) + (IF r \in Trying(step, e)' THEN 1 ELSE 0)
           /\ Cardinality(Doing(step, e))' + (IF r \in Doing(step, e) THEN 1 ELSE 0)
                = Cardinality(Doing(step, e)) + (IF r \in Doing(step, e)' THEN 1 ELSE 0)
<1>1. /\ Doing(step, e) \in SUBSET Requests /\ Doing(step, e)' \in SUBSET Requests
      /\ Trying(step, e) \in SUBSET Requests /\ Trying(step, e)' \in SUBSET Requests
  BY DEF Doing, Trying
<1>2. Doing(step, e) \ {r} = Doing(step, e)' \ {r} /\ Trying(step, e) \ {r} = Trying(step, e)' \ {r}
  BY DEF Others, Doing, Trying
<1>3. Cardinality(Trying(step, e))' = Cardinality(Trying(step, e)')
      /\ Cardinality(Doing(step, e))' = Cardinality(Doing(step, e)')
  OBVIOUS
<1> QED BY <1>1, <1>2, <1>3, Recount

\* A request is let in while the counter is below the limit.
LEMMA ReadAttemptsTries ==
    ASSUME TypeOK, TypeOK', TriesInv, NEW r \in Requests, ReadAttempts(r), ReqTyped(r)
    PROVE  TriesInv'
<1>1. /\ pc[r] = "readAttempts" /\ UNCHANGED <<accounts, rows, redis, history>> /\ req' = req
      /\ Others(r) /\ req[r].user \in Emails
      /\ \/ pc'[r] = "giveUp"
         \/ pc'[r] = "readPending" /\ ~(attempts[req[r].user] >= MaxTries)
  BY DEF ReadAttempts, Goto, TypeOK, Others, ReqTyped
<1>2. CounterThere' /\ OneOwner' /\ MostTries' = MostTries /\ N' = N
  BY <1>1 DEF TriesInv, CounterThere, OneOwner, redis, history, MostTries, N
<1>3. ASSUME NEW e \in Emails, pending'[e] # None PROVE TriesOf(e)'
  <2>1. UNCHANGED <<pending, attempts, ttl, wrong, faults>>
    BY <1>1 DEF redis, history
  <2>2. r \notin Trying("incr", e) /\ r \notin Trying("incr", e)' /\ r \notin Trying("expire", e)
        /\ r \notin Trying("expire", e)' /\ r \notin Doing("readPending", e)
    BY <1>1 DEF Doing, Trying
  <2>3. /\ Cardinality(Trying("incr", e))' = Cardinality(Trying("incr", e))
        /\ Cardinality(Trying("expire", e))' = Cardinality(Trying("expire", e))
    BY <1>1, <2>1, <2>2, Retried, Numbers DEF Trial
  <2>4. TriesOf(e)
    BY DEF TriesInv
  <2>5. CASE r \notin Doing("readPending", e)'
    <3>1. Cardinality(Doing("readPending", e))' = Cardinality(Doing("readPending", e))
      BY <1>1, <2>1, <2>2, <2>5, Retried, Numbers DEF Trial
    <3> QED BY <1>2, <2>1, <2>3, <2>4, <3>1 DEF TriesOf
  <2>6. CASE r \in Doing("readPending", e)'
    <3>1. attempts[e] < MaxTries
      BY <1>1, <2>6, Numbers DEF Doing
    <3> DEFINE I == Cardinality(Trying("incr", e))  X == Cardinality(Trying("expire", e))
               P == Cardinality(Doing("readPending", e)')
    <3>2. I + X + P <= N /\ P \in Nat
      <4>1. Doing("readPending", e)' \in SUBSET Requests
        BY DEF Doing
      <4>2. Trying("incr", e) \cap Trying("expire", e) = {}
        BY DEF Doing, Trying
      <4>3. (Trying("incr", e) \cup Trying("expire", e)) \cap Doing("readPending", e)' = {}
        BY <1>1 DEF Doing, Trying, Others
      <4> QED BY <4>1, <4>2, <4>3, Apart, Numbers, Part DEF Trial
    <3>3. /\ I \in Nat /\ X \in Nat /\ N \in Nat /\ MaxTries \in Nat \ {0} /\ faults \in Nat
          /\ attempts[e] \in Nat /\ wrong[pending[e]] \in Nat
      BY <1>3, <2>1, Numbers DEF Trial
    <3>4. /\ ttl[e] = "sooner" => wrong[pending[e]] <= I + X + faults
          /\ ttl[e] # "sooner" => wrong[pending[e]] <= attempts[e] + I + N + faults
      BY <1>3, <2>1, <2>4 DEF TriesOf
    <3> HIDE DEF I, X, P
    <3>5. wrong[pending[e]] + P <= MaxTries - 1 + 2 * N + faults
      BY <3>1, <3>2, <3>3, <3>4
    <3>6. wrong[pending[e]] + P <= MostTries
      BY <3>5 DEF MostTries
    <3>7. (wrong[pending[e]] + Cardinality(Doing("readPending", e)))' <= MostTries'
      BY <1>2, <2>1, <3>6 DEF P
    <3> QED BY <1>2, <2>1, <2>3, <2>4, <3>7 DEF TriesOf
  <2> QED BY <2>5, <2>6
<1> QED BY <1>1, <1>2, <1>3 DEF TriesInv, TriesOf, history

\* A wrong code: the request that has given it is about to count it.
LEMMA ReadPendingTries ==
    ASSUME TypeOK, TypeOK', TriesInv, NEW r \in Requests, ReadPending(r), ReqTyped(r)
    PROVE  TriesInv'
<1> DEFINE u == req[r].user
<1>1. /\ pc[r] = "readPending" /\ u \in Emails /\ r \in Doing("readPending", u)
      /\ UNCHANGED <<pending, attempts, ttl, faults>>
  BY DEF ReadPending, ReqTyped, Doing, redis
<1>2. CounterThere' /\ OneOwner' /\ MostTries' = MostTries /\ N' = N
  BY <1>1 DEF TriesInv, CounterThere, OneOwner, MostTries, N
<1>3. CASE Answer(r) \/ (pc' = [pc EXCEPT ![r] = "findRow"]
                         /\ req' = [req EXCEPT ![r].secret = pending[u]])
  <2>1. Others(r) /\ pc'[r] \notin Trial
    BY <1>3 DEF Answer, Others, TypeOK, Trial
  <2>2. wrong' = wrong
    BY <1>3 DEF ReadPending, Answer, TypeOK
  <2>3. ASSUME NEW e \in Emails, pending'[e] # None PROVE TriesOf(e)'
    <3>1. /\ r \notin Trying("incr", e) /\ r \notin Trying("incr", e)'
          /\ r \notin Trying("expire", e) /\ r \notin Trying("expire", e)'
          /\ r \notin Doing("readPending", e)'
      BY <1>1, <2>1 DEF Doing, Trying, Trial
    <3>2. /\ Cardinality(Trying("incr", e))' = Cardinality(Trying("incr", e))
          /\ Cardinality(Trying("expire", e))' = Cardinality(Trying("expire", e))
          /\ Cardinality(Doing("readPending", e))' <= Cardinality(Doing("readPending", e))
          /\ Cardinality(Doing("readPending", e))' \in Nat
      BY <1>1, <2>1, <3>1, Retried, Numbers DEF Trial
    <3>3. wrong[pending[e]] \in Nat /\ Cardinality(Doing("readPending", e)) \in Nat /\ MostTries \in Nat
      BY <1>1, <2>3, Numbers DEF Trial
    <3>4. TriesOf(e) /\ pending[e] # None
      BY <1>1, <2>3 DEF TriesInv
    <3>5. wrong[pending[e]] + Cardinality(Doing("readPending", e))' <= MostTries
      BY <3>2, <3>3, <3>4 DEF TriesOf
    <3> QED BY <1>1, <1>2, <2>2, <3>2, <3>4, <3>5 DEF TriesOf
  <2> QED BY <1>2, <2>2, <2>3 DEF TriesInv, TriesOf
<1>4. ASSUME pending[u] # None, wrong' = [wrong EXCEPT ![pending[u]] = @ + 1],
             pc' = [pc EXCEPT ![r] = "incr"], req' = [req EXCEPT ![r].secret = pending[u]]
      PROVE  TriesInv'
  <2>1. /\ Others(r) /\ pc'[r] = "incr" /\ req'[r].user = u /\ req'[r].secret = pending[u]
    BY <1>4 DEF Others, TypeOK, Reqs
  <2>2. /\ pending[u] \in Secrets /\ wrong[pending[u]] \in Nat
        /\ wrong'[pending[u]] = wrong[pending[u]] + 1
        /\ \A s \in Secrets \ {pending[u]} : wrong'[s] = wrong[s]
    BY <1>1, <1>4, Numbers DEF TypeOK
  <2>3. wrong[pending[u]] + 1 <= MostTries
    <3>1. /\ wrong[pending[u]] + Cardinality(Doing("readPending", u)) <= MostTries
          /\ IsFiniteSet(Doing("readPending", u)) /\ MostTries \in Nat
          /\ Cardinality(Doing("readPending", u)) \in Nat
      BY <1>1, <1>4, Numbers, Part DEF TriesInv, TriesOf, Trial
    <3>2. Cardinality(Doing("readPending", u)) # 0
      BY <1>1, <3>1, FS_EmptySet
    <3> QED BY <2>2, <3>1, <3>2
  <2>4. ASSUME NEW e \in Emails, pending'[e] # None PROVE TriesOf(e)'
    <3>1. TriesOf(e) /\ pending[e] # None /\ pending[e] \in Secrets
      BY <1>1, <2>4, Numbers DEF TriesInv
    <3>2. /\ r \notin Trying("incr", e)
          /\ r \notin Trying("expire", e) /\ r \notin Trying("expire", e)'
          /\ r \notin Doing("readPending", e)'
      BY <1>1, <2>1 DEF Doing, Trying
    <3> DEFINE I == Cardinality(Trying("incr", e))         I1 == Cardinality(Trying("incr", e))'
               X == Cardinality(Trying("expire", e))       X1 == Cardinality(Trying("expire", e))'
               P == Cardinality(Doing("readPending", e))   P1 == Cardinality(Doing("readPending", e))'
    <3>3. /\ I \in Nat /\ X \in Nat /\ P \in Nat /\ N \in Nat /\ faults \in Nat /\ MostTries \in Nat
          /\ attempts[e] \in Nat /\ wrong[pending[e]] \in Nat
      BY <3>1, Numbers DEF Trial
    <3>4. /\ I1 \in Nat /\ P1 \in Nat /\ X1 = X
          /\ I1 = I + (IF r \in Trying("incr", e)' THEN 1 ELSE 0)
          /\ P1 + (IF r \in Doing("readPending", e) THEN 1 ELSE 0) = P
      BY <1>1, <2>1, <3>2, <3>3, Retried DEF Trial
    <3>5. /\ ttl[e] = "sooner" => wrong[pending[e]] <= I + X + faults
          /\ ttl[e] # "sooner" => wrong[pending[e]] <= attempts[e] + I + N + faults
          /\ wrong[pending[e]] + P <= MostTries
      BY <3>1 DEF TriesOf
    <3>6. \/ /\ e = u /\ wrong'[pending[e]] = wrong[pending[e]] + 1
             /\ r \in Trying("incr", e)' /\ r \in Doing("readPending", e)
          \/ /\ e # u /\ wrong'[pending[e]] = wrong[pending[e]]
             /\ r \notin Trying("incr", e)' /\ r \notin Doing("readPending", e)
      <4>1. CASE e = u
        BY <1>1, <2>1, <2>2, <4>1 DEF Doing, Trying
      <4>2. CASE e # u
        <5>1. pending[e] # pending[u]
          BY <1>1, <3>1, <4>2 DEF TriesInv, OneOwner
        <5> QED BY <2>1, <2>2, <3>1, <4>2, <5>1 DEF Doing, Trying
      <4> QED BY <4>1, <4>2
    <3> HIDE DEF I, X, P, I1, X1, P1
    <3>7. /\ ttl[e] = "sooner" => wrong'[pending[e]] <= I1 + X1 + faults
          /\ ttl[e] # "sooner" => wrong'[pending[e]] <= attempts[e] + I1 + N + faults
          /\ wrong'[pending[e]] + P1 <= MostTries
      BY <3>3, <3>4, <3>5, <3>6
    <3> QED BY <1>1, <1>2, <3>7 DEF TriesOf, I1, X1, P1
  <2> QED BY <1>2, <2>2, <2>3, <2>4 DEF TriesInv, TriesOf
<1>5. \/ Answer(r)
      \/ pc' = [pc EXCEPT ![r] = "findRow"] /\ req' = [req EXCEPT ![r].secret = pending[u]]
      \/ /\ pending[u] # None /\ wrong' = [wrong EXCEPT ![pending[u]] = @ + 1]
         /\ pc' = [pc EXCEPT ![r] = "incr"] /\ req' = [req EXCEPT ![r].secret = pending[u]]
  BY DEF ReadPending
<1> QED BY <1>3, <1>4, <1>5

\* INCR counts what was about to count; EXPIRE ends the danger; a failure is counted as one.
LEMMA CountTries ==
    ASSUME TypeOK, TypeOK', TriesInv, NEW r \in Requests,
           Incr(r) \/ ExpireAttempts(r) \/ Fail(r), ReqTyped(r)
    PROVE  TriesInv'
<1> DEFINE u == req[r].user
<1>1. /\ u \in Emails /\ pending' = pending /\ wrong' = wrong /\ Others(r)
      /\ faults' \in {faults, faults + 1}
  BY DEF Incr, ExpireAttempts, Fail, ReqTyped, Goto, Answer, Others, TypeOK, redis, history
<1>2. OneOwner' /\ N' = N
  BY <1>1 DEF TriesInv, OneOwner, N
<1>3. \A e \in Emails : /\ attempts[e] \in Nat /\ attempts'[e] \in Nat
                        /\ ttl'[e] \in {"never", "later", "sooner"}
  BY DEF TypeOK
<1>4. CounterThere'
  BY <1>1, <1>3 DEF Incr, ExpireAttempts, Fail, TriesInv, CounterThere, TypeOK, redis, history
<1>5. MostTries' = MostTries + (faults' - faults) /\ faults \in Nat /\ MostTries \in Nat
  BY <1>1, <1>2, Numbers DEF MostTries
<1>6. ASSUME NEW e \in Emails, pending'[e] # None PROVE TriesOf(e)'
  <2>1. TriesOf(e) /\ pending[e] # None /\ pending[e] \in Secrets
    BY <1>1, <1>6, Numbers DEF TriesInv
  <2> DEFINE I == Cardinality(Trying("incr", e))         I1 == Cardinality(Trying("incr", e))'
             X == Cardinality(Trying("expire", e))       X1 == Cardinality(Trying("expire", e))'
             P == Cardinality(Doing("readPending", e))   P1 == Cardinality(Doing("readPending", e))'
             here == IF r \in Trying("incr", e) THEN 1 ELSE 0
             gone == IF r \in Trying("expire", e) THEN 1 ELSE 0
  <2>2. /\ I \in Nat /\ X \in Nat /\ P \in Nat /\ N \in Nat /\ wrong[pending[e]] \in Nat
        /\ I + X <= N /\ ttl[e] \in {"never", "later", "sooner"}
    <3>1. /\ Trying("incr", e) \in SUBSET Requests /\ Trying("expire", e) \in SUBSET Requests
          /\ Trying("incr", e) \cap Trying("expire", e) = {}
      BY DEF Trying, Doing
    <3>2. I + X + Cardinality({}) <= N
      BY <3>1, Apart
    <3> QED BY <2>1, <3>2, FS_EmptySet, Numbers DEF Trial
  <2>3. /\ I1 \in Nat /\ X1 \in Nat /\ P1 \in Nat
        /\ I1 + here = I + (IF r \in Trying("incr", e)' THEN 1 ELSE 0)
        /\ X1 + gone = X + (IF r \in Trying("expire", e)' THEN 1 ELSE 0)
        /\ P1 + (IF r \in Doing("readPending", e) THEN 1 ELSE 0)
              = P + (IF r \in Doing("readPending", e)' THEN 1 ELSE 0)
    BY <1>1, Retried DEF Trial
  <2>4. /\ ttl[e] = "sooner" => wrong[pending[e]] <= I + X + faults
        /\ ttl[e] # "sooner" => wrong[pending[e]] <= attempts[e] + I + N + faults
        /\ wrong[pending[e]] + P <= MostTries
    BY <2>1 DEF TriesOf
  <2>5. r \notin Doing("readPending", e)' /\ r \notin Trying("incr", e)'
    BY DEF Incr, ExpireAttempts, Fail, Goto, Answer, TypeOK, Doing, Trying
  <2>6. CASE Incr(r)
    <3>1. /\ ttl' = ttl /\ faults' = faults /\ gone = 0
          /\ attempts'[e] >= attempts[e] /\ (here = 1 => attempts'[e] = attempts[e] + 1)
          /\ (here = 1 => r \in Trying("expire", e)')
      BY <1>1, <1>3, <2>6 DEF Incr, Goto, TypeOK, Doing, Trying, history
    <3>2. here \in {0, 1}
      OBVIOUS
    <3> HIDE DEF I, X, P, I1, X1, P1, here, gone
    <3>3. /\ ttl'[e] = "sooner" => wrong[pending[e]] <= I1 + X1 + faults'
          /\ ttl'[e] # "sooner" => wrong[pending[e]] <= attempts'[e] + I1 + N + faults'
          /\ wrong[pending[e]] + P1 <= MostTries'
      BY <1>3, <1>5, <2>2, <2>3, <2>4, <2>5, <3>1, <3>2
    <3> QED BY <1>1, <1>2, <3>3 DEF TriesOf, I1, X1, P1
  <2>7. CASE ExpireAttempts(r)
    <3>1. /\ attempts' = attempts /\ faults' = faults /\ here = 0
          /\ e # u => gone = 0 /\ ttl'[e] = ttl[e]
          /\ e = u => ttl'[e] = IF attempts[e] > 0 THEN "later" ELSE ttl[e]
          /\ r \notin Trying("expire", e)'
      BY <1>1, <2>7 DEF ExpireAttempts, Answer, TypeOK, Doing, Trying, history
    <3>2. gone \in {0, 1} /\ (ttl[e] = "sooner" => attempts[e] > 0)
      BY DEF TriesInv, CounterThere
    <3> HIDE DEF I, X, P, I1, X1, P1, here, gone
    <3>3. /\ ttl'[e] = "sooner" => wrong[pending[e]] <= I1 + X1 + faults'
          /\ ttl'[e] # "sooner" => wrong[pending[e]] <= attempts'[e] + I1 + N + faults'
          /\ wrong[pending[e]] + P1 <= MostTries'
      BY <1>3, <1>5, <2>2, <2>3, <2>4, <2>5, <3>1, <3>2
    <3> QED BY <1>1, <1>2, <3>3 DEF TriesOf, I1, X1, P1
  <2>8. CASE Fail(r)
    <3>1. /\ attempts' = attempts /\ ttl' = ttl /\ faults' = faults + 1
          /\ r \notin Trying("expire", e)' /\ here + gone \in {0, 1} /\ here \in {0, 1} /\ gone \in {0, 1}
      BY <1>1, <2>8 DEF Fail, Answer, TypeOK, Doing, Trying, redis
    <3> HIDE DEF I, X, P, I1, X1, P1, here, gone
    <3>3. /\ ttl'[e] = "sooner" => wrong[pending[e]] <= I1 + X1 + faults'
          /\ ttl'[e] # "sooner" => wrong[pending[e]] <= attempts'[e] + I1 + N + faults'
          /\ wrong[pending[e]] + P1 <= MostTries'
      BY <1>3, <1>5, <2>2, <2>3, <2>4, <2>5, <3>1
    <3> QED BY <1>1, <1>2, <3>3 DEF TriesOf, I1, X1, P1
  <2> QED BY <2>6, <2>7, <2>8
<1>7. \A s \in Secrets : wrong'[s] <= MostTries'
  BY <1>1, <1>5 DEF TriesInv, TypeOK
<1> QED BY <1>2, <1>4, <1>6, <1>7 DEF TriesInv, TriesOf

\* A new secret: no code was compared with it, and no request holds it.
LEMMA PutPendingTries ==
    ASSUME TypeOK, TypeOK', TriesInv, NEW r \in Requests, PutPending(r), ReqTyped(r)
    PROVE  TriesInv'
<1> DEFINE u == req[r].user
<1>1. /\ u \in Emails /\ pc[r] = "putPending" /\ Others(r) /\ pc'[r] = "idle"
      /\ UNCHANGED <<attempts, wrong, faults>>
  BY DEF PutPending, ReqTyped, Answer, Others, TypeOK, history
<1>2. PICK s \in Secrets : FreshSecret(s) /\ pending' = [pending EXCEPT ![u] = s]
  BY DEF PutPending
<1>3. /\ pending'[u] = s /\ wrong[s] = 0 /\ \A r1 \in Requests : req[r1].secret # s
      /\ \A e \in Emails \ {u} : pending'[e] = pending[e] /\ pending[e] # s /\ ttl'[e] = ttl[e]
      /\ ttl'[u] = IF ttl[u] = "later" THEN "sooner" ELSE ttl[u]
  BY <1>1, <1>2 DEF FreshSecret, PutPending, TypeOK
<1>4. CounterThere' /\ OneOwner' /\ MostTries' = MostTries /\ N' = N
  BY <1>1, <1>3 DEF TriesInv, CounterThere, OneOwner, MostTries, N
<1>5. \A e \in Emails : Doing("readPending", e)' = Doing("readPending", e)
  BY <1>1 DEF Others, Doing
<1>6. ASSUME NEW e \in Emails, pending'[e] # None PROVE TriesOf(e)'
  <2>1. CASE e = u
    <3>1. /\ Trying("incr", e)' \in SUBSET Requests /\ Trying("expire", e)' \in SUBSET Requests
          /\ Doing("readPending", e)' \in SUBSET Requests
      BY DEF Trying, Doing
    <3>2. /\ Cardinality(Trying("incr", e)') \in Nat /\ Cardinality(Trying("expire", e)') \in Nat
          /\ Cardinality(Doing("readPending", e)') \in Nat
          /\ Cardinality(Doing("readPending", e)') <= N /\ N \in Nat
      BY <3>1, Part
    <3>3. faults \in Nat /\ attempts[e] \in Nat /\ MaxTries \in Nat \ {0}
      BY Numbers
    <3> DEFINE I1 == Cardinality(Trying("incr", e)')  X1 == Cardinality(Trying("expire", e)')
               P1 == Cardinality(Doing("readPending", e)')
    <3> HIDE DEF I1, X1, P1
    <3>4. 0 <= I1 + X1 + faults /\ 0 <= attempts[e] + I1 + N + faults
          /\ 0 + P1 <= MaxTries - 1 + 2 * N + faults
      BY <3>2, <3>3 DEF I1, X1, P1
    <3> QED BY <1>1, <1>3, <1>4, <2>1, <3>4 DEF TriesOf, MostTries, I1, X1, P1
  <2>2. CASE e # u
    <3>1. UNCHANGED <<pending[e], ttl[e]>>
      BY <1>3, <2>2
    <3>2. Trying("incr", e)' = Trying("incr", e) /\ Trying("expire", e)' = Trying("expire", e)
      BY <1>1, <3>1 DEF Trying, Doing, Others
    <3> QED BY <1>1, <1>4, <1>5, <3>1, <3>2 DEF TriesInv, TriesOf
  <2> QED BY <2>1, <2>2
<1> QED BY <1>1, <1>4, <1>6 DEF TriesInv, TriesOf

\* The counter of a secret that replaced another goes before it.
LEMMA SoonerTries ==
    ASSUME TypeOK, TypeOK', TriesInv, NEW e \in Emails, ttl[e] = "sooner",
           attempts' = [attempts EXCEPT ![e] = 0], ttl' = [ttl EXCEPT ![e] = "never"],
           UNCHANGED <<pending, wrong, faults, pc, req>>
    PROVE  TriesInv'
<1>1. CounterThere' /\ OneOwner' /\ MostTries' = MostTries /\ N' = N
  BY DEF TriesInv, CounterThere, OneOwner, MostTries, N, TypeOK
<1>2. \A f \in Emails, step \in Trial :
         Doing(step, f)' = Doing(step, f) /\ Trying(step, f)' = Trying(step, f)
  BY DEF Doing, Trying
<1>3. ASSUME NEW f \in Emails, pending[f] # None PROVE TriesOf(f)'
  <2>1. TriesOf(f)
    BY DEF TriesInv
  <2>2. CASE f = e
    <3> DEFINE I == Cardinality(Trying("incr", f))  X == Cardinality(Trying("expire", f))
    <3>1. /\ Trying("incr", f) \in SUBSET Requests /\ Trying("expire", f) \in SUBSET Requests
          /\ Trying("incr", f) \cap Trying("expire", f) = {}
      BY DEF Trying, Doing
    <3>2. I + X + Cardinality({}) <= N
      BY <3>1, Apart
    <3>3. I \in Nat /\ X \in Nat /\ N \in Nat /\ faults \in Nat /\ wrong[pending[f]] \in Nat
      BY <1>3, Numbers DEF Trial
    <3>4. wrong[pending[f]] <= I + X + faults
      BY <1>3, <2>1, <2>2 DEF TriesOf
    <3> HIDE DEF I, X
    <3>5. wrong[pending[f]] <= 0 + I + N + faults
      BY <3>2, <3>3, <3>4, FS_EmptySet
    <3>6. attempts'[f] = 0 /\ ttl'[f] = "never"
      BY <2>2 DEF TypeOK
    <3> QED BY <1>1, <1>2, <2>1, <3>5, <3>6 DEF TriesOf, Trial, I
  <2>3. CASE f # e
    <3>1. UNCHANGED <<attempts[f], ttl[f]>>
      BY <2>3 DEF TypeOK
    <3> QED BY <1>1, <1>2, <2>1, <3>1 DEF TriesOf, Trial
  <2> QED BY <2>2, <2>3
<1> QED BY <1>1, <1>3 DEF TriesInv, TriesOf

\* What is left: nobody is moved at a try, and what is pending stays or goes.
LEMMA TriesElsewhere ==
    ASSUME TypeOK, TypeOK', TriesInv, NEW r \in Requests, RequestStep(r),
           ~ReadAttempts(r), ~ReadPending(r), ~Incr(r), ~ExpireAttempts(r), ~PutPending(r)
    PROVE  TriesInv'
<1>1. UNCHANGED <<attempts, ttl>> => CounterThere'
  BY DEF TriesInv, CounterThere
<1>2. ASSUME GiveUp(r) \/ Clean(r) PROVE TriesInv'
  <2>1. Aside /\ UNCHANGED <<wrong, faults>> /\ DropSetup(r)
    BY <1>2 DEF GiveUp, Clean, Answer, Aside, Trial, history, TypeOK
  <2>2. CounterThere'
    BY <2>1 DEF DropSetup, TriesInv, CounterThere, TypeOK
  <2>3. \A e \in Emails : pending'[e] = None \/ UNCHANGED <<pending[e], attempts[e], ttl[e]>>
    BY <2>1 DEF DropSetup, TypeOK
  <2> QED BY <2>1, <2>2, <2>3, TriesKept
<1>3. CASE ~GiveUp(r) /\ ~Clean(r)
  <2>1. Aside /\ UNCHANGED <<pending, attempts, ttl, wrong, faults>>
    <3>1. CASE \/ Register(r) \/ VerifyEmail(r) \/ TotpSetupInit(r) \/ TotpSetupVerify(r)
      BY <3>1 DEF Register, VerifyEmail, TotpSetupInit, TotpSetupVerify, Begin, redis, history,
                  TypeOK, Aside, Trial
    <3>2. CASE \/ ReadRate(r) \/ Count(r) \/ ReadLatest(r) \/ DropPrevious(r)
      BY <3>2 DEF ReadRate, Count, ReadLatest, DropPrevious, Goto, Answer, redis, history,
                  TypeOK, Aside, Trial
    <3>3. CASE \/ PutToken(r) \/ PutLatest(r) \/ Mail(r)
      BY <3>3 DEF PutToken, PutLatest, Mail, Goto, Answer, redis, history, TypeOK, Aside, Trial
    <3>4. CASE \/ DropVerify(r) \/ CheckUser(r) \/ Create(r) \/ PutSetup(r)
      BY <3>4 DEF DropVerify, CheckUser, Create, PutSetup, Goto, Answer, redis, history,
                  TypeOK, Aside, Trial
    <3>5. CASE FindRow(r) \/ Update(r) \/ CreateRow(r) \/ Fallback(r)
      BY <3>5 DEF FindRow, Update, CreateRow, Fallback, Goto, Answer, redis, history,
                  TypeOK, Aside, Trial
    <3> QED BY <1>3, <3>1, <3>2, <3>3, <3>4, <3>5 DEF RequestStep
  <2> QED BY <1>1, <2>1, TriesKept
<1> QED BY <1>2, <1>3

LEMMA TriesOutside ==
    ASSUME TypeOK, TypeOK', TriesInv,
           \/ \E e \in Emails : AdminCreates(e) \/ RemoveRows(e) \/ SendSetupLink(e) \/ TotpSetup(e)
           \/ ExpireKey
           \/ UNCHANGED vars
    PROVE  TriesInv'
<1>1. UNCHANGED <<attempts, ttl>> => CounterThere'
  BY DEF TriesInv, CounterThere
<1>2. CASE UNCHANGED vars \/ \E e \in Emails : AdminCreates(e) \/ SendSetupLink(e) \/ TotpSetup(e)
  <2>1. Aside /\ UNCHANGED <<pending, attempts, ttl, wrong, faults>>
    BY <1>2 DEF vars, AdminCreates, SendSetupLink, TotpSetup, redis, history, Aside
  <2> QED BY <1>1, <2>1, TriesKept
<1>3. ASSUME NEW e \in Emails, RemoveRows(e) PROVE TriesInv'
  <2>1. Aside /\ UNCHANGED <<pending, attempts, ttl, wrong, faults>>
    BY <1>3 DEF RemoveRows, redis, history, Aside, TypeOK, Reqs
  <2> QED BY <1>1, <2>1, TriesKept
<1>4. CASE ExpireKey
  <2>1. Aside /\ UNCHANGED <<wrong, faults, pc, req>>
    BY <1>4 DEF ExpireKey, history, Aside
  <2>2. \/ UNCHANGED <<pending, attempts, ttl>>
        \/ \E e \in Emails : pending' = [pending EXCEPT ![e] = None] /\ UNCHANGED <<attempts, ttl>>
        \/ \E e \in Emails : /\ ttl[e] = "sooner" \/ (ttl[e] = "later" /\ pending[e] = None)
                             /\ attempts' = [attempts EXCEPT ![e] = 0]
                             /\ ttl' = [ttl EXCEPT ![e] = "never"] /\ pending' = pending
    BY <1>4 DEF ExpireKey
  <2>3. CASE UNCHANGED <<pending, attempts, ttl>>
    BY <1>1, <2>1, <2>3, TriesKept
  <2>4. ASSUME NEW e \in Emails, pending' = [pending EXCEPT ![e] = None], UNCHANGED <<attempts, ttl>>
        PROVE  TriesInv'
    <3>1. \A f \in Emails : pending'[f] = None \/ UNCHANGED <<pending[f], attempts[f], ttl[f]>>
      BY <2>4 DEF TypeOK
    <3> QED BY <1>1, <2>1, <2>4, <3>1, TriesKept
  <2>5. ASSUME NEW e \in Emails, ttl[e] = "later", pending[e] = None, pending' = pending,
               attempts' = [attempts EXCEPT ![e] = 0], ttl' = [ttl EXCEPT ![e] = "never"]
        PROVE  TriesInv'
    <3>1. CounterThere'
      BY <2>5 DEF TriesInv, CounterThere, TypeOK
    <3>2. \A f \in Emails : pending'[f] = None \/ UNCHANGED <<pending[f], attempts[f], ttl[f]>>
      BY <2>5 DEF TypeOK
    <3> QED BY <2>1, <3>1, <3>2, TriesKept
  <2> QED BY <2>1, <2>2, <2>3, <2>4, <2>5, SoonerTries
<1> QED BY <1>2, <1>3, <1>4

LEMMA TriesInit == Init => TriesInv
<1> SUFFICES ASSUME Init PROVE TriesInv
  OBVIOUS
<1>1. MostTries \in Nat
  BY RegistrationAssumption, FS_CardinalityType DEF MostTries, N, Init
<1> QED BY <1>1 DEF Init, TriesInv, CounterThere, OneOwner, TriesOf

LEMMA TriesStep == RegInv /\ RegInv' /\ TriesInv /\ [Next]_vars => TriesInv'
<1> SUFFICES ASSUME RegInv, RegInv', TriesInv, [Next]_vars
             PROVE  TriesInv'
  OBVIOUS
<1>1. TypeOK /\ TypeOK' /\ \A r \in Requests : ReqTyped(r)
  BY DEF RegInv, ReqInv
<1>2. ASSUME NEW r \in Requests, RequestStep(r) PROVE TriesInv'
  BY <1>1, <1>2, ReadAttemptsTries, ReadPendingTries, CountTries, PutPendingTries, TriesElsewhere
<1>3. ASSUME NEW r \in Requests, Fail(r) PROVE TriesInv'
  BY <1>1, <1>3, CountTries
<1> QED BY <1>1, <1>2, <1>3, TriesOutside DEF Next, Reset, Erase

\* The wrong codes a secret is compared with, for every limit, address and overlap.
THEOREM TriesAreBounded == Spec => []TriesBounded
<1>1. TriesInv => TriesBounded
  BY DEF TriesInv, TriesBounded, MostTries, N
<1> QED BY <1>1, RegistrationInvariant, TriesInit, TriesStep, PTL DEF Spec
===============================================================================
