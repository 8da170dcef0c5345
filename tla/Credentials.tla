---------------------------- MODULE Credentials ----------------------------
(***************************************************************************)
(* What an account logs in with: its passkeys and their counters, the TOTP *)
(* rows, the marks in Redis that refuse a code shown twice, and the        *)
(* handlers that add, rotate and remove them, for the owner and for the    *)
(* administrator.  One account: accounts share none of this.               *)
(*                                                                         *)
(* A request that its first query refuses leaves no trace and is left out; *)
(* sessions and guards are SessionLifecycle and AccessControl: a request   *)
(* may come at any time here.  The clock counts TOTP steps of 30 s.        *)
(***************************************************************************)
EXTENDS Integers, FiniteSets

CONSTANTS
    Requests,
    Passkeys, Secrets,  \* rows and secrets are drawn once
    Tolerance,          \* steps a code is accepted before and after its own
    ReplayTtl,          \* TTL of a replay mark, in steps
    Shown,              \* bound on the steps of the codes that are shown
    MaxCounter,         \* bound on the counter an authenticator signs
    MaxTime,            \* bound on the clock
    None, NoRow         \* a secret that is NULL; a row that is not there

ASSUME CredentialsAssumption ==
    /\ IsFiniteSet(Passkeys)
    /\ Tolerance \in Nat /\ Shown \subseteq Nat /\ MaxCounter \in Nat /\ MaxTime \in Nat
    /\ None \notin Secrets /\ NoRow \notin Secrets /\ None # NoRow

\* 90 s for a window of one step on either side: the comment in totpVerifyAndLogin.
ASSUME ReplayTtlAssumption == ReplayTtl \in Nat /\ ReplayTtl >= 2 * Tolerance + 1

VARIABLES
    now,
    passkeys,  \* PasskeyCredential with its Identity: the rows there are
    counter,   \* their counters
    totp,      \* Identity: the TOTP row with the id of the user, and that of a
               \* registration, whose providerId is still ''
    pending,   \* totp-reset-pending:{user}
    marks,     \* totp:replay:{user}:{code}, with the time it expires
    used,      \* history: passkeys and secrets drawn so far
    proved,    \* history: secrets a code was shown for, or stored by totpSetup
    spent,     \* history: codes accepted by a login or step-up that ended
    elevated,  \* a session of the account has stepped up, which StepUpGuard asks for
    pc, req    \* what a request does next; what it knows

stored  == <<passkeys, counter, totp>>
history == <<used, proved, spent>>
vars    == <<now, stored, pending, marks, history, elevated, pc, req>>

Codes == [secret : Secrets, step : Nat]
Steps == {"idle", "write",                  \* passkeyAuthVerify
          "get", "find", "check", "mark",   \* totpVerifyAndLogin, verifyTotpCode
          "store", "drop",                  \* totpResetVerify
          "count", "reset"}                 \* revokePasskey, resetCredentials
Reqs  == [kind : {"", "login", "stepUp"},
          code : Codes \cup {None}, secret : Secrets \cup {None},
          passkey : Passkeys \cup {None}, counted : Nat \cup {None},
          seen : Nat, signed : Nat, totp : {"unread", "yes", "no"},
          stale : SUBSET Passkeys,
          late : BOOLEAN,    \* history: its code was spent before it came
          other : BOOLEAN]   \* history: a method was removed after it had read

TypeOK ==
    /\ now \in Nat
    /\ passkeys \subseteq Passkeys /\ counter \in [Passkeys -> Nat]
    /\ totp \in [{"own", "blank"} -> Secrets \cup {None, NoRow}]
    /\ pending \in Secrets \cup {None}
    /\ marks \subseteq [code : Codes, until : Nat]
    /\ used \subseteq Passkeys \cup Secrets /\ proved \subseteq Secrets /\ spent \subseteq Codes
    /\ elevated \in BOOLEAN
    /\ pc \in [Requests -> Steps] /\ req \in [Requests -> Reqs]

NoRequest == [kind |-> "", code |-> None, secret |-> None, passkey |-> None,
              counted |-> None, seen |-> 0, signed |-> 0, totp |-> "unread",
              stale |-> {}, late |-> FALSE, other |-> FALSE]

\* An account that has set up TOTP, or that came by OIDC, with or without a registration.
Init ==
    /\ now = 0
    /\ passkeys = {} /\ counter = [p \in Passkeys |-> 0]
    /\ totp \in [{"own", "blank"} -> Secrets \cup {None, NoRow}]
    /\ totp["own"] # None /\ totp["blank"] \in {None, NoRow}
    /\ pending = None /\ marks = {}
    /\ used = {totp["own"]} \cap Secrets /\ proved = used /\ spent = {}
    /\ elevated = FALSE
    /\ pc = [r \in Requests |-> "idle"] /\ req = [r \in Requests |-> NoRequest]

SecretsStored == {totp[row] : row \in {"own", "blank"}} \cap Secrets
Usable == passkeys # {} \/ SecretsStored # {}

Goto(r, step) == pc' = [pc EXCEPT ![r] = step] /\ UNCHANGED req
Answer(r) == pc' = [pc EXCEPT ![r] = "idle"] /\ req' = [req EXCEPT ![r] = NoRequest]
Begin(r, step, known) ==
    /\ pc[r] = "idle"
    /\ pc' = [pc EXCEPT ![r] = step] /\ req' = [req EXCEPT ![r] = known]

(***************************************************************************)
(* Passkeys.                                                               *)
(***************************************************************************)
\* passkeyRegisterVerify: identity and credential in one transaction.
RegisterPasskey(p, initial) ==
    /\ p \notin used /\ used' = used \cup {p}
    /\ passkeys' = passkeys \cup {p}
    /\ counter' = [counter EXCEPT ![p] = initial]
    /\ UNCHANGED <<now, totp, pending, marks, proved, spent, pc, req, elevated>>

\* Mutant of Advances: the counter is not looked at.
AdvancesAlways(current, signed) == TRUE
Advances(current, signed) == ~(current > 0 /\ signed <= current)

\* passkeyAuthVerify up to the update; the authenticator may be a copy of another.
PasskeyLogin(r, p, signed) ==
    /\ p \in passkeys /\ Advances(counter[p], signed)
    /\ Begin(r, "write", [NoRequest EXCEPT !.passkey = p, !.seen = counter[p],
                                           !.signed = signed])
    /\ UNCHANGED <<now, stored, pending, marks, history, elevated>>

\* Mutant: the difference is stored, whether the row is there or not.
WriteCounterBlind(r) ==
    /\ pc[r] = "write" /\ Answer(r)
    /\ counter' = [counter EXCEPT ![req[r].passkey] = @ - req[r].signed]
    /\ UNCHANGED <<now, passkeys, totp, pending, marks, history, elevated>>

\* P2025 when the row is gone.
WriteCounter(r) ==
    /\ pc[r] = "write" /\ Answer(r)
    /\ counter' = IF req[r].passkey \in passkeys
                  THEN [counter EXCEPT ![req[r].passkey] = req[r].signed]
                  ELSE counter
    /\ UNCHANGED <<now, passkeys, totp, pending, marks, history, elevated>>

(***************************************************************************)
(* TOTP: a login finds the row first, a step-up looks for the mark first.  *)
(***************************************************************************)
Valid(code, secret) ==
    /\ code.secret = secret
    /\ code.step - Tolerance <= now /\ now <= code.step + Tolerance
Marked(code) == \E mark \in marks : mark.code = code

Show(r, kind, code, step, secret) ==
    /\ Begin(r, step, [NoRequest EXCEPT !.kind = kind, !.code = code, !.secret = secret,
                                        !.late = code \in spent])
    /\ UNCHANGED <<now, stored, pending, marks, history, elevated>>

\* findFirst: either row, if there are two.
TotpLogin(r, code) == \E s \in SecretsStored : Show(r, "login", code, "get", s)
StepUp(r, code)    == Show(r, "stepUp", code, "get", None)

GetMark(r) ==
    /\ pc[r] = "get"
    /\ IF Marked(req[r].code) THEN Answer(r)
       ELSE Goto(r, IF req[r].kind = "login" THEN "check" ELSE "find")
    /\ UNCHANGED <<now, stored, pending, marks, history, elevated>>

FindTotp(r) ==
    /\ pc[r] = "find"
    /\ \/ \E s \in SecretsStored : /\ pc' = [pc EXCEPT ![r] = "check"]
                                   /\ req' = [req EXCEPT ![r].secret = s]
       \/ \/ None \in {totp["own"], totp["blank"]}
          \/ {totp["own"], totp["blank"]} = {NoRow}
          /\ Answer(r)
    /\ UNCHANGED <<now, stored, pending, marks, history, elevated>>

Check(r) ==
    /\ pc[r] = "check"
    /\ IF Valid(req[r].code, req[r].secret) THEN Goto(r, "mark") ELSE Answer(r)
    /\ UNCHANGED <<now, stored, pending, marks, history, elevated>>

\* Mutant of Until: the TTL is 30 s, as it was.
UntilNext(time) == time + 1
Until(time) == time + ReplayTtl

\* Then the session is made, or stepUpVerifiedAt is set.
Mark(r) ==
    /\ pc[r] = "mark" /\ Answer(r)
    /\ marks' = {mark \in marks : mark.code # req[r].code}
                  \cup {[code |-> req[r].code, until |-> Until(now)]}
    /\ spent' = spent \cup {req[r].code}
    /\ elevated' = (elevated \/ req[r].kind = "stepUp")
    /\ UNCHANGED <<now, stored, pending, used, proved>>

(***************************************************************************)
(* A new secret: totpSetup stores it at once, totpReset when a code for it *)
(* has been shown to totpResetVerify.                                      *)
(***************************************************************************)
Draw(s) == s \notin used /\ used' = used \cup {s}

TotpSetup(s) ==
    /\ Draw(s)
    /\ totp' = [totp EXCEPT !["own"] = s]
    /\ proved' = proved \cup {s}
    /\ UNCHANGED <<now, passkeys, counter, pending, marks, spent, pc, req, elevated>>

\* Mutant: the new secret is stored at once.
TotpResetStores(s) ==
    /\ elevated /\ Draw(s)
    /\ totp' = [totp EXCEPT !["own"] = s]
    /\ UNCHANGED <<now, passkeys, counter, pending, marks, proved, spent, pc, req, elevated>>

TotpReset(s) ==
    /\ elevated /\ Draw(s)
    /\ pending' = s
    /\ UNCHANGED <<now, stored, marks, proved, spent, pc, req, elevated>>

TotpResetVerify(r) ==
    /\ pending # None
    /\ Begin(r, "store", [NoRequest EXCEPT !.secret = pending])
    /\ proved' = proved \cup {pending}
    /\ UNCHANGED <<now, stored, pending, marks, used, spent, elevated>>

Rotated(r) == [row \in {"own", "blank"} |->
                 IF totp[row] = NoRow THEN NoRow ELSE req[r].secret]

\* updateMany; with no row the pending secret is kept and an error is answered.
StoreSecret(r) ==
    /\ pc[r] = "store"
    /\ totp' = Rotated(r)
    /\ IF totp = [row \in {"own", "blank"} |-> NoRow] THEN Answer(r) ELSE Goto(r, "drop")
    /\ UNCHANGED <<now, passkeys, counter, pending, marks, history, elevated>>

DropPending(r) ==
    /\ pc[r] = "drop" /\ Answer(r)
    /\ pending' = None
    /\ UNCHANGED <<now, stored, marks, history, elevated>>

(***************************************************************************)
(* Removal: revokePasskey by the owner, resetCredentials by an             *)
(* administrator.                                                          *)
(***************************************************************************)
RevokePasskey(r, p) ==
    /\ elevated /\ p \in passkeys
    /\ Begin(r, "count", [NoRequest EXCEPT !.passkey = p])
    /\ UNCHANGED <<now, stored, pending, marks, history, elevated>>

\* Promise.all: the two queries, in either order.
CountPasskeys(r) ==
    /\ pc[r] = "count" /\ req[r].counted = None
    /\ req' = [req EXCEPT ![r].counted = Cardinality(passkeys)]
    /\ UNCHANGED <<now, stored, pending, marks, history, pc, elevated>>

FindConfigured(r) ==
    /\ pc[r] = "count" /\ req[r].totp = "unread"
    /\ req' = [req EXCEPT ![r].totp = IF SecretsStored # {} THEN "yes" ELSE "no"]
    /\ UNCHANGED <<now, stored, pending, marks, history, pc, elevated>>

\* The request ends; those that have read what there is learn that a method was removed.
Removes(r) ==
    /\ pc' = [pc EXCEPT ![r] = "idle"]
    /\ req' = [q \in Requests |->
                 IF q = r THEN NoRequest
                 ELSE [req[q] EXCEPT !.other = @ \/ req[q].counted # None \/ req[q].totp = "yes"]]

\* Mutant of LastMethod: the passkey to be removed is not thought of.
LastMethodWithout(r) == req[r].counted < 1 /\ req[r].totp = "no"
LastMethod(r) == req[r].counted <= 1 /\ req[r].totp = "no"

\* P2025 when the row is gone.
Revoke(r) ==
    /\ pc[r] = "count" /\ req[r].counted # None /\ req[r].totp # "unread"
    /\ IF LastMethod(r) \/ req[r].passkey \notin passkeys
       THEN Answer(r) /\ UNCHANGED <<passkeys, counter>>
       ELSE /\ Removes(r)
            /\ passkeys' = passkeys \ {req[r].passkey}
            /\ counter' = [counter EXCEPT ![req[r].passkey] = 0]
    /\ UNCHANGED <<now, totp, pending, marks, history, elevated>>

ResetCredentials(r) ==
    /\ Begin(r, "reset", [NoRequest EXCEPT !.stale = passkeys])
    /\ UNCHANGED <<now, stored, pending, marks, history, elevated>>

\* Mutant of Removable: a passkey that is not on the list does not stop the transaction.
RemovableAlways(r) == TRUE
Removable(r) == passkeys \subseteq req[r].stale

\* Credentials are deleted by the list that was read, identities by user: a passkey that
\* is not on the list keeps its identity (foreign key), and all is rolled back.
Reset(r) ==
    /\ pc[r] = "reset"
    /\ IF Removable(r)
       THEN /\ Removes(r)
            /\ passkeys' = passkeys \ req[r].stale
            /\ counter' = [p \in Passkeys |-> IF p \in req[r].stale THEN 0 ELSE counter[p]]
            /\ totp' = [row \in {"own", "blank"} |-> NoRow]
       ELSE Answer(r) /\ UNCHANGED stored
    /\ UNCHANGED <<now, pending, marks, history, elevated>>

(***************************************************************************)
(* Time and failures.                                                      *)
(***************************************************************************)
\* Redis drops what has expired.
Tick ==
    /\ now < MaxTime /\ now' = now + 1
    /\ marks' = {mark \in marks : mark.until > now'}
    /\ UNCHANGED <<stored, pending, history, pc, req, elevated>>

ExpirePending ==
    /\ pending # None /\ pending' = None
    /\ UNCHANGED <<now, stored, marks, history, pc, req, elevated>>

\* STEP_UP_WINDOW_MS is over, or the session is: resetCredentials ends it after its
\* transaction.
Lapse ==
    /\ elevated /\ elevated' = FALSE
    /\ UNCHANGED <<now, stored, pending, marks, history, pc, req>>

\* An await rejects, or the process ends.
Fail(r) ==
    /\ pc[r] # "idle" /\ Answer(r)
    /\ UNCHANGED <<now, stored, pending, marks, history, elevated>>

RequestStep(r) ==
    \/ \E p \in Passkeys, n \in 0..MaxCounter : PasskeyLogin(r, p, n)
    \/ \E s \in Secrets \cap used, step \in Shown :
          LET code == [secret |-> s, step |-> step] IN TotpLogin(r, code) \/ StepUp(r, code)
    \/ WriteCounter(r) \/ GetMark(r) \/ FindTotp(r) \/ Check(r) \/ Mark(r)
    \/ TotpResetVerify(r) \/ StoreSecret(r) \/ DropPending(r)
    \/ (\E p \in Passkeys : RevokePasskey(r, p))
    \/ CountPasskeys(r) \/ FindConfigured(r) \/ Revoke(r)
    \/ ResetCredentials(r) \/ Reset(r)

Next ==
    \/ \E r \in Requests : RequestStep(r) \/ Fail(r)
    \/ \E p \in Passkeys, n \in 0..MaxCounter : RegisterPasskey(p, n)
    \/ \E s \in Secrets : TotpSetup(s) \/ TotpReset(s)
    \/ Tick \/ ExpirePending \/ Lapse

Spec == Init /\ [][Next]_vars

(***************************************************************************)
(* Correctness.                                                            *)
(***************************************************************************)

\* A code that a login or a step-up has accepted is accepted by none that comes later,
\* whichever it is: the mark is there as long as the code is valid (totpVerifyAndLogin,
\* verifyTotpCode).  Requests that overlap may both be let in.
ReplayRefused == \A r \in Requests : pc[r] = "mark" => ~req[r].late

\* A secret that is stored was shown a code for, or comes from totpSetup: the old one works
\* until a new one is proved, whatever becomes of the pending one meanwhile (totpReset).
RotationProven == SecretsStored \subseteq proved

\* revokePasskey leaves a method to log in with, unless another one is removed between
\* its reading what there is and its transaction.
Revokes(r) == pc[r] = "count" /\ passkeys' # passkeys /\ pc'[r] = "idle"
MethodRemains ==
    [][\A r \in Requests : Revokes(r) /\ ~req[r].other => Usable']_vars

\* The counter of a passkey goes back only when another login with the same passkey has
\* written it since this one read it (passkeyAuthVerify).
CounterLoweredOnlyByOverlap ==
    [][\A p \in passkeys \cap passkeys' : counter'[p] < counter[p] =>
          \E r \in Requests : pc[r] = "write" /\ req[r].passkey = p
                              /\ req[r].seen # counter[p]]_vars

\* resetCredentials removes every method or none, though a passkey may be registered
\* between its reading the identities and its transaction.
ResetAllOrNothing ==
    [][\A r \in Requests : pc[r] = "reset" /\ stored' # stored /\ pc'[r] = "idle" =>
          ~Usable']_vars
=============================================================================
