--------------------------- MODULE CredentialsProofs ---------------------------
(***************************************************************************)
(* Proofs about Credentials.  The invariant has two parts: what is true of *)
(* the account (a code that was spent is marked as long as it is valid, a  *)
(* secret that is stored was proved), and what a request on its way still  *)
(* knows rightly of it, whatever the others have done since it read.       *)
(***************************************************************************)
EXTENDS Credentials, FiniteSetTheorems, TLAPS

\* A code is marked, or too old to be accepted.
Dead(k) == now > k.step + Tolerance
Held(k) == Dead(k) \/ \E m \in marks : m.code = k /\ m.until > k.step + Tolerance

AccountInv ==
    /\ passkeys \subseteq used
    /\ SecretsStored \subseteq proved
    /\ \A k \in spent : Held(k)

RequestInv(r) ==
    /\ pc[r] \in {"get", "find", "check", "mark"} => req[r].code \in Codes
    /\ pc[r] \in {"get", "find", "check", "mark"} /\ req[r].late => req[r].code \in spent
    /\ pc[r] \in {"find", "check"} /\ req[r].late => Dead(req[r].code)
    /\ pc[r] = "mark" => ~req[r].late /\ now >= req[r].code.step - Tolerance
    /\ pc[r] = "check" \/ (pc[r] = "get" /\ req[r].kind = "login") => req[r].secret \in Secrets
    /\ pc[r] = "store" => req[r].secret \in Secrets /\ req[r].secret \in proved
    /\ pc[r] = "write" => req[r].passkey \in Passkeys /\ Advances(req[r].seen, req[r].signed)
    /\ pc[r] = "count" => req[r].passkey \in Passkeys
    /\ pc[r] = "count" /\ ~req[r].other =>
          /\ req[r].counted # None => req[r].counted <= Cardinality(passkeys)
          /\ req[r].totp = "yes" => SecretsStored # {}

CredInv == TypeOK /\ AccountInv /\ \A r \in Requests : RequestInv(r)

-----------------------------------------------------------------------------
(***************************************************************************)
(* Types, and what a request keeps.                                        *)
(***************************************************************************)
LEMMA BlankRequest == NoRequest \in Reqs
  BY DEF NoRequest, Reqs

LEMMA Counting ==
    ASSUME TypeOK
    PROVE  /\ IsFiniteSet(passkeys) /\ Cardinality(passkeys) \in Nat
           /\ passkeys = {} <=> Cardinality(passkeys) = 0
<1>1. IsFiniteSet(passkeys)
  BY CredentialsAssumption, FS_Subset DEF TypeOK
<1> QED BY <1>1, FS_CardinalityType, FS_EmptySet

\* An answered request knows nothing.
LEMMA Answered ==
    ASSUME TypeOK, NEW r \in Requests, Answer(r)
    PROVE  /\ pc'[r] = "idle" /\ req'[r] = NoRequest
           /\ RequestInv(r)'
           /\ \A q \in Requests : q # r => pc'[q] = pc[q] /\ req'[q] = req[q]
           /\ pc' \in [Requests -> Steps] /\ req' \in [Requests -> Reqs]
<1>1. pc'[r] = "idle" /\ req'[r] = NoRequest
  BY DEF Answer, TypeOK
<1>2. RequestInv(r)'
  BY <1>1 DEF RequestInv
<1> QED BY <1>1, <1>2, BlankRequest DEF Answer, TypeOK, Steps

\* A request that has begun.
LEMMA Begun ==
    ASSUME TypeOK, NEW r \in Requests, NEW step \in Steps, NEW known \in Reqs,
           Begin(r, step, known)
    PROVE  /\ pc[r] = "idle" /\ pc'[r] = step /\ req'[r] = known
           /\ \A q \in Requests : q # r => pc'[q] = pc[q] /\ req'[q] = req[q]
           /\ pc' \in [Requests -> Steps] /\ req' \in [Requests -> Reqs]
  BY DEF Begin, TypeOK

\* Time goes on, codes are spent, secrets are proved; methods come, or go and the
\* request is told.
Onward == /\ now \in Int /\ now' \in Int /\ now <= now'
          /\ spent \subseteq spent' /\ proved \subseteq proved'
MethodsStay == /\ Cardinality(passkeys) <= Cardinality(passkeys')
               /\ SecretsStored # {} => SecretsStored' # {}

LEMMA OtherKept ==
    ASSUME CredInv, Onward, TypeOK', NEW q \in Requests, pc'[q] = pc[q],
           req'[q] = req[q], MethodsStay
    PROVE  RequestInv(q)'
<1>1. RequestInv(q) /\ TypeOK
  BY DEF CredInv
<1>2. req[q].code \in Codes => req[q].code.step \in Int
  BY CredentialsAssumption DEF Codes
<1>3. Tolerance \in Int
  BY CredentialsAssumption
<1>4. /\ Cardinality(passkeys) \in Nat /\ Cardinality(passkeys') \in Nat
      /\ req[q].counted # None => req[q].counted \in Nat
  <2>1. req[q] \in Reqs
    BY <1>1 DEF TypeOK
  <2>2. Cardinality(passkeys') \in Nat
    <3>1. IsFiniteSet(passkeys')
      BY CredentialsAssumption, FS_Subset DEF TypeOK
    <3> QED BY <3>1, FS_CardinalityType
  <2> QED BY <1>1, <2>1, <2>2, Counting DEF Reqs
<1>5. pc[q] \in {"find", "check"} /\ req[q].late => now' > req[q].code.step + Tolerance
  BY <1>1, <1>2, <1>3 DEF RequestInv, Dead, Onward
<1>6. pc[q] = "mark" => now' >= req[q].code.step - Tolerance
  BY <1>1, <1>2, <1>3 DEF RequestInv, Onward
<1>7. pc[q] = "count" /\ ~req[q].other =>
          /\ req[q].counted # None => req[q].counted <= Cardinality(passkeys')
          /\ req[q].totp = "yes" => SecretsStored' # {}
  BY <1>1, <1>4 DEF RequestInv, MethodsStay
<1> QED BY <1>1, <1>5, <1>6, <1>7 DEF RequestInv, Dead, Onward

\* A step that leaves the account alone.
LEMMA AccountKept ==
    ASSUME CredInv, UNCHANGED <<now, stored, marks, history>>
    PROVE  /\ AccountInv' /\ Onward /\ MethodsStay
<1>1. now \in Int /\ Cardinality(passkeys) \in Nat
  BY Counting DEF CredInv, TypeOK
<1> QED BY <1>1 DEF CredInv, AccountInv, SecretsStored, Held, Dead, Onward, MethodsStay,
                    stored, history

-----------------------------------------------------------------------------
(***************************************************************************)
(* A request begins.                                                       *)
(***************************************************************************)
LEMMA BeginStep ==
    ASSUME CredInv, NEW r \in Requests, NEW step \in Steps, NEW known \in Reqs,
           Begin(r, step, known), UNCHANGED <<now, stored, marks, history, pending, elevated>>,
           RequestInv(r)'
    PROVE  CredInv'
<1>1. /\ pc[r] = "idle" /\ \A q \in Requests : q # r => pc'[q] = pc[q] /\ req'[q] = req[q]
      /\ pc' \in [Requests -> Steps] /\ req' \in [Requests -> Reqs]
  BY Begun DEF CredInv
<1>2. TypeOK'
  BY <1>1 DEF CredInv, TypeOK, stored, history
<1>3. AccountInv' /\ Onward /\ MethodsStay
  BY AccountKept
<1>4. ASSUME NEW q \in Requests PROVE RequestInv(q)'
  BY <1>1, <1>2, <1>3, OtherKept
<1> QED BY <1>2, <1>3, <1>4 DEF CredInv

LEMMA PasskeyLoginStep ==
    ASSUME CredInv, NEW r \in Requests, NEW p \in Passkeys, NEW n \in 0 .. MaxCounter,
           PasskeyLogin(r, p, n)
    PROVE  CredInv'
<1> DEFINE known == [NoRequest EXCEPT !.passkey = p, !.seen = counter[p], !.signed = n]
<1>1. counter[p] \in Nat /\ n \in Nat /\ TypeOK
  BY CredentialsAssumption DEF CredInv, TypeOK
<1>2. known \in Reqs /\ known.passkey = p /\ known.seen = counter[p] /\ known.signed = n
  BY <1>1 DEF NoRequest, Reqs
<1>3. Begin(r, "write", known) /\ Advances(counter[p], n)
  BY DEF PasskeyLogin
<1> HIDE DEF known
<1>4. pc'[r] = "write" /\ req'[r] = known
  BY <1>1, <1>2, <1>3, Begun DEF Steps
<1>5. RequestInv(r)'
  BY <1>2, <1>3, <1>4 DEF RequestInv
<1> QED BY <1>2, <1>3, <1>5, BeginStep DEF PasskeyLogin, Steps

LEMMA ShowStep ==
    ASSUME CredInv, NEW r \in Requests, NEW kind \in {"login", "stepUp"},
           NEW code \in Codes, NEW secret \in Secrets \cup {None},
           kind = "login" => secret \in Secrets,
           Show(r, kind, code, "get", secret)
    PROVE  CredInv'
<1> DEFINE known == [NoRequest EXCEPT !.kind = kind, !.code = code, !.secret = secret,
                                      !.late = code \in spent]
<1>1. (code \in spent) \in BOOLEAN /\ TypeOK
  BY DEF CredInv
<1>2. known \in Reqs /\ known.code = code /\ known.kind = kind /\ known.secret = secret
       /\ (known.late <=> code \in spent)
  BY <1>1 DEF NoRequest, Reqs
<1>3. Begin(r, "get", known) /\ spent' = spent
  BY DEF Show, history
<1> HIDE DEF known
<1>4. pc'[r] = "get" /\ req'[r] = known
  BY <1>1, <1>2, <1>3, Begun DEF Steps
<1>5. RequestInv(r)'
  BY <1>2, <1>3, <1>4 DEF RequestInv
<1> QED BY <1>2, <1>3, <1>5, BeginStep DEF Show, Steps

LEMMA RevokePasskeyStep ==
    ASSUME CredInv, NEW r \in Requests, NEW p \in Passkeys, RevokePasskey(r, p)
    PROVE  CredInv'
<1> DEFINE known == [NoRequest EXCEPT !.passkey = p]
<1>1. known \in Reqs /\ known.passkey = p /\ known.counted = None /\ known.totp = "unread"
  BY DEF NoRequest, Reqs
<1>2. Begin(r, "count", known) /\ TypeOK
  BY DEF RevokePasskey, CredInv
<1> HIDE DEF known
<1>3. pc'[r] = "count" /\ req'[r] = known
  BY <1>1, <1>2, Begun DEF Steps
<1>4. RequestInv(r)'
  BY <1>1, <1>3 DEF RequestInv
<1> QED BY <1>1, <1>2, <1>4, BeginStep DEF RevokePasskey, Steps

LEMMA ResetCredentialsStep ==
    ASSUME CredInv, NEW r \in Requests, ResetCredentials(r)
    PROVE  CredInv'
<1> DEFINE known == [NoRequest EXCEPT !.stale = passkeys]
<1>1. known \in Reqs
  BY DEF NoRequest, Reqs, CredInv, TypeOK
<1>2. Begin(r, "reset", known) /\ TypeOK
  BY DEF ResetCredentials, CredInv
<1> HIDE DEF known
<1>3. pc'[r] = "reset"
  BY <1>1, <1>2, Begun DEF Steps
<1>4. RequestInv(r)'
  BY <1>3 DEF RequestInv
<1> QED BY <1>1, <1>2, <1>4, BeginStep DEF ResetCredentials, Steps

\* The pending secret is proved.
LEMMA TotpResetVerifyStep ==
    ASSUME CredInv, NEW r \in Requests, TotpResetVerify(r)
    PROVE  CredInv'
<1> DEFINE known == [NoRequest EXCEPT !.secret = pending]
<1>1. pending \in Secrets /\ TypeOK
  BY DEF TotpResetVerify, CredInv, TypeOK
<1>2. known \in Reqs /\ known.secret = pending
  BY <1>1 DEF NoRequest, Reqs
<1>3. Begin(r, "store", known) /\ proved' = proved \cup {pending}
      /\ UNCHANGED <<now, stored, pending, marks, used, spent, elevated>>
  BY DEF TotpResetVerify
<1> HIDE DEF known
<1>4. /\ pc'[r] = "store" /\ req'[r] = known
      /\ \A q \in Requests : q # r => pc'[q] = pc[q] /\ req'[q] = req[q]
      /\ pc' \in [Requests -> Steps] /\ req' \in [Requests -> Reqs]
  BY <1>1, <1>2, <1>3, Begun DEF Steps
<1>5. TypeOK'
  BY <1>1, <1>3, <1>4 DEF TypeOK, stored
<1>6. AccountInv'
  BY <1>3 DEF CredInv, AccountInv, SecretsStored, Held, Dead, stored
<1>7. Onward /\ MethodsStay
  BY <1>1, <1>3, Counting DEF Onward, MethodsStay, SecretsStored, TypeOK, stored
<1>8. RequestInv(r)'
  BY <1>1, <1>2, <1>3, <1>4 DEF RequestInv
<1>9. ASSUME NEW q \in Requests PROVE RequestInv(q)'
  BY <1>4, <1>5, <1>7, <1>8, OtherKept
<1> QED BY <1>5, <1>6, <1>9 DEF CredInv

-----------------------------------------------------------------------------
(***************************************************************************)
(* A request reads.                                                        *)
(***************************************************************************)
LEMMA QuietStep ==
    ASSUME CredInv, NEW r \in Requests, UNCHANGED <<now, stored, marks, history, pending, elevated>>,
           \A q \in Requests : q # r => pc'[q] = pc[q] /\ req'[q] = req[q],
           pc' \in [Requests -> Steps], req' \in [Requests -> Reqs], RequestInv(r)'
    PROVE  CredInv'
<1>1. TypeOK'
  BY DEF CredInv, TypeOK, stored, history
<1>2. AccountInv' /\ Onward /\ MethodsStay
  BY AccountKept
<1>3. ASSUME NEW q \in Requests PROVE RequestInv(q)'
  BY <1>1, <1>2, OtherKept
<1> QED BY <1>1, <1>2, <1>3 DEF CredInv

\* No mark: a code spent before the request came is too old by now.
LEMMA GetMarkStep ==
    ASSUME CredInv, NEW r \in Requests, GetMark(r)
    PROVE  CredInv'
<1>1. TypeOK /\ RequestInv(r) /\ AccountInv
  BY DEF CredInv
<1>2. pc[r] = "get" /\ UNCHANGED <<now, stored, pending, marks, history, elevated>>
  BY DEF GetMark
<1>3. CASE Marked(req[r].code)
  BY <1>1, <1>2, <1>3, Answered, QuietStep DEF GetMark
<1>4. CASE ~Marked(req[r].code)
  <2>1. PICK step \in {"check", "find"} : Goto(r, step) /\ (step = "check" => req[r].kind = "login")
    BY <1>4 DEF GetMark
  <2>2. /\ pc'[r] = step /\ req' = req
        /\ \A q \in Requests : q # r => pc'[q] = pc[q] /\ req'[q] = req[q]
        /\ pc' \in [Requests -> Steps] /\ req' \in [Requests -> Reqs]
    BY <1>1, <2>1 DEF Goto, TypeOK, Steps
  <2>3. req[r].late => Dead(req[r].code)
    BY <1>1, <1>2, <1>4 DEF RequestInv, AccountInv, Held, Marked
  <2>4. RequestInv(r)'
    BY <1>1, <1>2, <2>1, <2>2, <2>3 DEF RequestInv, Dead, history
  <2> QED BY <1>2, <2>2, <2>4, QuietStep
<1> QED BY <1>3, <1>4

LEMMA FindTotpStep ==
    ASSUME CredInv, NEW r \in Requests, FindTotp(r)
    PROVE  CredInv'
<1>1. TypeOK /\ RequestInv(r) /\ req[r] \in Reqs
  BY DEF CredInv, TypeOK
<1>2. pc[r] = "find" /\ UNCHANGED <<now, stored, pending, marks, history, elevated>>
  BY DEF FindTotp
<1>3. CASE Answer(r)
  BY <1>1, <1>2, <1>3, Answered, QuietStep
<1>4. ASSUME NEW s \in SecretsStored, pc' = [pc EXCEPT ![r] = "check"],
             req' = [req EXCEPT ![r].secret = s]
      PROVE  CredInv'
  <2>1. s \in Secrets
    BY DEF SecretsStored
  <2>2. /\ req'[r] \in Reqs /\ req'[r].secret = s /\ req'[r].code = req[r].code
        /\ req'[r].late = req[r].late
    BY <1>1, <1>4, <2>1 DEF TypeOK, Reqs
  <2>3. /\ pc'[r] = "check"
        /\ \A q \in Requests : q # r => pc'[q] = pc[q] /\ req'[q] = req[q]
        /\ pc' \in [Requests -> Steps] /\ req' \in [Requests -> Reqs]
    BY <1>1, <1>4, <2>2 DEF TypeOK, Steps
  <2>4. RequestInv(r)'
    BY <1>1, <1>2, <2>1, <2>2, <2>3 DEF RequestInv, Dead, history
  <2> QED BY <1>2, <2>3, <2>4, QuietStep
<1> QED BY <1>3, <1>4 DEF FindTotp

\* A code that is valid now is not dead, so it was not spent when the request came.
LEMMA CheckStep ==
    ASSUME CredInv, NEW r \in Requests, Check(r)
    PROVE  CredInv'
<1>1. TypeOK /\ RequestInv(r)
  BY DEF CredInv
<1>2. pc[r] = "check" /\ UNCHANGED <<now, stored, pending, marks, history, elevated>>
  BY DEF Check
<1>3. CASE ~Valid(req[r].code, req[r].secret)
  BY <1>1, <1>2, <1>3, Answered, QuietStep DEF Check
<1>4. CASE Valid(req[r].code, req[r].secret)
  <2>1. Goto(r, "mark")
    BY <1>4 DEF Check
  <2>2. /\ pc'[r] = "mark" /\ req' = req
        /\ \A q \in Requests : q # r => pc'[q] = pc[q] /\ req'[q] = req[q]
        /\ pc' \in [Requests -> Steps] /\ req' \in [Requests -> Reqs]
    BY <1>1, <2>1 DEF Goto, TypeOK, Steps
  <2>3. req[r].code \in Codes /\ req[r].code.step \in Int /\ now \in Int /\ Tolerance \in Int
    BY <1>1, <1>2, CredentialsAssumption DEF RequestInv, Codes, TypeOK
  <2>4. now <= req[r].code.step + Tolerance /\ now >= req[r].code.step - Tolerance
    BY <1>4, <2>3 DEF Valid
  <2>5. ~Dead(req[r].code)
    BY <2>3, <2>4 DEF Dead
  <2>6. ~req[r].late
    BY <1>1, <1>2, <2>5 DEF RequestInv
  <2>7. RequestInv(r)'
    BY <1>1, <1>2, <2>2, <2>3, <2>4, <2>6 DEF RequestInv
  <2> QED BY <1>2, <2>2, <2>7, QuietStep
<1> QED BY <1>3, <1>4

LEMMA CountPasskeysStep ==
    ASSUME CredInv, NEW r \in Requests, CountPasskeys(r)
    PROVE  CredInv'
<1>1. /\ TypeOK /\ RequestInv(r) /\ req[r] \in Reqs
      /\ Cardinality(passkeys) \in Nat
  BY Counting DEF CredInv, TypeOK
<1>2. /\ pc[r] = "count" /\ UNCHANGED <<now, stored, pending, marks, history, pc, elevated>>
      /\ req' = [req EXCEPT ![r].counted = Cardinality(passkeys)]
  BY DEF CountPasskeys
<1>3. /\ req'[r] \in Reqs /\ req'[r].counted = Cardinality(passkeys)
      /\ req'[r].passkey = req[r].passkey /\ req'[r].totp = req[r].totp
      /\ req'[r].other = req[r].other
  BY <1>1, <1>2 DEF TypeOK, Reqs
<1>4. /\ \A q \in Requests : q # r => pc'[q] = pc[q] /\ req'[q] = req[q]
      /\ pc' \in [Requests -> Steps] /\ req' \in [Requests -> Reqs]
  BY <1>1, <1>2, <1>3 DEF TypeOK
<1>5. RequestInv(r)'
  BY <1>1, <1>2, <1>3 DEF RequestInv, SecretsStored, stored
<1> QED BY <1>2, <1>4, <1>5, QuietStep

LEMMA FindConfiguredStep ==
    ASSUME CredInv, NEW r \in Requests, FindConfigured(r)
    PROVE  CredInv'
<1> DEFINE found == IF SecretsStored # {} THEN "yes" ELSE "no"
<1>1. /\ TypeOK /\ RequestInv(r) /\ req[r] \in Reqs
      /\ found \in {"yes", "no"}
      /\ found = "yes" => SecretsStored # {}
  BY DEF CredInv, TypeOK
<1>2. /\ pc[r] = "count" /\ UNCHANGED <<now, stored, pending, marks, history, pc, elevated>>
      /\ req' = [req EXCEPT ![r].totp = found]
  BY DEF FindConfigured
<1> HIDE DEF found
<1>3. /\ req'[r] \in Reqs /\ req'[r].totp = found
      /\ req'[r].passkey = req[r].passkey /\ req'[r].counted = req[r].counted
      /\ req'[r].other = req[r].other
  BY <1>1, <1>2 DEF TypeOK, Reqs
<1>4. /\ \A q \in Requests : q # r => pc'[q] = pc[q] /\ req'[q] = req[q]
      /\ pc' \in [Requests -> Steps] /\ req' \in [Requests -> Reqs]
  BY <1>1, <1>2, <1>3 DEF TypeOK
<1>5. RequestInv(r)'
  BY <1>1, <1>2, <1>3 DEF RequestInv, SecretsStored, stored
<1> QED BY <1>2, <1>4, <1>5, QuietStep

-----------------------------------------------------------------------------
(***************************************************************************)
(* A request ends.                                                         *)
(***************************************************************************)

\* A request that only ends.
LEMMA AnswerStep ==
    ASSUME CredInv, NEW r \in Requests, Answer(r),
           UNCHANGED <<now, stored, marks, history, pending, elevated>>
    PROVE  CredInv'
<1>1. TypeOK
  BY DEF CredInv
<1> QED BY <1>1, Answered, QuietStep

LEMMA WriteCounterStep ==
    ASSUME CredInv, NEW r \in Requests, WriteCounter(r)
    PROVE  CredInv'
<1>1. /\ TypeOK /\ Answer(r)
      /\ UNCHANGED <<now, passkeys, totp, pending, marks, history, elevated>>
  BY DEF CredInv, WriteCounter
<1>2. /\ RequestInv(r)'
      /\ \A q \in Requests : q # r => pc'[q] = pc[q] /\ req'[q] = req[q]
      /\ pc' \in [Requests -> Steps] /\ req' \in [Requests -> Reqs]
  BY <1>1, Answered
<1>3. counter' \in [Passkeys -> Nat]
  <2>1. req[r] \in Reqs
    BY <1>1 DEF TypeOK
  <2>2. req[r].signed \in Nat
    BY <2>1 DEF Reqs
  <2> QED BY <1>1, <2>2 DEF WriteCounter, TypeOK
<1>4. TypeOK'
  BY <1>1, <1>2, <1>3 DEF TypeOK, history
<1>5. AccountInv' /\ Onward /\ MethodsStay
  BY <1>1, Counting DEF CredInv, AccountInv, SecretsStored, Held, Dead, Onward, MethodsStay,
                        TypeOK, history
<1>6. ASSUME NEW q \in Requests PROVE RequestInv(q)'
  BY <1>2, <1>4, <1>5, OtherKept
<1> QED BY <1>4, <1>5, <1>6 DEF CredInv

\* The mark outlives the code.
LEMMA MarkStep ==
    ASSUME CredInv, NEW r \in Requests, Mark(r)
    PROVE  CredInv'
<1> DEFINE code == req[r].code
           mark == [code |-> code, until |-> Until(now)]
<1>1. /\ TypeOK /\ RequestInv(r) /\ pc[r] = "mark" /\ Answer(r)
      /\ UNCHANGED <<now, stored, pending, used, proved>>
      /\ marks' = {m \in marks : m.code # code} \cup {mark}
      /\ spent' = spent \cup {code}
      /\ elevated' = (elevated \/ req[r].kind = "stepUp")
  BY DEF CredInv, Mark
<1>2. /\ RequestInv(r)'
      /\ \A q \in Requests : q # r => pc'[q] = pc[q] /\ req'[q] = req[q]
      /\ pc' \in [Requests -> Steps] /\ req' \in [Requests -> Reqs]
  BY <1>1, Answered
<1>3. /\ code \in Codes /\ code.step \in Nat /\ now >= code.step - Tolerance
      /\ now \in Nat /\ Tolerance \in Nat /\ ReplayTtl \in Nat /\ ReplayTtl >= 2 * Tolerance + 1
  BY <1>1, CredentialsAssumption, ReplayTtlAssumption DEF RequestInv, TypeOK, Codes
<1>4. /\ mark \in [code : Codes, until : Nat] /\ mark.code = code
      /\ mark.until > code.step + Tolerance
  BY <1>3 DEF Until
<1>5. TypeOK'
  <2>1. elevated' \in BOOLEAN /\ marks' \subseteq [code : Codes, until : Nat]
        /\ spent' \subseteq Codes
    BY <1>1, <1>3, <1>4 DEF TypeOK
  <2> QED BY <1>1, <1>2, <2>1 DEF TypeOK, stored
<1>6. AccountInv'
  <2>1. ASSUME NEW k \in spent' PROVE Held(k)'
    <3>1. CASE k = code
      BY <1>1, <1>4, <3>1 DEF Held
    <3>2. CASE k # code
      <4>1. Held(k)
        BY <1>1, <2>1, <3>2 DEF CredInv, AccountInv
      <4> HIDE DEF mark, code
      <4> QED BY <1>1, <3>2, <4>1 DEF Held, Dead
    <3> QED BY <3>1, <3>2
  <2> QED BY <1>1, <2>1 DEF CredInv, AccountInv, SecretsStored, stored
<1>7. Onward /\ MethodsStay
  BY <1>1, <1>3, Counting DEF Onward, MethodsStay, SecretsStored, stored
<1>8. ASSUME NEW q \in Requests PROVE RequestInv(q)'
  BY <1>2, <1>5, <1>7, <1>8, OtherKept
<1> QED BY <1>5, <1>6, <1>8 DEF CredInv

\* What is stored for every row there is was proved before.
LEMMA StoreSecretStep ==
    ASSUME CredInv, NEW r \in Requests, StoreSecret(r)
    PROVE  CredInv'
<1>1. /\ TypeOK /\ RequestInv(r) /\ pc[r] = "store" /\ totp' = Rotated(r)
      /\ Answer(r) \/ Goto(r, "drop")
      /\ UNCHANGED <<now, passkeys, counter, pending, marks, history, elevated>>
  BY DEF CredInv, StoreSecret
<1>2. req[r].secret \in Secrets /\ req[r].secret \in proved
  BY <1>1 DEF RequestInv
<1>3. /\ RequestInv(r)'
      /\ \A q \in Requests : q # r => pc'[q] = pc[q] /\ req'[q] = req[q]
      /\ pc' \in [Requests -> Steps] /\ req' \in [Requests -> Reqs]
  <2>1. CASE Answer(r)
    BY <1>1, <2>1, Answered
  <2>2. CASE Goto(r, "drop")
    <3>1. /\ pc'[r] = "drop"
          /\ \A q \in Requests : q # r => pc'[q] = pc[q] /\ req'[q] = req[q]
          /\ pc' \in [Requests -> Steps] /\ req' \in [Requests -> Reqs]
      BY <1>1, <2>2 DEF Goto, TypeOK, Steps
    <3> QED BY <3>1 DEF RequestInv
  <2> QED BY <1>1, <2>1, <2>2
<1>4. \A row \in {"own", "blank"} :
         totp'[row] = IF totp[row] = NoRow THEN NoRow ELSE req[r].secret
  BY <1>1 DEF Rotated
<1>5. TypeOK'
  BY <1>1, <1>2, <1>3 DEF TypeOK, Rotated, history
<1>6. SecretsStored' \subseteq proved /\ (SecretsStored # {} => SecretsStored' # {})
  BY <1>2, <1>4, CredentialsAssumption DEF SecretsStored
<1>7. AccountInv' /\ Onward /\ MethodsStay
  BY <1>1, <1>6, Counting DEF CredInv, AccountInv, Held, Dead, Onward, MethodsStay, TypeOK, history
<1>8. ASSUME NEW q \in Requests PROVE RequestInv(q)'
  BY <1>3, <1>5, <1>7, OtherKept
<1> QED BY <1>5, <1>7, <1>8 DEF CredInv

LEMMA DropPendingStep ==
    ASSUME CredInv, NEW r \in Requests, DropPending(r)
    PROVE  CredInv'
<1>1. TypeOK /\ Answer(r) /\ pending' = None /\ UNCHANGED <<now, stored, marks, history, elevated>>
  BY DEF CredInv, DropPending
<1>2. /\ RequestInv(r)'
      /\ \A q \in Requests : q # r => pc'[q] = pc[q] /\ req'[q] = req[q]
      /\ pc' \in [Requests -> Steps] /\ req' \in [Requests -> Reqs]
  BY <1>1, Answered
<1>3. TypeOK'
  BY <1>1, <1>2 DEF TypeOK, stored, history
<1>4. AccountInv' /\ Onward /\ MethodsStay
  BY <1>1, AccountKept
<1>5. ASSUME NEW q \in Requests PROVE RequestInv(q)'
  BY <1>2, <1>3, <1>4, OtherKept
<1> QED BY <1>3, <1>4, <1>5 DEF CredInv

\* Methods are removed: whoever has read them is told.
LEMMA RemovedFrom ==
    ASSUME CredInv, NEW r \in Requests, Removes(r)
    PROVE  /\ pc' \in [Requests -> Steps] /\ req' \in [Requests -> Reqs]
           /\ pc'[r] = "idle" /\ RequestInv(r)'
           /\ \A q \in Requests : q # r =>
                 /\ pc'[q] = pc[q]
                 /\ req'[q] = [req[q] EXCEPT !.other =
                                  @ \/ req[q].counted # None \/ req[q].totp = "yes"]
<1>1. TypeOK
  BY DEF CredInv
<1>2. pc' \in [Requests -> Steps] /\ pc'[r] = "idle"
      /\ \A q \in Requests : q # r => pc'[q] = pc[q]
  BY <1>1 DEF Removes, TypeOK, Steps
<1>3. /\ req'[r] = NoRequest
      /\ \A q \in Requests : q # r =>
            req'[q] = [req[q] EXCEPT !.other =
                          @ \/ req[q].counted # None \/ req[q].totp = "yes"]
  BY DEF Removes
<1>4. ASSUME NEW q \in Requests PROVE req'[q] \in Reqs
  <2>1. CASE q = r
    BY <1>3, <2>1, BlankRequest
  <2>2. CASE q # r
    <3> DEFINE told == req[q].other \/ req[q].counted # None \/ req[q].totp = "yes"
    <3>1. told \in BOOLEAN /\ req[q] \in Reqs
      BY <1>1 DEF TypeOK
    <3>2. req'[q] = [req[q] EXCEPT !.other = told]
      BY <1>3, <2>2
    <3> HIDE DEF told
    <3> QED BY <3>1, <3>2 DEF Reqs
  <2> QED BY <2>1, <2>2
<1>5. req' \in [Requests -> Reqs]
  <2>1. req' = [q \in Requests |-> req'[q]]
    BY DEF Removes
  <2> QED BY <1>4, <2>1
<1>6. RequestInv(r)'
  BY <1>2 DEF RequestInv
<1> QED BY <1>2, <1>3, <1>5, <1>6

LEMMA ToldKept ==
    ASSUME CredInv, TypeOK', UNCHANGED <<now, history>>, NEW q \in Requests, pc'[q] = pc[q],
           req'[q] = [req[q] EXCEPT !.other = @ \/ req[q].counted # None \/ req[q].totp = "yes"]
    PROVE  RequestInv(q)'
<1> DEFINE told == req[q].other \/ req[q].counted # None \/ req[q].totp = "yes"
<1>1. RequestInv(q) /\ req[q] \in Reqs /\ told \in BOOLEAN
  BY DEF CredInv, TypeOK
<1>2. req'[q] = [req[q] EXCEPT !.other = told]
  OBVIOUS
<1>3. ~told => req[q].counted = None /\ req[q].totp # "yes"
  OBVIOUS
<1> HIDE DEF told
<1>4. /\ req'[q].code = req[q].code /\ req'[q].late = req[q].late /\ req'[q].kind = req[q].kind
      /\ req'[q].secret = req[q].secret /\ req'[q].passkey = req[q].passkey
      /\ req'[q].seen = req[q].seen /\ req'[q].signed = req[q].signed
      /\ req'[q].counted = req[q].counted /\ req'[q].totp = req[q].totp
      /\ req'[q].other = told
  BY <1>1, <1>2 DEF Reqs
<1> QED BY <1>1, <1>3, <1>4 DEF RequestInv, Dead, history

LEMMA RemovalStep ==
    ASSUME CredInv, NEW r \in Requests, Removes(r),
           UNCHANGED <<now, pending, marks, history, elevated>>,
           passkeys' \subseteq passkeys, counter' \in [Passkeys -> Nat],
           totp' = totp \/ totp' = [row \in {"own", "blank"} |-> NoRow]
    PROVE  CredInv'
<1>1. TypeOK
  BY DEF CredInv
<1>2. TypeOK'
  <2>1. totp' \in [{"own", "blank"} -> Secrets \cup {None, NoRow}]
    BY <1>1 DEF TypeOK
  <2> QED BY <1>1, <2>1, RemovedFrom DEF TypeOK, history
<1>3. AccountInv'
  <2>1. SecretsStored' \subseteq SecretsStored
    BY CredentialsAssumption DEF SecretsStored
  <2> QED BY <2>1 DEF CredInv, AccountInv, Held, Dead, history
<1>4. ASSUME NEW q \in Requests PROVE RequestInv(q)'
  BY <1>2, RemovedFrom, ToldKept
<1> QED BY <1>2, <1>3, <1>4 DEF CredInv

LEMMA RevokeStep ==
    ASSUME CredInv, NEW r \in Requests, Revoke(r)
    PROVE  CredInv'
<1>1. /\ TypeOK /\ RequestInv(r) /\ pc[r] = "count"
      /\ UNCHANGED <<now, totp, pending, marks, history, elevated>>
  BY DEF CredInv, Revoke
<1>2. CASE Answer(r) /\ UNCHANGED <<passkeys, counter>>
  BY <1>1, <1>2, AnswerStep DEF stored
<1>3. CASE /\ Removes(r) /\ passkeys' = passkeys \ {req[r].passkey}
           /\ counter' = [counter EXCEPT ![req[r].passkey] = 0]
  <2>1. counter' \in [Passkeys -> Nat]
    BY <1>1, <1>3 DEF TypeOK
  <2>2. passkeys' \subseteq passkeys /\ totp' = totp
    BY <1>1, <1>3
  <2> QED BY <1>1, <1>3, <2>1, <2>2, RemovalStep
<1> QED BY <1>2, <1>3 DEF Revoke

LEMMA ResetStep ==
    ASSUME CredInv, NEW r \in Requests, Reset(r)
    PROVE  CredInv'
<1>1. TypeOK /\ UNCHANGED <<now, pending, marks, history, elevated>>
  BY DEF CredInv, Reset
<1>2. CASE Answer(r) /\ UNCHANGED stored
  BY <1>1, <1>2, AnswerStep
<1>3. CASE /\ Removes(r) /\ passkeys' = passkeys \ req[r].stale
           /\ counter' = [p \in Passkeys |-> IF p \in req[r].stale THEN 0 ELSE counter[p]]
           /\ totp' = [row \in {"own", "blank"} |-> NoRow]
  <2>1. counter' \in [Passkeys -> Nat]
    BY <1>1, <1>3 DEF TypeOK
  <2> QED BY <1>1, <1>3, <2>1, RemovalStep
<1> QED BY <1>2, <1>3 DEF Reset

-----------------------------------------------------------------------------
(***************************************************************************)
(* Steps that are one query, time, and the whole.                          *)
(***************************************************************************)
LEMMA DirectStep ==
    ASSUME CredInv,
           \/ \E p \in Passkeys, n \in 0 .. MaxCounter : RegisterPasskey(p, n)
           \/ \E s \in Secrets : TotpSetup(s) \/ TotpReset(s)
           \/ Tick \/ ExpirePending \/ Lapse
    PROVE  CredInv'
<1>1. TypeOK /\ AccountInv /\ pc' = pc /\ req' = req
  BY DEF CredInv, RegisterPasskey, TotpSetup, TotpReset, Tick, ExpirePending, Lapse
<1>2. /\ IsFiniteSet(passkeys) /\ Cardinality(passkeys) \in Nat /\ now \in Int /\ now \in Nat
  BY <1>1, Counting DEF TypeOK
<1>3. TypeOK' /\ AccountInv' /\ Onward /\ MethodsStay
  <2>1. ASSUME NEW p \in Passkeys, NEW n \in 0 .. MaxCounter, RegisterPasskey(p, n)
        PROVE  TypeOK' /\ AccountInv' /\ Onward /\ MethodsStay
    <3>1. /\ passkeys' = passkeys \cup {p} /\ used' = used \cup {p}
          /\ counter' = [counter EXCEPT ![p] = n] /\ n \in Nat
          /\ UNCHANGED <<now, totp, pending, marks, proved, spent, pc, req, elevated>>
      BY <2>1, CredentialsAssumption DEF RegisterPasskey
    <3>2. TypeOK'
      BY <1>1, <3>1 DEF TypeOK
    <3>3. Cardinality(passkeys) <= Cardinality(passkeys')
      <4>1. IsFiniteSet(passkeys') /\ passkeys \in SUBSET passkeys'
        BY <1>2, <3>1, FS_AddElement
      <4> QED BY <4>1, FS_Subset
    <3> QED BY <1>1, <1>2, <3>1, <3>2, <3>3
            DEF AccountInv, SecretsStored, Held, Dead, Onward, MethodsStay
  <2>2. ASSUME NEW s \in Secrets, TotpSetup(s)
        PROVE  TypeOK' /\ AccountInv' /\ Onward /\ MethodsStay
    <3>1. /\ totp' = [totp EXCEPT !["own"] = s] /\ proved' = proved \cup {s}
          /\ used' = used \cup {s}
          /\ UNCHANGED <<now, passkeys, counter, pending, marks, spent, pc, req, elevated>>
      BY <2>2 DEF TotpSetup, Draw
    <3>2. TypeOK'
      BY <1>1, <3>1 DEF TypeOK
    <3>3. SecretsStored' \subseteq SecretsStored \cup {s} /\ s \in SecretsStored'
      BY <1>1, <3>1 DEF SecretsStored, TypeOK
    <3> QED BY <1>1, <1>2, <3>1, <3>2, <3>3 DEF AccountInv, Held, Dead, Onward, MethodsStay
  <2>3. ASSUME NEW s \in Secrets, TotpReset(s)
        PROVE  TypeOK' /\ AccountInv' /\ Onward /\ MethodsStay
    BY <1>1, <1>2, <2>3 DEF TotpReset, Draw, TypeOK, AccountInv, SecretsStored, Held, Dead,
                            Onward, MethodsStay, stored
  <2>4. CASE Tick
    <3>1. /\ now' = now + 1 /\ marks' = {m \in marks : m.until > now'}
          /\ UNCHANGED <<stored, pending, history, pc, req, elevated>>
      BY <2>4 DEF Tick
    <3>2. TypeOK' /\ now' \in Nat
      BY <1>1, <3>1 DEF TypeOK, stored, history
    <3>3. ASSUME NEW k \in spent PROVE Held(k)'
      <4>1. k.step \in Nat /\ Tolerance \in Nat /\ \A m \in marks : m.until \in Nat
        BY <1>1, CredentialsAssumption DEF TypeOK, Codes
      <4>2. Held(k)
        BY <1>1 DEF AccountInv
      <4> QED BY <1>2, <3>1, <4>1, <4>2 DEF Held, Dead
    <3> QED BY <1>1, <1>2, <3>1, <3>2, <3>3
            DEF AccountInv, SecretsStored, Onward, MethodsStay, stored, history
  <2>5. CASE ExpirePending \/ Lapse
    <3>1. UNCHANGED <<now, stored, marks, history>>
      BY <2>5 DEF ExpirePending, Lapse
    <3>2. TypeOK'
      BY <1>1, <2>5 DEF ExpirePending, Lapse, TypeOK, stored, history
    <3> QED BY <3>1, <3>2, AccountKept
  <2> QED BY <2>1, <2>2, <2>3, <2>4, <2>5
<1>4. ASSUME NEW q \in Requests PROVE RequestInv(q)'
  BY <1>1, <1>3, OtherKept
<1> QED BY <1>3, <1>4 DEF CredInv

LEMMA CredentialsInit == Init => CredInv
<1> SUFFICES ASSUME Init PROVE CredInv
  OBVIOUS
<1>1. SecretsStored \subseteq proved /\ used \subseteq Secrets
  BY CredentialsAssumption DEF Init, SecretsStored
<1>2. TypeOK
  BY <1>1, BlankRequest DEF Init, TypeOK, Steps
<1>3. AccountInv
  BY <1>1 DEF Init, AccountInv
<1>4. ASSUME NEW r \in Requests PROVE RequestInv(r)
  BY DEF Init, RequestInv
<1> QED BY <1>2, <1>3, <1>4 DEF CredInv

LEMMA RequestStepKeeps ==
    ASSUME CredInv, NEW r \in Requests, RequestStep(r) \/ Fail(r)
    PROVE  CredInv'
<1>1. ASSUME NEW s \in Secrets \cap used, NEW step \in Shown,
             LET code == [secret |-> s, step |-> step] IN TotpLogin(r, code) \/ StepUp(r, code)
      PROVE  CredInv'
  <2> DEFINE code == [secret |-> s, step |-> step]
  <2>1. code \in Codes
    BY <1>1, CredentialsAssumption DEF Codes
  <2>2. (\E x \in SecretsStored : Show(r, "login", code, "get", x))
           \/ Show(r, "stepUp", code, "get", None)
    BY <1>1 DEF TotpLogin, StepUp
  <2> HIDE DEF code
  <2>3. \A x \in SecretsStored : x \in Secrets
    BY DEF SecretsStored
  <2> QED BY <2>1, <2>2, <2>3, ShowStep
<1>2. ASSUME Fail(r) PROVE CredInv'
  BY <1>2, AnswerStep DEF Fail
<1> QED BY <1>1, <1>2, PasskeyLoginStep, WriteCounterStep, GetMarkStep, FindTotpStep, CheckStep,
           MarkStep, TotpResetVerifyStep, StoreSecretStep, DropPendingStep, RevokePasskeyStep,
           CountPasskeysStep, FindConfiguredStep, RevokeStep, ResetCredentialsStep, ResetStep
           DEF RequestStep

LEMMA CredentialsStep == CredInv /\ [Next]_vars => CredInv'
<1> SUFFICES ASSUME CredInv, [Next]_vars
             PROVE  CredInv'
  OBVIOUS
<1>1. CASE UNCHANGED vars
  <2>1. UNCHANGED <<now, stored, marks, history, pc, req, pending, elevated>>
    BY <1>1 DEF vars
  <2>2. TypeOK' /\ AccountInv' /\ Onward /\ MethodsStay
    <3>1. TypeOK'
      BY <2>1 DEF CredInv, TypeOK, stored, history
    <3> QED BY <2>1, <3>1, AccountKept
  <2> QED BY <2>1, <2>2, OtherKept DEF CredInv
<1> QED BY <1>1, RequestStepKeeps, DirectStep DEF Next

\* The invariant, for any number of requests, passkeys and secrets and every tolerance
\* and TTL that the assumptions allow.
THEOREM CredentialsInvariant == Spec => []CredInv
<1> QED BY CredentialsInit, CredentialsStep, PTL DEF Spec

-----------------------------------------------------------------------------
(***************************************************************************)
(* The properties.                                                         *)
(***************************************************************************)

\* Every variable keeps its type, whatever overlaps.
THEOREM TypeCorrect == Spec => []TypeOK
<1>1. CredInv => TypeOK
  BY DEF CredInv
<1> QED BY <1>1, CredentialsInvariant, PTL

\* A login or step-up with a code that was accepted before the request came does not
\* reach its mark.
THEOREM ReplayIsRefused == Spec => []ReplayRefused
<1>1. CredInv => ReplayRefused
  BY DEF CredInv, RequestInv, ReplayRefused
<1> QED BY <1>1, CredentialsInvariant, PTL

\* No secret is stored that was not proved, or set up.
THEOREM RotationIsProven == Spec => []RotationProven
<1>1. CredInv => RotationProven
  BY DEF CredInv, AccountInv, RotationProven
<1> QED BY <1>1, CredentialsInvariant, PTL

\* Which request it is that goes from pc[r] to "idle".
LEMMA WhoEnds ==
    ASSUME CredInv, Next, NEW r \in Requests, pc[r] \in {"count", "reset"}, pc'[r] = "idle"
    PROVE  Revoke(r) \/ Reset(r) \/ UNCHANGED stored
<1>1. TypeOK
  BY DEF CredInv
<1>2. ASSUME NEW q \in Requests, RequestStep(q) \/ Fail(q), q # r
      PROVE  FALSE
  <2>1. pc'[r] = pc[r]
    BY <1>1, <1>2 DEF RequestStep, PasskeyLogin, TotpLogin, StepUp, Show, WriteCounter, GetMark,
       FindTotp, Check, Mark, TotpResetVerify, StoreSecret, DropPending, RevokePasskey,
       CountPasskeys, FindConfigured, Revoke, ResetCredentials, Reset, Fail, Begin, Answer,
       Goto, Removes, TypeOK
  <2> QED BY <2>1
<1>3. ASSUME RequestStep(r) PROVE Revoke(r) \/ Reset(r)
  BY <1>1, <1>3 DEF RequestStep, PasskeyLogin, TotpLogin, StepUp, Show, WriteCounter, GetMark,
     FindTotp, Check, Mark, TotpResetVerify, StoreSecret, DropPending, RevokePasskey,
     CountPasskeys, FindConfigured, ResetCredentials, Begin, TypeOK
<1>4. ASSUME Fail(r) PROVE UNCHANGED stored
  BY <1>4 DEF Fail
<1>5. ASSUME NEW p \in Passkeys, NEW n \in 0 .. MaxCounter, RegisterPasskey(p, n) PROVE FALSE
  BY <1>5 DEF RegisterPasskey
<1>6. ASSUME NEW s \in Secrets, TotpSetup(s) \/ TotpReset(s) PROVE FALSE
  BY <1>6 DEF TotpSetup, TotpReset
<1>7. ASSUME Tick \/ ExpirePending \/ Lapse PROVE FALSE
  BY <1>7 DEF Tick, ExpirePending, Lapse
<1> QED BY <1>2, <1>3, <1>4, <1>5, <1>6, <1>7 DEF Next

\* A passkey that is revoked is not the last method, unless another method was removed
\* since the request read what there is.
LEMMA RevokeLeaves ==
    ASSUME CredInv, Next, NEW r \in Requests, Revokes(r), ~req[r].other
    PROVE  Usable'
<1>1. /\ pc[r] = "count" /\ passkeys' # passkeys /\ pc'[r] = "idle"
      /\ TypeOK /\ RequestInv(r) /\ req[r] \in Reqs
  BY DEF Revokes, CredInv, TypeOK
<1>2. Revoke(r)
  BY <1>1, WhoEnds DEF Reset, stored
<1>3. /\ req[r].counted # None /\ req[r].totp # "unread" /\ ~LastMethod(r)
      /\ passkeys' = passkeys \ {req[r].passkey} /\ totp' = totp
  BY <1>1, <1>2 DEF Revoke
<1>4. CASE req[r].totp = "yes"
  BY <1>1, <1>3, <1>4 DEF RequestInv, Usable, SecretsStored
<1>5. CASE req[r].totp # "yes"
  <2>1. req[r].counted \in Nat /\ req[r].totp = "no"
    BY <1>1, <1>3, <1>5 DEF Reqs
  <2>2. req[r].counted > 1 /\ req[r].counted <= Cardinality(passkeys)
    BY <1>1, <1>3, <2>1 DEF LastMethod, RequestInv
  <2>3. /\ IsFiniteSet(passkeys) /\ Cardinality(passkeys) \in Nat
    BY <1>1, Counting
  <2>4. Cardinality(passkeys') >= Cardinality(passkeys) - 1
    BY <1>3, <2>3, FS_RemoveElement
  <2>5. passkeys' # {}
    BY <2>1, <2>2, <2>3, <2>4, FS_EmptySet
  <2> QED BY <2>5 DEF Usable
<1> QED BY <1>4, <1>5

\* revokePasskey does not remove the last method, unless another method is removed
\* while it is under way.
THEOREM MethodsRemain == Spec => MethodRemains
<1>1. CredInv /\ [Next]_vars =>
        [\A r \in Requests : Revokes(r) /\ ~req[r].other => Usable']_vars
  BY RevokeLeaves
<1> QED BY <1>1, CredentialsInvariant, PTL DEF Spec, MethodRemains

\* A counter that goes back was written by a login that read another one.
LEMMA LowerOnlyByOverlap ==
    ASSUME CredInv, Next, NEW p \in passkeys, p \in passkeys', counter'[p] < counter[p]
    PROVE  \E r \in Requests : pc[r] = "write" /\ req[r].passkey = p
                               /\ req[r].seen # counter[p]
<1>1. TypeOK /\ AccountInv /\ p \in Passkeys /\ counter[p] \in Nat /\ p \in used
  BY DEF CredInv, TypeOK, AccountInv
<1>2. counter'[p] # counter[p]
  BY <1>1
<1>3. ASSUME NEW q \in Passkeys, NEW n \in 0 .. MaxCounter, RegisterPasskey(q, n)
      PROVE  FALSE
  BY <1>1, <1>2, <1>3 DEF RegisterPasskey, TypeOK
<1>4. ASSUME NEW r \in Requests, Revoke(r)
      PROVE  FALSE
  BY <1>1, <1>2, <1>4 DEF Revoke, TypeOK
<1>5. ASSUME NEW r \in Requests, Reset(r)
      PROVE  FALSE
  BY <1>1, <1>2, <1>5 DEF Reset, stored
<1>6. PICK r \in Requests : WriteCounter(r)
  BY <1>2, <1>3, <1>4, <1>5
     DEF Next, RequestStep, PasskeyLogin, TotpLogin, StepUp, Show, GetMark, FindTotp, Check,
         Mark, TotpResetVerify, StoreSecret, DropPending, RevokePasskey, CountPasskeys,
         FindConfigured, ResetCredentials, Fail, TotpSetup, TotpReset, Tick, ExpirePending,
         Lapse, stored
<1>7. /\ pc[r] = "write" /\ RequestInv(r) /\ req[r] \in Reqs
      /\ req[r].passkey = p /\ counter'[p] = req[r].signed
  BY <1>1, <1>2, <1>6 DEF WriteCounter, CredInv, TypeOK
<1>8. req[r].seen \in Nat /\ req[r].signed \in Nat /\ Advances(req[r].seen, req[r].signed)
  BY <1>7 DEF Reqs, RequestInv
<1>9. req[r].seen # counter[p]
  BY <1>1, <1>7, <1>8 DEF Advances
<1> QED BY <1>7, <1>9

\* A counter goes back only when two logins with the passkey overlap.
THEOREM CounterIsGuarded == Spec => CounterLoweredOnlyByOverlap
<1>1. CredInv /\ [Next]_vars =>
        [\A p \in passkeys \cap passkeys' : counter'[p] < counter[p] =>
            \E r \in Requests : pc[r] = "write" /\ req[r].passkey = p
                                /\ req[r].seen # counter[p]]_vars
  BY LowerOnlyByOverlap
<1> QED BY <1>1, CredentialsInvariant, PTL DEF Spec, CounterLoweredOnlyByOverlap

\* resetCredentials leaves no method, or changes nothing.
THEOREM ResetIsAllOrNothing == Spec => ResetAllOrNothing
<1>1. CredInv /\ [Next]_vars =>
        [\A r \in Requests : pc[r] = "reset" /\ stored' # stored /\ pc'[r] = "idle" =>
            ~Usable']_vars
  <2> SUFFICES ASSUME CredInv, Next, NEW r \in Requests, pc[r] = "reset", stored' # stored,
                      pc'[r] = "idle"
               PROVE  ~Usable'
    OBVIOUS
  <2>1. Reset(r)
    BY WhoEnds DEF Revoke
  <2>2. /\ passkeys \subseteq req[r].stale /\ passkeys' = passkeys \ req[r].stale
        /\ totp' = [row \in {"own", "blank"} |-> NoRow]
    BY <2>1 DEF Reset, Removable
  <2>3. passkeys' = {} /\ SecretsStored' = {}
    BY <2>2, CredentialsAssumption DEF SecretsStored
  <2> QED BY <2>3 DEF Usable
<1> QED BY <1>1, CredentialsInvariant, PTL DEF Spec, ResetAllOrNothing

-----------------------------------------------------------------------------
(***************************************************************************)
(* Requests one after the other.                                           *)
(***************************************************************************)

\* One request at a time.  A passkey or a secret may still be registered meanwhile.
Alone == \A q, r \in Requests : pc[q] # "idle" /\ pc[r] # "idle" => q = r

\* A code is accepted once, whoever shows it.
AcceptedOnce == \A r \in Requests : pc[r] = "mark" => req[r].code \notin spent

\* Only an administrator's reset takes the last method away.
NeverLockedOut == [][Usable => Usable' \/ \E r \in Requests : pc[r] = "reset"]_vars

\* The counter of a passkey does not go back.
CountersAdvance == [][\A p \in passkeys \cap passkeys' : counter[p] <= counter'[p]]_vars

\* Alone, a request is told of no removal, and what it read is still so.
Current(r) ==
    /\ ~req[r].other
    /\ pc[r] = "idle" => req[r].counted = None /\ req[r].totp = "unread"
    /\ pc[r] \in {"get", "find", "check", "mark"} /\ req[r].code \in spent => req[r].late
    /\ pc[r] = "write" =>
          req[r].passkey \in passkeys /\ req[r].seen = counter[req[r].passkey]
CurrentInv == \A r \in Requests : Current(r)

\* An idle request is current, whatever becomes of the account.
LEMMA BlankIsCurrent ==
    ASSUME NEW r \in Requests, pc'[r] = "idle", req'[r] = NoRequest
    PROVE  Current(r)'
<1>1. NoRequest.counted = None /\ NoRequest.totp = "unread" /\ ~NoRequest.other
  BY DEF NoRequest
<1> QED BY <1>1 DEF Current

\* A request that begins with what there is is current.
LEMMA BeginsCurrent ==
    ASSUME CredInv, CurrentInv, NEW r \in Requests, UNCHANGED <<stored, spent>>,
           \/ \E p \in Passkeys, n \in 0..MaxCounter : PasskeyLogin(r, p, n)
           \/ \E code \in Codes : TotpLogin(r, code) \/ StepUp(r, code)
           \/ TotpResetVerify(r)
           \/ \E p \in Passkeys : RevokePasskey(r, p)
           \/ ResetCredentials(r)
    PROVE  /\ Current(r)'
           /\ \A q \in Requests : q # r => pc'[q] = pc[q] /\ req'[q] = req[q]
<1> USE DEF stored
<1>1. pc \in [Requests -> Steps] /\ req \in [Requests -> Reqs] /\ NoRequest.other = FALSE
      /\ NoRequest.counted = None /\ NoRequest.totp = "unread"
  BY DEF CredInv, TypeOK, NoRequest
<1>2. CASE \E p \in Passkeys, n \in 0..MaxCounter : PasskeyLogin(r, p, n)
  <2>1. PICK p \in Passkeys, n \in 0..MaxCounter : PasskeyLogin(r, p, n)
    BY <1>2
  <2>2. /\ pc'[r] = "write" /\ p \in passkeys
        /\ req'[r] = [NoRequest EXCEPT !.passkey = p, !.seen = counter[p], !.signed = n]
        /\ \A q \in Requests : q # r => pc'[q] = pc[q] /\ req'[q] = req[q]
    BY <1>1, <2>1 DEF PasskeyLogin, Begin
  <2>3. req'[r].passkey = p /\ req'[r].seen = counter[p] /\ ~req'[r].other
    BY <2>2 DEF NoRequest
  <2> QED BY <2>2, <2>3 DEF Current
<1>3. CASE \E code \in Codes : TotpLogin(r, code) \/ StepUp(r, code)
  <2>1. PICK code \in Codes : TotpLogin(r, code) \/ StepUp(r, code)
    BY <1>3
  <2>2. PICK kind, s : Show(r, kind, code, "get", s)
    BY <2>1 DEF TotpLogin, StepUp
  <2>3. /\ pc'[r] = "get"
        /\ req'[r] = [NoRequest EXCEPT !.kind = kind, !.code = code, !.secret = s,
                                       !.late = code \in spent]
        /\ \A q \in Requests : q # r => pc'[q] = pc[q] /\ req'[q] = req[q]
    BY <1>1, <2>2 DEF Show, Begin
  <2>4. req'[r].code = code /\ req'[r].late = (code \in spent) /\ ~req'[r].other
    BY <2>3 DEF NoRequest
  <2>5. req'[r].code \in spent' => req'[r].late
    BY <2>4, Zenon
  <2> QED BY <2>3, <2>4, <2>5 DEF Current
<1>4. CASE TotpResetVerify(r) \/ ResetCredentials(r) \/ \E p \in Passkeys : RevokePasskey(r, p)
  <2>1. /\ pc'[r] \in {"store", "reset", "count"} /\ ~req'[r].other
        /\ \A q \in Requests : q # r => pc'[q] = pc[q] /\ req'[q] = req[q]
    BY <1>1, <1>4 DEF TotpResetVerify, ResetCredentials, RevokePasskey, Begin, NoRequest
  <2> QED BY <2>1 DEF Current
<1> QED BY <1>2, <1>3, <1>4

\* A request that goes on alone stays current.
LEMMA GoesOnCurrent ==
    ASSUME CredInv, CurrentInv, NEW r \in Requests, \A q \in Requests \ {r} : pc[q] = "idle",
           \/ WriteCounter(r) \/ GetMark(r) \/ FindTotp(r) \/ Check(r) \/ Mark(r)
           \/ StoreSecret(r) \/ DropPending(r) \/ CountPasskeys(r) \/ FindConfigured(r)
           \/ Revoke(r) \/ Reset(r) \/ Fail(r)
    PROVE  CurrentInv'
<1> USE DEF stored, history
<1>1. TypeOK /\ pc \in [Requests -> Steps] /\ req \in [Requests -> Reqs] /\ Current(r)
  BY DEF CredInv, TypeOK, CurrentInv
<1>2. ASSUME Answer(r) PROVE CurrentInv'
  <2>1. Current(r)'
    BY <1>1, <1>2, Answered, BlankIsCurrent
  <2>2. \A q \in Requests \ {r} : pc'[q] = pc[q] /\ req'[q] = req[q]
    BY <1>1, <1>2, Answered
  <2> QED BY <2>1, <2>2 DEF CurrentInv, Current
<1>3. ASSUME UNCHANGED <<spent, counter, passkeys>>, pc'[r] # "idle", pc'[r] # "write",
             pc[r] \in {"get", "find", "check", "mark"} \/
                pc'[r] \notin {"get", "find", "check", "mark"},
             req'[r].other = req[r].other, req'[r].code = req[r].code,
             req'[r].late = req[r].late,
             \A q \in Requests \ {r} : pc'[q] = pc[q] /\ req'[q] = req[q]
      PROVE  CurrentInv'
  <2>1. Current(r)'
    BY <1>1, <1>3 DEF Current
  <2> QED BY <1>3, <2>1 DEF CurrentInv, Current
<1>4. ASSUME Removes(r) PROVE CurrentInv'
  <2>1. pc'[r] = "idle" /\ req'[r] = NoRequest
    BY <1>1, <1>4 DEF Removes
  <2>2. ASSUME NEW q \in Requests \ {r} PROVE Current(q)'
    <3>1. pc'[q] = "idle" /\ Current(q)
      BY <1>1, <1>4 DEF Removes, CurrentInv
    <3>2. req[q].counted = None /\ req[q].totp # "yes" /\ ~req[q].other /\ req[q] \in Reqs
          /\ req[q].totp = "unread"
      BY <1>1, <3>1 DEF Current
    <3>3. req'[q] = [req[q] EXCEPT !.other =
                        @ \/ req[q].counted # None \/ req[q].totp = "yes"]
      BY <1>4 DEF Removes
    <3>4. /\ req'[q].counted = None /\ req'[q].totp = "unread"
          /\ req'[q].other = (req[q].other \/ req[q].counted # None \/ req[q].totp = "yes")
      BY <3>2, <3>3 DEF Reqs
    <3>5. ~req'[q].other
      BY <3>2, <3>4, Zenon
    <3> QED BY <3>1, <3>4, <3>5 DEF Current
  <2> QED BY <2>1, <2>2, BlankIsCurrent DEF CurrentInv
<1>5. CASE WriteCounter(r) \/ Mark(r) \/ DropPending(r) \/ Fail(r)
  BY <1>2, <1>5 DEF WriteCounter, Mark, DropPending, Fail
<1>6. CASE GetMark(r)
  BY <1>1, <1>2, <1>3, <1>6 DEF GetMark, Goto, TypeOK
<1>7. CASE FindTotp(r)
  <2>1. CASE Answer(r)
    BY <1>2, <2>1
  <2>2. CASE ~Answer(r)
    <3>1. PICK s : pc' = [pc EXCEPT ![r] = "check"] /\ req' = [req EXCEPT ![r].secret = s]
      BY <1>7, <2>2 DEF FindTotp
    <3>2. /\ req'[r].other = req[r].other /\ req'[r].code = req[r].code
          /\ req'[r].late = req[r].late /\ pc'[r] = "check"
          /\ \A q \in Requests \ {r} : pc'[q] = pc[q] /\ req'[q] = req[q]
      BY <1>1, <3>1 DEF Reqs
    <3> QED BY <1>3, <1>7, <3>2 DEF FindTotp
  <2> QED BY <2>1, <2>2
<1>8. CASE Check(r)
  BY <1>1, <1>2, <1>3, <1>8 DEF Check, Goto
<1>9. CASE StoreSecret(r)
  BY <1>1, <1>2, <1>3, <1>9 DEF StoreSecret, Goto
<1>10. CASE CountPasskeys(r) \/ FindConfigured(r)
  <2>1. pc[r] = "count" /\ pc' = pc /\ \E x : \/ req' = [req EXCEPT ![r].counted = x]
                                             \/ req' = [req EXCEPT ![r].totp = x]
    BY <1>10 DEF CountPasskeys, FindConfigured
  <2>2. /\ req'[r].other = req[r].other /\ req'[r].code = req[r].code
        /\ req'[r].late = req[r].late
        /\ \A q \in Requests \ {r} : pc'[q] = pc[q] /\ req'[q] = req[q]
    BY <1>1, <2>1 DEF Reqs
  <2> QED BY <1>3, <1>10, <2>1, <2>2 DEF CountPasskeys, FindConfigured
<1>11. CASE Revoke(r) \/ Reset(r)
  BY <1>2, <1>4, <1>11 DEF Revoke, Reset
<1> QED BY <1>5, <1>6, <1>7, <1>8, <1>9, <1>10, <1>11

\* Every step keeps every request current.
LEMMA CurrentStep ==
    ASSUME CredInv, CurrentInv, Alone, [Next]_vars
    PROVE  CurrentInv'
<1>1. ASSUME NEW r \in Requests,
             \/ WriteCounter(r) \/ GetMark(r) \/ FindTotp(r) \/ Check(r) \/ Mark(r)
             \/ StoreSecret(r) \/ DropPending(r) \/ CountPasskeys(r) \/ FindConfigured(r)
             \/ Revoke(r) \/ Reset(r) \/ Fail(r)
      PROVE  CurrentInv'
  <2>1. pc[r] # "idle"
    BY <1>1 DEF WriteCounter, GetMark, FindTotp, Check, Mark, StoreSecret, DropPending,
                CountPasskeys, FindConfigured, Revoke, Reset, Fail
  <2>2. \A q \in Requests \ {r} : pc[q] = "idle"
    BY <2>1 DEF Alone
  <2> QED BY <1>1, <2>2, GoesOnCurrent
<1>2. ASSUME NEW r \in Requests,
             \/ \E p \in Passkeys, n \in 0..MaxCounter : PasskeyLogin(r, p, n)
             \/ \E code \in Codes : TotpLogin(r, code) \/ StepUp(r, code)
             \/ TotpResetVerify(r)
             \/ \E p \in Passkeys : RevokePasskey(r, p)
             \/ ResetCredentials(r)
      PROVE  CurrentInv'
  <2>1. UNCHANGED <<stored, spent>>
    BY <1>2 DEF PasskeyLogin, TotpLogin, StepUp, Show, TotpResetVerify, RevokePasskey,
                ResetCredentials, history
  <2>2. Current(r)' /\ \A q \in Requests : q # r => pc'[q] = pc[q] /\ req'[q] = req[q]
    BY <1>2, <2>1, BeginsCurrent
  <2> QED BY <2>1, <2>2 DEF CurrentInv, Current, stored
<1>3. ASSUME NEW r \in Requests, NEW s \in Secrets \cap used, NEW step \in Shown,
             LET code == [secret |-> s, step |-> step] IN TotpLogin(r, code) \/ StepUp(r, code)
      PROVE  \E code \in Codes : TotpLogin(r, code) \/ StepUp(r, code)
  BY <1>3, CredentialsAssumption DEF Codes
<1>4. ASSUME NEW p \in Passkeys, NEW n \in 0..MaxCounter, RegisterPasskey(p, n)
      PROVE  CurrentInv'
  BY <1>4 DEF RegisterPasskey, CurrentInv, Current, CredInv, TypeOK, AccountInv
<1>5. CASE \/ \E s \in Secrets : TotpSetup(s) \/ TotpReset(s)
           \/ Tick \/ ExpirePending \/ Lapse \/ UNCHANGED vars
  <2>1. UNCHANGED <<passkeys, counter, spent, pc, req>>
    BY <1>5 DEF TotpSetup, TotpReset, Tick, ExpirePending, Lapse, vars, stored, history
  <2> QED BY <2>1 DEF CurrentInv, Current
<1> QED BY <1>1, <1>2, <1>3, <1>4, <1>5 DEF Next, RequestStep

\* A step takes the last method away in a reset only.
LEMMA MethodsKept ==
    ASSUME CredInv, CurrentInv, [Next]_vars, Usable
    PROVE  Usable' \/ \E r \in Requests : pc[r] = "reset"
<1> SUFFICES ASSUME \A r \in Requests : pc[r] # "reset"
             PROVE  Usable'
  OBVIOUS
<1>1. TypeOK
  BY DEF CredInv
<1>2. CASE UNCHANGED <<passkeys, totp>>
  BY <1>2 DEF Usable, SecretsStored
<1>3. ASSUME NEW p \in Passkeys, NEW n \in 0..MaxCounter, RegisterPasskey(p, n)
      PROVE  Usable'
  BY <1>3 DEF RegisterPasskey, Usable
<1>4. ASSUME NEW s \in Secrets, TotpSetup(s)
      PROVE  Usable'
  BY <1>1, <1>4 DEF TotpSetup, Usable, SecretsStored, TypeOK
<1>5. ASSUME NEW r \in Requests, StoreSecret(r)
      PROVE  Usable'
  <2>1. req[r].secret \in Secrets /\ totp' = Rotated(r) /\ passkeys' = passkeys
    BY <1>5 DEF StoreSecret, CredInv, RequestInv
  <2>2. SecretsStored # {} => SecretsStored' # {}
    BY <2>1, CredentialsAssumption DEF Rotated, SecretsStored
  <2> QED BY <2>1, <2>2 DEF Usable
<1>6. ASSUME NEW r \in Requests, Revoke(r), passkeys' # passkeys
      PROVE  Usable'
  <2>1. pc[r] = "count" /\ pc'[r] = "idle" /\ ~req[r].other
    BY <1>1, <1>6 DEF Revoke, Removes, Answer, CurrentInv, Current, TypeOK
  <2>2. Next
    BY <1>6 DEF vars, stored
  <2> QED BY <1>6, <2>1, <2>2, RevokeLeaves DEF Revokes
<1>7. ASSUME ~UNCHANGED <<passkeys, totp>>
      PROVE  \/ \E p \in Passkeys, n \in 0..MaxCounter : RegisterPasskey(p, n)
             \/ \E s \in Secrets : TotpSetup(s)
             \/ \E r \in Requests : StoreSecret(r) \/ Revoke(r)
  BY <1>7 DEF Next, RequestStep, PasskeyLogin, TotpLogin, StepUp, Show, GetMark, FindTotp, Check,
       Mark, TotpResetVerify, DropPending, RevokePasskey, CountPasskeys, WriteCounter, Reset,
       FindConfigured, ResetCredentials, Fail, TotpReset, Tick, ExpirePending, Lapse, stored, vars
<1>8. ASSUME NEW r \in Requests, Revoke(r)
      PROVE  totp' = totp
  BY <1>8 DEF Revoke
<1> QED BY <1>2, <1>3, <1>4, <1>5, <1>6, <1>7, <1>8

\* Requests that come one after the other need none of the exceptions: every code is
\* accepted once, the last method goes only when an administrator resets the account, and no
\* passkey's counter goes back.  The exceptions of ReplayRefused, MethodRemains and
\* CounterLoweredOnlyByOverlap are overlaps and nothing else.
THEOREM SequentialIsSafe ==
    Spec /\ []Alone => []AcceptedOnce /\ NeverLockedOut /\ CountersAdvance
<1>1. Init => CurrentInv
  <2>1. NoRequest.counted = None /\ NoRequest.totp = "unread" /\ ~NoRequest.other
    BY DEF NoRequest
  <2> QED BY <2>1 DEF Init, CurrentInv, Current
<1>2. CredInv /\ CurrentInv /\ Alone /\ [Next]_vars => CurrentInv'
  BY CurrentStep
<1>3. CredInv /\ CurrentInv => AcceptedOnce
  BY DEF CredInv, RequestInv, CurrentInv, Current, AcceptedOnce
<1>4. CredInv /\ CurrentInv /\ [Next]_vars =>
        [Usable => Usable' \/ \E r \in Requests : pc[r] = "reset"]_vars
  BY MethodsKept
<1>5. CredInv /\ CurrentInv /\ [Next]_vars =>
        [\A p \in passkeys \cap passkeys' : counter[p] <= counter'[p]]_vars
  <2> SUFFICES ASSUME CredInv, CurrentInv, [Next]_vars, ~UNCHANGED vars,
                      NEW p \in passkeys, p \in passkeys'
               PROVE  counter[p] <= counter'[p]
    OBVIOUS
  <2>1. CASE counter'[p] < counter[p]
    BY <2>1, LowerOnlyByOverlap DEF CurrentInv, Current
  <2>2. counter[p] \in Nat /\ counter'[p] \in Nat
    BY CredentialsStep DEF CredInv, TypeOK
  <2> QED BY <2>1, <2>2
<1> QED BY <1>1, <1>2, <1>3, <1>4, <1>5, CredentialsInvariant, PTL
        DEF Spec, NeverLockedOut, CountersAdvance

================================================================================
