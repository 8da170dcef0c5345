--------------------------- MODULE AccountsProofs ---------------------------
(***************************************************************************)
(* Accounts, for any number of requests and versions of the policy.        *)
(***************************************************************************)
EXTENDS Accounts, TLAPS

(***************************************************************************)
(* The inductive invariant: what a request in flight relies on.            *)
(***************************************************************************)
\* What a handler has checked holds as long as nobody has written the status.
CheckedStill == \A r \in Requests : ~req[r].other =>
    /\ pc[r] = "submit"  => status \in {"UNVERIFIED", "REJECTED"}
    /\ pc[r] = "verify"  => status \in {"UNVERIFIED", "PENDING_REVIEW"}
    /\ pc[r] = "block"   => status \notin {"BLOCKED", "DELETED"}
    /\ pc[r] = "unblock" => status = "BLOCKED"

\* An erased account cannot be edited or found, and whoever still writes personal data had
\* read the row before.
NothingLeft == erased /\ ~late =>
    /\ status \notin {"UNVERIFIED", "REJECTED"} /\ ~name /\ ~email /\ ~linked
    /\ \A r \in Requests : pc[r] \in {"profile", "adopt", "unlink", "link"} => req[r].before

\* An approval has written the value by the time it marks the request.
Written == \A r \in Requests :
    /\ pc[r] \in {"apply", "approve"} => request.field # Null
    /\ pc[r] = "approve" /\ request.field \in AllowedFields => applied

\* The version accepted last is on record.
OnRecord == consented # Null /\ ~erased => consented \in consents

\* deletedAt is set with the status, and stays.
DeletedErased == status = "DELETED" => erased

AccountsInv == /\ TypeOK /\ CheckedStill /\ NothingLeft /\ DeletedErased
               /\ OnRecord /\ Written /\ ApprovedApplied

-----------------------------------------------------------------------------
LEMMA NoRequestType == NoRequest \in Reqs
BY DEF NoRequest, Reqs

LEMMA KnowingType ==
    ASSUME NEW known \in [Requests -> Reqs], NEW by
    PROVE  /\ Knowing(known, by) \in [Requests -> Reqs]
           /\ \A q \in Requests : Knowing(known, by)[q].before = known[q].before
           /\ \A q \in Requests : q # by /\ pc[q] # "idle" => Knowing(known, by)[q].other
<1>1. \A q \in Requests : [known[q] EXCEPT !.other = TRUE] \in Reqs BY DEF Reqs
<1>2. Knowing(known, by) \in [Requests -> Reqs] BY <1>1 DEF Knowing
<1>3. \A q \in Requests : Knowing(known, by)[q].before = known[q].before
  BY DEF Knowing, Reqs
<1>4. \A q \in Requests : q # by /\ pc[q] # "idle" => Knowing(known, by)[q].other
  BY DEF Knowing, Reqs
<1> QED BY <1>2, <1>3, <1>4

LEMMA InitInv == Init => AccountsInv
<1> SUFFICES ASSUME Init PROVE AccountsInv OBVIOUS
<1>1. status \in Statuses BY DEF Init, Statuses
<1>2. /\ request \in [field : Fields \cup {Null}, status : {"PENDING", "APPROVED", "REJECTED"}]
      /\ request.status = "PENDING"
  BY DEF Init
<1>3. pc \in [Requests -> Steps] /\ req \in [Requests -> Reqs]
  BY NoRequestType DEF Init, Steps
<1>4. /\ email \in BOOLEAN /\ erased \in BOOLEAN /\ applied \in BOOLEAN /\ late \in BOOLEAN
      /\ linked \in BOOLEAN /\ name \in BOOLEAN /\ code \in BOOLEAN
  BY DEF Init
<1>5. TypeOK BY <1>1, <1>2, <1>3, <1>4 DEF Init, TypeOK
<1>6. \A r \in Requests : pc[r] = "idle" BY DEF Init
<1>7. CheckedStill /\ Written BY <1>6 DEF CheckedStill, Written
<1>8. NothingLeft /\ DeletedErased /\ OnRecord
  BY DEF Init, NothingLeft, DeletedErased, OnRecord
<1>9. ApprovedApplied BY <1>2 DEF ApprovedApplied
<1> QED BY <1>5, <1>7, <1>8, <1>9 DEF AccountsInv

-----------------------------------------------------------------------------
\* The steps of a request, by what they do to it.
Reading(r) ==
    \/ SubmitProfile(r) \/ UpdateProfile(r) \/ VerifyUser(r) \/ BlockUser(r)
    \/ UnblockUser(r) \/ OidcCollision(r) \/ Approve(r) \/ EraseUser(r)
WritingStatus(r) ==
    \/ WriteSubmitted(r) \/ WriteVerified(r) \/ WriteBlocked(r) \/ WriteUnblocked(r)

LEMMA ReadingType == ASSUME TypeOK, NEW r \in Requests, Reading(r) PROVE TypeOK'
<1>1. PICK step \in Steps : Begin(r, step)
  BY DEF Reading, SubmitProfile, UpdateProfile, VerifyUser, BlockUser, UnblockUser,
         OidcCollision, Approve, EraseUser, Steps
<1> QED BY <1>1 DEF Begin, TypeOK, user, gdpr

LEMMA AnswerType ==
    ASSUME TypeOK, NEW r \in Requests, Answer(r)
    PROVE  pc' \in [Requests -> Steps] /\ req' \in [Requests -> Reqs]
BY NoRequestType DEF Answer, TypeOK, Steps

LEMMA FinishType ==
    ASSUME TypeOK, NEW r \in Requests, Finish(r)
    PROVE  pc' \in [Requests -> Steps] /\ req' \in [Requests -> Reqs]
<1>1. [req EXCEPT ![r] = NoRequest] \in [Requests -> Reqs] BY NoRequestType DEF TypeOK
<1> QED BY <1>1, KnowingType DEF Finish, TypeOK, Steps

LEMMA WritingType == ASSUME TypeOK, NEW r \in Requests, WritingStatus(r) PROVE TypeOK'
<1>1. PICK new \in Statuses : SetStatus(r, new)
  BY DEF WritingStatus, WriteSubmitted, WriteVerified, WriteBlocked, WriteUnblocked, Statuses
<1> QED BY <1>1, FinishType DEF SetStatus, TypeOK, gdpr

LEMMA LateType ==
    ASSUME TypeOK, NEW r \in Requests, Late(r) PROVE late' \in BOOLEAN
BY DEF Late, TypeOK, Reqs

LEMMA TypeStep == TypeOK /\ [Next]_vars => TypeOK'
<1> SUFFICES ASSUME TypeOK, [Next]_vars PROVE TypeOK' OBVIOUS
<1>1. CASE UNCHANGED vars BY <1>1 DEF vars, user, gdpr, TypeOK
<1>2. ASSUME NEW r \in Requests, RequestStep(r) \/ Fail(r) PROVE TypeOK'
  <2>1. CASE Reading(r) BY <2>1, ReadingType
  <2>2. CASE WritingStatus(r) BY <2>2, WritingType
  <2>3. CASE WriteProfile(r)
    BY <2>3, AnswerType, LateType DEF WriteProfile, TypeOK, gdpr
  <2>4. CASE OidcUpsert(r)
    BY <2>4, KnowingType, LateType DEF OidcUpsert, Overwrite, TypeOK, Statuses, gdpr
  <2>5. CASE FindByEmail(r)
    BY <2>5, AnswerType DEF FindByEmail, Goto, TypeOK, Steps, user, gdpr
  <2>6. CASE Adopt(r)
    BY <2>6, KnowingType, LateType DEF Adopt, Overwrite, TypeOK, Statuses, Steps, gdpr
  <2>7. CASE Unlink(r) BY <2>7 DEF Unlink, Goto, TypeOK, Steps, user, gdpr
  <2>8. CASE Link(r) BY <2>8, AnswerType, LateType DEF Link, TypeOK, user, gdpr
  <2>9. CASE Apply(r) BY <2>9 DEF Apply, Goto, TypeOK, Steps
  <2>10. CASE MarkApproved(r)
    BY <2>10, AnswerType DEF MarkApproved, Decide, TypeOK, user
  <2>11. CASE Sweep(r)
    <3>1. [req[r] EXCEPT !.swept = consents, !.unlinks = linked] \in Reqs
      BY DEF TypeOK, Reqs
    <3> QED BY <2>11, <3>1 DEF Sweep, TypeOK, Steps, user, gdpr
  <2>12. CASE Commit(r)
    <3>1. \A q \in Requests : [req[q] EXCEPT !.other = TRUE, !.before = TRUE] \in Reqs
      BY DEF TypeOK, Reqs
    <3>2. req' \in [Requests -> Reqs] BY <2>12, <3>1, NoRequestType DEF Commit
    <3>3. linked' \in BOOLEAN /\ late' \in BOOLEAN BY <2>12 DEF Commit, TypeOK
    <3> QED BY <2>12, <3>2, <3>3 DEF Commit, TypeOK, Statuses, Steps
  <2>13. CASE Fail(r) BY <2>13, AnswerType DEF Fail, TypeOK, user, gdpr
  <2> QED BY <1>2, <2>1, <2>2, <2>3, <2>4, <2>5, <2>6, <2>7, <2>8, <2>9, <2>10, <2>11, <2>12,
             <2>13 DEF RequestStep, Reading, WritingStatus
<1>3. ASSUME NEW decision \in Decisions, Review(decision) PROVE TypeOK'
  BY <1>3, KnowingType DEF Review, TypeOK, Statuses, gdpr
<1>4. CASE ResetCredentials BY <1>4 DEF ResetCredentials, TypeOK, user, gdpr
<1>5. CASE Accept BY <1>5 DEF Accept, AcceptConsent, TypeOK, user
<1>6. CASE ChangePolicy BY <1>6 DEF ChangePolicy, TypeOK, user
<1>7. ASSUME NEW field \in Fields, RequestRectification(field) PROVE TypeOK'
  BY <1>7 DEF RequestRectification, TypeOK, user
<1>8. CASE Reject BY <1>8 DEF Reject, Decide, TypeOK, user
<1>9. CASE Retention BY <1>9 DEF Retention, TypeOK, user
<1> QED BY <1>1, <1>2, <1>3, <1>4, <1>5, <1>6, <1>7, <1>8, <1>9 DEF Next

-----------------------------------------------------------------------------
\* What a step of a request, or of anyone else, leaves of the other requests.
Bystander(q) == pc'[q] = pc[q] /\ req'[q] = req[q]

LEMMA BeginFacts ==
    ASSUME TypeOK, NEW r \in Requests, NEW step, Begin(r, step)
    PROVE  /\ pc[r] = "idle" /\ pc'[r] = step /\ req' = req
           /\ \A q \in Requests \ {r} : pc'[q] = pc[q]
           /\ UNCHANGED <<status, name, email, erased, linked, policy, consented, consents,
                          request, applied, late>>
BY DEF Begin, TypeOK, user, gdpr

LEMMA AnswerFacts ==
    ASSUME TypeOK, NEW r \in Requests, Answer(r)
    PROVE  pc'[r] = "idle" /\ \A q \in Requests \ {r} : Bystander(q)
BY DEF Answer, TypeOK, Bystander

LEMMA GotoFacts ==
    ASSUME TypeOK, NEW r \in Requests, NEW step, Goto(r, step)
    PROVE  pc'[r] = step /\ req' = req /\ \A q \in Requests \ {r} : pc'[q] = pc[q]
BY DEF Goto, TypeOK

LEMMA FinishFacts ==
    ASSUME TypeOK, NEW r \in Requests, Finish(r)
    PROVE  /\ pc'[r] = "idle"
           /\ \A q \in Requests \ {r} :
                 /\ pc'[q] = pc[q] /\ req'[q].before = req[q].before
                 /\ pc[q] # "idle" => req'[q].other
<1>1. [req EXCEPT ![r] = NoRequest] \in [Requests -> Reqs] BY NoRequestType DEF TypeOK
<1>2. \A q \in Requests \ {r} : [req EXCEPT ![r] = NoRequest][q].before = req[q].before
  BY DEF TypeOK
<1> QED BY <1>1, <1>2, KnowingType DEF Finish, TypeOK

LEMMA WritingFacts ==
    ASSUME TypeOK, NEW r \in Requests, WritingStatus(r)
    PROVE  /\ status' \in {"PENDING_REVIEW", "VERIFIED", "BLOCKED"} /\ Finish(r)
           /\ UNCHANGED <<name, email, erased, linked, policy, consented, consents,
                          request, applied, late>>
BY DEF WritingStatus, WriteSubmitted, WriteVerified, WriteBlocked, WriteUnblocked, SetStatus, gdpr

-----------------------------------------------------------------------------
LEMMA CheckedStep == TypeOK /\ CheckedStill /\ [Next]_vars => CheckedStill'
<1> SUFFICES ASSUME TypeOK, CheckedStill, [Next]_vars PROVE CheckedStill' OBVIOUS
<1> USE DEF CheckedStill
<1>1. CASE UNCHANGED vars BY <1>1 DEF vars, user
<1>2. ASSUME NEW r \in Requests, RequestStep(r) \/ Fail(r) PROVE CheckedStill'
  <2>1. CASE SubmitProfile(r) BY <2>1, BeginFacts DEF SubmitProfile, Editable
  <2>2. CASE UpdateProfile(r) BY <2>2, BeginFacts DEF UpdateProfile
  <2>3. CASE VerifyUser(r) BY <2>3, BeginFacts DEF VerifyUser, Verifiable
  <2>4. CASE BlockUser(r) BY <2>4, BeginFacts DEF BlockUser
  <2>5. CASE UnblockUser(r) BY <2>5, BeginFacts DEF UnblockUser
  <2>6. CASE OidcCollision(r) BY <2>6, BeginFacts DEF OidcCollision
  <2>7. CASE Approve(r)
    <3>1. PICK step \in {"apply", "approve"} : Begin(r, step) BY <2>7 DEF Approve
    <3> QED BY <3>1, BeginFacts
  <2>8. CASE EraseUser(r) BY <2>8, BeginFacts DEF EraseUser
  <2>9. CASE WritingStatus(r) BY <2>9, WritingFacts, FinishFacts
  <2>10. CASE WriteProfile(r) BY <2>10, AnswerFacts DEF WriteProfile, Bystander
  <2>11. CASE OidcUpsert(r)
    <3>1. \A q \in Requests : pc'[q] = pc[q] /\ (q # r /\ pc[q] # "idle" => req'[q].other)
      BY <2>11, KnowingType DEF OidcUpsert, TypeOK
    <3> QED BY <2>11, <3>1 DEF OidcUpsert
  <2>12. CASE FindByEmail(r)
    <3>1. status' = status /\ pc'[r] \in {"adopt", "idle"} /\
          \A q \in Requests \ {r} : Bystander(q)
      BY <2>12, AnswerFacts, GotoFacts DEF FindByEmail, Bystander, user
    <3> QED BY <3>1 DEF Bystander
  <2>13. CASE Adopt(r)
    <3>1. /\ pc'[r] = "unlink"
          /\ \A q \in Requests \ {r} : pc'[q] = pc[q] /\ (pc[q] # "idle" => req'[q].other)
      BY <2>13, KnowingType DEF Adopt, TypeOK
    <3> QED BY <3>1
  <2>14. CASE Unlink(r) BY <2>14, GotoFacts DEF Unlink, user
  <2>15. CASE Link(r) BY <2>15, AnswerFacts DEF Link, user, Bystander
  <2>16. CASE Apply(r) BY <2>16, GotoFacts DEF Apply
  <2>17. CASE MarkApproved(r) BY <2>17, AnswerFacts DEF MarkApproved, Decide, user, Bystander
  <2>18. CASE Sweep(r)
    <3>1. status' = status /\ pc'[r] = "commit" /\ \A q \in Requests \ {r} : Bystander(q)
      BY <2>18 DEF Sweep, TypeOK, user, Bystander
    <3> QED BY <3>1 DEF Bystander
  <2>19. CASE Commit(r)
    <3>1. \A q \in Requests : [req[q] EXCEPT !.other = TRUE, !.before = TRUE].other = TRUE
      BY DEF TypeOK, Reqs
    <3>2. /\ pc'[r] = "idle"
          /\ \A q \in Requests \ {r} : pc'[q] = pc[q] /\ (pc[q] # "idle" => req'[q].other)
      BY <2>19, <3>1 DEF Commit, TypeOK
    <3> QED BY <3>2
  <2>20. CASE Fail(r) BY <2>20, AnswerFacts DEF Fail, user, Bystander
  <2> QED BY <1>2, <2>1, <2>2, <2>3, <2>4, <2>5, <2>6, <2>7, <2>8, <2>9, <2>10, <2>11, <2>12,
             <2>13, <2>14, <2>15, <2>16, <2>17, <2>18, <2>19, <2>20
          DEF RequestStep, WritingStatus
<1>3. ASSUME NEW decision \in Decisions, Review(decision) PROVE CheckedStill'
  <2>1. \A q \in Requests : pc'[q] = pc[q] /\ (pc[q] # "idle" => req'[q].other)
    BY <1>3, KnowingType, AccountsAssumption DEF Review, TypeOK
  <2> QED BY <2>1, <1>3 DEF Review
<1>4. CASE ResetCredentials BY <1>4 DEF ResetCredentials, user
<1>5. CASE Accept BY <1>5 DEF Accept, AcceptConsent, user
<1>6. CASE ChangePolicy BY <1>6 DEF ChangePolicy, user
<1>7. ASSUME NEW field \in Fields, RequestRectification(field) PROVE CheckedStill'
  BY <1>7 DEF RequestRectification, user
<1>8. CASE Reject BY <1>8 DEF Reject, Decide, user
<1>9. CASE Retention BY <1>9 DEF Retention, user
<1> QED BY <1>1, <1>2, <1>3, <1>4, <1>5, <1>6, <1>7, <1>8, <1>9 DEF Next

-----------------------------------------------------------------------------
LEMMA NothingStep == TypeOK /\ NothingLeft /\ [Next]_vars => NothingLeft'
<1> SUFFICES ASSUME TypeOK, NothingLeft, [Next]_vars PROVE NothingLeft' OBVIOUS
<1> USE DEF NothingLeft
<1>1. CASE UNCHANGED vars BY <1>1 DEF vars, user
<1>2. ASSUME NEW r \in Requests, RequestStep(r) \/ Fail(r) PROVE NothingLeft'
  <2>1. CASE SubmitProfile(r)
    BY <2>1, BeginFacts DEF SubmitProfile
  <2>2. CASE UpdateProfile(r) BY <2>2, BeginFacts DEF UpdateProfile, Editable
  <2>3. CASE VerifyUser(r) BY <2>3, BeginFacts DEF VerifyUser
  <2>4. CASE BlockUser(r) BY <2>4, BeginFacts DEF BlockUser
  <2>5. CASE UnblockUser(r) BY <2>5, BeginFacts DEF UnblockUser
  <2>6. CASE OidcCollision(r) BY <2>6, BeginFacts DEF OidcCollision
  <2>7. CASE Approve(r)
    <3>1. PICK step \in {"apply", "approve"} : Begin(r, step) BY <2>7 DEF Approve
    <3> QED BY <3>1, BeginFacts
  <2>8. CASE EraseUser(r) BY <2>8, BeginFacts DEF EraseUser
  <2>9. CASE WritingStatus(r) BY <2>9, WritingFacts, FinishFacts
  <2>10. CASE WriteProfile(r)
    <3>1. erased' = erased /\ (late' <=> late \/ req[r].before) /\ pc[r] = "profile"
      BY <2>10 DEF WriteProfile, Late
    <3> QED BY <3>1
  <2>11. CASE OidcUpsert(r)
    <3>1. linked /\ erased' = erased /\ (late => late') BY <2>11 DEF OidcUpsert, Overwrite, Late
    <3> QED BY <3>1
  <2>12. CASE FindByEmail(r)
    <3>1. /\ UNCHANGED <<status, name, email, erased, linked, late>>
          /\ ~email => pc'[r] = "idle"
          /\ \A q \in Requests \ {r} : Bystander(q)
      BY <2>12, AnswerFacts, GotoFacts DEF FindByEmail, Bystander, user
    <3> QED BY <3>1 DEF Bystander
  <2>13. CASE Adopt(r)
    <3>1. erased' = erased /\ (late' <=> late \/ req[r].before) /\ pc[r] = "adopt"
      BY <2>13 DEF Adopt, Overwrite, Late
    <3> QED BY <3>1
  <2>14. CASE Unlink(r) BY <2>14, GotoFacts DEF Unlink, user
  <2>15. CASE Link(r)
    <3>1. erased' = erased /\ (late' <=> late \/ req[r].before) /\ pc[r] = "link"
      BY <2>15 DEF Link, Late, user
    <3> QED BY <3>1
  <2>16. CASE Apply(r)
    <3>1. erased' = erased /\ (late' <=> late \/ erased) BY <2>16 DEF Apply
    <3> QED BY <3>1
  <2>17. CASE MarkApproved(r) BY <2>17, AnswerFacts DEF MarkApproved, Decide, user, Bystander
  <2>18. CASE Sweep(r)
    <3>1. /\ UNCHANGED <<status, name, email, erased, linked, late>>
          /\ pc'[r] = "commit" /\ \A q \in Requests \ {r} : Bystander(q)
      BY <2>18 DEF Sweep, TypeOK, user, Bystander
    <3> QED BY <3>1 DEF Bystander
  <2>19. CASE Commit(r)
    <3>1. \A q \in Requests : [req[q] EXCEPT !.other = TRUE, !.before = TRUE].before = TRUE
      BY DEF TypeOK, Reqs
    <3>2. \A q \in Requests : pc'[q] # "idle" => req'[q].before
      BY <2>19, <3>1 DEF Commit, TypeOK
    <3>3. status' = "DELETED" /\ ~name' /\ ~email' /\ (late' <=> linked') BY <2>19 DEF Commit
    <3> QED BY <3>2, <3>3
  <2>20. CASE Fail(r) BY <2>20, AnswerFacts DEF Fail, user, Bystander
  <2> QED BY <1>2, <2>1, <2>2, <2>3, <2>4, <2>5, <2>6, <2>7, <2>8, <2>9, <2>10, <2>11, <2>12,
             <2>13, <2>14, <2>15, <2>16, <2>17, <2>18, <2>19, <2>20
          DEF RequestStep, WritingStatus
<1>3. ASSUME NEW decision \in Decisions, Review(decision) PROVE NothingLeft'
  <2>1. erased' = erased /\ (late' <=> late \/ erased) BY <1>3 DEF Review
  <2> QED BY <2>1
<1>4. CASE ResetCredentials BY <1>4 DEF ResetCredentials, user
<1>5. CASE Accept BY <1>5 DEF Accept, AcceptConsent, user
<1>6. CASE ChangePolicy BY <1>6 DEF ChangePolicy, user
<1>7. ASSUME NEW field \in Fields, RequestRectification(field) PROVE NothingLeft'
  BY <1>7 DEF RequestRectification, user
<1>8. CASE Reject BY <1>8 DEF Reject, Decide, user
<1>9. CASE Retention BY <1>9 DEF Retention, user
<1> QED BY <1>1, <1>2, <1>3, <1>4, <1>5, <1>6, <1>7, <1>8, <1>9 DEF Next

-----------------------------------------------------------------------------
\* Who writes the status.
LEMMA StatusWritten ==
    ASSUME TypeOK, [Next]_vars, status' # status
    PROVE  \/ \E r \in Requests : WritingStatus(r) \/ OidcUpsert(r) \/ Adopt(r) \/ Commit(r)
           \/ \E decision \in Decisions : Review(decision)
<1>1. CASE UNCHANGED vars BY <1>1 DEF vars, user
<1>2. ASSUME NEW r \in Requests, RequestStep(r) \/ Fail(r)
      PROVE  WritingStatus(r) \/ OidcUpsert(r) \/ Adopt(r) \/ Commit(r)
  <2>1. ~Reading(r)
    <3> SUFFICES ASSUME Reading(r) PROVE FALSE OBVIOUS
    <3>1. PICK step : Begin(r, step)
      BY DEF Reading, SubmitProfile, UpdateProfile, VerifyUser, BlockUser, UnblockUser,
             OidcCollision, Approve, EraseUser
    <3> QED BY <3>1 DEF Begin, user
  <2>2. ~(\/ WriteProfile(r) \/ FindByEmail(r) \/ Unlink(r) \/ Link(r) \/ Apply(r)
          \/ MarkApproved(r) \/ Sweep(r) \/ Fail(r))
    BY DEF WriteProfile, FindByEmail, Unlink, Link, Apply, MarkApproved, Decide, Sweep, Fail, user
  <2> QED BY <1>2, <2>1, <2>2 DEF RequestStep, Reading, WritingStatus
<1>3. ~(\/ ResetCredentials \/ Accept \/ ChangePolicy \/ Reject \/ Retention
        \/ \E field \in Fields : RequestRectification(field))
  BY DEF ResetCredentials, Accept, AcceptConsent, ChangePolicy, Reject, Decide, Retention,
         RequestRectification, user
<1> QED BY <1>1, <1>2, <1>3 DEF Next

-----------------------------------------------------------------------------
\* Steps that leave consent and rectification alone.
Elsewhere(r) ==
    \/ (Reading(r) /\ ~Approve(r)) \/ WritingStatus(r) \/ WriteProfile(r) \/ OidcUpsert(r)
    \/ FindByEmail(r) \/ Adopt(r) \/ Unlink(r) \/ Link(r) \/ Sweep(r) \/ Fail(r)

LEMMA ElsewhereFacts ==
    ASSUME TypeOK, NEW r \in Requests, Elsewhere(r)
    PROVE  /\ UNCHANGED <<erased, policy, consented, consents, request, applied>>
           /\ pc'[r] \notin {"apply", "approve"}
           /\ \A q \in Requests \ {r} : pc'[q] = pc[q]
<1>1. CASE Reading(r) /\ ~Approve(r)
  <2>1. PICK step \in Steps \ {"apply", "approve"} : Begin(r, step)
    BY <1>1 DEF Reading, SubmitProfile, UpdateProfile, VerifyUser, BlockUser, UnblockUser,
                OidcCollision, EraseUser, Steps
  <2> QED BY <2>1, BeginFacts
<1>2. CASE WritingStatus(r) BY <1>2, WritingFacts, FinishFacts
<1>3. CASE WriteProfile(r) BY <1>3, AnswerFacts DEF WriteProfile, Bystander, gdpr
<1>4. CASE OidcUpsert(r) BY <1>4 DEF OidcUpsert, gdpr
<1>5. CASE FindByEmail(r)
  BY <1>5, AnswerFacts, GotoFacts DEF FindByEmail, Bystander, user, gdpr
<1>6. CASE Adopt(r) BY <1>6 DEF Adopt, TypeOK, gdpr
<1>7. CASE Unlink(r) BY <1>7, GotoFacts DEF Unlink, user, gdpr
<1>8. CASE Link(r) BY <1>8, AnswerFacts DEF Link, Bystander, user, gdpr
<1>9. CASE Sweep(r) BY <1>9 DEF Sweep, TypeOK, user, gdpr
<1>10. CASE Fail(r) BY <1>10, AnswerFacts DEF Fail, Bystander, user, gdpr
<1> QED BY <1>1, <1>2, <1>3, <1>4, <1>5, <1>6, <1>7, <1>8, <1>9, <1>10 DEF Elsewhere

LEMMA DeletedStep == TypeOK /\ DeletedErased /\ [Next]_vars => DeletedErased'
<1> SUFFICES ASSUME TypeOK, DeletedErased, [Next]_vars PROVE DeletedErased' OBVIOUS
<1>1. erased => erased'
  <2>1. CASE UNCHANGED vars BY <2>1 DEF vars, user
  <2>2. ASSUME NEW r \in Requests, RequestStep(r) \/ Fail(r), erased PROVE erased'
    <3>1. CASE Commit(r) BY <3>1 DEF Commit
    <3>2. CASE Approve(r)
      <4>1. PICK step : Begin(r, step) BY <3>2 DEF Approve
      <4> QED BY <2>2, <4>1 DEF Begin, user
    <3>3. CASE Apply(r) BY <2>2, <3>3 DEF Apply
    <3>4. CASE MarkApproved(r) BY <2>2, <3>4 DEF MarkApproved, Decide, user
    <3>5. CASE Elsewhere(r) BY <2>2, <3>5, ElsewhereFacts
    <3> QED BY <2>2, <3>1, <3>2, <3>3, <3>4, <3>5
            DEF RequestStep, Elsewhere, Reading, WritingStatus
  <2>3. ASSUME NEW decision \in Decisions, Review(decision), erased PROVE erased'
    BY <2>3 DEF Review
  <2>4. ASSUME ResetCredentials \/ Accept \/ ChangePolicy \/ Reject \/ Retention
               \/ \E field \in Fields : RequestRectification(field), erased
        PROVE  erased'
    BY <2>4 DEF ResetCredentials, Accept, AcceptConsent, ChangePolicy, Reject, Decide,
                Retention, RequestRectification, user
  <2> QED BY <2>1, <2>2, <2>3, <2>4 DEF Next
<1>2. CASE status' = status BY <1>1, <1>2 DEF DeletedErased
<1>3. CASE status' # status
  <2>1. ASSUME NEW r \in Requests, WritingStatus(r) PROVE status' # "DELETED"
    BY <2>1, WritingFacts
  <2>2. ASSUME NEW r \in Requests, OidcUpsert(r) \/ Adopt(r) PROVE status' # "DELETED"
    BY <2>2 DEF OidcUpsert, Adopt, Overwrite
  <2>3. ASSUME NEW r \in Requests, Commit(r) PROVE erased' BY <2>3 DEF Commit
  <2>4. ASSUME NEW decision \in Decisions, Review(decision) PROVE status' # "DELETED"
    BY <2>4 DEF Review
  <2> QED BY <1>3, <2>1, <2>2, <2>3, <2>4, StatusWritten DEF DeletedErased
<1> QED BY <1>2, <1>3

LEMMA ConsentStep == TypeOK /\ OnRecord /\ [Next]_vars => OnRecord'
<1> SUFFICES ASSUME TypeOK, OnRecord, [Next]_vars PROVE OnRecord' OBVIOUS
<1> USE DEF OnRecord
<1>1. CASE UNCHANGED vars BY <1>1 DEF vars, user, gdpr
<1>2. ASSUME NEW r \in Requests, RequestStep(r) \/ Fail(r) PROVE OnRecord'
  <2>1. CASE Elsewhere(r) BY <2>1, ElsewhereFacts
  <2>2. CASE Approve(r)
    <3>1. PICK step \in {"apply", "approve"} : Begin(r, step) BY <2>2 DEF Approve
    <3> QED BY <3>1, BeginFacts
  <2>3. CASE Apply(r) BY <2>3 DEF Apply
  <2>4. CASE MarkApproved(r) BY <2>4 DEF MarkApproved, Decide, user
  <2>5. CASE Commit(r) BY <2>5 DEF Commit
  <2> QED BY <1>2, <2>1, <2>2, <2>3, <2>4, <2>5
          DEF RequestStep, Elsewhere, Reading, WritingStatus
<1>3. ASSUME NEW decision \in Decisions, Review(decision) PROVE OnRecord' BY <1>3 DEF Review, gdpr
<1>4. CASE ResetCredentials BY <1>4 DEF ResetCredentials, user, gdpr
<1>5. CASE Accept BY <1>5 DEF Accept, AcceptConsent
<1>6. CASE ChangePolicy BY <1>6 DEF ChangePolicy, user
<1>7. ASSUME NEW field \in Fields, RequestRectification(field) PROVE OnRecord'
  BY <1>7 DEF RequestRectification, user
<1>8. CASE Reject BY <1>8 DEF Reject, Decide, user
<1>9. CASE Retention BY <1>9 DEF Retention, user
<1> QED BY <1>1, <1>2, <1>3, <1>4, <1>5, <1>6, <1>7, <1>8, <1>9 DEF Next

LEMMA ApprovalStep ==
    TypeOK /\ Written /\ ApprovedApplied /\ [Next]_vars => Written' /\ ApprovedApplied'
<1> SUFFICES ASSUME TypeOK, Written, ApprovedApplied, [Next]_vars
             PROVE  Written' /\ ApprovedApplied'
  OBVIOUS
<1> USE DEF Written, ApprovedApplied
<1>1. CASE UNCHANGED vars BY <1>1 DEF vars, gdpr
<1>2. ASSUME NEW r \in Requests, RequestStep(r) \/ Fail(r) PROVE Written' /\ ApprovedApplied'
  <2>1. CASE Elsewhere(r) BY <2>1, ElsewhereFacts
  <2>2. CASE Approve(r)
    <3>1. request.field # Null /\ Begin(r, IF request.field \in AllowedFields THEN "apply"
                                           ELSE "approve")
      BY <2>2 DEF Approve
    <3> QED BY <3>1, BeginFacts
  <2>3. CASE Apply(r)
    <3>1. pc'[r] = "approve" /\ applied' = TRUE /\ request' = request /\ pc[r] = "apply"
      BY <2>3, GotoFacts DEF Apply
    <3>2. \A q \in Requests \ {r} : pc'[q] = pc[q] BY <2>3, GotoFacts DEF Apply
    <3> QED BY <3>1, <3>2
  <2>4. CASE MarkApproved(r)
    <3>1. request'.field = request.field /\ applied' = applied /\ pc[r] = "approve"
      BY <2>4 DEF MarkApproved, Decide, TypeOK
    <3>2. pc'[r] = "idle" /\ \A q \in Requests \ {r} : pc'[q] = pc[q]
      BY <2>4, AnswerFacts DEF MarkApproved, Bystander
    <3> QED BY <3>1, <3>2
  <2>5. CASE Commit(r)
    <3>1. request' = request /\ applied' = applied BY <2>5 DEF Commit
    <3>2. \A q \in Requests : pc'[q] \in {pc[q], "idle"} BY <2>5 DEF Commit, TypeOK
    <3> QED BY <3>1, <3>2
  <2> QED BY <1>2, <2>1, <2>2, <2>3, <2>4, <2>5
          DEF RequestStep, Elsewhere, Reading, WritingStatus
<1>3. ASSUME NEW decision \in Decisions, Review(decision) PROVE Written' /\ ApprovedApplied'
  BY <1>3 DEF Review, gdpr
<1>4. CASE ResetCredentials BY <1>4 DEF ResetCredentials, gdpr
<1>5. CASE Accept BY <1>5 DEF Accept, AcceptConsent
<1>6. CASE ChangePolicy BY <1>6 DEF ChangePolicy
<1>7. ASSUME NEW field \in Fields, RequestRectification(field)
      PROVE  Written' /\ ApprovedApplied'
  <2>1. request.field = Null /\ request'.status = "PENDING" /\ pc' = pc /\ applied' = applied
    BY <1>7 DEF RequestRectification
  <2> QED BY <2>1
<1>8. CASE Reject
  <2>1. /\ request'.field = request.field /\ request'.status = "REJECTED"
        /\ pc' = pc /\ applied' = applied
    BY <1>8 DEF Reject, Decide, TypeOK
  <2> QED BY <2>1
<1>9. CASE Retention BY <1>9 DEF Retention
<1> QED BY <1>1, <1>2, <1>3, <1>4, <1>5, <1>6, <1>7, <1>8, <1>9 DEF Next

-----------------------------------------------------------------------------
\* The invariant of Accounts.
THEOREM AccountsInvariant == Spec => []AccountsInv
<1>1. AccountsInv /\ [Next]_vars => AccountsInv'
  BY TypeStep, CheckedStep, NothingStep, DeletedStep, ConsentStep, ApprovalStep
  DEF AccountsInv
<1> QED BY InitInv, <1>1, PTL DEF Spec

\* Every variable keeps its type (the rows of User, Identity, UserConsent and
\* RectificationRequest).
THEOREM TypeCorrect == Spec => []TypeOK
<1>1. AccountsInv => TypeOK BY DEF AccountsInv
<1> QED BY AccountsInvariant, <1>1, PTL

\* eraseUser leaves no name, no e-mail address and no way in by OIDC; of the personal code
\* nothing is said, which it leaves on the row.
THEOREM ErasureTakesIdentity == Spec => []ErasureComplete
<1>1. AccountsInv => ErasureComplete BY DEF AccountsInv, NothingLeft, ErasureComplete
<1> QED BY AccountsInvariant, <1>1, PTL

\* The consent that lets a user in is on record.
THEOREM ConsentIsBacked == Spec => []ConsentBacked
<1>1. AccountsInv => ConsentBacked
  BY AccountsAssumption
  DEF AccountsInv, TypeOK, OnRecord, ConsentBacked, Passes, HasCurrentConsent
<1> QED BY AccountsInvariant, <1>1, PTL

\* An approved rectification was carried out.
THEOREM ApprovalIsApplied == Spec => []ApprovedApplied
<1>1. AccountsInv => ApprovedApplied BY DEF AccountsInv
<1> QED BY AccountsInvariant, <1>1, PTL

\* The handlers that check the status respect it; an erased account gets a status again
\* by an overlapping request or a review only.
THEOREM StatusIsRespected == Spec => StatusRespected
<1>1. AccountsInv /\ [Next]_vars =>
        [\A r \in Requests : Writes(r) /\ ~req[r].other => <<status, status'>> \in Allowed]_vars
  <2> SUFFICES ASSUME AccountsInv, Next, NEW r \in Requests, Writes(r), ~req[r].other
               PROVE  <<status, status'>> \in Allowed
    BY DEF vars, user
  <2>1. TypeOK /\ CheckedStill BY DEF AccountsInv
  <2>2. WritingStatus(r)
    <3>1. PICK q \in Requests : RequestStep(q) \/ Fail(q)
      <4>1. pc'[r] # pc[r] BY DEF Writes
      <4> QED BY <4>1 DEF Next, Review, ResetCredentials, Accept, AcceptConsent, ChangePolicy,
                        RequestRectification, Reject, Retention
    <3>2. q = r
      <4>1. pc'[r] # pc[r] BY DEF Writes
      <4>2. CASE Elsewhere(q) BY <2>1, <4>1, <4>2, ElsewhereFacts
      <4>3. CASE Approve(q)
        <5>1. PICK step \in {"apply", "approve"} : Begin(q, step) BY <4>3 DEF Approve
        <5> QED BY <2>1, <4>1, <5>1, BeginFacts
      <4>4. CASE Apply(q) BY <2>1, <4>1, <4>4, GotoFacts DEF Apply
      <4>5. CASE MarkApproved(q)
        BY <2>1, <4>1, <4>5, AnswerFacts DEF MarkApproved, Bystander
      <4>6. CASE Commit(q) BY <2>1, <4>1, <4>6 DEF Commit, TypeOK
      <4> QED BY <3>1, <4>2, <4>3, <4>4, <4>5, <4>6
              DEF RequestStep, Elsewhere, Reading, WritingStatus
    <3>3. ~Fail(r) BY DEF Fail, user, Writes
    <3>4. pc[r] \in {"submit", "verify", "block", "unblock"} BY DEF Writes
    <3> QED BY <3>1, <3>2, <3>3, <3>4
            DEF RequestStep, WritingStatus, SubmitProfile, UpdateProfile, WriteProfile,
                VerifyUser, BlockUser, UnblockUser, OidcUpsert, OidcCollision, FindByEmail,
                Adopt, Unlink, Link, Approve, Apply, MarkApproved, EraseUser, Sweep, Commit,
                Begin
  <2>3. CASE WriteSubmitted(r)
    BY <2>1, <2>3 DEF WriteSubmitted, SetStatus, CheckedStill, Allowed
  <2>4. CASE WriteVerified(r)
    BY <2>1, <2>4 DEF WriteVerified, SetStatus, CheckedStill, Allowed
  <2>5. CASE WriteBlocked(r)
    BY <2>1, <2>5 DEF WriteBlocked, SetStatus, CheckedStill, Allowed, TypeOK
  <2>6. CASE WriteUnblocked(r)
    BY <2>1, <2>6 DEF WriteUnblocked, SetStatus, CheckedStill, Allowed
  <2> QED BY <2>2, <2>3, <2>4, <2>5, <2>6 DEF WritingStatus
<1>2. AccountsInv /\ [Next]_vars =>
        [status = "DELETED" /\ status' # "DELETED" =>
            late' \/ \E r \in Requests : Writes(r) /\ req[r].other]_vars
  <2> SUFFICES ASSUME AccountsInv, [Next]_vars, status = "DELETED", status' # "DELETED"
               PROVE  late' \/ \E r \in Requests : Writes(r) /\ req[r].other
    BY DEF vars, user
  <2>1. TypeOK /\ CheckedStill /\ NothingLeft /\ erased BY DEF AccountsInv, DeletedErased
  <2>2. ASSUME NEW r \in Requests, WritingStatus(r)
        PROVE  Writes(r) /\ req[r].other
    <3>1. pc[r] \in {"submit", "verify", "block", "unblock"} /\ pc'[r] = "idle"
      BY <2>1, <2>2, WritingFacts, FinishFacts
         DEF WritingStatus, WriteSubmitted, WriteVerified, WriteBlocked, WriteUnblocked
    <3>2. CASE pc[r] \in {"submit", "verify", "unblock"}
      BY <2>1, <3>1, <3>2 DEF CheckedStill, Writes
    <3>3. CASE pc[r] = "block" BY <2>1, <3>1, <3>3 DEF CheckedStill, Writes
    <3> QED BY <3>1, <3>2, <3>3
  <2>3. ASSUME NEW r \in Requests, OidcUpsert(r) PROVE late'
    BY <2>1, <2>3 DEF NothingLeft, OidcUpsert, Overwrite, Late
  <2>4. ASSUME NEW r \in Requests, Adopt(r) PROVE late'
    BY <2>1, <2>4 DEF NothingLeft, Adopt, Overwrite, Late
  <2>5. ASSUME NEW decision \in Decisions, Review(decision) PROVE late'
    BY <2>1, <2>5 DEF Review
  <2>6. ASSUME NEW r \in Requests, Commit(r) PROVE FALSE BY <2>6 DEF Commit
  <2> QED BY <2>1, <2>2, <2>3, <2>4, <2>5, <2>6, StatusWritten
<1>3. AccountsInv /\ [Next]_vars =>
        [/\ \A r \in Requests : Writes(r) /\ ~req[r].other => <<status, status'>> \in Allowed
         /\ status = "DELETED" /\ status' # "DELETED" =>
               late' \/ \E r \in Requests : Writes(r) /\ req[r].other]_vars
  BY <1>1, <1>2
<1> QED BY AccountsInvariant, <1>3, PTL DEF Spec, StatusRespected

-----------------------------------------------------------------------------
(***************************************************************************)
(* Where requests do not overlap, and neither a review nor an approval     *)
(* comes after the erasure, the account stays erased.                      *)
(***************************************************************************)
\* While a request is in flight, the steps are its own.
OwnSteps == \A r \in Requests : pc[r] # "idle" => pc'[r] # pc[r]
Serial == [][OwnSteps]_vars

\* The two handlers that look at no status leave an erased account alone.
LeftAlone == erased => /\ ~\E decision \in Decisions : Review(decision)
                       /\ ~\E r \in Requests : Apply(r)
Untouched == [][LeftAlone]_vars

Final == erased => status = "DELETED" /\ ~name /\ ~email /\ ~linked

\* Nobody has come between a request and what it read.
Unshaken(r) == /\ ~req[r].other /\ ~req[r].before
               /\ pc[r] = "commit" => req[r].unlinks = linked
FinalInv == ~late /\ (erased => status = "DELETED") /\ \A r \in Requests : Unshaken(r)

LEMMA KnowingAlone ==
    ASSUME NEW known, NEW by, \A q \in Requests \ {by} : pc[q] = "idle"
    PROVE  \A q \in Requests : Knowing(known, by)[q] = known[q]
BY DEF Knowing

LEMMA BlankIsUnshaken == ~NoRequest.other /\ ~NoRequest.before
BY DEF NoRequest

\* A request that takes a step is alone.
LEMMA OnlyOne ==
    ASSUME TypeOK, OwnSteps, NEW r \in Requests, RequestStep(r) \/ Fail(r)
    PROVE  \A q \in Requests \ {r} : pc[q] = "idle" /\ pc'[q] = "idle"
<1>1. \A q \in Requests \ {r} : pc'[q] = pc[q]
  <2>1. CASE Elsewhere(r) BY <2>1, ElsewhereFacts
  <2>2. CASE Approve(r)
    <3>1. PICK step : Begin(r, step) BY <2>2 DEF Approve
    <3> QED BY <3>1, BeginFacts
  <2>3. CASE Apply(r) BY <2>3, GotoFacts DEF Apply
  <2>4. CASE MarkApproved(r) BY <2>4, AnswerFacts DEF MarkApproved, Bystander
  <2>5. CASE Commit(r) BY <2>5 DEF Commit, TypeOK
  <2> QED BY <2>1, <2>2, <2>3, <2>4, <2>5 DEF RequestStep, Elsewhere, Reading, WritingStatus
<1> QED BY <1>1 DEF OwnSteps

LEMMA NobodyElse == ASSUME OwnSteps, pc' = pc PROVE \A q \in Requests : pc[q] = "idle"
BY DEF OwnSteps

LEMMA FinalStep ==
    AccountsInv /\ FinalInv /\ [Next]_vars /\ (OwnSteps \/ UNCHANGED vars)
      /\ (LeftAlone \/ UNCHANGED vars) => FinalInv'
<1>1. CASE UNCHANGED vars BY <1>1 DEF vars, user, FinalInv, Unshaken
<1> SUFFICES ASSUME AccountsInv, FinalInv, Next, OwnSteps, LeftAlone PROVE FinalInv'
  BY <1>1
<1> USE DEF FinalInv, Unshaken
<1>t. TypeOK /\ NothingLeft BY DEF AccountsInv
<1>2. ASSUME NEW r \in Requests, RequestStep(r) \/ Fail(r) PROVE FinalInv'
  <2> DEFINE others == Requests \ {r}
  <2>a. \A q \in others : pc[q] = "idle" /\ pc'[q] = "idle" BY <1>2, <1>t, OnlyOne
  <2>b. ASSUME Finish(r) \/ Answer(r)
        PROVE  pc'[r] = "idle" /\ \A q \in Requests : ~req'[q].other /\ ~req'[q].before
    <3>1. \A q \in Requests : ~[req EXCEPT ![r] = NoRequest][q].other
                              /\ ~[req EXCEPT ![r] = NoRequest][q].before
      BY <1>t, BlankIsUnshaken DEF TypeOK
    <3>2. CASE Finish(r)
      <4>1. \A q \in Requests : req'[q] = [req EXCEPT ![r] = NoRequest][q]
        BY <2>a, <3>2, KnowingAlone DEF Finish
      <4> QED BY <1>t, <3>1, <3>2, <4>1, FinishFacts
    <3>3. CASE Answer(r) BY <1>t, <3>1, <3>3, AnswerFacts DEF Answer
    <3> QED BY <2>b, <3>2, <3>3
  <2>1. CASE Reading(r)
    <3>1. PICK step \in Steps \ {"commit"} : Begin(r, step)
      BY <2>1 DEF Reading, SubmitProfile, UpdateProfile, VerifyUser, BlockUser, UnblockUser,
                  OidcCollision, Approve, EraseUser, Steps
    <3> QED BY <1>t, <2>a, <3>1, BeginFacts
  <2>2. CASE WritingStatus(r)
    <3>1. ~erased
      BY <1>t, <2>2 DEF AccountsInv, CheckedStill, WritingStatus, WriteSubmitted,
                        WriteVerified, WriteBlocked, WriteUnblocked
    <3> QED BY <1>t, <2>2, <2>a, <2>b, <3>1, WritingFacts
  <2>3. CASE WriteProfile(r) BY <2>3, <2>a, <2>b DEF WriteProfile, Late
  <2>4. CASE OidcUpsert(r)
    <3>1. ~erased BY <1>t, <2>4 DEF NothingLeft, OidcUpsert
    <3>2. \A q \in Requests : req'[q] = req[q] BY <2>4, <2>a, KnowingAlone DEF OidcUpsert
    <3> QED BY <2>4, <2>a, <3>1, <3>2 DEF OidcUpsert, Overwrite, Late
  <2>5. CASE FindByEmail(r)
    <3>1. pc'[r] \in {"adopt", "idle"} /\ UNCHANGED <<status, erased, late>>
          /\ \A q \in Requests : ~req'[q].other /\ ~req'[q].before
      BY <1>t, <2>5, <2>b, GotoFacts DEF FindByEmail, user
    <3> QED BY <2>a, <3>1
  <2>6. CASE Adopt(r)
    <3>1. ~erased BY <1>t, <2>6 DEF NothingLeft, Adopt
    <3>2. \A q \in Requests : req'[q] = req[q] BY <2>6, <2>a, KnowingAlone DEF Adopt
    <3>3. pc'[r] = "unlink" BY <1>t, <2>6 DEF Adopt, TypeOK
    <3> QED BY <2>6, <2>a, <3>1, <3>2, <3>3 DEF Adopt, Overwrite, Late
  <2>7. CASE Unlink(r) BY <1>t, <2>7, <2>a, GotoFacts DEF Unlink, user
  <2>8. CASE Link(r) BY <2>8, <2>a, <2>b DEF Link, Late, user
  <2>9. CASE Apply(r)
    <3>1. ~erased BY <2>9 DEF LeftAlone
    <3> QED BY <1>t, <2>9, <2>a, <3>1, GotoFacts DEF Apply
  <2>10. CASE MarkApproved(r) BY <2>10, <2>a, <2>b DEF MarkApproved, Decide, user
  <2>11. CASE Sweep(r)
    <3>1. /\ req'[r].unlinks = linked /\ linked' = linked
          /\ ~req'[r].other /\ ~req'[r].before
      BY <1>t, <2>11 DEF Sweep, TypeOK, Reqs
    <3>2. \A q \in others : req'[q] = req[q] BY <1>t, <2>11 DEF Sweep, TypeOK
    <3> QED BY <2>11, <2>a, <3>1, <3>2 DEF Sweep, user
  <2>12. CASE Commit(r)
    <3>1. ~late' BY <1>t, <2>12 DEF Commit, TypeOK, Reqs
    <3>2. \A q \in Requests : req'[q] = NoRequest BY <2>12, <2>a DEF Commit
    <3>3. pc'[r] = "idle" BY <1>t, <2>12 DEF Commit, TypeOK
    <3> QED BY <2>12, <2>a, <3>1, <3>2, <3>3, BlankIsUnshaken DEF Commit
  <2>13. CASE Fail(r) BY <2>13, <2>a, <2>b DEF Fail, user
  <2> QED BY <1>2, <2>1, <2>2, <2>3, <2>4, <2>5, <2>6, <2>7, <2>8, <2>9, <2>10, <2>11, <2>12,
             <2>13 DEF RequestStep, Reading, WritingStatus
<1>3. ASSUME NEW decision \in Decisions, Review(decision) PROVE FinalInv'
  <2>1. ~erased BY <1>3 DEF LeftAlone
  <2>2. \A q \in Requests : pc[q] = "idle" BY <1>3, NobodyElse DEF Review
  <2>3. \A q \in Requests : req'[q] = req[q] BY <1>3, <2>2, KnowingAlone DEF Review
  <2> QED BY <1>3, <2>1, <2>2, <2>3 DEF Review
<1>4. CASE ResetCredentials
  <2>1. \A q \in Requests : pc[q] = "idle" BY <1>4, NobodyElse DEF ResetCredentials
  <2> QED BY <1>4, <2>1 DEF ResetCredentials, user
<1>5. CASE Accept BY <1>5 DEF Accept, AcceptConsent, user
<1>6. CASE ChangePolicy BY <1>6 DEF ChangePolicy, user
<1>7. ASSUME NEW field \in Fields, RequestRectification(field) PROVE FinalInv'
  BY <1>7 DEF RequestRectification, user
<1>8. CASE Reject BY <1>8 DEF Reject, Decide, user
<1>9. CASE Retention BY <1>9 DEF Retention, user
<1> QED BY <1>2, <1>3, <1>4, <1>5, <1>6, <1>7, <1>8, <1>9 DEF Next

\* An account erased where nothing overlaps, and that no review and no approval touches
\* afterwards, stays deleted, and without a name, an e-mail address and a way in by OIDC
\* (eraseUser): its owner, logins, the other administrators and the retention job bring
\* none of them back.  The personal code, which the erasure leaves, is not among them.
THEOREM ErasureIsFinal == Spec /\ Serial /\ Untouched => []Final
<1>1. Init => FinalInv
  BY BlankIsUnshaken DEF Init, FinalInv, Unshaken
<1>2. AccountsInv /\ FinalInv => Final
  BY DEF AccountsInv, NothingLeft, FinalInv, Final
<1>3. AccountsInv /\ FinalInv /\ [Next]_vars /\ [OwnSteps]_vars /\ [LeftAlone]_vars
        => FinalInv'
  BY FinalStep
<1> QED BY AccountsInvariant, <1>1, <1>2, <1>3, PTL DEF Spec, Serial, Untouched
=============================================================================
