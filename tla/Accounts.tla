------------------------------ MODULE Accounts ------------------------------
(***************************************************************************)
(* The User row of one account under all that write it: the owner's        *)
(* profile, the reviews, blocks and verifications of administrators, OIDC  *)
(* logins, the privacy policy, requests for rectification, the erasure and *)
(* the retention job.                                                      *)
(*                                                                         *)
(* A handler reads the row in one query and writes it in another: between  *)
(* the two, others write.  A request whose check fails leaves no trace.    *)
(* Sessions and guards are AccessControl: here a request may come at any   *)
(* time.  Personal data are there or not, whatever they say.               *)
(***************************************************************************)
CONSTANTS
    Requests,
    Versions,  \* values of PRIVACY_POLICY_VERSION
    Null

ASSUME AccountsAssumption == Null \notin Versions \cup Requests

VARIABLES
    status,     \* User.status
    name,       \* User: firstName and lastName are there
    email,      \* User: email is there
    code,       \* User: personalCodeEnc is there
    erased,     \* User.deletedAt is set
    linked,     \* Identity: the ENTRA row of the owner's sub
    policy,     \* the current version
    consented,  \* User.consentedPolicyVersion
    consents,   \* UserConsent: the versions there is a row for
    request,    \* RectificationRequest: one of the account
    applied,    \* history: its value was written to the row
    late,       \* history: after the erasure the row was written by a request that
                \* overlapped with it, by an approval or by a review
    pc, req     \* what a request does next; what it knows

user == <<status, name, email, code, erased>>
gdpr == <<policy, consented, consents, request, applied>>
vars == <<user, linked, gdpr, late, pc, req>>

Statuses == {"UNVERIFIED", "PENDING_REVIEW", "VERIFIED", "REJECTED", "BLOCKED", "DELETED"}
Fields   == {"firstName", "email", "phone"}
Steps    == {"idle", "submit", "profile", "verify", "block", "unblock",
             "findEmail", "adopt", "unlink", "link",  \* oidcCallback
             "apply", "approve", "sweep", "commit"}   \* the approval; eraseUser
Reqs     == [swept : SUBSET Versions, unlinks : BOOLEAN,
             other : BOOLEAN,   \* history: the status was written since it read it
             before : BOOLEAN]  \* history: it read the row before an erasure

TypeOK ==
    /\ status \in Statuses /\ name \in BOOLEAN /\ email \in BOOLEAN /\ code \in BOOLEAN
    /\ erased \in BOOLEAN /\ linked \in BOOLEAN /\ applied \in BOOLEAN /\ late \in BOOLEAN
    /\ policy \in Versions /\ consented \in Versions \cup {Null} /\ consents \subseteq Versions
    /\ request \in [field : Fields \cup {Null},
                    status : {"PENDING", "APPROVED", "REJECTED"}]
    /\ pc \in [Requests -> Steps] /\ req \in [Requests -> Reqs]

NoRequest == [swept |-> {}, unlinks |-> FALSE, other |-> FALSE, before |-> FALSE]

\* An account made by verifyEmail, by createUser, or by a first OIDC login.
Init ==
    /\ linked \in BOOLEAN /\ email = TRUE /\ name \in BOOLEAN
    /\ code \in BOOLEAN /\ (linked => ~code)
    /\ status = IF linked THEN "VERIFIED" ELSE "UNVERIFIED"
    /\ policy \in Versions /\ consented = Null /\ consents = {}
    /\ request = [field |-> Null, status |-> "PENDING"]
    /\ erased = FALSE /\ applied = FALSE /\ late = FALSE
    /\ pc = [r \in Requests |-> "idle"] /\ req = [r \in Requests |-> NoRequest]

Begin(r, step) ==
    /\ pc[r] = "idle"
    /\ pc' = [pc EXCEPT ![r] = step]
    /\ UNCHANGED <<user, linked, gdpr, late, req>>
Goto(r, step) == pc' = [pc EXCEPT ![r] = step] /\ UNCHANGED req
Answer(r) == pc' = [pc EXCEPT ![r] = "idle"] /\ req' = [req EXCEPT ![r] = NoRequest]

\* The requests that have read the status learn that it was written.
Knowing(known, by) ==
    [q \in Requests |-> IF q = by \/ pc[q] = "idle" THEN known[q]
                        ELSE [known[q] EXCEPT !.other = TRUE]]
Finish(r) ==
    /\ pc' = [pc EXCEPT ![r] = "idle"]
    /\ req' = Knowing([req EXCEPT ![r] = NoRequest], r)

\* A request writes the status and ends.
SetStatus(r, new) ==
    /\ status' = new /\ Finish(r)
    /\ UNCHANGED <<name, email, code, erased, linked, gdpr, late>>

\* Personal data are written: late if the account was erased meanwhile.
Late(r) == late' = (late \/ req[r].before)

(***************************************************************************)
(* The owner's profile.                                                    *)
(***************************************************************************)
\* Mutant of Editable: the status is not checked.
EditableAlways == TRUE
Editable == status \in {"UNVERIFIED", "REJECTED"}

SubmitProfile(r) == Editable /\ name /\ Begin(r, "submit")
WriteSubmitted(r) == pc[r] = "submit" /\ SetStatus(r, "PENDING_REVIEW")

UpdateProfile(r) == Editable /\ Begin(r, "profile")
WriteProfile(r) ==
    /\ pc[r] = "profile" /\ Answer(r)
    /\ name' \in BOOLEAN /\ code' \in BOOLEAN /\ Late(r)
    /\ UNCHANGED <<status, email, erased, linked, gdpr>>

(***************************************************************************)
(* Administrators.                                                         *)
(***************************************************************************)
\* Mutant of Verifiable: everyone who is not verified yet.
VerifiableUnlessVerified == status # "VERIFIED"
Verifiable == status \in {"UNVERIFIED", "PENDING_REVIEW"}

VerifyUser(r) == Verifiable /\ Begin(r, "verify")
WriteVerified(r) == pc[r] = "verify" /\ SetStatus(r, "VERIFIED")

BlockUser(r) == status \notin {"BLOCKED", "DELETED"} /\ Begin(r, "block")
WriteBlocked(r) == pc[r] = "block" /\ SetStatus(r, "BLOCKED")

UnblockUser(r) == status = "BLOCKED" /\ Begin(r, "unblock")
WriteUnblocked(r) == pc[r] = "unblock" /\ SetStatus(r, "VERIFIED")

\* Mutant: the decision itself is written as the status.
ReviewDecision(decision) ==
    /\ status' = decision
    /\ req' = Knowing(req, Null)
    /\ late' = (late \/ erased)
    /\ UNCHANGED <<name, email, code, erased, linked, gdpr, pc>>

\* What the controller accepts for a decision.
Decisions == {"APPROVED", "REJECTED"}

\* reviewVerification looks at no status, be it DELETED: its two queries are one step.
Review(decision) ==
    /\ status' = IF decision = "APPROVED" THEN "VERIFIED" ELSE "REJECTED"
    /\ req' = Knowing(req, Null)
    /\ late' = (late \/ erased)
    /\ UNCHANGED <<name, email, code, erased, linked, gdpr, pc>>

\* resetCredentials takes the identity; Credentials has the rest.
ResetCredentials ==
    /\ linked /\ linked' = FALSE
    /\ UNCHANGED <<user, gdpr, late, pc, req>>

(***************************************************************************)
(* oidcCallback.  An account is found by the sub; if there is none, one is *)
(* created, which the address refuses (P2002) when it is taken.            *)
(***************************************************************************)
\* The claims that are there overwrite the row, whatever its status.
Overwrite(r) == status' = "VERIFIED" /\ name' \in {name, TRUE} /\ Late(r)

OidcUpsert(r) ==
    /\ pc[r] = "idle" /\ linked
    /\ Overwrite(r) /\ email' \in {email, TRUE}
    /\ req' = Knowing(req, r)
    /\ UNCHANGED <<code, erased, linked, gdpr, pc>>

OidcCollision(r) == ~linked /\ email /\ Begin(r, "findEmail")

FindByEmail(r) ==
    /\ pc[r] = "findEmail"
    /\ IF email THEN Goto(r, "adopt") ELSE Answer(r)
    /\ UNCHANGED <<user, linked, gdpr, late>>

Adopt(r) ==
    /\ pc[r] = "adopt"
    /\ Overwrite(r)
    /\ pc' = [pc EXCEPT ![r] = "unlink"] /\ req' = Knowing(req, r)
    /\ UNCHANGED <<email, code, erased, linked, gdpr>>

Unlink(r) ==
    /\ pc[r] = "unlink" /\ Goto(r, "link")
    /\ linked' = FALSE
    /\ UNCHANGED <<user, gdpr, late>>

\* P2002 when another login has made the row.
Link(r) ==
    /\ pc[r] = "link" /\ Answer(r)
    /\ linked' = TRUE /\ Late(r)
    /\ UNCHANGED <<user, gdpr>>

(***************************************************************************)
(* Consent and rectification.                                              *)
(***************************************************************************)
\* ConsentMiddleware asks before every request of a logged-in user but those to its
\* skipPaths.
HasCurrentConsent == consented = policy
Passes(skipped) == skipped \/ HasCurrentConsent

\* One transaction, for the current version only.  Mutant: only the column of the user
\* is written.
AcceptConsentColumn(version) ==
    /\ version = policy
    /\ consented' = version
    /\ UNCHANGED <<user, linked, policy, consents, request, applied, late, pc, req>>

AcceptConsent(version) ==
    /\ version = policy
    /\ consented' = version /\ consents' = consents \cup {version}
    /\ UNCHANGED <<user, linked, policy, request, applied, late, pc, req>>

\* POST /me/consent.
Accept == \E version \in Versions : AcceptConsent(version)

\* A deployment with another version.
ChangePolicy ==
    /\ policy' \in Versions
    /\ UNCHANGED <<user, linked, consented, consents, request, applied, late, pc, req>>

RequestRectification(field) ==
    /\ request.field = Null
    /\ request' = [field |-> field, status |-> "PENDING"]
    /\ UNCHANGED <<user, linked, policy, consented, consents, applied, late, pc, req>>

AllowedFields == {"firstName", "email"}

\* Nothing looks at the status of the request, or at that of its user.
Approve(r) ==
    /\ request.field # Null
    /\ Begin(r, IF request.field \in AllowedFields THEN "apply" ELSE "approve")

\* Mutant: the request is marked when its value is still to be written.
ApplyMarksFirst(r) ==
    /\ pc[r] = "apply" /\ Goto(r, "approve")
    /\ request' = [request EXCEPT !.status = "APPROVED"]
    /\ UNCHANGED <<user, linked, policy, consented, consents, applied, late>>

Apply(r) ==
    /\ pc[r] = "apply" /\ Goto(r, "approve")
    /\ name' = (name \/ request.field = "firstName")
    /\ email' = (email \/ request.field = "email")
    /\ applied' = TRUE
    /\ late' = (late \/ erased)
    /\ UNCHANGED <<status, code, erased, linked, policy, consented, consents, request>>

Decide(decision) ==
    /\ request' = [request EXCEPT !.status = decision]
    /\ UNCHANGED <<user, linked, policy, consented, consents, applied, late>>

MarkApproved(r) == pc[r] = "approve" /\ Answer(r) /\ Decide("APPROVED")
Reject == request.field # Null /\ Decide("REJECTED") /\ UNCHANGED <<pc, req>>

(***************************************************************************)
(* eraseUser and the retention job.  What is committed after a delete of   *)
(* the transaction has run stays: READ COMMITTED.                          *)
(***************************************************************************)
\* By another administrator than the owner, however often.
EraseUser(r) == Begin(r, "sweep")

Sweep(r) ==
    /\ pc[r] = "sweep"
    /\ pc' = [pc EXCEPT ![r] = "commit"]
    /\ req' = [req EXCEPT ![r].swept = consents, ![r].unlinks = linked]
    /\ UNCHANGED <<user, linked, gdpr, late>>

\* The columns that are overwritten do not include personalCodeEnc.
Commit(r) ==
    /\ pc[r] = "commit"
    /\ status' = "DELETED" /\ erased' = TRUE /\ name' = FALSE /\ email' = FALSE
    /\ consented' = Null /\ consents' = consents \ req[r].swept
    /\ linked' = (linked /\ ~req[r].unlinks)
    /\ late' = linked'
    /\ pc' = [pc EXCEPT ![r] = "idle"]
    /\ req' = [q \in Requests |->
                 IF q = r \/ pc[q] = "idle" THEN NoRequest
                 ELSE [req[q] EXCEPT !.other = TRUE, !.before = TRUE]]
    /\ UNCHANGED <<code, policy, request, applied>>

\* Five years later.
Retention ==
    /\ erased
    /\ consents' = {}
    /\ UNCHANGED <<user, linked, policy, consented, request, applied, late, pc, req>>

\* An await rejects, or the process ends; the transaction is rolled back.
Fail(r) ==
    /\ pc[r] # "idle" /\ Answer(r)
    /\ UNCHANGED <<user, linked, gdpr, late>>

RequestStep(r) ==
    \/ SubmitProfile(r) \/ WriteSubmitted(r) \/ UpdateProfile(r) \/ WriteProfile(r)
    \/ VerifyUser(r) \/ WriteVerified(r) \/ BlockUser(r) \/ WriteBlocked(r)
    \/ UnblockUser(r) \/ WriteUnblocked(r)
    \/ OidcUpsert(r) \/ OidcCollision(r) \/ FindByEmail(r) \/ Adopt(r) \/ Unlink(r) \/ Link(r)
    \/ Approve(r) \/ Apply(r) \/ MarkApproved(r)
    \/ EraseUser(r) \/ Sweep(r) \/ Commit(r)

Next ==
    \/ \E r \in Requests : RequestStep(r) \/ Fail(r)
    \/ \E decision \in Decisions : Review(decision)
    \/ ResetCredentials
    \/ Accept \/ ChangePolicy
    \/ (\E field \in Fields : RequestRectification(field)) \/ Reject
    \/ Retention

Spec == Init /\ [][Next]_vars

(***************************************************************************)
(* Correctness.                                                            *)
(***************************************************************************)

\* The changes a handler that checks the status may make.
Allowed == ({"UNVERIFIED", "REJECTED"} \X {"PENDING_REVIEW"})
             \cup ({"UNVERIFIED", "PENDING_REVIEW", "BLOCKED"} \X {"VERIFIED"})
             \cup ((Statuses \ {"BLOCKED", "DELETED"}) \X {"BLOCKED"})

\* submitProfile, verifyUser, blockUser and unblockUser leave a block and an erasure in
\* force, unless the status was written between their reading and their writing it.  An
\* erased account gets a status again only so, or by what late remembers: a review, or
\* a login that overlapped with the erasure.
Writes(r) == pc[r] \in {"submit", "verify", "block", "unblock"} /\ status' # status
             /\ pc'[r] = "idle"
StatusRespected ==
    [][/\ \A r \in Requests : Writes(r) /\ ~req[r].other => <<status, status'>> \in Allowed
       /\ status = "DELETED" /\ status' # "DELETED" =>
             late' \/ \E r \in Requests : Writes(r) /\ req[r].other]_vars

\* An erased account has no name, no e-mail address and no way in by OIDC, unless a request
\* that overlapped with the erasure, an approval or a review has written it since
\* (eraseUser).
ErasureComplete == erased /\ ~late => ~name /\ ~email /\ ~linked

\* What the comment in eraseUser says: all encrypted columns are overwritten.
ErasureClearsEncrypted == erased /\ ~late => ~name /\ ~email /\ ~code

\* Whom ConsentMiddleware lets in has accepted the current version, on record, until an
\* erasure (acceptConsent, eraseUser, and the retention job, which deletes records).
ConsentBacked == Passes(FALSE) /\ ~erased => policy \in consents

\* A request marked as approved was carried out, if its field can be corrected
\* (approveRectificationRequest writes the value first).
ApprovedApplied ==
    request.status = "APPROVED" /\ request.field \in AllowedFields => applied
=============================================================================
