# Verification of the identity, access and audit core

TLA+ models of the NestJS API in `src/apps/api`: sessions and guards, the audit log
and its archive, rate limits and maintenance, and the life of an account with its
credentials. TLC checks them on small instances, TLAPS proves their properties for
every instance. `PROJECT.json` maps every definition to the lines it stands for.

## 1. The system

The API is one NestJS process (or several behind nginx) over PostgreSQL
(Prisma), Redis (ioredis, connect-redis, BullMQ), MinIO and ClamAV. Paths below
are under `src/apps/api/src/`.

| Part | State it keeps | Operations | Correct when |
|---|---|---|---|
| Session lifecycle (`session-lifecycle/`) | Redis `sess:{sid}`, the index `user-sessions:{userId}`, the marker `...:migrated` | login (regenerate, save, track, limit), lookup (index first, one SCAN as migration), logout, revoke all / others / by id / in bulk, overview | ids never change owner; revocations remove what they can find and nobody else's sessions; the limit holds |
| express-session, csrf token (`common/session-store.ts`, `csrf.middleware.ts`) | the in-memory copy a request works on | load on arrival, regenerate, destroy, save at the end of a response that changed it | an anonymous id never becomes an authenticated one |
| Guards (`common/*.guard.ts`, Bull Board in `main.ts`) | `userRole`, `userStatus`, `userVerifiedAt`, `createdAt`, `stepUpVerifiedAt` in the session | StatusGuard (global), AuthGuard (`validateSession`), AdminGuard, StepUpGuard | blocked and demoted users lose access in bounded time; a session does not outlive its lifetime; sensitive operations follow a fresh step-up |
| Administration (`admin/`) | `User.role`, `User.status` | block, unblock, verify, change of role, credential reset, bulk revocation | a change reaches the sessions |
| Audit log (`audit/`) | `AuditLog` rows, chained by HMAC | write under an advisory lock, verify from head or tail | the chain is linear; verification accepts exactly what was written |
| Audit export (`audit/audit-export.service.ts`) | signed files | scheduled export of the last period, export of a range | a file misses no row of its range |
| Rate limits (`common/rate-limit*.ts`) | a sorted set per group and client in Redis | a pipeline per limiter of the path | at most the limit in any window |
| Maintenance (`maintenance/`) | a flag in Redis; a cache of five seconds in each process | toggle; 503 | a change is effective in bounded time |
| Registration (`auth/auth.service.ts`) | counters, e-mail and set-up tokens, pending secrets and attempts in Redis; `User`, `Identity` | register, verify the address, set up TOTP by the link or from a session; an administrator's account, reset, set-up link; an erasure | a stored secret is proved or was given to a session of its user; one TOTP secret; limits hold; a reported success is one |
| Credentials (`auth/`, `user-security/`) | passkeys with their counters, TOTP rows, replay marks | log in, step up, replace the secret, register and remove passkeys, reset | a code works once; one method remains |
| Account (`profile/`, `verification/`, `admin/`, `gdpr/`) | `User.status`, personal data, consents, rectification requests | submit, review, verify, block, OIDC login, consent, rectify, erase, retention | a block or an erasure stays in force; an erased account has no name, no e-mail address and no way in by OIDC |
| Others | notifications, documents, queue, e-mail, storage, PII encryption | see section 5 | |

How they interact. A request passes express-session, maintenance, CSRF, the audit
hook, the rate limits, the consent check, StatusGuard, the controller's guards
and the handler. The handler awaits Redis and PostgreSQL; at every await other
requests run. When the response ends express-session writes the *whole* copy of
the session back if it was changed, and AuthGuard changes it in every request.
Administrators' operations update a row and then call the session service, which
audits itself; an erasure does that and then rewrites the subjects of audit rows.

What is hard: the write at the end of a response against every deletion of a
session; two stores (sessions, index, marker) kept together without transactions;
role and status cached in many copies; guards in a fixed order that look at
different moments; a hash chain whose rows are rewritten and removed by other jobs;
handlers that read a row, await, and write it, while eight other handlers do the same;
counters read in one command and increased in another; pipelines whose answers are
lost and which are then sent again; failures between any two awaits. `PROJECT.json`
lists these hazards at their lines, with the properties about each.

## 2. Modules

| Module | What it is |
|---|---|
| `SessionRegistry` | abstract: whose session an id is, and who can bring a removed one back |
| `SessionLifecycle` | the session service and the express-session life of a request; implements `SessionRegistry` |
| `AccessControl` | the guards over a cached role and status, with a clock; implements `SessionRegistry` |
| `AuditLog` | abstract: a log with single-step writes, erasures and removals |
| `AuditChain` | the audit log with its writers, erasure and retention; implements `AuditLog` |
| `AuditExport` | extends `AuditChain` with the exports that read it |
| `SlidingWindow` | abstract: what a rate limit promises |
| `Gateway` | maintenance and the chain of limiters; implements `SlidingWindow` |
| `Registration` | from the first registration to a stored TOTP secret |
| `Credentials` | passkeys, TOTP rows and replay marks of one account |
| `Accounts` | the `User` row of one account under everything that writes it |
| `MC...` | the symmetries, and the limits and windows, of the small instances |
| `...Proofs` | the theorems about each |

They share state only where the code makes them: `AccessControl` abstracts the
session service to "the sessions of a user end", and what it takes for sessions obeys
the same `SessionRegistry` that `SessionLifecycle` is shown to implement; `Credentials` and `Accounts` let
a request come at any time instead of asking the guards; the audit entry every
handler writes is `AuditChain`'s event. The composition that matters for the
properties, log and export, is `AuditExport`.

### SessionLifecycle

A request `r` is a sequential handler: `pc[r]` names the Redis command it sends
next, `op[r]` holds its handler, its in-memory session and its target, `keys`,
`todo` and `items` its local lists. One Redis command or one pipeline is one
step; a pipeline is one step because its commands arrive in one buffer and Redis
runs them without others in between.

| Code | Actions |
|---|---|
| request arrives | `Arrive`, `ArriveWithoutSession` |
| `findTrackedSessionKeys` | `CheckMarker`, `ScanKey`*, `TrackScanned`, `SetMarker`, `ReadMembers`, `CheckAlive`, `DropStale` |
| `establishAuthenticatedSession`, `enforceSessionLimit` | `Regenerate`, `SaveSession`, `TrackSession`, lookup, `LookUpSessions`, `EvictOldest`; after it `SaveAgain`, the second save of `oidcCallback` |
| `revokeAllUserSessions` | lookup, `DeleteAll`, `ClearTracking` |
| `revokeOtherUserSessions` | lookup, `DeleteOthers` |
| `logoutSession` | `LogoutUntrack`, `DestroySession` |
| `revokeSessionById` | `GetSession`, `DeleteItem`, `UntrackItem` |
| `bulkRevokeSessions` | `ScanKey`*, `BulkScanned`, (`DeleteItem`, `UntrackItem`)* |
| end of the response | `EndResponse` |
| an await rejects, the process dies, Redis drops a key | `Throw`, `Crash`, `SessionExpires`, `MarkerExpires`, `IndexExpires` |

Whose sessions a request is about depends on its endpoint: `Targets` gives a user
their own (`GetSecurity`, `RevokeOtherSessions`, `RevokeAllSessions`), an
administrator those of anybody else (`ForceLogout`), any session (`RevokeSession`) or
those of a user, of all, or of whom a filter by roles or several ids chooses
(`BulkRevokeSessions`). Which sessions such a filter (`Some`) matches is left open: any of
the sessions that belong to somebody.

SCAN is modelled by its contract: every key that is there from the beginning to
the end is returned, one written meanwhile may be, any may be returned twice.
An index may lapse with live sessions on it (`IndexExpires`): its TTL is set by the logins
and the migration, that of a session by every save.
`lastActive` is left out, so *which* session is the oldest is open; *how many* are
evicted is not. A session id is drawn once (`owner` remembers for whom).

`due[r]` is a history variable: the sessions the lookup of `r` has to answer for.
It starts as what could be found when the marker was read (the live members of
the index, or every live session of the user before the migration) and forgets a
session only when it is written again after it was gone, when somebody else takes it off
an index while it lives, or when that index lapses. The sweeping properties are stated with
it, so their exceptions are explicit: they are exactly the ways in which a revocation of
the code can miss a session, which these properties bound and do not exclude.

`SessionRegistry` is what all this looks like to whoever reads sessions: an id is drawn
once for one owner, a session may disappear at any time, and only a request that holds a
copy writes it back. Index, marker and the local lists of a handler are hidden;
the copy of a request is `op[r].sid`.

### AccessControl

The clock `now` moves while a request waits, never between two awaits. A request
copies the session on arrival (`Arrive`: StatusGuard, then the first half of
`validateSession`), waits for the user row (`ReadUser`, or `ReadFails` when the query is rejected), continues in `Resume`
(second half of `validateSession`, AuthGuard, AdminGuard, StepUpGuard) and writes
its copy back in `EndResponse`. `Kinds` are the endpoints by the guards they have;
`queues` is the Bull Board middleware, which does not set `lastActive`. `Latency`
bounds only the wait for the user row. `blockUser` and `changeUserRole` are two
awaits each: `BlockUser` or `ChangeUserRole`, then `RevokeSessions`, which is
also what force-logout, credential reset and the user's own revoke-all call, so
it is possible at any time. `BoardAllows` is the middleware in front of the Bull Board,
`AdminAllows` the guards in front of an administrator's endpoint. `since`, `born` and `proved` are history
variables. For the refinement of `SessionRegistry` a session's owner is whom it was `born`
for, and the copy of a request in flight is the session it loaded.

### AuditChain

`write()` is `BeginEvent` (timestamp), `AcquireLock`, `ReadLast`, `Create`;
`Abort` is the rollback at any point. `eraseUser` is `BeginErase` (its first audit
entry), `UpdateMany` (the rows it matches), `CommitErasure`, and its last entry.
The retention job is `BeginRetention`, `DeleteOld`, and its entry. HMAC-SHA256 is
taken to be free of collisions: the hash of a row is the sequence of the events it
was computed from. `history` remembers every row as it was written. `Tick` assumes
what the nightly schedule of `queue.module.ts` gives: the newest row, and the event
of a write under way, are younger than ten years.

`AuditLog` has the same rows, but an entry is written in one step, which reads the
end of the log and appends; an erasure relabels in one step rows of one user with a
pseudonym of that user; what is removed is older than all that remains. Lock, transactions,
timestamps taken early and the three jobs are hidden. `written` is mapped to the events of
`history`.

### AuditExport

`Export` selects the rows of a range of timestamps: the period that has ended
(`PeriodRange`) or the day up to now (`DefaultRange`), with the limit on rows as it is
in the code. A row's timestamp is taken before its transaction begins, so a row
can be committed in a range after the export of that range: `awaited` holds the
writers that were on their way, `late` what they wrote since. `ExportComplete` names
these rows as the only ones a file can miss below the limit.

### Gateway and SlidingWindow

| Code | Actions |
|---|---|
| `createMaintenanceMiddleware` | `Arrive` (cached flag), `Fetch`, `Fetched`, `FetchFails` |
| `MaintenanceController.toggle` | `Toggle` |
| `rateLimitSlidingWindow`, one per limiter of the path | `Pipeline` |
| ioredis sends an unanswered pipeline again | `AnswerLost` |
| the pipeline rejects | `PipelineFails`: general groups admit, authentication groups answer 503 |
| single commands of the pipeline fail | `CommandsFail`: the count is read as 0 |
| Redis drops a key | `KeyExpires` |

A request passes the limiters of its path in order (`GroupsOf`); every limiter has its
own key. `health` passes without one, but not under maintenance (`Exempt`). A pipeline adds the request under the time it was *sent* with, which may be
older by the latency than the time it runs at. So the window that holds is the
configured one less `Latency`, and `ImplementsWindow` says exactly that:
`Gateway` implements `SlidingWindow` with `Window <- WindowOf - Latency`, for the
requests that were counted. Requests that pass because Redis failed are not counted.

### Registration

| Code | Actions |
|---|---|
| `register` | `Register`, `ReadRate`, `Count`, `ReadLatest`, `DropPrevious`, `PutToken`, `PutLatest`, `Mail` |
| `verifyEmail` | `VerifyEmail`, `DropVerify`, `CheckUser`, `Create`, `PutSetup` |
| `totpSetupInit` | `TotpSetupInit`, `PutPending` |
| `totpSetupVerify` | `TotpSetupVerify`, `ReadAttempts`, `GiveUp`, `ReadPending`, `Incr`, `ExpireAttempts`, `FindRow`, `Update`, `CreateRow`, `Fallback`, `Clean` |
| `totpSetup` | `TotpSetup` |
| administrator | `AdminCreates`, `Reset`, `SendSetupLink`; `Erase`, what `eraseUser` does to the identities |
| TTLs, a failing await, death of the process | `ExpireKey`, `Fail` |

Every Redis command is a step. Expiry removes any key at any time; a rejected
await and a crash both end the request where it is. Tokens and secrets are drawn once;
a token can be shown by anybody it was sent to (`known`). A TOTP row is
created with `providerId` `''` (`Blank`), which is unique with its provider: that is
the disagreement `registration_blank` shows. `totpSetup`, which a session that came by OIDC
or a passkey may call, asks for no code and finds the row by its own `providerId`, the user's
id; so an account whose `''` row is still there gets a second row. `given` remembers the
secrets it hands out. `OneTotpSecret` says that only one of the two can ever hold one: who
stores a secret gives its row the user's id, which is unique, and a set-up by the link that
finds the `''` row is then refused (P2002, which `Update` does not catch). An erased account
stays in `accounts`; a set-up that is under way, or whose link is still valid, can give it
a TOTP row again. That its address is free for a new registration is left out.

### Credentials

| Code | Actions |
|---|---|
| `passkeyRegisterVerify`, `passkeyAuthVerify` | `RegisterPasskey`; `PasskeyLogin`, `WriteCounter` |
| `totpVerifyAndLogin`, `stepUpVerifyTotp` | `TotpLogin`, `StepUp`; `GetMark`, `FindTotp`, `Check`, `Mark` |
| `totpSetup` | `TotpSetup` |
| `totpReset`, `totpResetVerify` | `TotpReset`; `TotpResetVerify`, `StoreSecret`, `DropPending` |
| `revokePasskey` | `RevokePasskey`, `CountPasskeys`, `FindConfigured`, `Revoke` |
| `resetCredentials` | `ResetCredentials`, `Reset` |
| the clock, TTLs, a failing await | `Tick`, `ExpirePending`, `Lapse`, `Fail` |

A code is a pair of a secret and the TOTP step it was made for. `Valid` is the
library's tolerance of `Tolerance` steps; a mark lives `ReplayTtl` steps from when it
is set. `other` in a request records that another one changed the methods since it
read them; `MethodRemains` is stated with it, since the code reads before its
transaction and two overlapping removals do leave nothing. `elevated` stands for a
session that has stepped up, without which `StepUpGuard` admits none of these
handlers.

### Accounts

Each handler is one action per query: reading and checking (`SubmitProfile`,
`UpdateProfile`, `VerifyUser`, `BlockUser`, `UnblockUser`, `Approve`, `EraseUser`) and
writing (`WriteSubmitted`, `WriteProfile`, ..., `Commit`). `reviewVerification`, which
checks nothing about the status, is the one step `Review`. `oidcCallback` is
`OidcUpsert`, or after a collision of the address `OidcCollision`, `FindByEmail`,
`Adopt`, `Unlink`, `Link`, which are no transaction. `Apply` and `MarkApproved` are the
two updates of an approval. `ConsentMiddleware` is the operator `Passes`. Personal data
are there or not: `name`, `email`, and `code`, which is `personalCodeEnc`. `Commit` leaves
`code` as it is, as `eraseUser` does: `accounts_erasure` shows it against the comment there.
`other` records that the status was written since a request read
it; `late` that the row was written after the erasure by a request that overlapped,
by an approval or by a review, none of which the code prevents.

## 3. Runs

| Run | Shows | Distinct states |
|---|---|---|
| `sessions_admin` | owners and losses with two users and an administrator; sessions behave as `SessionRegistry` says | 1.8 million |
| `sessions_own` | what revoke-all, revoke-others, login and overview find | 3.0 million |
| `access` | a block or demotion is effective within `VerifyInterval + Latency`; step-up freshness and the absolute lifetime | 3.1 million |
| `audit_chain` | both verifications are sound and complete; the log behaves as `AuditLog` says | 2.9 million |
| `audit_lock` | nobody waits for the advisory lock for ever; an export is final | 0.5 million |
| `gateway` | the limiters implement sliding windows; maintenance is effective and lifted | 1.1 million |
| `registration` | proved secrets, one secret, bounded counters, honest successes | 3.2 million |
| `credentials` | replay, rotation, the last method, passkey counters, reset | 3.3 million |
| `accounts` | status, erasure, consent and approval under overlapping writers | 5.6 million |
| `registration_blank` | *violated*: a second account cannot be created before the first has its TOTP | |
| `audit_erased_chain` | *violated*: an erasure breaks the verification of its rows | |
| `accounts_erasure` | *violated*: an erasure leaves the encrypted personal code | |

The violated ones state what a comment of the code says; `PROJECT.json` quotes it.

### Observations without a run

What the exceptions in the properties are for, in words. Each was met while modelling.

- Sessions. A request in flight writes a revoked or evicted session back when it
  ends (`session-lifecycle.service.ts:289`, `:234`): `ImplementsRegistry` says by whom. A
  session written back after a logout, under the migrated marker, is on no index and is
  found by no lookup. The same happens without any overlap when an administrator revokes by
  id the very session of the request (`admin.controller.ts:1089` does not rule it out): the
  response writes it back, and no index names it.
- Guards. A block is effective after the verification interval, not at once
  (`admin.controller.ts:293`). StatusGuard decides on a cached status that business
  requests never refresh (`status.guard.ts:4`), and passes a session without one (`:47`).
- Audit. The entry on an erasure holds both the id and the pseudonym that
  `gdpr.service.ts:3` says cannot be correlated; later rows can name the erased user.
- Rate limits. ioredis resolves a pipeline with one error per command: the count is then
  0 and an authentication group admits, though `rate-limit.factory.ts:75` calls it
  fail-closed.
- Registration. Two overlapping registrations leave a verification link that the next
  one does not remove; a set-up token outlives a completed set-up, and an erasure. An account
  can have two TOTP rows, `''` and its own id, after `totpSetup`; a login looks for one that
  is set up, but a later set-up by the link that finds the `''` row fails with an uncaught P2002.
- Credentials. Two overlapping TOTP requests accept the same code, two logins with a
  passkey can lower its counter, and two removals can leave no method. A code shown to
  `totpResetVerify` leaves no replay mark; its `del` can drop a newer pending secret.
  `totpSetup` replaces a stored secret without a proof, so what it stores counts as proved.
- Accounts. A review checks no status and brings a deleted account back; an
  OIDC login and `unblockUser` set VERIFIED whatever was there before. An approval of a
  rectification restores data after an erasure; for a field outside the list it
  reports APPROVED and changes nothing; a request approved once can be rejected afterwards.
  `deletedAt` is never cleared. An erasure leaves `personalCodeEnc` and `address` on the row,
  and the value a request for rectification asked for (`RectificationRequest.requestedValue`).

### Bounds, and why they are enough

- Sessions: two ids and two requests in flight. Every hazard found is between two
  requests; the proofs cover any number. `MaxSessions` is 1 instead of 5, so that the
  limit is reached by the second login. `sessions_admin` crashes but does not throw or
  expire keys, which `sessions_own` does, to keep its size down.
- Access: one user, one session id at a time, two requests with copies of it, of the Bull
  Board, the step-up and the sensitive endpoints, which between them have all the
  guards. Intervals are one to two ticks, and `MaxTime` 6 is beyond the end of the longest.
  `VIEW Distinguished` merges states that no later step and no property tells apart: BLOCKED and
  DELETED, which every guard asks for together; times that are out of every window; what is
  left of a request that was let in earlier. At the time a request is let in, when the
  properties can break, nothing of it is left out.
- Audit: two processes, two users, two pseudonyms, four rows, and a clock that runs
  long enough for a row to become older than `MaxAge` while a younger one was
  written before it. Export: periods of one and two ticks and a limit of two rows
  of three, so that a file is full, or not, and rows commit late.
- Gateway: two requests of one client through one process, on a path with one limiter
  and one with two. The authentication limit is 1, which the second request exceeds; the
  general one is 2, which a request refused before it does not use up. The windows are 2 and 3
  ticks with a latency of 1 and `MaxTime` 6, so that they pass.
- Registration: one address, two requests, tokens, secrets and rows; the limits
  are 1, one fault. `registration_blank` needs two addresses and three tokens, one request.
- Credentials: two requests, passkeys and secrets, tolerance 1 and hence marks of three
  steps, and `MaxTime` 3, after which a code of step 1 is too old.
- Accounts: two requests, two versions of the policy, every status and both kinds
  of field.
- Interchangeable constants are declared symmetric, except in `audit_lock`, which checks
  a liveness property.

`CHECK_DEADLOCK FALSE` stands in the runs of the audit modules, of `Registration` and of
`Credentials`, where rows, time, tokens or secrets run out by their bounds and a system
at rest is no error. The others check for deadlock.

Fairness is assumed in `audit_lock` only. Weak fairness of `Proceed`: a query or its
transaction ends, since Prisma's interactive transactions have a timeout. Strong
fairness of `AcquireLock`: PostgreSQL grants an advisory lock in the order of the
requests. Nothing is assumed to give up while it waits.

Each property has a mutant of the code (in `PROJECT.json`) that violates it.

## 4. Proofs

All theorems are proved from the named assumptions of the modules, which say no
more than that the constants have sensible types, that sentinels are no ids or users,
and that the sets that are counted are finite. Three relate constants: `AccessAssumption`
and `GatewayAssumption` start the clock after the first interval, so that 0 can stand for
"never", and `ReplayTtlAssumption` says that a mark outlives the steps a code is
accepted for, which the code's 90 seconds do exactly.

- `SessionLifecycleProofs`. `SessionInv` joins the type invariant with
  `OwnershipInv` and with what a handler's step says about its operation (a
  request at `save` has a session id, at `evict` holds more than `MaxSessions`
  keys...). `OwnershipInv` alone is not inductive: a request about to save must be
  known to hold an id of its own target. `SweepInv` says, for each step of a lookup,
  where the sessions in `due` are: still to be scanned or already found, on the
  index, among the keys read, among the keys found alive, deleted. The sweeping
  properties are its last cases. `SessionLosses` and `SessionRevival` are action
  properties and follow from `SessionInv` step by step.
  `SessionsAreRegistered` is the refinement: a step that deletes keys is a `Remove`, a load
  an `Open`, `regenerate` a `Regenerate`, a save a `Save`, the end of a response a `Close`, and
  every other Redis command a stutter. `RevokedForGood` follows in the abstract
  specification: a session neither stored nor held by a request is gone for good.
- *Sequential sessions.* `SequentialIsExact` says what is left of the exceptions when
  requests do not overlap, nothing fails or expires (`Faults = {}`), nobody revokes by id
  the session he works in, and no login evicts the session it has just made (`Undisturbed`):
  none. The last is what `lastActive` gives, which the model leaves out; without it `SaveAgain`
  would write the evicted session back. When the response of a revoke-all ends the
  user has no session, after revoke-others at most the own one, the overview is the exact set,
  and so on for login, logout and the administrator's revocations by id, of a user and of all
  (`Exact`; what a filter by roles or several ids should have matched is left open). The
  invariant is `SoloInv`: index and live sessions of a migrated user agree but for the one in
  hand (`Tracked`), what a request knows of the store is current (`Held`), and what it was to
  remove is removed or still on its lists (`Removed`). Each hypothesis is needed: TLC violates
  `Exact` with a second request, with a rejected await, with an expiry, with an own
  session revoked by id, and with a login that evicts its own session before `SaveAgain`.
- `AccessControlProofs`. `AccessInv` bounds, for every *copy* of a session, in Redis or
  in a request, how far its `verifiedAt` can be ahead of the beginning of a block,
  or of the loss of the role, while it still carries the older value: at most by the
  latency of one query. The properties follow because a request is only admitted
  on a verification younger than `VerifyInterval`. Copies are interchangeable with the stored
  one in this invariant, which is why writing an old copy back does no harm.
  `AccessUsesRegistry` is its refinement of `SessionRegistry`, and `EndedForGood` the finality
  that follows.
- `AuditChainProofs`. `ChainInv` says that `history` is a chain of hashes, that the lock
  is held by whoever is between the lock and its commit, that the hash it read is
  the newest one ever written, and that the table is a subsequence of `history` up
  to subjects. Because the newest row is never removed while a writer needs it, the
  next row continues the chain. `ChainSound` and `ChainComplete` compare a row's
  prefix of events with that of the row before.
  `LogIsAtomic` is the refinement of `AuditLog`. It needs one more invariant, `Covers`: the
  hash of the k-th row ever written is the sequence of the first k events. Then `Create` is the
  abstract `Write`, though it uses what `ReadLast` read earlier: the lock keeps it current.
  `CommitErasure` is a `Relabel`, which may miss rows committed after `UpdateMany`, and `DeleteOld` a
  `Retire`. `LockNotOrphaned` is the safety half of `LockGranted`: the lock is free or its holder is
  at a step that releases it.
- `AuditExportProofs`. `ExportKeepsLog` is the refinement: every step of the log with its
  exports is a step or a stutter of `AuditChain`, so that its theorems hold here
  (`ExportVerifies` and `ExportLogIsAtomic` are two). `ExportInv` adds that a writer outside `awaited` took its
  timestamp after the exported range had ended; hence `ExportIsComplete`.
- `GatewayProofs`. `LimitersImplementWindow` is the refinement of `SlidingWindow`. `Remembered`
  is its heart: a request admitted within the shortened window is in the sorted set, under a
  time at most `Latency` before its admission. A pipeline removes only what is older than
  the window, and a key expires only when all of it is.
  `NoWindowExceeded` carries the abstract promise over: no window of that length, wherever it
  begins, contains more counted requests than the limit.
  For maintenance, `CacheSound` and `FetchedSound` bound the age of a flag in the cache
  and of one on its way to it.
- `RegistrationProofs`. `RegInv` says what a request at each step of a set-up still knows
  of the rows; `OneSecretEach`, `SecretIsProven` and `SuccessIsTrue` follow. For the
  first, the invariant says that a row with a secret has its user's id for `providerId`
  and that no two rows share one. The two counters are
  read in one command and increased in another, so their bounds count the requests in
  between: `RateInv` is "counter plus requests about to count is at most the limit less one plus
  the requests"; `TriesInv` does it for the wrong codes a secret was compared with, the
  attempts counted, the requests that are about to compare or to count, and the failed ones.
  With one request at a time they are the configured limit of registrations, and one try
  more than the configured number: a counter can expire between its `INCR` and its `EXPIRE`.
- `CredentialsProofs`. A spent code is marked, or dead, or its request is about to
  mark it; what a request knows of the methods is true as long as `other` is not set.
  `SequentialIsSafe` drops the exceptions: if no two requests are in flight together (`Alone`), a
  code is accepted once, only an administrator's reset takes the last method, and no counter goes
  back. The invariant, `CurrentInv`, is that nothing a request has read is out of date.
- `AccountsProofs`. A status that was checked still stands as long as nobody has written
  it (`CheckedStill`), and what an erasure removed stays away as long as nothing is `late`
  (`ErasureTakesIdentity`: name, e-mail address and the OIDC identity).
  `StatusIsRespected` needs `DeletedErased` besides, that DELETED comes with `deletedAt`.
  `ErasureIsFinal` is the sequential case: if every step taken while a request is in flight is
  its own (`Serial`), and no review and no approval reaches the erased account (`Untouched`), it
  stays DELETED, without a name, an e-mail address and a way in by OIDC, whatever the owner, logins and administrators ask for. TLC brings the
  account back when either hypothesis is dropped.

The sequential theorems take their hypotheses as temporal formulas over the behaviour
(`[]Undisturbed`, `[]Alone`, `Serial`), not as assumptions on constants: they say that the
exceptions in the other properties are all the code's, and that each is an overlap, a
failure, or one of the handlers named.

Only model-checked: `LockGranted`, since liveness under fairness is out of the provers'
reach, and the three violations. No definition is recursive.

## 5. Not modelled

- Documents: upload, scan and objects in MinIO, and so their deletion inside the
  transaction of an erasure. Each upload is a row and an object of its own. (As it is, the
  `storageKey` that `uploadDocument` makes has no extension and the storage service refuses it.)
- Notifications: rows that are created, marked and deleted by one query each.
- PII encryption: a rewriting of queries, field by field; its hazards are in the
  shapes of queries, not in an order of steps.
- Queue, e-mail and SMS: external. A mail is a token that becomes known; the nightly
  schedule is an assumption on the clock of `AuditChain`.
- WebAuthn challenges and the state of an OIDC start: requests are taken as answered
  correctly. `renamePasskey`, which writes a label.
- Writing and signing an export, the PDF and the reports, which read.
- Single commands that fail inside a pipeline of the session service; the contents of
  responses; read-only endpoints; rows of the PostgreSQL `Session` table (the code only
  deletes them); the TTL of a session key (it may expire at any time); `SubRoleGuard`, which
  no controller uses.
- The list of blocked addresses (`ip-ban:` keys), which no request in the models asks for.
- The role that `oidcCallback` writes, and which of the claims are there: `Overwrite` writes
  what is there or leaves it, and no property of `Accounts` is about the role.
- The other columns of an account: sex, phone, date of birth (one update writes them together
  with the name), `address`, which no code under `src/` writes, and the name history, likewise.
- In an erasure, the deletion of passkeys, which is the pair of deletes of `ResetCredentials`
  in `Credentials`; of documents and notifications.
- An export whose caller gives a `to` in the future (`ExportComplete` is about ended ranges and
  the day up to now); audit events with the id of an erased user, by a session that is still
  open (`BeginEvent` writes with the users that are not erased).
- Clients, deployment, scripts and the schema as such.

## 6. Plan

1. Challenges: the state of WebAuthn and OIDC between start and callback.
2. Documents: rows against objects over rollbacks and an erasure.
3. The order of `lastActive` in `enforceSessionLimit`: which session is evicted while
   requests in flight have not written theirs.
4. Composition of `Accounts` with the session service: how long an erased or blocked
   user is let in when the revocation that follows the row's update fails.
5. Proofs: the bounds of `Registration` by how many requests overlap at a time, and how
   long a revoked session that is written back is still let in (`AccessControl`).
