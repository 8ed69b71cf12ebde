# LiteIAM in TLA+

LiteIAM (`src/app`, FastAPI, SQLAlchemy 2 async, PostgreSQL) is an identity
service: several uvicorn workers answer requests, each with memory of its own,
and share one database. This directory holds TLA+ modules for its components,
TLC configurations that check them on small instances, and proofs for TLAPS.

`PROJECT.json` lists components, runs, mutants, the lines every definition
models, findings, hazards and theorems. This file explains them.

## 1. The system

What is hard in it comes from four facts.

- **Workers do not share memory.** The set of revoked token ids, the signing
  keys, the cached claims and the registration counters are per process. PostgreSQL notifications carry some changes from one worker to the
  others, for as long as a worker listens.
- **Transactions are READ COMMITTED.** A request reads rows, awaits a password
  hash, a mail server or Google, and writes values computed from what it has
  read. An UPDATE waits for a row that another transaction has updated, then goes
  on with the values computed before; an INSERT waits for another one of the same
  unique key.
- **`get_session` (`core/database.py`) commits when the request ends and rolls
  back on any exception**, an `HTTPException` too. Several services commit
  earlier, some more than once, and some open a session of their own.
- **Tasks outlive requests**: watchers, the daily rotation and pruning, webhook
  deliveries. A crash loses them.

### Inventory

For each component: its state, its operations, and what is hard about it. "Module"
names the module that models it; `PROJECT.json` says what of it is left out.

| Component (`src/app/...`) | State | Operations | Hard behaviour | Module |
|---|---|---|---|---|
| Blacklist (`tokens/revocation.py`) | table `revoked_tokens`, set `_revoked_jtis` per worker | load, LISTEN, revoke + NOTIFY, receive, prune | load before LISTEN; early effect in the revoking worker; concurrent prunes; crashes | `TokenRevocation`, `Blacklist` |
| Signing keys (`tokens/keys.py`, `scheduler.py`, `api/v1/jwks.py`) | table `signing_keys`, current key and public keys per worker, JWKS cache | initialize, daily check, rotate, JWKS | rotation in two sessions; stale copies in other workers; crash between commit and installation | `SigningKeys` |
| OAuth2 server (`server/endpoints.py`) | `oauth_tokens`, authorization codes | refresh grant, reuse detection, family revocation, revoke, code grant | concurrent use of one refresh token; row locks | `RefreshTokens`, `SessionRevocation`, `OneTimeCredentials` |
| Sessions API (`api/v1/sessions.py`) | `oauth_tokens`, blacklist | list, revoke one, revoke all | two locks in the other order than /oauth/revoke; a logout that takes one of them | `SessionRevocation` |
| Claims cache (`tokens/strategy.py`, `admin/jwt_claims.py`) | `_CLAIMS_CACHE` per worker | lookup, load, store, invalidate; replace and clear the claims | load in flight across an invalidation; the other workers are not told; the key of an entry and the id in a path | `ClaimsCache` |
| Password login (`api/v1/auth.py`) | `failed_login_count`, `locked_until` | login | read, hash, write back | `PasswordLockout`, `AccountAccess` |
| TOTP (`mfa/totp.py`) | failure count, last code, secret, backup codes | challenge, enrol, activate, redeem, disable | the same, with a cooldown and a replay guard | `TotpChallenge`, `TotpEnrolment` |
| Password policy (`identity/password.py`) | hash and history | change, reset | check on a copy; hash and history in two commits | `PasswordHistory` |
| Magic links, email codes, email change (`api/v1/*.py`) | one row per link or code | send, verify | what is mailed must be committed; lookups that find nothing | `OneTimeCredentials` |
| Passkeys (`identity/passkey.py`) | challenges, credentials | begin and complete both ceremonies, revoke | single use of a challenge | `OneTimeCredentials` |
| Accounts (`api/v1/auth.py`, `identity/enterprise.py`, `sessions/trusted_device.py`, `api/v1/gdpr.py`) | user row, policy, provider, devices | five ways to a token, and personal access tokens beside them; second factor; devices; erasure | five pieces of code that ask for a second factor, or not | `AccountAccess` |
| Social login (`identity/social.py`) | nonce in the blacklist, user | callback: verify, consume, exchange, upsert | nonce across workers, restarts, prunes and rollbacks; whole-second age | `SocialLogin`, `AccountAccess` |
| User administration (`admin/users.py`) | `is_active`, `is_superuser` | patch, promote, impersonate | two administrators at once | `AdminRights` |
| Tenants and sign-up (`api/v1/auth.py`) | tenants, users | signup, create tenant | look, then insert two rows | `Signup` |
| Invitations (`identity/invitation.py`, `api/v1/invitations.py`) | `tenant_invitations`, user | create, resend, revoke, accept | check then insert; acceptance in two commits | `Invitations` |
| Personal access tokens (`api/v1/tokens.py`, `middleware/pat_auth.py`) | their rows | create, revoke, admit | limit by count, then insert; an owner who is erased | `RowLimits`, `AccountAccess` |
| Login history (`api/v1/login_history.py`) | its rows | record with eviction, revoke | eviction from a stale list | `RowLimits` |
| Registration limit (`middleware/reg_rate_limit.py`) | hits per address and worker | check | boundary of a sliding window | `RegistrationLimit` |
| Events and webhooks (`core/events.py`, `admin/webhooks.py`) | audit log, webhooks, deliveries, tasks | emit, dispatch, deliver with retries, create, delete | tasks begin before the commit and die with the process | `Webhooks` |
| Sessions of the database (`core/database.py`) | a transaction and copies per request | commit, rollback | copies outlive commits | `Handlers` |
| Policy (`authz/`), IP policy, outbound clients, audit queries, email, pages, configuration | | | see section 6 | not modelled |

### Correctness, in short

A revoked token is rejected wherever the revocation has been heard and stays
rejected; a token can be verified as long as it lives; a refresh token and its
successor are never both live, and a replay closes its family; what a worker
caches is old for a bounded time; limits and lockouts hold; a nonce, a code or an
invitation is used once; what was emitted is delivered or given up; and no request
waits for ever.

## 2. Modules

Every module has one action per operation or step of it, with the guards and
returns of the code; data is reduced to what the properties tell apart. Time is
counted in ticks of one clock that all workers and the database read (an
assumption). Definitions introduced by "Mutation:" are not part of any
specification: each is a plausible bug in the definition above or below it, and
the property named with it in `PROJECT.json` fails when it takes that
definition's place.

**Blacklist** is the abstract promise: tokens are revoked, workers learn of
revocations, start to reject, and forget only when they restart or when the token
has expired.

**TokenRevocation** has the workers' start (load, then LISTEN), the transactions
that revoke (INSERT, NOTIFY, the early addition to memory, COMMIT or ROLLBACK by
the caller), the notifications in order, the prune (SELECT, then DELETE) and
crashes. `Rejects` is `read_token`'s answer: the token has expired or its jti is in
the worker's memory. The module implements `Blacklist` by the refinement mapping in
`ImplementsBlacklist`, checked by TLC and proved.

**SigningKeys**: `initialize`, the daily check and `rotate` as the sequence of
its database steps, in the two sessions that the code uses, and the JWKS answer that a
worker has cached, rebuilt when it is old and dropped by a rotation.

**RefreshTokens**: rows of one table, each with family and parent (history), and
requests in flight. A rotation reads, takes the lock of its row and commits with the
successor; the revocation of a family scans it, locks row after row in any order, and
commits; the revocation of a session locks its row and commits in a later step. A
transaction keeps its locks until it ends, and of requests that wait for each other
PostgreSQL aborts one (`Deadlock`). The rows of the initial state
(`SeedFamily`) are rows the database already has: the code grant that would insert
the first of a family never finds its code (`not OAuthAuthorizationCode.used` is
the constant `False`, `server/endpoints.py:207`).

**SessionRevocation**: the requests that revoke one session or, as POST /auth/logout
does, blacklist its JWT and no more; their two locks, what each does on a duplicate,
failures of the database at any statement, rollbacks and deadlock detection.

**ClaimsCache**: lookups that miss, load and store in two steps around an await,
the replacement of the claims, and the invalidation of one worker's entry under the
string that the request had in its path.

**Handlers** is what the requests of the next modules have in common: a request
begins, goes on with a copy of what it has read, ends, or fails anywhere, and then
nothing it has not committed remains. A stretch of a handler between two awaits
that matter is one action. `overlap` records whether two requests have been in
flight at once.

On it are built, each with one user's or one tenant's rows:

- **PasswordLockout**, **TotpChallenge**: requests that decide on a copy of the
  lockout columns and write back, with the clock.
- **TotpEnrolment**: secret, activation, and backup codes.
- **PasswordHistory**: a change (a reset, or the PATCH of fastapi-users) with its
  check on a copy, the commit of the hash and the commit of the history.
  Registration pushes nothing.
- **OneTimeCredentials**: rows that are stored, committed and mailed; passkey
  challenges, which get_session commits after the response has gone; their use.
  Which lookups find anything is part of the model (section 4).
- **AccountAccess**: the ways to a full token and all they look at, and the admission
  of personal access tokens. Each request
  keeps what it has read and, as history, the facts at its beginning.
- **AdminRights**: `patch_user` with the administrator's and the target's copy;
  erasure and the PATCH of fastapi-users as ways around it.
- **Signup**: signup and create_tenant, against the unique indexes of slug and
  address.
- **Invitations**: endpoints of two steps, and an acceptance of two commits. Its
  account is created only if the password history is off (section 4).
- **RowLimits**: the two limits that are kept by counting.
- **RegistrationLimit**: one worker's sliding window for one address. The list of times
  is a set of entries, since the code only filters and counts it.

The modules named `...Proofs` hold the theorems (section 5); OutsideProofs is about
SocialLogin and Webhooks, CredentialsProofs and AccountsProofs about what MCCredentials
and MCAccounts compose.

**MCCredentials** and **MCAccounts** compose them for TLC. The components of each
write rows of their own, so a product of their states would say nothing more than
their sum: `part` is chosen at the start and only that component runs. Where a
component depends on another's writes it has actions for them: AccountAccess for the
rights of AdminRights, PasswordHistory for the resets and PATCHes, AdminRights for
erasure.

**SocialLogin**: the callbacks that carry one state. A callback checks its
worker's memory and the age in whole seconds, dates the nonce's row, inserts it when it
can (waiting for a connection or for another callback that holds the nonce), talks to
Google, upserts and commits; workers restart, miss notifications, and prune. No step
has a bound on the time it takes.

**Webhooks**: the request that emits, the dispatch, and one task per event and
hook: wait, attempt, row.

Where one component uses another, the user's module has the part it needs:
`SocialLogin` and `SessionRevocation` the insert of `revoke_token` with its lock and
its rollback, `SocialLogin` also load and prune.

## 3. Runs

`keys_reload`, `password_reuse` and `mfa_policy` refute what a text of the
repository says (section 4). The others pass.

| Run | Instance | What it shows |
|---|---|---|
| `revocation` | 2 workers, 2 tokens that expire one after the other; crashes, failing loads, lost listeners | A worker misses only what committed while it did not listen (`NoRevocationLost`); prunes that race never drop a live row (`RevokedIsDurable`) or make a process accept again what it rejects (`RejectionStable`); what a listening worker hears it comes to reject (`HeardRevocationRejected`); every step refines `Blacklist` (`ImplementsBlacklist`). |
| `keys` | 2 workers, 4 keys, 5 days; crashes and database errors | A worker keeps every live key it ever had (`OldKeysVerify`); what a worker signs with it verifies and publishes, whatever it read at its start and whatever broke off a rotation (`SignerIsPublished`); a process that has been alone rotates in time (`RotatedInTime`). |
| `keys_reload` | 2 workers, 3 keys, no faults, fair | Refuted: `AllWorkersReload`, that the other workers come to know the new key. |
| `refresh` | 2 requests, a row with a family and one without, 2 more rows | No token is live beside its successor (`NeverLiveWithSuccessor`); requests that wait for each other's rows end (`RequestsEnd`); until two requests overlap a closed family stays closed (`FamilyClosed`) and a revoked session is not continued (`EndedHasNoSuccessor`). |
| `session` | 3 revocations of one session, of any kind, "all" and logouts among them; database errors | A JWT that anything but a logout has blacklisted has its row revoked (`OnlyLogoutLeavesRow`), success means revoked (`OkMeansRevoked`), without errors of the database a failure means that another request has blacklisted the JWT (`FailureIsCovered`), and nobody waits for ever (`EveryRequestAnswered`). |
| `claims` | 2 workers, 2 loads, 3 versions, 2 spellings of the tenant's id | Claims are old for a lifetime and a load at most, whether they are invalidated or not (`BoundedStaleness`); with no load in flight and the id spelt as the entry's key an invalidation holds (`InvalidatedStaysGone`). |
| `social` | 3 callbacks with one state, 2 workers, restarts, prunes, half seconds | Two of them log in only if one INSERT has waited, after a check in the state's last moments, nearly as long as the state was old (`OneLoginPerState`). |
| `webhooks` | 1 event, 2 hooks; crashes, database errors, failing receivers | Every finished attempt has its row unless the database refused it (`LogIsComplete`); every dispatched event is delivered or given up (`EmittedIsHandled`). |
| `credentials` | see below | The lock agrees with the count in every committed row (`LockMatchesCount`), and no lock is taken away (`LockHolds`); the limit of TOTP is exceeded by less than the requests in flight (`BoundedOvershoot`), and a cooldown lasts (`CooldownHolds`); the secret in force has been verified (`ActiveSecretVerified`), backup codes work once (`BackupSingleUse`); the history keeps recent passwords out (`RecentRefused`); what is mailed is stored (`HandedOutIsStored`); a challenge makes one credential (`OneCredentialPerChallenge`). |
| `password_reuse` | the passwords of `credentials` alone | Refuted: `ReuseRefused`, that none of the last `Depth` passwords can be used again. |
| `accounts` | see below | An enrolled user's token takes a second factor (`SecondFactorHad`); the password does not get round the policy (`PolicyHoldsForPasswords`); what an erased account had handed out opens nothing (`ErasedIsGone`); patches leave an administrator (`AdminRemains`); an organisation has its owner (`OrganisationsOwned`); an invitation is used up only by an account (`AcceptedHasAccount`), and a revoked one makes none (`RevokedStaysOut`); limits by count are exceeded by less than the requests in flight (`BoundedExcess`), and a quiet login brings the history back (`ExcessHeals`); a registration is refused exactly when the window before it is full (`WindowIsExact`). |
| `mfa_policy` | the accesses of `accounts` alone | Refuted: `PolicyEnforced`, that the policy blocks everybody who has not enrolled. |

Two or three requests are in flight at once: three in the components listed in
`Wide`, where a third one matters to the property (it exceeds a limit further, or
takes what two fight for) and the states allow it, two in the others.

### Properties with a condition

A part of what the documentation promises holds for requests that run one after
the other and not for all that overlap, because they decide on copies. The
modules state the promise with the condition under which the code keeps it, and a
history variable that says whether the condition has been met so far:

| Variable | It is | Properties |
|---|---|---|
| `overlap` (`Handlers`, `RefreshTokens`) | two requests have been in flight at the same time | `FamilyClosed`, `EndedHasNoSuccessor`, `LockHolds`, `CooldownHolds`, `ActiveSecretVerified`, `BackupSingleUse`, `RecentRefused`, `OneCredentialPerChallenge`, `AdminRemains`, `RevokedStaysOut`, one half of `ErasedIsGone` |
| `cut` (`PasswordHistory`) | a change has ended between its two commits | `RecentRefused`, `ReuseRefused` |
| `bypassed` (`AdminRights`) | rights were changed by an erasure or by the PATCH of fastapi-users | `AdminRemains` |
| `alone` (`SigningKeys`) | one process has been started and no rotation has failed | `RotatedInTime` |
| `clean`, `floor` (`ClaimsCache`) | no load was in flight when the claims were replaced, by a path that spells the key; the version an invalidation then guarantees | `InvalidatedStaysGone` |
| `faulted` (`SessionRevocation`) | requests that the database has failed | `FailureIsCovered`, the logout's part of `OkMeansRevoked` |
| `since`, `inserted` (`SocialLogin`) | when a callback was checked, and when its INSERT got through | `OneLoginPerState` |
| `recorded` (`RowLimits`) | entries committed so far: none came between a login's SELECT and its commit | `ExcessHeals` |
| `unlogged`, `dropped` (`Webhooks`) | attempts whose row the database refused; events whose dispatch failed or died with the process | `LogIsComplete`, `EmittedIsHandled` |

The condition is no bound of the model: with it taken out of the property the
same run refutes it, and its counterexample is the race. Section 4 lists what
these races do. The other properties hold for all interleavings and failures.

### Bounds

Two workers and two or three requests: the races need two actors, and the
third is there to interfere with both. Every counter that the code does not bound
is bounded by a constant named in its module: clocks (`MaxNow`, `MaxTime`), rows
and values ever created (`Tokens`, `Kids`, `Ids`, `Secrets`, `Batches`, `Invites`,
`Devices`, `MaxOrgs`), counts (`MaxCount`, `MaxTotpCount`, `MaxAccepted`, `MaxPast`,
`MaxLogins`, `MaxAttempts`, `MaxVersion`). Limits and time scales are small numbers
in the code's order, so that every threshold is crossed inside the bound: two
failures for five, a lock of one tick for fifteen minutes, a history of three
passwords for five with five changes, two tokens for twenty-five, a window of two
ticks for an hour.

One device is enough in `accounts`: a decision is about one device, and a device
that was revoked is never used again; the other browsers have none. Two users are
enough for `AdminRemains`, since each patch has one administrator and one target.
Two addresses and two slugs let sign-ups collide on either, and three organisations
let one of them be made after that.

Some bounds say something about the environment. `MaxLoad` (ClaimsCache) is the
longest time between a load's SELECT and its store; a worker makes one replacement of
the claims at a time there. SessionRevocation is about one session that has a row, and
each request is made once. SocialLogin bounds no duration: with a lifetime of three half
seconds for five minutes, and time for two lifetimes, callbacks reach the case in which a
row expires under a callback that was checked in time. In `revocation` no row expires
between a prune's SELECT and its DELETE, as its clock has two instants; the theorem
`Durable` covers that case. `HistoryDepth` is 0 in `accounts`: with any other value no
acceptance makes an account (section 4).

Symmetry is declared in `keys`, `claims`, `credentials`, `accounts` and the two
runs cut out of these, of which none checks liveness. The symmetric sets of values
(`v1`, `v2`, ...) are shared by the components of a run: each component takes its
own from them and no other component runs beside it. Deadlock is not checked where
clocks, requests or rows run out, and checking it shows nothing in `webhooks`, where the
clock never stops: that requests do not block each other is `RequestsEnd` and
`EveryRequestAnswered`.

### Fairness

- TokenRevocation: weak fairness of `OnRevoke` alone: the event loop runs the
  callback of a notification that has arrived.
- SigningKeys: weak fairness of a start, of the daily check of each worker and of
  the clock. It is assumed by `keys_reload` only, so that the refutation is not a
  worker that stops.
- RefreshTokens: strong fairness of each request's next step, because PostgreSQL
  queues those that wait for a row and looks for deadlocks.
- SessionRevocation: strong fairness of each request's steps, for the same reason.
- Webhooks: scheduled tasks run, and the sleep between two attempts ends.

The other modules state no liveness: a request that does not come back is rolled
back, which is a step of theirs. Nothing is assumed of users, administrators or
faults.

## 4. Where the code and its texts differ

Three differences have a run that refutes what the text says:

- `keys_reload`: `rotate` tells nobody, and no other worker reads `signing_keys`
  before its next start, so tokens signed with the new key are not verified there,
  against the comment of `tokens/scheduler.py:13`.
- `password_reuse`: the check appends the current hash, which the history already
  ends with, and then takes the last `PASSWORD_HISTORY_DEPTH`, so a password can be
  used again one change earlier than the message says; the one of the registration
  was never pushed and can be after a single change. `RecentRefused` is what holds.
- `mfa_policy`: the callbacks of Google and of a tenant's provider never look at
  `require_mfa`; the policy binds the password login only.

The models show the following too; each of them is either the reason of a condition
in a property (take it out to see the trace) or a behaviour that a module has and no
property denies.

| Where | What the code does | In the model |
|---|---|---|
| `tokens/revocation.py:126` | A revocation that commits between a worker's load and its LISTEN is not heard. | `unheard` in `NoRevocationLost` |
| `tokens/revocation.py:60` | A revocation that is rolled back stays in the memory of the worker that asked for it. | `tried` in `OnlyOriginActsEarly` |
| `tokens/revocation.py:119` | The first worker to prune deletes the rows that tell the others what to forget; their memory grows. | `PruneSelect`, `PruneDelete` |
| `tokens/keys.py:137` | The UPDATE that deactivates the old key is in a session nobody commits. | `RotateUpdate`, `RotateInstall` |
| `tokens/keys.py:86` | Two processes that start on an empty table both generate a key, and neither knows the other's. | `InitSelect`, `InitCreate` |
| `tokens/keys.py:90` | A start may read a current row that has expired, as old rows stay current: the worker then signs with a key that it neither verifies nor publishes. | `Live(signer[w])` in `SignerIsPublished` |
| `tokens/scheduler.py:49` | The check reads any current row, not the key the worker signs with. | `alone` in `RotatedInTime` |
| `server/endpoints.py:369` | Two refreshes of one token that overlap both succeed, and it has two successors; a refresh that overlaps the token's revocation goes on. | `overlap` in `EndedHasNoSuccessor` |
| `server/endpoints.py:337` | The UPDATE of a family does not see a successor that is being inserted. | `overlap` in `FamilyClosed` |
| `server/endpoints.py:337` | Two replays of one family, or a replay and another transaction on two of its rows, may wait for each other; the one aborted is answered 500, and may be the one that was to close the family. | `Deadlock`, `WaitInCircle` |
| `server/endpoints.py:512` | A second revocation of the same token is answered 500, not 200. | "failed" in `FailureIsCovered` |
| `tokens/strategy.py:230` | After a logout /oauth/revoke with the access token and DELETE /sessions/{id} fail on the duplicate jti, and the row stays live with its refresh token. | `kind[jti] = "logout"` in `FailureIsCovered`, `OnlyLogoutLeavesRow` |
| `tokens/strategy.py:211` | A logout is answered 204 when the database has failed too. | `faulted` in `OkMeansRevoked` |
| `api/v1/sessions.py:140` | The global sign-out answers 204 and revokes nothing: `not OAuthToken.revoked` is the constant `False`. | `RevokeAllSessions`; excluded in `OkMeansRevoked` |
| `tokens/strategy.py:63` | A load in flight stores claims that have been invalidated in the meantime. | `clean` in `InvalidatedStaysGone` |
| `admin/jwt_claims.py:123` | The id of the path goes to the cache as it was spelt: in upper case or without dashes it finds the tenant and invalidates nothing. | `Canonical` in `Replace`, `Invalidate` |
| `api/v1/auth.py:250` | Failed logins that overlap are counted once. | `WrongPassword` writes the copy's count |
| `api/v1/auth.py:257` | A failed login decided on an older copy writes a lock away. | `overlap` in `LockHolds` |
| `mfa/totp.py:139` | A reset decided on an older copy ends a cooldown. | `overlap` in `CooldownHolds` |
| `mfa/totp.py:160` | Only the last code is remembered: with another one in between a code is accepted again in its window. | `AcceptCode` |
| `mfa/totp.py:97` | An activation takes effect for a secret that an enrolment has put in since. | `overlap` in `ActiveSecretVerified` |
| `mfa/totp.py:195` | Two redemptions that overlap write back their own copies of the list. | `overlap` in `BackupSingleUse` |
| `api/v1/auth.py:393` | Disabling TOTP names a column that does not exist and raises. | `DisableRaises` |
| `identity/password.py:194` | Two changes at once keep one of them in the history, and a failure after the first commit none. | `overlap`, `cut` in `RecentRefused` |
| `server/endpoints.py:207`, `api/v1/magic_link.py`, `api/v1/email_otp.py`, `api/v1/email_change.py`, `identity/passkey.py` | The lookups of authorization codes, magic links, email codes, email changes and asserted passkeys compare a column with `not` or `is None`, which Python evaluates to `False`: they find nothing and the requests end in an error. The invalidation of older email changes finds none either. | `OneTimeCredentials` |
| `identity/passkey.py:286` | Two completions may read one challenge. | `overlap` in `OneCredentialPerChallenge` |
| `core/database.py:44` | A challenge is committed after the response that carries it. | challenges are not in `HandedOutIsStored` |
| `identity/social.py:168` | The upsert of a social login or of a tenant's provider sets `is_active` again. | `Upsert`, `Commit` |
| `api/v1/enterprise.py:66` | The callback of a tenant's provider issues a full token to enrolled users without a second step; `jit_enabled` is stored and never read. | `StepUp`, `EnterpriseCallback` |
| `api/v1/auth.py:520` | The nonce is given back when the exchange after it fails. | `Fail` |
| `identity/social.py:78` | The nonce's row lives for the state's greatest age, counted from the check; ages are whole seconds. A callback checked in the last moments whose INSERT waits (a pool that is used up waits up to 30 s) can insert a nonce whose row has been pruned, and the state logs in twice. | `Wait` in `OneLoginPerState` |
| `middleware/pat_auth.py:83` | `expires_at is None` is the constant `False`: a token without an expiry is never accepted. | `PatDispatch` |
| `api/v1/gdpr.py:123` | A device remembered during an erasure survives it (for an account that is inactive). | `overlap` in `ErasedIsGone` |
| `api/v1/gdpr.py:125` | An erasure deactivates the only administrator as well. | `bypassed` in `AdminRemains` |
| `admin/users.py:105` | Two administrators can take each other's rights away. | `overlap` in `AdminRemains` |
| `api/v1/auth.py` (signup) | A collision of slugs is answered with the message about the address. | `Signup` |
| `identity/invitation.py:66` | Two creations that overlap leave two pending invitations; one revoked during its acceptance still makes an account. | `overlap` in `RevokedStaysOut` |
| `identity/password.py:101` | Accepting an invitation hands the schema of the request to `validate_password`, which reads the history of a user and raises with any `PASSWORD_HISTORY_DEPTH` but 0 (it is 5 by default; the tests run with an object that has the field): no account is made. | `HistoryDepth` in `AcceptCreate` |
| `api/v1/invitations.py:218` | An account is created and its invitation stays pending if the process ends between the two commits; the role of the invitation is stored and not given. | `Fail` after `AcceptCreate` |
| `api/v1/tokens.py:95`, `api/v1/login_history.py:78` | The limits are kept by counting and exceeded by concurrent requests. | `BoundedExcess` |
| `core/events.py:108` | Deliveries begin before the request commits, and are made for one that is rolled back. | `Emit`, `EndRequest` |
| `core/events.py:151` | An attempt is made before its row is written, and a crash in between leaves no row. | `Crash`, `LogIsComplete` |

## 5. Proofs

Every safety property that a passing run checks, invariant or action property, is
also a theorem, proved for all values of the constants: any number of workers,
requests, tokens, keys, users and rows, any limits, lifetimes and clock bounds.
Each of the eight proof modules EXTENDS the components it is about; the
theorems are about the specifications of the components (`LockSpec`, `AccessSpec`,
...), of which a run takes one `part` at a time.

All proofs have the same shape: an inductive invariant, a lemma that the initial
states satisfy it, a lemma that every action preserves it (one step for each action),
and the property from it. Each of these invariants was checked with TLC on the
instance of its run before it was proved.

### Hypotheses

- The assumptions of the modules (`ConstantsAssumption` and its like): types of the
  constants. `MaxNow`, `MaxTime` and other bounds are any natural numbers.
- `RequestsAssumption` (`Handlers`): finitely many requests are in flight. The bounds
  on excess count them.
- `SignerRotatedInTime` assumes `Threshold < Lifetime`: the settings are 7 and 90 days;
  nothing in the code enforces the order, and with a threshold as long as a key's life
  every check rotates to a key that is due at once.

### Theorems and their inductive invariants

| Component | Theorems | Inductive invariant, and why it is needed |
|---|---|---|
| `TokenRevocationProofs` | `Durable`, `NothingLost`, `OnlyOriginEarly`, `Stable`, `Refinement` | A row is a committed revocation, only a process that is up has memory and transactions, only one that listens has notifications, and a transaction about to commit is remembered as asked for (`Bookkeeping`). Without these a load could bring, or a commit announce, what nobody had revoked. |
| `SigningKeysProofs` | `OldKeysKept`, `SignerPublished` | `RowsSound`: what workers hold are rows, and no row outlives the configured life of a key. `AnswersSound`: the key of a worker about to serve is a row, and an answer that it has cached is all the public keys it has. |
| | `SignerRotatedInTime` | `SignsWithLast`: of all rows still current, and any of them is what the daily check may read, the one the lone process signs with expires last. |
| `RefreshTokensProofs` | `NoLiveParent`, `OneFamily`, `WritesAreLocked` | What a request past its SELECT knows of the row it will rotate, and that whoever is about to commit has locked every row it marks, a family's too: two writers never mark the same row. |
| | `FamilyStaysClosed`, `EndedStaysEnded` | `AloneReads`: a request that has not been overlapped finds its row as it has read it, and the rows its family UPDATE has scanned are all there are; `EndedRevoked`. |
| `SessionRevocationProofs` | `LogoutAloneLeavesRow`, `SuccessMeansRevoked` | `Covered`: a request about to commit holds the row or has found it revoked, and one that presented an access token holds the jti or could not read it. |
| | `FailuresCovered` | `SomebodyGoesOn`: once a request has failed, the jti is blacklisted, locked, or somebody is about to insert it. |
| `ClaimsCacheProofs` | `ClaimsAreBounded` | A load has read claims not replaced before its SELECT, which is at most `MaxLoad` ago; so an entry expires within a lifetime and a load of their replacement. |
| | `InvalidationHolds` | `LoadsAbove`, `EntriesAbove`: no load of a worker and no entry brings claims older than those it has invalidated for, nor, when none was in flight at the replacement, than those it is about to. |
| `CredentialsProofs` | `LockConsistent`, `LockKept` | Each row that a failed login writes is consistent in itself, whichever copy it is made from; `LockSeen`: an unoverlapped request's copy is the row. |
| | `TotpBounded`, `TotpCooldownKept` | `Overshoot`: the count and the requests that may still add to it stay together under the bound. This and not the bound is inductive: a request passes the check on an old copy. `CooldownSeen`. |
| | `EnrolmentVerified`, `BackupCodesSingleUse` | `MfaSeen`, `CodesUnused`: a code in the row has not been redeemed, and a batch not shown yet has no redeemed code, so that one batch may replace another. |
| | `HandedOutStored`, `ChallengeSingleUse` | `DeliveryStored`: what is about to be sent is stored; `ChallengesUnused`: a challenge stored, about to be stored or being answered has no credential, and one that has is never drawn again. |
| | `HistoryRefuses` | `HistoryFollows`: the history, or between the two commits the copy to be pushed on, is the last `Depth` of what was set, without the password of the registration. |
| `AccountsProofs` | `SecondFactorTaken`, `PasswordsBarred`, `ErasedStaysGone` | `WaySound`: what a request on its way to a token knows of its user although it goes by copies, because enrolments and revocations of devices are not undone (`Forward`); `AccountSound`; `ErasureSeen` for the devices. |
| | `AdminStays` | `MakerStays`: an unoverlapped patch has a maker who is an administrator and not its target. |
| | `SignupOwned` | `IdsApart`: an id still to be committed is in no row and in no other request; `OwnersSound`. |
| | `AcceptanceHasAccount`, `RevocationHolds` | `MarkedOnly`: whoever marks an invitation has committed an account; `RevokedOut`. |
| | `ExcessBounded`, `ExcessIsHealed` | `TokenRoom`: tokens and insertions to come. `LoginRoom`: *whichever* set of requests records next, what they leave of the history and what they add stay under the bound. A bound on all of them together is not inductive, because each evicts from a list of its own. `RoomMade`. |
| | `WindowStaysExact` | `HitsKept`: the entries are registrations let through, and all of those that lie in the window are there. What a check prunes is outside every later window, as the clock does not go back. |
| `OutsideProofs` | `StateLogsInOnce` | `Checked`: a callback past its check was young enough then; `KeepsOut`: the row of a login is in the table until it expires; `Apart`: so whoever inserts after it does so after its expiry, long after having been checked. |
| | `LogKept` | `EmittedFirst`: nothing of an event runs before its emission, so its dispatch finds no delivery begun; each log holds the attempts that are over. |

The type invariant of every component is proved with them (`TypeCorrect`,
`LockTypeCorrect`, `AccessTypeCorrect`, ...); for the modules on `Handlers` it says what
a request in flight has in `local` at each of its steps, and `HandlersOK` that
requests not overlapped are alone. `OnlyOriginActsEarly`, `ChainInOneFamily`,
`WritersHoldTheirRows` and the type invariants have no run of their own.

`Refinement` is the proof that TokenRevocation implements Blacklist: initial states
map to initial states, and every step to a step or a stutter.

The action properties `LockHolds`, `CooldownHolds`, `ExcessHeals` and
`RejectionStable` follow from the invariants of their module, action by action.
Where a proof counts, it uses the cardinality theorems of the library; the existence
of the oldest entries of the login history (`LeastElement`) comes from the
well-foundedness of the natural numbers. Lists that the code only filters and
counts are sets in the models (`hits`, and `logins`, whose numbers keep the order of
`created_at`), so no module has a recursive definition.

### Only model-checked

- Liveness under fairness: `HeardRevocationRejected`, `RequestsEnd`,
  `EveryRequestAnswered`, `EmittedIsHandled`. It needs ENABLED, which is out of the
  prover's reach.
- The three refuted properties, which are false.

## 6. Not modelled

- **Formatting, templates, pages, logging, metrics, SMTP** and the settings; **cryptography** (a
  token verifies when its key is known, a code is right or wrong, and the WebAuthn
  library accepts a response or raises); request parsing, and HTTP statuses beyond
  success and failure; slowapi; migrations.
- **Reads**: lists, exports, introspection, userinfo, discovery.
- **The Casbin policy** (`authz/enforcer.py`, `watcher.py`) never runs: the adapter is
  given an address whose `+asyncpg` is stripped and has no driver for it,
  `initialize` takes its ImportError branch, and the enforcer stays `None`; with
  another address the watcher could not connect; `enforce` has no caller, and the
  role mapping of a provider therefore changes nothing.
- **IP policy** (`authz/ip_policy.py`): a function of an address and two lists, and
  endpoints that replace the lists.
- **Outbound clients** (`shared/http_clients.py`): only `get` is called. Closing and
  replacing a client have no caller, so no client is in use when it is closed.
- **Retention of the audit log** (`core/events.py`): a DELETE of old rows each day,
  which depends on nothing that another step changes.
- **The last use of a personal access token** (`middleware/pat_auth.py`): a task of its
  own writes it, and nothing reads it.
- **Tenant sessions** (`get_tenant_session`): no caller.
- **`last_login_ip`** and its alerts; the registration route of fastapi-users. Their
  `create` hands a schema to `validate_password`, as the acceptance of an invitation
  does (section 4).

## 7. Plan

The system's parts that keep state are modelled, and the safety properties of the
runs are proved. What could be added:

1. Abstract specifications of the other components, with refinement proofs like the
   one of the blacklist: a lock that is on or off for PasswordLockout and
   TotpChallenge while no two requests overlap, and a session that is live or ended for
   RefreshTokens and SessionRevocation together.
2. The races of section 4 as theorems on what they can do at most, in place of the
   condition `~ overlap`: how many successors a token can get and how many entries the
   history can lose, in terms of the requests in flight.
