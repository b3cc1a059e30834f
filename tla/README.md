# WebbPulse Python library: verification project

`webbpulse` is the Python library the WebbPulse products run on: an identity service (sign-in, sessions,
second factors, OAuth server and client, SSO, SCIM), a DynamoDB repository, rate limits, webhooks and
events, a Stripe and a GitHub integration, telemetry, an audit log, a Terraform front end and an
end-to-end test driver. Its services run in AWS Lambda: any number of processes serve requests at once,
each may die between two calls, and what they share is what DynamoDB holds.

This directory holds TLA+ modules for that code, TLC configurations that check them on small instances,
and TLAPS proofs. All paths below are relative to `src/webbpulse/` unless they name `tla/`.

## Inventory

The state of almost every component is a DynamoDB table, written by conditional updates and read either
consistently (by key) or with delay (by index). The hazards are therefore the same everywhere: two
requests interleaving between their store calls, a request that dies half way, an index that has not
caught up, and a TTL that reclaims a row late.

### Identity

| Component | Files | State | Operations | What makes it correct | Module |
|---|---|---|---|---|---|
| Refresh-token families | `identity/sessions.py`, `storage.py`, `flows.py` refresh / logout / step-up | `refresh-tokens` rows, one per generation | start, rotate (read, put successor, consume), replay in the grace, revoke one / others / device / all, stamp `auth_time`, list, purge | one rotation per token, no token outlives its login's cap, dead families stay dead, sign-outs neither miss nor overreach, `auth_time` is never invented | `RefreshFamilies` |
| Login throttle | `identity/lockout.py`, `flows._record`, `_refuse_when_locked` | `login-attempts` rows | record, assess | the delay a run of failures earned is neither skipped nor ended early | `LoginThrottle` |
| Accounts, passwords, mailed links | `identity/flows.py`, `passwords.py`, `verification.py` | `users`, `credentials`, `identity-tokens` rows | register, log in with rehash, change, reset, verify, change e-mail | an old password's sessions end when it is replaced; a link works once | `Accounts` |
| Second factors | `identity/mfa.py`, `totp.py` | factor row, recovery codes, tickets | enrol, confirm, challenge, complete, step up, disable, regenerate | a code, a ticket and a recovery code each prove one thing once | `SecondFactors` |
| Passkeys | `identity/passkeys.py`, `passkey_routes.py` | `passkeys`, its index, `webauthn-challenges` | register, log in, step up, delete | a challenge answers once; a deleted key stays dead; the last way in stays | `Passkeys` |
| Access tokens | `identity/service.py`, `tokens.py`, `verifier.py`, `claims.py`, `local_authorizer.py`, `settings.py` | keys, key-set caches, cached verifiers | mint, serve keys, verify, read claims | a token verifies until it expires and only for what it is for | `SigningKeys` |
| Device authorization | `identity/device_grant.py`, `device_grant_storage.py`, `device_login.py` | `device-codes`, `device-grants`, keyring, lock file | request, look up, decide, poll, refresh, revoke, log in, log out | a code is redeemed once and as approved; polls are paced; reuse kills the grant and a lost race does not | `DeviceCodes`, `DeviceSessions`, `DeviceLogin` |
| OAuth server | `identity/oauth_server.py`, `oauth_server_storage.py` | clients, codes, consents, families | register, consent, exchange, refresh, revoke | a code is redeemed once; no token survives or exceeds the consent behind it | `OAuthGrants` |
| OAuth client | `identity/oauth.py`, `oauth_routes.py`, `oauth_notifications.py` | states, links | start, callback, form post, link, unlink, notifications | a state works once and for its browser; nobody enters another's account; the last way in stays | `OAuthSignIn` |
| SSO | `identity/sso.py`, `sso_oidc.py`, `sso_saml.py`, `sso_routes.py`, `domain_verification.py` | connections, states, claimed assertions, links | start, callback, resolve, provision | a tenant's provider enters only its own domain's accounts, once per state | `SingleSignOn` |
| SCIM | `identity/scim/` | users and groups of a tenant | create, replace, patch, delete | the product is left with what the directory was told | `ScimDirectory` |
| API keys, share tokens | `identity/api_keys.py`, `share_tokens.py`, `scopes.py` | key and link rows, indexes | mint, verify, stamp, revoke, sweep | a dead key authenticates nothing; a key gives no more than its owner has | `BearerKeys` |
| Desktop hand-off | `identity/desktop_handoff.py` | `identity-tokens` rows | mint, redeem, exchange | one exchange, bound to its verifier, no stronger than the browser | `DesktopHandoff` |
| Ephemeral users, purge | `identity/ephemeral_sweep.py`, `ephemeral_routes.py`, `events.py`, `users.py`, `dynamo_hooks.py` | user rows and every table of a user | create, sweep, delete, purge | only e2e users are swept; a purge that ends left nothing it could see | `AccountRemoval` |
| Supporting | settings, `glue.py`, `crypto.py`, `email.py` | none of their own | configure, wire, encrypt, format | | |

### Platform

| Component | Files | State | Operations | What makes it correct | Module |
|---|---|---|---|---|---|
| DynamoDB repository | `dynamodb.py` | the tables | query and scan pages, batched reads, idempotency claims | walks and batches are complete; a claim has one holder | `TableReads`, `WebhookReceiver` |
| Audit | `audit.py` | audit rows, target index | record, list, purge a tenant | a listing misses nothing; a purge leaves nothing; no secret is stored | `AuditTrail` |
| Rate limits | `ratelimit.py`, `email_cap.py` | counters, leases in containers | check, lease, cap | no more than the limit, whatever is cached | `RateLimits` |
| Stream consumers | `events/__init__.py` | shard position, the consumer's copy | consume, skip, report failures | at-least-once input ends applied | `StreamConsumer` |
| Outgoing webhooks | `events/webhooks.py` | one delivery | sign, attempt, pause, dead-letter | what is reported is what happened; retries stay fresh | `WebhookDispatch` |
| Stripe | `integrations/stripe.py` | claims, customers, subscriptions | verify, claim, release; ensure customer, check out, cascade | an event is acted on once; an owner has one customer, and a deletion that search has caught up with leaves nothing live | `WebhookReceiver`, `BillingCustomers` |
| GitHub | `integrations/github.py` | installation and token caches of one client | look up, exchange, call, retry, drop | one exchange per need; no write twice; a refused token is not resent | `InstallationTokens` |
| Telemetry | `otel.py`, `composition.py` lifespan | span buffers, process hooks | start and end spans, flush, evict, shut down, SIGTERM | a trace is judged once and whole, in bounded memory; a SIGTERM still stops the process | `SpanSampling` |
| HTTP | `http.py`, `composition.py` | the middleware stack, cursors, validators | assemble, answer, catch, poll, page | one answer per request, in order, readable by the browser; a fault does not take the worker | `RequestPath` |
| Operator tools | `ops/admin.py`, `ops/config.py` | one secret, one parameter, the admin flag | set, unset, grant, revoke | no operator's change is lost unnoticed | `OperatorTools` |
| Terraform client | `tf/client.py`, `tf/cli.py` | one run, its logs, a variable | plan, apply, confirm, discard, cancel, var | nothing is applied unasked; what is said is so; logs are whole | `TerraformRuns` |
| End-to-end suite | `e2e/` | workers, records, users, a shared session | sweep, create, send, record, judge, refresh | a verdict is of its own run; one refresh per expired token | `SuiteRun` |
| Without state | `config.py`, `logging.py`, `log_context.py`, `security.py`, `storage.py`, `messages.py`, `email_layout.py`, `metrics.py`, `testing.py` | | | | |

## How the models are cut

* **A step is a store call.** A request handler becomes a process whose program counter is named for the
  call it makes next (`"read"`, `"mint"`, `"consume"`, ...). What the handler computes between two calls
  belongs to the step of the call before or after it, so every interleaving of store calls, and nothing
  finer, is a behaviour. Handlers run in separate Lambda processes that share nothing else.
* **A row is a record.** Reads by key and conditional updates are atomic and consistent (DynamoDB's
  promise, and the reason the code uses condition expressions). Queries over an index are neither: a
  module keeps the set `settled` of keys on which index and table agree, and a query may or may not show
  any other row.
* **A request may die** between any two steps where the instance enables `"abort"`, and DynamoDB's time to
  live may remove an expired row at any later moment where it enables `"reclaim"`.
* **A moment is read once.** The code takes `time.time()` at the start of a handler and compares it with
  rows read later. The requests keep that `moment`; the clock moves on under them.
* **Secrets are names.** A token, code or link stands for its hash; hashing is a bijection here. The
  successor of a device token is computed from it in the code, so there a token is its number of rotations.
* **`Ops`** names what an instance exercises: operations and faults are switched on by membership, so that
  one module serves instances that differ in what happens, and never in what the code does.
* **A stretch under a lock is a step** where threads do share memory: leases of a container, the GitHub
  client's caches, the sampler's buffers, the suite's session.
* **Variants**, so called in their comments, are the code with one plausible bug. They are never part of
  `Next`; each stands before the definition it varies, for checking that a property notices.
* **Other parties** (DynamoDB's propagation and time to live, Stripe, GitHub, KMS, API Gateway, Starlette,
  uvicorn, browsers, providers, directories, operators) are actions marked external in `PROJECT.json`. They
  do what the code under `webbpulse/` provides for, no more: a call may be lost, late or refused where the
  code has a branch for it.
* **Histories** are variables, or fields, that no decision of the code depends on: what was handed out, accepted, spent, or met
  another request. They are what the properties speak of.

## Modules

A component's module has its state, one initial predicate and one next-state action; the `MC` modules put
several components that share no state into one specification, so that one run covers them. A behaviour
picks its `part` in the initial state and the others stay where they start: the state space is the sum of
the parts', and a property says nothing about a part that does not move beyond its initial state.

| Module | Models |
|---|---|
| `RefreshFamilies` | `identity/sessions.py`, the refresh-tokens table of `identity/storage.py`, and the refresh, logout, step-up, revocation and purge routes that drive them |
| `FailureStreak` | what a throttle promises: the unbroken run of recent failures |
| `LoginThrottle` | `identity/lockout.py` and the attempts `identity/flows.py` records; refines `FailureStreak` |
| `Accounts` | the password, address and mailed-link flows of `identity/flows.py`, `identity/verification.py` |
| `DeviceCodes` | `identity/device_grant.py` up to the grant: start, approval page, decision, poll |
| `DeviceSessions` | `identity/device_grant.py` from the grant on: refresh, reuse, revocation; the resource server's cache |
| `DeviceLogin` | `device_login.py`: commands, keyring and lock file; extends `DeviceSessions`, the server they talk to |
| `SecondFactors`, `Passkeys`, `DesktopHandoff` | the proofs after or instead of a password |
| `OAuthGrants`, `OAuthSignIn`, `SingleSignOn`, `ScimDirectory` | identity shared with other parties |
| `RateLimits`, `BearerKeys`, `AccountRemoval` | what a product's requests pass, and how accounts leave |
| `TableReads`, `AuditTrail`, `StreamConsumer`, `WebhookReceiver`, `BillingCustomers`, `WebhookDispatch` | reads and deliveries |
| `RequestPath`, `SigningKeys`, `SuiteRun` | requests, the keys behind their tokens, and the suite that tests a deployment |
| `InstallationTokens`, `SpanSampling`, `OperatorTools`, `TerraformRuns` | what the package does towards other systems |
| `RefreshFamiliesProofs`, `DeviceCodesProofs`, `DeviceSessionsProofs` | inductive invariants and theorems of the module they are named for; the last also of `DeviceLogin` |
| `SignInProofs` (throttle, accounts and billing), `FactorsProofs`, `FederationProofs`, `ServicesProofs`, `DeliveriesProofs` | the same for the components one run checks together, one section each |
| `MCRefreshSweeps`, `MCSignIn`, `MCLive`, `MCDeliveries`, `MCFactors`, `MCFederation`, `MCServices`, `MCClients` | several instances or components, by part |

### RefreshFamilies

`rows`/`row` are the table, `settled` where its indexes are caught up, `req` the requests in flight,
`active` whether the user may still authenticate. `issued`, `origin`, `login`, `lastAuth` and `ended` are
histories: what clients hold, how each token came to be, when each family and its last real
authentication were, and which families somebody asked to end.

| Code | Actions |
|---|---|
| `SessionService.start` | `SignIn` |
| `SessionService.rotate` | `PresentRefresh`, `RotateRead`, `RotateMint`, `RotateConsume`, `RotateRecheck`, `RotateFollow`, `RotateReplay` |
| `IdentityFlows.refresh` after the rotation | `Admit` |
| `logout`, `logout_all` routes | `PresentLogout`, `LogoutLookup`; `PresentLogoutAll`, `LogoutAllLocate` |
| revoke one, others, device, all but mine; purge | `RevokeOwned`, `RevokeOthers`, `RevokeDevice`, `EndAllFamilies`, `Purge` |
| `revoke_family`'s query and update loop | `Query`, `RevokeRow`, `EraseRow` |
| `set_family_auth_time` | `StepUp`, `StampRow` |
| the table itself, the clock, the user | `Settle`, `Reclaim`, `Tick`, `Deactivate`, `Abort` |

`RotateRead` and `RotateRecheck` keep the order of the code's conditions: an unknown or revoked row is
refused, an expired or capped one, or a consumed one outside its grace, takes its family with it, and only
then is a successor minted. A conditional update of an absent key succeeds where the code's
condition allows it, and leaves a `Stub`. One user is modelled; labels and `amr` are carried unchanged and
only the device label is kept, as a constant of the family. A list of sessions and the query behind
"revoke this device" read the newest row of each family in one step.

### FailureStreak and LoginThrottle

`row` maps each millisecond to the outcome stamped at it. `Assess` is `lockout_state` over what
`LoginAttemptStore.recent` returned: any set holding the settled rows, cut to the newest `Limit`. A check
whose query or write raises is let through (`"lost"`), as the code's best-effort handling does. `KeepsTheStreak`
instantiates `FailureStreak` with `streak <- Counted(Newest(Stamped, Limit), instant)` and asks for its whole
specification: every step of the throttle adds the failure it records, clears the run, forgets what passed
the horizon, or leaves the run alone.

### Accounts

`user`, `secret` and `link` are the users, credentials and identity-tokens tables; `session` stands for
whole refresh families. Every flow is a sequence of store calls of one request: registration
(`CreateUser`, `PutCredential`, `Announce`), login (`CheckPassword`, `Rehash`, `StartSession`), change
(`VerifyCurrent`, `ReplacePassword`, `RevokeSessions`), and for a mailed link the request (`CheckTaken`,
`SendLink`) and the confirmation (`SpendLink`, `CheckBound`, `MoveAddress`, `MarkVerified`, or the reset's
`ReplacePassword` and `RevokeSessions`). `RevokeSessions` is one step here because RefreshFamilies has its detail; it revokes what is live at
that moment, so a lagging index is not seen by this module. The body of a change or of a reset may list families,
and then it is those, whoever's they are, and no others: `SessionsDieWithThePassword` excepts what such a list left out
(`unlisted`), beside logins that overlapped, the session a change came from, and sweeps that failed. Second factors, a disabled flag and the
throttle are left out: they only refuse more.

### DeviceCodes

`Start` reserves a user code and puts the row; `View` shows the approval page and signs what it shows;
`Submit` checks the signature and the person's scopes; `Decide` is the conditional update. A poll is
`ReadCode`, then `RecordPoll` or `SlowDown`, then `Consume` and `OpenGrant`. `EndSessions` revokes a
user's grants in one step. `SLOW_DOWN_STEP` is one unit of the clock.

### DeviceSessions and DeviceLogin

A refresh is `Load`, `Rotate` (conditional on the presented token being current), `Reload` when the
condition failed, `Issue` (which asks `may_authenticate` again) and `Revoke`. `Judged` is the decision the
code makes twice, on the row loaded and on the row reloaded. `Ask`, `ReadGrant`, `Keep` and `Serve` are one
request through `DeviceGrantLiveness`, whose lock is not held across the read: two threads may read and
keep in either order. The cache's eviction of old entries only removes answers and is left out, and the
person who is no longer allowed is any `Issue` while `"barred"` is enabled. The condition that a row has
been rotated at all holds in every state where `previous` is set, and is not repeated in `WithinGrace`.
`revoke_token` finds and revokes in one step: what it finds cannot change in between except to be revoked.

`DeviceLogin` extends it with commands that share `keyring` and `lock`. A command's refresh is a request
`cmd[c].on` of the server: the server works on it (`Refreshing`) while the command waits, and `GiveUp` is
the client's timeout, after which the server goes on alone. The lock is `flock`: the Windows variant, which
stops retrying after ten seconds, is not modelled.

### Factors: SecondFactors, Passkeys, DesktopHandoff

`SecondFactors` is one account with its factor row, recovery codes and login tickets. Login's first leg is
`IssueChallenge`, its second `CompleteMfa` or `CompleteMfaWithPasskey`; `StepUp`, `DisableTotp` and
`RegenerateRecoveryCodes` prove a factor through `VerifyTotp` or `VerifyRecoveryCode` first. A check against
the watermark and the update that advances it are two steps, as are enrolling (`BeginEnrolment`,
`PutFactor`), activating (`ConfirmEnrolment`, `Activate`) and issuing recovery codes (delete, then put). A
code is a name made of its seed and its step, so the window and the watermark are kept and HMAC is not.

`Passkeys` has the table, its credential index as a copy that lags (`IndexPasskey`), and the challenges. A
ceremony begins (`BeginRegistration`, `BeginLogin`, `BeginStepUp`), answers (`SpendChallenge`, then
`CheckAttestation` or `CheckAssertion`), and ends (`PutPasskey`, or `RecordPasskeyUse` and
`LoginWithPasskey`). `RecordUseOf` has no condition in the code and brings back a deleted row, without its
key: `Ghost`. A signature verifies against the key of the row that was read.

`DesktopHandoff` mints a code from a signed-in browser, redeems it (the row is consumed before anything in
it is compared) and starts the app's own family, while the browser steps up or signs out and the account is
disabled.

### Federation: OAuthGrants, OAuthSignIn, SingleSignOn, ScimDirectory

`OAuthGrants` is the authorization server behind its requests: `RegisterClient`, `Consent` and
`RecordConsent`, `IssueCode`, `ExchangeCode` and `IssueTokens`, a refresh as `Refresh`, `ConsentForRefresh`
(over the lagging index), `MintRefreshed` (whose stamp is conditional on the row itself), and
`RevokeAuthorization`, `RevokeToken`, `ClientLapses`. A refresh names a client (`presenter`): its own, another,
or none; only its own finds a consent. A family begun where no tenants are resolved has none (`""`), takes any
tenant's consent, and may carry what was approved in any. A family is live or ended here; `RefreshFamilies` has
its detail.

`OAuthSignIn` writes states, spends them at the callback (`OAuthCallback`, `KeepFormPostName` for Apple's
form post), takes the identity out of the provider's answer (`IdentityOf`, `PrimaryEmail`: which address of
which provider), and resolves it by link, by an address verified on both sides, or by a new account.
`LinkProvider` claims a link on a condition, `TouchLink` puts back the row it read, `Unlink` asks the index
and the table what else remains. People stand behind browsers, provider accounts and local accounts, so that
"entering somebody else's account" has a meaning. The browsers of the model may bring any code and any
redirect to any callback.

`SingleSignOn` does the same for tenants: a state belongs to a connection, a provider may assert anything
about anyone and is checked by key, audience, issuer and nonce or request id; `ClaimAssertion` is the
replay row, which may lapse before the assertion; `ResolveSso` enters by link, by a verified address at a
domain the tenant proved, or provisions. Signatures, XML and the pinned transport are the name of the
connection whose key signed.

`ScimDirectory` stores a user and runs the product's hook in two steps, and changes a group by the
difference between what was read and what is wanted; `ApplyPatch` is the patch in order, `MemberChanges` the
direct path of `patch_group`. `DirectoryIsFollowed` compares the two over the bodies sent.

### Services: RateLimits, BearerKeys, AccountRemoval

`RateLimits` first has the counters of the table and one cache of leases per container. `CheckKey` decides under
the container's lock (`Touched` first forgets what a turned minute made worthless), `Claim` is the
conditional update with its prediction of the minute and its second try, `Settle` puts the answer into the
cache whatever happened meanwhile, `Evict` drops it. Its second half is the fixed window that opens with its
first request (`CountFirst`, then an unconditional `OpenWindow` if the one it counted in was over) and the
three counters of a mail in one transaction. Both fail open.

`BearerKeys` verifies a key (`Verify`, `Stamped`, `ResolveScopes`), and revokes, deletes and sweeps over
listings that lag. A share link is verified, touched and swept beside it.

`AccountRemoval` creates ephemeral accounts (two puts), sweeps them (scan, `ReadAgain` with the check of the
address, `DeleteReads`, which is the repository looking whether the row is there, and `Erase`, which has no condition),
deletes by the owner and by id, and lets each removal leave a stream record that `DeliverRemove` may deliver more than
once, to purges that work table by table (`PurgeTable`, `NextTable`) and may fail, beside requests that
authenticated before. Its three tables are the three ways the code lists one: by key, by index, and one it
cannot enumerate.

### Deliveries: reads, records and webhooks

`TableReads` follows one reader: a walk by `iter_query`, `iter_scan` or hand-held cursors, or a batch whose
keys the service sheds, beside puts and deletes. `AuditTrail` adds what `audit.py` does: fields and
redaction, the target index, rounds that may keep nothing of a page, the in-memory store that filters before
it counts, a purge that dies and is delivered again. `Covered` and `Due` are the reference: what a reader is
owed is recomputed from the table and not from the cursor. A page is a set of rows, and `Position` is the order of
a read: a walk is the sequence of its pages, and within one the order is the table's.

`StreamConsumer` is the route and the event source mapping: a batch, record by record, the ids that raised,
and the mapping that resumes from the earliest of them. The handler is the one `record_sequence` is written
for. The route's guard against requests from the gateway is an assertion on `Invoke`.

`WebhookReceiver` composes `verify_webhook` with `IdempotencyStore.claim` and `release` under several
receivers, redeliveries and deaths; `ClaimTtlAssumption` (a claim outlives the sender's retries) is the
assumption under which work is done once. `BillingCustomers` is `ensure_customer` against a search index
that lags and an idempotency key that expires, and the delete cascade. The cascade goes by what search shows
(`CancelOwnerSubscriptions`; where it shows nothing, the answer is that nothing was to do), then lists and cancels
customer by customer. `WebhookDispatch` is one webhook,
its attempts and pauses in eighths of a second under the shipped policy, and the endpoint's replay window.

### Deliveries: RequestPath, SigningKeys, SuiteRun

`RequestPath` assembles a stack as `create_app`, `mount_all`, the instrumentor and
`guard_exception_groups` do, in any order, and then sends one request through it: a response starts at a
layer and rises (`Rise`, `BodyEnds`), an exception rises (`HandlersCatch`, `LogSees`, `TaskGroup`,
`GuardHandles`, `ServerErrors`, `Escape`), alone or as a group. The same module has the client of conditional
requests, which may send `*` for a tag, and the reader of signed cursors (`ReadingAgain`). A signature is raw bytes
behind a `.`, and one with a `.` of its own (`dotted`, about one in sixteen) is not read back. The CORS layer is there
where there are origins to allow. Starlette's layers, the instrumentor and the
server are external and modelled by what `http.py` relies on.

`SigningKeys` takes the deploys of a rotation (`Stages`, `Deploy`), execution environments that are
replaced one by one and cache what KMS told them, and a gateway with its own key set. `ServiceAccepts`,
`TicketAccepted`, `GatewayAccepts` and `VerifierAccepts` are who takes which token; `ReadAuthorizerClaims`
down to `IdentityClaims` is what a route learns of it from each spelling of an authorizer's claims. Tokens are a
person's, a device's, a client's (`client_id` and no grant) or a ticket.

`SuiteRun` is two programs: workers that create users, send requests, write records and are judged by the
controller, over several runs with workers that die and jobs that are cancelled; and the session its callers
share, with `_lock`, the second look under it, and a deployment that revokes on replay. A bare refusal of a live
token (`TurnedAway`) is refreshed like an expiry.

### Clients: InstallationTokens, SpanSampling, OperatorTools, TerraformRuns

`InstallationTokens` has a thread's call as lookup, token and send, the lock held through an exchange, and
`Remaining`, which drops only the token that was refused; GitHub reinstalls, withdraws, and loses answers.

`SpanSampling` treats every stretch under `TailSamplingSpanProcessor`'s lock as one step and a batch on its
way to the exporter as another. The order of the buffers' keys, which eviction follows, is a relation between
traces (`<<a, b>>`: a is b or older), and `Oldest` takes as many as are asked for from its front. `late` holds the
spans whose `on_end` read `_shutdown` before it was set and come to the lock after it. Its second half is the process: `ConfigureTracing`, `Hooked`, the lifespan,
the exit net, a server that takes SIGTERM over and raises it again, and shutdown by whichever comes first.
Configuring again after a shutdown, which `otel.py:1619` leaves possible and no caller does, is not modelled.

`OperatorTools` runs two commands over a secret (stage, then move the label on the condition it has not
moved), a parameter (version checked, then written without a condition) or the admin flag. A move that was carried
out, whose answer was lost and which the SDK sends again (`config.py:310-313`), would look like a lost swap and be
tried again: that resend is not modelled. `TerraformRuns`
runs two `wp-tf` commands and other people on one run: statuses, pages of a log that becomes readable late,
confirmation with its retries, discard, cancel after an interrupt, and `var set`.

## Runs

Each cfg's constants are the instance. `SYMMETRY` permutes what no operation compares; it is left out of
`Live`, which has liveness properties, and of `Deliveries`.

| Run | Distinct states | Parts | Shows |
|---|---|---|---|
| `RefreshSweeps` | 1.5 M | rotation, sessions, lag | One family that two requests rotate at once, each of which may die: one rotation per token, replay only in the grace, no row past the login's cap, dead families stay dead (`EveryIssueIsJustified`, `NoTokenOutlivesFamily`, `DeadStaysDead`). Two sessions on two devices, every sign-out and step-up: none reaches beyond its scope, `auth_time` is real while no row is gone (`SessionsAreSound`). Indexes that lag, TTL, purge: a sweep leaves nothing live that its query had to show (`SweepsAreComplete`) |
| `SignIn` | 1.1 M | throttle, accounts, devices | Two attempts over a lagging query with lost writes: a lock is passed only by an attempt the failure overtook, refusals never extend it, and the table implements `FailureStreak` (`PassedOnlyIfOvertaken`, `RefusalsNeverExtend`, `KeepsTheStreak`). Two addresses, passwords and links under every flow, crashes included (`AccountsHold`). Two commands on one keyring, with timeouts, logouts and revocations (`TurnsAreTaken`) |
| `DeviceSessions` | 3.9 M | | Two refreshes of any token ever handed out, revocations, a barred person, a cached resource server (`ReuseIsOutsideTheWindow`, `EndedGrantsStand`, `RevocationBitesSoon`) |
| `DeviceCodes` | 1.8 M | | Two requests given one user code in turn, two tabs, two polls, scopes that move (`CodesAreCollectedOnce`, `DenialsStand`, `ApprovedAsShown`, `PaceIsKept`) |
| `Live` | 42 K | refresh, devices, stream | Under fairness: started requests end, what a sweep saw dies, a refused user's family dies; commands get through the lock; records are left behind (`EveryRequestEnds`, `SettledRowsDie`, `RefusedFamilyDies`, `WorkIsTakenToItsEnd`) |
| `Factors` | 2.0 M | mfa, passkeys, handoff | `FactorsProveOnce`, `PasskeysAnswerForThemselves`, `DesktopsCarryTheBrowser` |
| `Federation` | 2.0 M | scopes, tenants, providers, sso, people, group | `GrantsNeedTheUser`, `ProviderSignInIsSafe`, `TenantsEnterTheirOwn`, `DirectoryIsFollowed` |
| `Services` | 1.5 M | leases, windows, mails, keys, removal | `LimitsHold` (leases and windows), `CredentialsEnd` (keys and links), `RemovalIsWhole` |
| `Deliveries` | 3.6 M | reads, audit, stream, receiver, billing, dispatch, requests, reading, keys, suite, session | `ReadersSeeItAll` (tables, audit log), `WorkIsDoneOnce` (records, webhooks), `OwnerIsBilledOnce`, `ReportsAreTrue` (dispatcher, suite), `RequestsAreAnswered`, `KeysAreTrusted` |
| `Clients` | 3.0 M | github, spans, process, operators, terraform | `TokensAreShared`, `SamplingIsWhole`, `ToolsDoWhatTheyShow` (operators, wp-tf) |
| `RefreshFamiliesLogoutAll`, `DeviceSessionsRace` | violations | | findings 1 and 2 |

A property of a run is often a conjunction of named ones; the definition in the component's module says in a
comment what each part means and which line of the code promises it.

**Bounds.** Two requests (containers, threads, commands, operators) are what every hazard listed needs:
one that reads and one that writes in between. Where a third matters it is a fault action (an index that
catches up, a row that lapses, a worker that dies), which is always there. Where only one request is given
(`Services`: one call on a key, one admin call), what it meets is the sweep, the second delivery or the live
request of the same instance.

* Lifetimes, graces and windows of 1 to 3 separate before, at and after each boundary; clocks reach the end
  of the longest lifetime they are compared with (in the sessions part of `RefreshSweeps`, which is not about
  expiry, only of the rolling one). Nothing in the code multiplies times, except
  the throttle's and the dispatcher's doubling, which run through their cap and through every attempt.
* Five tokens are a login, its successor, and what two racing rotations and a replay mint; the other
  instances take three. `TokensRemain` keeps a rotation from starting when the pool could not finish it,
  which stands for "tokens are never reused".
* `MaxGen` allows a rotation, a replay of the replaced token and a rotation past it; `MaxInterval` one
  slow-down. `Limit` of the throttle is no smaller than the rows the instance can stamp:
  `ReadingFurtherChangesNothing` says what happens otherwise.
* Six rows in two partitions, pages of two and batches of two put a page's end at, before and after a
  partition's; `MaxWrites` is two writes anywhere between the reads.
* Three records, two failures: a raise in a batch, a redelivery, a death. Sequence numbers run from 8 to
  10, where decimal strings and numbers order differently.
* `MaxLease` two with a minute of three and a day of four makes leases of two and of one, a refusal by the
  minute and one by the day.
* Authorizations are followed twice: one tenant with several scopes and codes, and one scope and code with a tenant
  and without. Two consents are one of each.
* `MaxBillTime` is `KeyLife`: a key taken at the start has run out at the end, and the lag twice over before that.
* Three passkey challenges are one per ceremony and one to confuse it with. One ticket suffices for "one
  session per ticket".
* Two requests of two spans, in two traces or in one, with a cap of two spans and a ceiling of one trace:
  a buffer is at its cap, and a trace arrives over the ceiling. `MaxLate` is one span that ends across the shutdown,
  which finds its trace forgotten and its buffer gone; `MaxErrors` is one error, which is what a verdict turns on.
* One request through a stack of up to two product middleware is every layer above and beneath the guard;
  two exceptions make a group, and concurrent requests share nothing but the worker.
* Rotation goes through all four stages with two environments, of which one may be behind. The clock counts
  hours as `docs/identity-standard.md` 3.5 does: a token lives one, the gateway caches for two, the operator
  waits three.

**Fairness** is assumed in `Live` only. A request that has begun is run to its end by Lambda unless it dies,
hence `WF(Work(p))`, where none dies; nobody is obliged to present a token, tick a clock or settle an
index. A command runs on (`WF(Pursue)`), the server answers (`WF(Refreshing)`), and `flock` does not pass a
waiter over for ever (`SF(TakeLock)`: it is repeatedly, not continuously, available). Whether a command
gives up is never obliged. The mapping polls and the function runs on (`StreamFairness`); writes, raises and
deaths are never obliged, and `MaxRaises` bounds the latter two: with a handler that always raises, the code
promises nothing.

**Deadlock** is checked in `DeviceSessions` and in both violation runs. The other instances really stop:
ids, codes and links run out, clocks reach their bound, a run is over, and their cfg says CHECK_DEADLOCK
FALSE. That no request waits for another is `EveryRequestEnds` and `WorkIsTakenToItsEnd` where there is a
lock, and holds by the code elsewhere: a conditional write never waits.

## Where the code and its documents part

Two disagreements are runs of their own:

1. `logout_all` (`RefreshFamiliesLogoutAll`, `SignOutEverywhere`). The route promises "every session and
   device login for the caller" (`identity/router.py:896`), but passes the families of the bearer and of
   the cookie, and a list is taken as the whole of what to revoke. The caller's other browsers stay in.
2. Lost races of a device refresh (`DeviceSessionsRace`, `LostRacesAreForgiven`). A refresh whose clock was
   read before the winner's loses the race outside the window, and the grant ends as reused, where
   `identity/device_grant.py:21` promises the same successor.

The others are stated as definitions the runs leave out; naming one as an INVARIANT or PROPERTY of an
instance of its module that allows the steps described reproduces it.

| Property | Module | What the code does |
|---|---|---|
| `RevocationIsFinal` | `RefreshFamilies` | `rotate` never looks at `revoked` after its read; a sweep between its read and its put misses the successor, and the family lives on |
| `ReplaysToTheSameSuccessor` | `RefreshFamilies` | a replay in the grace mints a sibling of the successor, where settings and docs speak of "the same successor" |
| `AuthTimeNeverBumped` | `RefreshFamilies` | the revoking update recreates a reclaimed key as a row with only `revoked`; a replay that follows it takes the present for its `auth_time` |
| `TheLastPasswordHolds` | `Accounts` | the rehash on login is put without a condition; a change or reset in between is undone |
| `ResetKeepsNone` | `Accounts` | a login that overlaps a reset starts its session after the sweep; and a reset whose body lists families ends those alone (`flows.py:2294-2296`), where `docs/identity.md` says it "revokes every session and keeps none" |
| `OneAccountPerAddress` | `Accounts` | two registrations of one address both find it free |
| `ReadingFurtherChangesNothing` | `LoginThrottle` | refusals fill the 50 rows read and push the failures that caused them out |
| `AttemptsAreKept` | `LoginThrottle` | two attempts in one millisecond share a key; the second replaces the first |
| `NewestLoginIsKept` | `DeviceLogin` | a login stores its session without the lock and a refresh of the previous one overwrites it |
| `DeviceLoginsEndWithTheRest` | `DeviceCodes` | a code approved before a reset opens its grant after it |
| `RoutesNeverRemoveReal` | `AccountRemoval` | the address is checked on one read, and the delete that follows (`identity/users.py:210`) has no condition on it; an address that becomes real in between is removed, where `flows.py:1484` says the route "can never remove a real account" |
| `DeletedUsersStayDeleted` | `AccountRemoval` | `users.update` reads, then writes without a condition, and makes the deleted row again; `identity/users.py:172` says it raises "rather than creating one" |
| `CascadeEndsEveryLive` | `BillingCustomers` | a customer too new for search is not found (`stripe.py:694`), and its subscription stays live; `stripe.py:687` says "every live subscription of every customer" |
| `SensitiveStaysSensitive` | `TerraformRuns` | `var set` replaces what it read; a variable made sensitive in between is readable again (`tf/cli.py:646` says it "stays sensitive") |
| `NoMarkerStaysBehind` | `SpanSampling` | the span that overflows a trace may be its last, and then nothing clears the marker (`otel.py:548`); `tests/test_otel.py:1106` says none stays |
| `GroupsRenderAsTheirLeaf` | `RequestPath` | a group of one that a task group unwraps above the handlers is answered with 500; `http.py:643-645` says the response is the one it "would have rendered unwrapped" |
| `CursorsAreRead` | `RequestPath` | a cursor whose signature holds a `.` is refused, because `http.py:1817` splits at the last one; `decode_cursor` is to "read a cursor `encode_cursor` produced", and `tests/test_http_signatures.py:113` expects it to |
| `TheLineIsTheAnswer` | `RequestPath` | the request log sits beneath the guard, so its line may give another status, or be missing, "after the response is decided" notwithstanding |
| `TheBlamedTokenWasSent` | `SuiteRun` | `e2e/client.py:424-425` says the credential is resolved once; `_send` resolves it again, after another thread may have refreshed |

Smaller observations, which the modules reach and of which no document says otherwise:

* Accounts: a registration's credential put overwrites a reset that found the account in between
  (`flows.py:384`); a store error between a new password and the sweep leaves the old sessions signed in
  (`flows.py:1056`); a device token two rotations old is refused but ends nothing; a decided device code
  whose owner item was not written is not found by a purge (`device_grant_storage.py:460`).
* Factors: an enrolment begun before another was activated puts its pending row over the active factor
  (`storage.py:1416`), and activation takes whichever seed is pending by then (`storage.py:1431`); two
  regenerations that overlap leave both sets valid (`mfa.py:480`); a crash after activation leaves a factor
  without recovery codes (`mfa.py:385`); a passkey's counter is compared with the index's copy
  (`passkeys.py:539`); a handoff code works after its browser signed out (`flows.py:569`).
* Federation: incremental consent may take up scopes of a row withdrawn but still in the index
  (`oauth_server.py:625`), a consent too fresh for the index survives a revocation (`oauth_server.py:922`) or
  ends its own family at a refresh (`oauth_server.py:901`), and a code outlives the revocation of its
  application until its first refresh (`oauth_server.py:686`); a crash between an account and its link
  leaves the address taken (`oauth.py:1457`); a notification ends a session started after it was read
  (`oauth_notifications.py:176`).
* SCIM: a change that dies before its hook, or overlaps another, leaves the stored state and the hook's
  apart, and the retry finds nothing to do (`scim/service.py:330`, `340`); two creations find one userName
  free (`scim/service.py:311`); the direct path drops a member that a body removes and adds again, the
  in-order one keeps it (`scim/patch.py:376`). `DirectoryIsFollowed` excepts exactly these.
* Removal: a request that authenticated before the deletion may write after the purge went past
  (`flows.py:1646`).
* Not seen by a property: `SweepsAreComplete` speaks of what a query had to show and `DeadStaysDead` of a family dead
  as a whole, so the rotation already past its read is caught by `RevocationIsFinal` alone; `SettledRowsDie` is checked
  without a lag; `LimitsHold` covers one day and one scope and excepts counts that come late; `TokensAreShared` has
  reads that look the installation up and writes that name it.
* Clients: a lookup's answer is kept though the App was reinstalled under the asking, and costs one call
  (`github.py:762`); an interrupt while a plan is followed cancels the run even when somebody else has
  confirmed it (`tf/cli.py:529`); a refresh answer the suite's session never received makes its next refresh
  a replay, which revokes the family.
* `claims_or_credential` says a share token is consulted "only where neither of the stronger two arrived"
  (`identity/share_tokens.py:827`) and consults it after either was refused as well. A key set served while
  one key cannot be read is cached by others without it. `composition.py:472-474` and
  `docs/composition.md:116` put the middleware a product adds later further in; Starlette puts the newest
  outermost.

## Proofs

`tlapm` on the eight `...Proofs` modules checks everything below. Each theorem holds for every value of the
constants that satisfies the modules' assumptions: any number of tokens, codes, requests, threads, users,
clients, keys and records, any lifetimes and bounds, any set of operations. Thirty-three of them state a
property some run checks; the types and the others are parts of the same invariants that a reader may want on
their own. Each invariant was an invariant of its run before it was proved.

What is assumed of the constants, all of it checked by TLC on the instances:

| Assumption | Says | Because |
|---|---|---|
| `ParameterTypes`, `ThrottleParameters`, `HandoffTimes`, `CountsAreNumbers`, `CodesAreNumbered`, `TimesAreNumbers`, `SequencesAreNumbers`, `ClientParameters`, `NoneIsDistinct` | bounds and lifetimes are numbers, and null is none of the values it stands beside | the types of the settings |
| `MembersAreThere`, `BodiesNameUsers`, `TablesHaveAnOrder`, `ThreadsShareAnApp`, `NoThreadIsDistinct` | the sets an instance gives have the shapes the code's values have | the same |
| `TablesAreApart` | no API key has the hash of a share link | two tables |
| `AddressesAreProven` | who proves an address to a provider or to the product is the person who holds it | what `email_verified` means; without it linking by address is not safe at all |
| `ClaimsOutliveRetries` | an event's claim lasts longer than its sender's retries | `DEFAULT_EVENT_CLAIM_TTL_SECONDS` is chosen past Stripe's three days (`integrations/stripe.py:79`) |
| `PolicyFitsTheWindow` | the sender's retries, each with its longest pause and timeout, end within the receiver's window, clock skew included | 30 seconds of retries against a window of 300 (`webhooks.py:281`) |
| `ReadsAssumption`, `AuditAssumption` | tables and logs are finite, no two rows stand at one place of a read, an event has an id between 1 and the newest, and pages, limits and walks take at least one | DynamoDB's keys are unique; the settings' types. A `max_items` of 0 is excluded: such a walk still yields one row (`dynamodb.py:721`) |
| `SamplerAssumption` | the cap, the ceiling and the number of spans are numbers; the caller of shutdown is no request, and a request without a trace has none | the types of the settings |
| `SuiteAssumption` | a run of the suite is shorter than the age at which leftovers are swept | the sweep's own margin (`SWEEP_OLDER_THAN_SECONDS`) |
| `HttpAssumption` | what is raised is one of the kinds of exception there are, and a list has a number of items | what the kinds are |
| `TheKeyOutlivesTheLag` | Stripe's idempotency key lasts longer than its search lags plus a caller's life, and than two callers' lives | a day against a minute and a request (`integrations/stripe.py:543`) |
| `ChangesAreOfKeys` | what an operator sets is a value of a known key or its removal, and no command is nobody | the tools' arguments |
| `DrainsTakeTwoPages` | a log is drained by at least two empty pages in a row, a page has a line, and no terminal is another person | `DRAIN_EMPTY_PAGES = 2` (`tf/cli.py:141`); with one, a line readable a moment late would be lost |
| `RotationsWait` | after a deploy of a rotation the operator waits at least a token's life and as long as a gateway keeps a key set | the procedure's three hours against the gateway's two, and "one access-token lifetime plus margin" (`docs/identity-standard.md`, 3.5) |

**RefreshFamilies.** `TypeCorrect` by induction alone. `IssuesJustified` and `FamilyCap` from `IInv`:
tokens are generated before anything names them (`Allocated`); a row names the login of its family, expires
inside that login's window and has no successor until it is consumed (`RowsSound`); and a request knows, at
each stage of a rotation, the family of the record it read, that its minted token stems from the one
presented, that a replay was presented in the grace, and that what it is about to answer is `Justified`
(`Sound`). `Kept` says what a step may do to a row: a consumed row keeps its successor for ever, and a key
is never generated twice. The histories `origin` and `issued` are
tied to it, so that the theorem speaks of what clients hold and not only of rows. `ForwardOnly` follows a
step through each write of the table. `DeadForGood` shows that the two halves of `Dead`, rows and requests,
feed each other: no row of a dead family is minted because no request is past its reads, and none gets past
them because every row is revoked. `SweepsComplete` adds `SweepSound` to it: a settled row a query had to return is
still on the request's list or revoked, and what is on the list is of a family the caller asked to end, or a stub. The
first half of `SessionsSound` is the second of these. The other half, that `auth_time` is real, is false
once a row is gone (`AuthTimeNeverBumped`) and so is an implication from `NothingIsGone`. `RealInv` is inductive
because no row ever comes back whole: if all are there after a step, all were before it (`WasInPlace`). Then a
successor is a row of its predecessor's family, a rotation holds an authentication `Within` that family's login
and last step-up, and a step-up's stamp is no later than the latter.

**LoginThrottle** (`SignInProofs`). `ImplementsTheStreak` is the refinement the run checks: initial states map to initial
states and each step to a step of `FailureStreak` or a stutter. It and `OutcomesReach` assume `EnoughRows`,
the two conditions under which the code's own comments hold: no row replaces another of its
millisecond (`AttemptsAreKept` fails otherwise) and the query's limit is not reached
(`ReadingFurtherChangesNothing` fails otherwise). The invariant needed is that nothing is stamped ahead of the clock. With it a
new row is the newest, so a failure joins `Run`, a success empties it and a refusal leaves it; the limit
enters once, in `NothingBeyondTheLimit`, which counts an interval. Who read what is no part of the argument:
the rows alone carry the run, which is why lag and lost writes cannot disturb it.

**Accounts** (`SignInProofs`). `LinksAndPasswords` from `AccountInvariant`. A link is spent by a conditional update, and
what is counted of it (`spends`) is one exactly while its row is spent; the one request that spent it goes on with it
(`LinkHeld`, `LinkSound`), which is why no second confirmation can act. An address moves only on a row whose link was
mailed to it, and a move marks every request that compared the old one. A session of an old password is excused by
name (`unlisted`, `spared`, `overlapped`), and `RevokeSessions` ends or excuses every other, for any list. A password about to open a session is the
last one set, unless a change overlapped it or a rehash undid it (`PasswordSound`): both are in the invariant as what
the request is excused by, since the code has no condition there.

**BillingCustomers** (`SignInProofs`). `BillInvariant` follows one fact from Stripe's key to every caller: whoever is about to create a
customer searched so soon after the key was taken that the key is still held (`CallerSound`), and search shows
the customer once that is no longer so (`SoonAfterTheKey`). This is where the two inequalities of
`TheKeyOutlivesTheLag` come from: one for callers that searched during the index's lag, the other for callers
that searched while the create was in flight. The cascade
needs the same: where search is current no live subscription is of a customer it does not show, and what was live when
the cascade began is ended, waits on its list, or is of a customer it has yet to list.

**DeviceCodes.** `IInv` joins the types to what each actor may rely on. `RowSound(d)`: an approved row names
a person and scopes some page showed, a row that is not denied was never denied, its user code is reserved
until it expires, and its interval has not shrunk. `PageSound(b)`: an open page was shown. `PollSound(p)`: a
poll past its read holds a row with a lawful interval, and one about to open a grant has taken its row away,
knows it was shown and not denied, and is the only one, with no grant open for that code. `GrantSound(g)`
says the same of a grant. The last two are one fact that changes hands: the conditional delete in `Consume`
moves it from the row to a single poll, and `OpenGrant` from the poll to a single grant. `KeptRow` and
`Final` say what a step may leave of a row it did not write and of one that is gone, and each action has
one lemma. `UserCodesNameOneRequest` is its own strengthening once a row is reserved until it expires: a
second reservation waits until the first has passed. `Paced` is an action property: of the steps that keep a
row's status only `RecordPoll` moves its stamp, and its condition was computed from an interval at least
`Interval` though the row it was read from may be stale.

**DeviceSessions.** `IInv` has a part for each actor. `RowSound(g)`: a previous token is one behind the
current one, tokens handed out are not ahead, a grant that is not revoked has no end, a cached `live`
lasts no longer than `CacheTTL` past the end. `Sound(c)`: a refresh past its read began while the grant was
live, and one that revokes for reuse was `Outside` the window. `Believed(k)`: what a thread is about to
cache was read before the end. The last two relate a request to a row that others keep writing, and the
proof turns on what those writes can do: `RowsStep` lists the four ways the table moves and `Moved` what each
leaves true (revoked is final, the end of life is fixed, and a new `previous` token is the old `current`
one). `RowKeeps`, `CallKeeps` and `CheckKeeps` show that this is enough for whatever the step did not
itself write; then there is one lemma per action. `EndedGrantsStand` is a conjunct of `Moved`. The bound
in `ReuseIsOutsideTheWindow` cannot be made the simple one of `LostRacesAreForgiven`: that is false.

**DeviceLogin** (`DeviceSessionsProofs`). `CommandsUseTheServer` shows that the commands' steps are steps of the server
or none, so that everything above holds beneath them. `TurnsTaken` needs `ClientInvariant` besides. A token `Trails` its
grant: it is the current one or one behind, and nothing newer was ever presented. The stored token trails, and so does
the one a command waits with (`KeyringSound`, `CommandSound`). A request nobody gave up on is waited for by the holder
of the lock and was presented with the current token (`TakesTurns`), so at most one such request exists and it is
never judged reused. The one rotation there can be puts the stored token one behind until `Receive` stores the
successor, and `GiveUp` puts the grant among the late ones, which the property excepts. A login's grant
is named by its own command alone until it is stored (`Unseen`). The steps that rotate nothing are one lemma
(`ServerMoves`) and the commands' another (`OneCommand`); `RotateGoesOn` is the step the argument is about.

**DesktopHandoff, Passkeys, SecondFactors** (`FactorsProofs`). One pattern carries all three: something is
spent by a conditional write, and the request that spent it is its only holder until the session, the passkey
or the acceptance it is worth exists. `HandoffInvariant` has it for a code and its exchange (`ExchangeSound`,
`DesktopSound`). `PasskeyInvariant` has it for a challenge (`CeremonySound`, `AnswerSound`), and adds for
"the last way in stays" what a delete knows of the other keys (`Unstranded`): a user whose deletes met
nothing keeps a spare while one is under way, and a use of a deleted passkey leaves a `Ghost`, which counts
for nothing. `MfaInvariant` has it for tickets (`HolderSound`, `SessionSound`), and for codes
that what was accepted is behind the watermark (`AcceptedSound`), which the two-step check needs: a request past
its read proves its code again at the conditional update.

**OAuthGrants, SingleSignOn, OAuthSignIn, ScimDirectory** (`FederationProofs`). `GrantInvariant`: a consent, a code and a
request each say no more than their user approved for that client, in its tenant if it has one, nothing approved is ever
taken back, and a code that is not yet worth tokens has no family. `SsoInvariant`: what a request trusts is
what its state's connection has proved. `OAuthInvariant`: what a callback holds was proved by its own browser's
person (`CallbackSound`), a live flow has answered nobody (`FlowSound`), and a link being deleted is not its
account's last. The attempt to prove it showed a hole in the model's reading of unlink: the row of a *stale* index
entry may be another account's by the time it is read, and both unlink and touch then act on it. The small
instance never got there; such steps are now counted among the overlaps the property excepts (`unlinkRaced`).
`ScimInvariant`: an undisturbed user has one request at a time, whose hook agrees with the row
it read; a group's request removes members it saw. That a patch applied in order leaves what the direct path leaves
is a lemma about `ApplyPatch`, which is stated by which operation comes last for a member, so that it needs no
induction over bodies.

**BearerKeys, InstallationTokens, AccountRemoval, OperatorTools, TerraformRuns, SpanSampling** (`ServicesProofs`). `KeyInvariant`: a row that is dead stays
dead, or gone; a request read its row alive (`KeyRequestSound`); what a sweep listed is still there or has
ended (`SweepSound`). The stamp of a use is the step that could break it, and its condition is why it does not.
`GithubInvariant`: one call is in an exchange, it holds the lock, and its installation wants a token
(`CallSound`), so an exchange only ever replaces a token that had run out or was refused.
`RemovalInvariant`: a purge owes nothing in the tables behind it (`PurgeSound`), though requests that
authenticated before keep writing to them, since what is owed is what the indexes showed at the deletion; and a
delete past its check holds a user whose address was not real at that read, so that one real throughout is not erased.
`OpsInvariant`: a command past its look at the versions knows what it wrote and what it may say (`OutcomeSound`), and the
row of an administrator names commands that were told they made the change (`AdminSound`). `TerraformInvariant` says
what a terminal knows of a run that others keep moving: an end it read is the run's end, and a plan it saw over is
over (`StatusSound`); what it printed is what it read, and an empty page after the stop was asked for when every line
was written, which is why the second empty page proves the log whole (`PrintedSound`); and whoever is about to confirm
an apply has printed its plan (`DecisionSound`). `RunGoesOn` and `LogsGoOn` say what a step may do to the run and its
logs, and `TerminalStays` that this disturbs no other terminal. `SamplerInvariant` puts every span that ended in one
place (`SpanSound`), and only a shutdown may lose one; until then a trace's count is the number of its open spans, and a
request is undecided as a whole or decided as a whole (`JudgedSound`), because what is undecided waits in the buffer of
a trace that is still counted. The ceiling rests on `EvictionBounds`: among keys in one order (`InLine`) at least as many
leave as are over it, unless no complete trace is left. The process has an invariant of its own (`LifeSound`), about the
few chains of handlers that configuring, the server and the lifespan can leave, whatever their order.

**StreamConsumer, WebhookReceiver, SigningKeys, WebhookDispatch, SuiteRun, RequestPath, TableReads,
AuditTrail** (`DeliveriesProofs`). `StreamInvariant`: every record before
the checkpoint is applied, and every record an invocation is past is applied or among its failures; the
response moves the checkpoint to the earliest failure, and `TheEarliest` (a set of numbers has a least
member, by well-foundedness) is the lemma behind it. `HookInvariant`: nobody takes a delivery
up after the sender's last retry or lives past the limit of an invocation (`Timely`), so that when a claim
lapses nobody is left to act again, and until then its holder is one (`ClaimSound`).
`KeysInvariant` says where a rotation stands: environments are within
one stage of the deploy, a token of the retiring key has run out before that key leaves the list, and a key set
fetched before the coming key was listed has run out before that key signs. Both run out while the operator waits,
which is what the two inequalities of `RotationsWait` are for.
What is delivered out is the other half of the module. The dispatcher's list of responses holds only retryable ones
until the last, and the time spent before each attempt is bounded by the pauses and timeouts before it: that bound
and `PolicyFitsTheWindow` are why no attempt is refused as stale. `SessionInvariant` counts: a refresh answers a token
that ran out, a case that asked, an answer without a body or a lost one, and between two of them every caller finds
under the lock that the token is no longer the one it meant. `SuiteInvariant` ties files to the workers that finished
(`FilesSound`), which is what `FilesAreTheFinished` hands the controller; and a user is no older than the run that made
it (`UserSound`), so that the sweep's age cannot reach one in use.
`HttpInvariant` is in three parts. `AppSound` gives the shape of a stack (`LayerAt`: server errors, the instrumentor's
two layers or none, the guard or none, the application's own, the handlers), which every order of creating, adding,
instrumenting, guarding and building leads to. `Sound` follows one request: what is on its way out above the guard is no
group with a fault in it, and what comes to the server past everything that answers was answered or cancelled
(`Outbound`); a 500 comes from a fault, or from a kind that renders one (`Concluded`); and a response above the CORS layer, in a stack that has one, has its headers
(`Headed`). One lemma per layer shows that what leaves it is sound (`EveryLayerKeeps`), for stacks of any length.
`PollInvariant` and `PagerInvariant` are the client's copy, never older than its tag, and a walk, whose
cursor is signed for the last item it has.
`ReadInvariant` and `AuditInvariant` say of a reader what its cursor means: all it has been given lies before the
cursor, and all it is owed has been given or lies beyond it (`WalkSound`, `ListingSound`). `TheFirst` is the lemma about
a read with a limit: the first n of some rows lie before the others, and are all of them when they are fewer, so a page
that is not full ends the walk rightly and a full one may carry a cursor although nothing is left. Rounds and pages are
sets, ordered among themselves (`SeenInOrder`, `NewerFirst`), and what comes and goes meanwhile only takes from what is
owed (`ListingOwesLess`). A purge keeps its word because an id is minted once: nothing it found is put again
(`TrailSound`), and a read that finds nothing found the partition empty (`EarliestEvents`).

Model-checked only:

* the liveness properties of `Live`, because TLAPS proves nothing about `ENABLED` under fairness;
* `PassedOnlyIfOvertaken` and `RefusalsNeverExtend`, which compare delays: that powers of two grow needs an
  induction over numbers, for which the library's theorems take an operator as a parameter;
* `LimitsHold`, whose parts sum grants over sets of requests and containers, and sums over sets are defined by
  recursion: the same induction.

No definition is recursive, so that each module may be proved about.

## Plan

Done: every component with state of its own has a module, and the identity service with its login client, its federation, keys and
removal, the GitHub client, the operators' tools and `wp-tf`, the readers of tables and of the audit log, the stream consumer, webhooks in both directions, billing, the signing keys, the
HTTP layer, the span sampler and the end-to-end suite have proofs. Left, most important first:

1. **An abstract claim** (one holder, released or done, retried after a crash) that `WebhookReceiver`, the
   links of `Accounts` and the codes of `OAuthGrants` implement.
2. **Compositions**: `ScimDirectory`'s deactivation and `AccountRemoval`'s purge with `RefreshFamilies`.
3. **The parts left out below** that have state: renaming a passkey, provider tokens, the counter of failed
   user-code lookups, `configure_tracing`'s `force`.

## Not modelled

* **No state of their own**: identity assembly and settings (except the stages of the signing keys),
  configuration and logging, security primitives, object storage, e-mail layout, the message catalogue, and
  the fakes of `testing.py`, which imitate what the modules describe.
* **Cryptography and parsing**: signatures, hashes, JWTs, XML, PKCE and WebAuthn are names that match or do
  not; the address guard and pinned transport of SSO, SCIM filters and schemas, and the rendering of pages
  are pure functions of one request.
* **Identity, within the modelled parts**: the failed-lookup counter of user codes, the deletion of a purged
  user's device rows, invitations and product hooks, `peek` and `family_amr` (reads without effect),
  renaming a passkey, the sealed provider tokens and their revocation at the provider, SCIM attributes
  other than the name, the active flag and one group's members, and everything of a session row that is only
  shown (addresses, browser, platform).
* **Platform, within the modelled parts**: transactions and table definitions of the repository (a
  transaction is one step where it is used), metrics, `force` of `configure_tracing`, GitHub's manifest
  conversion and downloads beyond one call, Stripe's portal and quantities, the archive and workspaces of
  `wp-tf`, the journeys and the browser of the end-to-end suite.
