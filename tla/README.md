# Identyx API: specifications, model checking and proofs

Identyx is an authentication platform made of FastAPI services behind a
gateway. Each service has a PostgreSQL database of its own or none; they share
a Redis server and a Kafka-compatible broker. There is no distributed
transaction: one user action is a chain of HTTP calls, each with a transaction
that commits on its own. This directory models the parts of that system whose
correctness depends on the order in which those steps happen.

## Reading order

| Module | Models | Checked with | Proofs |
| --- | --- | --- | --- |
| `SessionLedger` | what session-service promises: one atomic operation per request | as the abstract side of `sessions` and `gateway` | |
| `SessionStore` | session-service, statement by statement | `Sessions.cfg`, `SingleUse.cfg` | `SessionStoreProofs` |
| `ApiKeys` | application-service: API keys and their cache | `ApiKeys.cfg`, `SuspendedKey.cfg` | `ApiKeysProofs` |
| `PasswordReset` | auth-service: login, password check, reset | `PasswordReset.cfg`, `Rehash.cfg` | `PasswordResetProofs` |
| `Accounts` | register, login, deletion across three services | `Accounts.cfg`, `Rollback.cfg` | `AccountsProofs` |
| `BruteForce` | auth-service: the lockout of login | `BruteForce.cfg` | `BruteForceProofs` |
| `Profiles` | user-service: profiles, avatars and their files | through `EmailFlows` | `EmailFlowsProofs` |
| `EmailFlows` | e-mail verification and e-mail change, with the mail that carries the links; extends `Profiles` | `EmailFlows.cfg` | `EmailFlowsProofs` |
| `TokenService` | token-service: pairs, expiry, blacklist | through `Gateway` | |
| `OriginRegistry` | application-service: who claims an origin, who resolves it | through `Gateway` | |
| `Gateway` | the gateway, with refresh and logout behind it; extends `TokenService` and `OriginRegistry` | `Gateway.cfg` | `GatewayProofs` |
| `EventDelivery` | events from auth-service through the broker to mails | `EventDelivery.cfg` | `EventDeliveryProofs` |

Every `MC<module>` extends its module with the constants of the small instance.
Definitions named `X_Something` after a definition `X` are mutations: a version
of `X` with a plausible bug, which a property of the run is known to catch.
They are used by no specification.

## The system

| Component | State | Operations | Talks to |
| --- | --- | --- | --- |
| gateway | none; sliding windows in Redis DB 2 | middlewares (rate limit by address, CORS, API key, rate limit by key, JWT), proxy routes | all services |
| auth-service | `user_credentials`; brute-force counters in Redis DB 2 | register, login, logout, refresh, verify_email, reset_password, resend_verification, verify_password, deletion request and confirmation, e-mail change request and confirmation | user, session, token services; broker |
| user-service | `users`, four tables of one-time tokens, avatars in GitHub | create, read, update, delete a profile; store, check, confirm each kind of token; avatars | GitHub |
| session-service | `sessions` | create, validate, list, revoke one, revoke by id, revoke all, rotate | none |
| token-service | blacklist in Redis DB 0 | generate, verify, revoke | none |
| application-service | `applications`, `api_keys`; resolution cache in Redis DB 3 | create and update applications, issue, revoke and verify keys, resolve an origin | none |
| email-service | consumer offsets in the broker | one handler per topic | SMTP |

Four facts about the code shape all the models:

- **The commit follows the answer.** `get_db` (`db/session.py` of auth, user and
  session services) yields a session and commits when the dependency exits,
  which FastAPI does after the response was sent. A caller acts on an answer
  whose transaction is still open and may yet fail. application-service
  commits explicitly before it answers.
- **Read Committed, no explicit locks.** A SELECT sees what was committed when it
  started. An UPDATE or DELETE takes row locks, waits for a lock of another
  transaction, and evaluates its WHERE clause again on the newer row. An
  INSERT or UPDATE waits for another transaction that takes or frees the same
  value of a unique index.
- **Remote errors are ignored selectively.** Some helpers of auth-service
  raise, some swallow exceptions, and some do not look at the status.
- **Every await is a scheduling point.** A step of a model ends where the code
  awaits an answer; what happens between two awaits of one coroutine is atomic.

### What makes each component correct

- session-service: token hashes are unique; a revoke-all leaves nothing it
  matched; a rotated token is refused; only the owner ends a session; the limit
  on devices; requests end although they wait for each other's locks.
- application-service: a revoked key or the keys of a suspended application stop
  working, at once or within the lifetime of a cache entry; an origin has one
  owner.
- auth-service, passwords: a reset changes the password for good, ends the
  sessions that the old password opened, and uses its token up.
- auth-service and user-service, accounts: one profile per address; profile,
  credential and sessions come and go together.
- auth-service, lockout: failures are counted, a lockout is reached and ends,
  a login after near-lockout failures alerts.
- e-mail flows: a verified account has proven its address, a link works once and
  is used up only when it had its effect, success is answered when there was one.
- avatars: the file in storage and the row that points to it agree.
- token-service, refresh and logout: who has logged out stays out.
- gateway: a service acts for a user only on that user's proof; a window bounds
  the requests let through.
- events: which records are lost, which are mailed twice, and that every record
  is passed in the end.

`PROJECT.json` lists the hazards with their lines, each with the properties
that cover it.

## Modules

### SessionStore

`rows` is the committed table, one potential row per creating request. A request is a
transaction: `Receive` (the route), then one action per SQL statement
(`CountActive`, `FindOldest`, `Insert`, `LookupById`, `RevokeRow`,
`MatchForRevokeAll`, `SweepRow`, `LookupForRotate`, `UpdateHash`...), then the
answer and, later, `Commit` or `Rollback`. Uncommitted writes are visible to
their transaction alone. `Held`, `Awaited`, `Blocked` and `Deadlocked` are
PostgreSQL's row locks, and `CancelDeadlock` its deadlock detector; they are
external to the code and marked so in the map. `revoke_all_by_user` is one
UPDATE over several rows: it takes its snapshot in `MatchForRevokeAll` and then
locks row after row in any order, re-evaluating the row it waited for.
`Expire` passes `expires_at` of a row. `Abort` is any failing statement.

`SessionLedger` keeps the sessions with one atomic operation per request. The
refinement maps `rows` to the ledger; each commit is a ledger operation or
changes nothing. It has no variable for the requests: what the code promises
about one request at a time is exactly what survives the late commit. `Gateway`
implements it too, from a start with sessions that are live; there a refresh that
comes to nothing wastes the token it generated (`Waste`).

### ApiKeys

Tables `app` and `key`, `cache[k]` with the ticks the entry has left, and one
request per worker. `verify_key` is `Hit`, or `Miss`, `ReadKey`, `ReadApp`,
`Fill`; `revoke_key` is `RevokeKey` (to its COMMIT) and `Invalidate` (the DEL).
A DEL or a SET may be lost, a process may die between any two steps, and `Tick`
ages the entries. The secret comparison is the Boolean `match`. A pair of keys
is two keys with separate lives, so issuing is modelled for one key. `gone[k]` is the
clock of `StaleIsBounded`: the ticks since the key was last in use (`InUse`).

### PasswordReset

One account. `hash` is the committed row of its credential and whether the
Argon2 parameters it was made with are outdated; `put[r]` is what the
transaction of `r` has written and holds the row lock. A login reads the hash,
may rehash, creates a session remotely and may mail a reset token; a reset
checks its token remotely, writes the hash, marks the token (an unused one; the
others stay as they are) and revokes the sessions remotely; then comes the commit.
The other services commit late too: a session is `"open"` until `CommitSession`, a
mark `"marked"` until `CommitMark`. The revoke-all is one UPDATE: `RevokeAll` takes its
snapshot, the sessions committed by then (`ending[r]`), `Sweep` waits until no other
transaction holds one of them and makes those that are still live `"closing"`, and
`CommitSweep` ends them, after the answer. Every remote call may be lost, before or
after it took effect where that matters.

### Accounts

A user is named by the request that registers it. `profile[u]` is `"open"`
until user-service commits its INSERT and `"closing"` until it commits its
DELETE. A SELECT finds the second and not the first, so a registration that comes
then is refused, or waits on the unique index and then on what the other one does.
`cred` is the committed credentials of auth-service with `put[r]` pending.
Sessions are those of `PasswordReset`: `"open"` until session-service commits the
INSERT, which it may also fail to do, so that a login is answered while its session
is not yet to be seen by a revoke-all; and `RevokeAll`, `Sweep` and `CommitSweep` for the
revoke-all itself. `CommitProfile`, `CommitSession` and `CommitSweep` are the late
commits of the other services (`Settle`).
`register`, `login`, `confirm_deletion` and `DELETE /users/{id}` are the
requests; `Abort` ends one at any point, and the call it was making may have
been carried out.

### BruteForce

`count[k]` for each address and each client IP, with `volatile` for the keys
that have a time to live. A login checks both counters in two round trips,
verifies, and then records a failure (one MULTI/EXEC) or reads and deletes the
count. Errors of Redis let the login pass, as in the code. Durations are
abstracted: a key that has a time to live may expire at any moment. `Tolerance`
is 3 in the code and 1 in the instance, so that four logins reach an IP limit.

### Profiles and EmailFlows

`Profiles` has the committed rows of `users` (`row`), the avatar files
(`files`) and one transaction per request (`put`, `tx`), which holds the row
lock and an entry of the unique index on addresses from its UPDATE or DELETE
to `Settle`. `PATCH /users/{id}`, the two avatar endpoints, `DELETE /users/{id}`
and the transaction of `confirm_deletion` are its requests. `Store` and `Unstore`
act on storage at once, before the row is written and whether or not the
transaction commits; `delete_avatar` removes one file, of any extension.

`EmailFlows` adds the clock in whole seconds, the two token tables (`link`), the
mail that was published, and `resend_verification`, `request_email_change`,
`verify_email` and `confirm_email_change`. A token is named by user, purpose
and second, because that is all its HMAC is made of. A link is followed only
after it was mailed, and from the mailbox it went to. `Check` and `MarkLink` are
the two calls in which a link is checked and confirmed; the UPDATE of the profile
(`ApplyLink`) is in the transaction of the mark, which other confirmations of the
same token wait for (`Marking`). `proven` is the history of links that took effect.

### TokenService, OriginRegistry and Gateway

`TokenService` has the access tokens by pair, with `exp` a whole second on a clock of
`PerSecond` ticks: `Decodes` compares in whole seconds and `Ttl` truncates, as
the code and python-jose do. `OriginRegistry` has the applications with their
`allowed_origins` as written, with or without a trailing slash, and the cached
resolution of a key, which only its expiry removes here.

`Gateway` takes a request through the middlewares in the order `main.py` builds:
`Count` (limit by address), `Preflight`, `VerifyKey`, `CountKey` (limit by key),
`VerifyToken`, then the route: `ConfirmPassword` for the destructive ones,
`Forward`, or the calls of logout (`EndSession`, `EndToken`) and refresh (`Validate`,
`Generate`, `CheckRotation`, `Swap`). A client sends any header it likes, so
`name[r]`, the header X-User-Id, starts as what came in. A bucket of a limiter is
the sorted set with its expiry (`window`), one for each address or application and
path: the key has no method in it, so what reads, changes and deletes one user shares a
bucket (`Resource`, `PathOf`). The stamp of a request is taken before
the round trip that counts it, and a round trip that fails lets the request pass, whether or
not Redis has carried it out (`Budget`). `CheckOrigins` and `WriteApplication` are the
two halves of creating and updating an application by an administrator.
`session` and `open` are the part of session-service that refresh and logout
reach; `SessionStore` has the whole. `held` and `ledger` are histories: which
credentials of a request were good at some moment since it came, and which
stamps a bucket accepted.

### EventDelivery

auth-service publishes the events of a request one by one (`Publish`), then commits;
its producer may repeat a record, give up on one that is in the log, or be absent
for a whole life of the process (`linked`). The consumer of email-service has a
position and the group's committed offsets; `Take` hands a record to its handler,
`Send` is the mail, `Finish` or `GiveUp` the end of the handler. `AutoCommit`
commits the position whatever the handler is doing. `Cancel` is the shutdown,
`Kill` a crash, `Rejoin` a rebalance and `Break` an error of the broker where the
loop waits for a record.

## Runs

| Run | Configuration | Distinct states | Shows |
| --- | --- | --- | --- |
| `sessions` | 4 requests, 2 users, limit 1, 1 failure, 1 expiry at a time | 257,000 | invariants, refinement and termination of session-service |
| `single_use_refresh` | as above, safety only | stops at the violation | two rotations of one token both succeed |
| `api_keys` | 2 keys of one application, 2 workers, TTL 2 | 86,000 | staleness of the cache |
| `suspended_key` | the same | violation | a suspended application's key is accepted from the cache |
| `password_reset` | 3 requests, 3 passwords, 2 failures | 287,000 | who survives a reset |
| `rehash_keeps_password` | the same | violation | a rehash undoes a reset |
| `accounts` | 4 requests on one address, 1 failure | 294,000 | uniqueness, agreement of the rows, deletion |
| `register_rollback` | the same | violation | the roll-back of a registration does nothing |
| `brute_force` | 4 logins, 2 addresses, 2 IPs, limit 2, 1 failure | 384,000 | overshoot, alerts and end of a lockout |
| `email_flows` | 4 plans of up to 4 requests, 2 users, 4 addresses, 2 formats, 2 seconds, 1 failure | 113,000 | addresses and their proof, one-time links, avatars, termination |
| `gateway` | 6 plans of up to 3 requests, 2 users, 2 applications, 4 pairs, window of 2 ticks | 607,000 | identity, budgets, origins, logout, refinement |
| `event_delivery` | 4 loads of 2 requests, 2 records a topic, 1 fault, 2 interruptions | 632,000 | losses, repetitions and progress of events |

The four violations are disagreements between the code and what its
documentation says; `PROJECT.json` quotes both sides. Its other findings have no
run of their own: the models show what the code does, and the exceptions of the
passing properties below say where that is not what the text says.

What the passing properties say, and why their exceptions are there:

- `DeviceLimit` bounds the active sessions by the limit plus the overlapping
  creations, since the count, the eviction and the INSERT are not atomic, plus the
  rotations that revive a session which expired after they checked it. The
  off-by-one mutation breaks it.
- `SweepComplete`, `RotatedTokenRefused`, `EndedByOwner`: stated about commits,
  not answers, since that is when the effect exists.
- `RevokedKeyDies` has the two exceptions the code leaves open (a lost DEL, a fill
  that overtakes it) and `StaleIsBounded` bounds those as well: an entry is
  served for at most TTL ticks after the key became unusable and the last
  verification that saw it usable ended. The clock of the second property
  stands while such a verification is in progress, because the entry's
  lifetime starts at its fill.
- `SurvivorsOverlap`: after a committed reset whose sweep succeeded (its failure is ignored by the
  code, and then all sessions survive), a live session
  opened with the old password belongs to a login that was in progress at
  the sweep, or read the row between the sweep and the commit. No weaker exception passes.
- `StaleRehashOnly` and `RehashKeepsPassword` are the two halves of one statement:
  the first (passes) says only a reset that overtook the login can be undone, the second
  (violated) that nothing can.
- `UsedTokenRefused` holds for resets that do not overlap, while no call was lost.
- `RowsAgree`: once nothing is under way and while no call failed, a user has a
  credential exactly when it has a profile, or `DELETE /users/{id}` has removed the
  profile and nothing else (`LeftBehind`). The sessions that route leaves live are no part of
  this property; they are a finding.
- `DeletedMeansOut`: after a deletion in which no call failed, a live session of the
  user belongs to a login or registration that overlapped with it: past its look-up of
  the profile and its session not committed at the sweep, even if it was answered
  (`InProgress`), or not yet begun at the sweep and finding the profile before its DELETE
  committed. Without either exception it fails.
- `LockoutSlack`: a counter overshoots its limit by at most the logins that
  were past the check together. `NearLockoutSeen`: a login that erases a count near
  the limit alerts, unless a failure came between its read and its DEL.
- `AvatarAgrees`: the file in storage is the one the row names, and a deleted account
  has none, once the requests on the account are over, if none failed, no two
  overlapped and all uploads had one format. Each condition is needed: an upload in
  another format leaves the old file, since `delete_avatar` stops at the first
  file it removes.
- `VerifiedMeansProven`: an account that is verified followed a link mailed to the
  address it has now. The exceptions are a PATCH, which sets address and flag
  (`PatchedUser`), and two e-mail changes within one second, whose links are one
  token (`Twin`): the second INSERT fails on the unique hash, and the link
  mailed to the second address applies the first.
- `LinkTakesEffectOnce` excepts overlapping requests, because a link is checked and
  marked in two calls and the mark does not check again. `UsedMeansApplied`: a link
  marked as used has had its effect, so one that was refused can be followed again.
- `EmptySuccess` says when auth-service answers success to a confirmation that had no
  effect, which it can because it does not look at the status: while no call failed,
  only when another request has removed the account or taken the address.
- `IdentityProven`: whatever API key and headers come with a request, and
  whatever is revoked, expires or changes while it is on its way, a service acts for a
  user only if a token of that user, and on a destructive route that user's password,
  was good at some moment since the request came.
- `BudgetHolds`: no window holds more stamps of requests that an answer of Redis let
  pass than the limit. Requests that pass because Redis failed are counted by nobody
  but may have filled the window. Equal stamps are one member of the set, and one here. The exception,
  `ledger.late`, is a bucket that counted a stamp after a higher one, or after the
  key had expired: stamps are taken before the round trip while EXPIRE counts from
  its execution, so a delayed request is counted in a window that is already
  past, or finds the set of its window gone.
- `OneOwner`: two active applications list one origin only if their writes overlapped
  or one of them has been suspended, since suspended applications are left out
  of the look-up and are not looked at again when they are resumed.
- `ImplementsLedger`: seen at its commits, session-service is a ledger of sessions (`SessionLedger`)
  in which a session that ended stays ended and no refresh token is written twice.
  `SessionStore` says it of every operation, `Gateway` of the part that refresh and
  logout reach, so what is left out of `Gateway`'s sessions is not what keeps that promise.
- `SignedOut`: after a logout that failed nowhere and met no refresh, the session is
  revoked, its refresh token is useless, and the access token is refused but for the
  last seconds of its life: the truncated time to live of the blacklist entry and the
  comparison in whole seconds leave it accepted there. A refresh that met a logout itself is
  excepted: auth-service answers 200 with the new pair whatever status the rotation
  got, so of two logouts around one refresh the later one finds that refresh
  answered with success, with a pair that no session has. A preflight of `/logout` or `/refresh` is
  neither. The proof asked for both conditions; the plan `Overtaken` has the cases.
- `DeliveryExplained`: a record that was handed out was handled to its end, is in
  hand, or was cut off, at most one by each interruption; a second mail only for a
  record that an interruption gave back, and no more mails for it than one and one for each
  interruption; and while nothing failed, each event of a committed request is in the
  log once. A shutdown cuts the handler off and then commits its offset, and the timer commits the offset of a record in hand, so "not lost" and
  "processed once" (`subscriber.py`) hold only as far as this says.
- `EveryRecordPassed`: the group passes every record of a topic with a handler, and
  no record is stuck, whatever interrupts the consumer.
- `EveryRequestEnds` (four modules), `LockoutEnds`: waiting for locks, index
  entries, tokens and other transactions comes to an end.

Bounds. Every counterexample of these models needs two or three overlapping
requests, and every history variable relates a pair of requests; three or four
requests of which one or two may fail give each request an adversary at each
step plus one that came before. `MaxLost`, `MaxFaults` and `failures` bound failures
and are named in each module. The TTL of two ticks has an aged and a fresh entry.
`EmailFlows`, `Gateway` and `EventDelivery` have too many endpoints to combine
all of them at once: a constant lists which calls each request may be (`Plans`,
`Loads`), every behaviour picks one entry, and the entries pair the endpoints that write
the same state:

- `EmailFlows`: `Avatars` (uploads, a reset and a deletion of one account), `Verification`
  (one link followed twice, a new link, a PATCH or deletion), `Changes` (two changes of one
  account and links of both), `Contest` (two accounts want one address). Two
  seconds make tokens of one second and of two.
- `Gateway`: `SignOut` (logout, refresh and the tokens of both, over the whole life of
  a token in half seconds), `Overtaken` (two logouts of one session around a refresh, with
  preflights of both routes), `Owner` (destructive requests against logout and a new password, and
  all the ways to a service without a token), `Budgets` (one more request than a window
  takes, by address and by key, over two windows), `Methods` (a read, a change and a deletion of
  one user, which share a window that takes one, with a Redis that may fail), `Registry` (two administrators and preflights).
- `EventDelivery`: each topic with a handler and both without are published to; a route that
  publishes three events, and two that publish to one topic. Two interruptions give a record back and
  interrupt its second delivery; two records a topic have one before and one
  after an offset.

The sets are not declared symmetric where liveness is checked, since TLC's symmetry reduction is unsound there.

Deadlock checking is off where requests are finite in number and the system
stops when all have ended (`SessionStore`, `PasswordReset`, `Accounts`,
`BruteForce`, `EmailFlows`, `Gateway`, `EventDelivery`); the liveness properties say
that they do end. `ApiKeys` never stops and is checked for deadlock.

Fairness. A request that can take its next step takes it: uvicorn schedules the
coroutine, HTTP clients have timeouts and PostgreSQL answers, fails, or
cancels a deadlocked transaction, so `Proceed` is weakly fair per request. The
same holds for the commits in remote services (`Settle`, and `SettleToken` in `EmailFlows`). Failures, expiry of
tokens and new requests are not fair. In `BruteForce` only the expiry of a Redis key is fair, which is what
Redis promises for a key with a time to live. In `EventDelivery` the tasks of the event loop are fair
(`Join`, `TakeAny`, `Send`, `Finish`, `Close`), so is the commit timer (`AutoCommit`), and so is
`Boot`, because compose restarts the container (`restart: unless-stopped`) and the lifespan
starts the listener. Nothing is asked of the order in which topics are taken, nor of
auth-service. `Gateway` has no liveness property and no fairness.

## Proofs

TLC checks the small instances above; the theorems hold for every value of the
constants that meets the module's named assumptions. Each proof module states an
inductive invariant `IInv`, proves one lemma per action (grouped where actions change the
same variables) and derives the theorems from it. What is assumed of constants is what the
code's configuration guarantees (a positive limit, window, time to live or number of
ticks, a password for every user, no application named like an address) and that `None` and `Absent`,
which stand for a missing value, are none of the values they stand beside.

`SessionStoreProofs`, for any sets of requests, users and any limit:

- `TypeCorrect`, `SweepsComplete`, `EndedOnlyByOwner`: `TypeOK`, `SweepComplete` and
  `EndedByOwner` of the run `sessions`;
- `HashesUnique`: no two rows ever hold one token hash, so the unique index is never what
  stops a request. The run has no property of its own for it: `ImplementsLedger` fails as
  soon as a commit writes a token a second time;
- `RotationInvalidates` (`RotatedTokenRefused`) and `LimitHeld` (`DeviceLimit`, for finitely
  many requests);
- `Refinement`: the specification implements `SessionLedger`.

The properties are not
inductive by themselves: that a sweep is complete depends on the sweep holding
the lock of every row it has visited; that a lock has one holder depends
on which step each request is at and which rows it has chosen; hash uniqueness
depends on hashes being named by the request that generated them and on a
rotation having locked the row it updates. `IInv` collects the types, the
record of each call, the ownership of rows, the exclusivity of locks and the
progress of sweeps, and the
refinement maps each commit to the ledger operation of its request.

Two more invariants are proved on top of it. `SpentInv`: the token a rotation presents had been
written by a committed request, so nothing writes it again (`HashGone`); from the check on at most the
session that was found answers to it, from the UPDATE on only rows the rotation holds, and
after its commit none. `LimitInv` counts the active sessions of a user and the
creations under way (`Total`): a creation that counts alone finds the limit reached and will end a
session, or adds one below the limit; one that counts beside another is recorded in `slack`, as is a
rotation that revives an expired session. Hence `Total` is at most the limit plus the slack, or
one more while some creation is about to end an active session (`Evicting`); since that creation is
itself in `Total`, the sessions alone stay within.

`ApiKeysProofs`, for any workers, applications, keys and TTL: `TypeCorrect`;
`StaleBound` (`StaleIsBounded` always holds); `RevocationEvicts` (`RevokedKeyDies`
always holds). `StaleIsBounded` is not inductive: that a fill starts a full lifetime is harmless
only because the clock of a key whose verification may still fill has not
started (`GoneZero`), and that in turn because a key, or a verification that has read
one, always has its application (`HasApp`) and because a pending INSERT is the only
one for its key (`IssuesNew`). `RevokedKeyDies` is inductive relative to the types.

`PasswordResetProofs`, for any requests, passwords and number of losses: `TypeCorrect`,
`Survivors` (`SurvivorsOverlap`), `RehashIsStale` (`StaleRehashOnly`) and `SingleUse`
(`UsedTokenRefused`). Who survives a reset is decided at its sweep and settled at its
commit, so `Overlaps` follows every login that has or may still get a session from one to
the other; `Holds` says that a sweep holds the sessions it has taken alone until it
commits, which is why a session that was matched is ended or still to be ended;
`RehashFollows` says that a rehash under way writes the password of the row unless a
committed reset overtook it; `Marked` that, while nothing was lost, a reset past its
confirmation has its token marked; `Steps`, `Writes` and `OlderBegan` tie steps to calls,
pending writes and histories.

`AccountsProofs`, for any requests on any addresses: `TypeCorrect`, `Unique` (`EmailUnique`),
`Agreement` (`RowsAgree`) and `Disconnected` (`DeletedMeansOut`). Uniqueness holds whatever
fails. The other two need, while nothing was lost, what each open transaction holds
(`Pending`), which credentials (`Credentials`) and which state of a profile (`Profiles`) follow
from the requests so far, and that whoever may still get a session of a user whose deletion has
swept, or has one that is not among those it matched, is in its `during` (`Overlaps`). A session is followed from its
INSERT to its commit there: one that a revoke-all could not match because it was not committed
is one of a login that was in progress then.

`BruteForceProofs`, for any finite set of logins, any addresses and any limits: `TypeCorrect`,
`Overshoot` (`LockoutSlack`) and `AlertsNearLockout` (`NearLockoutSeen`). A bound on the
counter alone is not inductive, because the logins already inside will add to it:
`Slack` bounds the counter plus the logins inside by the limit plus the recorded group.
A step either lets nobody in (`SlackKept`), turns one login inside into one failure
counted (`SlackCounted`), or lets one in while the counter is below its limit
(`SlackEntered`); these are arguments about cardinalities, hence the assumption that
the logins are finite in number. `AllSeen` relates the count a login has read to the count
that stands when it deletes it.

`EmailFlowsProofs`, for any users, requests, plans, failures and length of the clock: `TypeCorrect`,
`Ownership` (`VerifiedMeansProven`), `SingleUse` (`LinkTakesEffectOnce`), `MarkAndEffect`
(`UsedMeansApplied`), `SuccessIsCaused` (`EmptySuccess`) and `PicturesAgree` (`AvatarAgrees`, for
finitely many formats). `Steps`, `Locks`, `Overlaps` and `Written` say where each request is, that no
two write one row, and that an uncommitted write is the row that is still committed with one change:
this is what makes a late commit harmless. `Ownership` goes by where addresses come from: a change
link was made for the address it moves to (`Sent`), a verification mail goes to an address that is
proven or was registered with (`Origins`). `SingleUse` needs that a link is marked as soon as a
transaction that followed it is committed (`Used`) and that a request that did not meet that
one finds the mark at its check (`Once`). `SuccessIsCaused` rests on why a row or an address has gone
while nothing failed (`Causes`), and `PicturesAgree` on what storage holds at every step of the
only request at work on an account (`Midway`).

`GatewayProofs`, for any requests, users, applications, plans, limits, window and life of tokens:
`TypeCorrect`, `ActsForOwner` (`IdentityProven`), `WithinLimit` (`BudgetHolds`),
`OriginOwned` (`OneOwner`), `SignsOut` (`SignedOut`) and `SessionsRefined`
(`ImplementsLedger`). `IInv` has six parts. `Numbered`: pairs are issued in order, so a new one
overwrites none. `Types` and `Routing`: which route goes through which step, and what it has by
then. `Identity`: what a request past the JWT has proven (`Admitted`) stays proven until a service has acted on it
(`Proven`); the token and the password are read from histories, because both may be
bad by the time of the call. `Budgeting`: the stamps a bucket has accepted are still in its
sorted set or too old to matter, hence those of one window are counted by it. `Owning`: two
administrators who are at work together have met, so an origin that became taken after the
look-up was taken by a rival.

`SignsOut` needs a second invariant, `SInv`, inductive relative to `IInv`. `Tracking` ties what a
request has to its step: a pair it received, the credentials it came with, an answer.
`Hashing`: an uncommitted row is that of a logout, or of a refresh that is done and whose
pair it holds, and two sessions never have one token. `Meeting`: writers under way together have
met. A token is `Settled` when nobody is left who could write it in a session;
settled tokens stay so (`SettledStays`), hence a session can lose one and never get it back.
`LogoutDone` and `RefreshGoesOn` say what a logout and a refresh that did not meet know of the
session at each of their steps. `Listed`, that the access token is on the blacklist for what is
left of its life but for less than a second, rests on two facts about division
(`Quotients`, `Products`).

`SessionsRefined` takes as the spent tokens of the ledger those that are `Settled`. A commit is then a
`Roll` when a refresh wrote the row, an `End` when a logout did, and a `Waste` when a
refresh failed at its commit (`CommitIsServiceStep`); of the other steps one that ends a refresh is
a `Waste` of the pair it got, because only the request that moves can settle a token
(`SpentStep`); all others leave the ledger alone.

`EventDeliveryProofs`, for any requests, loads and bounds: `TypeCorrect` and `Delivery`
(`DeliveryExplained`). `IInv` says what became of each record handed out (`Accounted`), that each interruption
drops at most the one in hand (`FewDropped`), that a record which was not given back is
handed out and mailed once (`MailedOnce`), that an interruption is paid for with one mail at most
(`FewMails`: a record to be handed out again has at most one mail for each, the one its handler
still has to send included), and that while nothing failed the log has the
events published so far once and no others (`InStep`).

Only model-checked are the properties under fairness, `EveryRequestEnds` (four modules),
`LockoutEnds` and `EveryRecordPassed`: the prover does not treat liveness. Every other property
of a passing run is stated by a theorem.

## Findings without a run

Beside the four violations, `PROJECT.json` lists disagreements between the code and
its text that the models take over as they are:

- a refused rotation is answered with 200 and the new pair (`auth_service.py:800`; the exception of
  `SignedOut` for a refresh that met a logout);
- a blacklist entry is gone in the last second of a token, and none is made then
  (`token_service.py:109`; the exception of `SignedOut`);
- an origin stored with a trailing slash is never resolved at a preflight and
  conflicts with no other (`application_service.py:283`; `Resolves`, `Available`);
- a record can be lost or mailed twice (`subscriber.py:132`), and an event that cannot be sent
  is dropped, as is every event when the broker was away as auth-service started
  (`publisher.py:102`; `DeliveryExplained`);
- a reset whose revocation of the sessions fails answers success and leaves them live
  (`auth_service.py:770`; the exception of `SurvivorsOverlap`);
- `DELETE /users/{id}` ends no session and leaves the credential (`user_service.py:83`;
  `LeftBehind`);
- two links made in one second are one token (`verification.py:53`; `Twin`), an older link
  undoes a newer change (`user_service.py:570`), success is answered to a refused change
  (`auth_service.py:1707`; `EmptySuccess`), PATCH replaces the address without a link
  (`user_service.py:80`; `PatchedUser`);
- a picture in another format stays in public storage (`storage/service.py:85`; `AvatarAgrees`);
- two mails carry links to routes that only answer POST (`email_service.py:235`).

## Not modelled

- Cryptography: tokens, hashes and secrets are names, and signatures hold.
- Request validation and formatting beyond what a guard reads, the wording of answers, logging,
  metrics, tracing, alembic migrations, e-mail templates, scripts and deployment files: they hold
  no state that a property is about.
- gateway: the CORS header on answers to actual requests and the security headers;
  a browser, not the service, acts on them. The routes of administrators are not proxied:
  they call application-service with the internal key.
- user-service: user names, which are checked and indexed as addresses are, and `list_users`,
  which no route calls.
- email-service: its HTTP routes, which nothing calls, and the lookup of an IP's location with
  its cache, which only words a mail.
- A COMMIT that takes effect although its answer is lost: the models let a commit
  succeed or fail. PostgreSQL, Redis and the broker do not lose what they acknowledged.
- Replication: each service has one process where its own memory matters (auth-service's producer,
  email-service's consumer); requests of several processes interleave as requests of one do.

## Plan

What a next step could add:

1. Several consumers of one group in `EventDelivery`, with the partitions of a topic.
2. An abstract specification of delivery (published, handled, mailed) that `EventDelivery`
   implements, as `SessionLedger` is for sessions.
