# A verification project for TheEyeBetaDataAPI

TheEyeBetaDataAPI is a FastAPI gateway in front of PostgreSQL: it authenticates
services and people, hands out and rotates tokens, limits rates, and serves
market data and an admin surface. gunicorn runs two worker processes; in each,
endpoints and dependencies written as plain functions run in a thread pool and
middleware runs on the event loop. Every database session runs at READ
COMMITTED. What is hard about the program is what those threads, processes,
operators and transactions do to each other; that is what the modules here are
about.

## 1. Inventory

| Component (source) | State it keeps | Operations | What makes it correct |
|---|---|---|---|
| Refresh tokens (`app/repositories/sql_refresh_tokens.py`, `app/services/auth_token_service.py`, `app/api/routes/auth.py`) | rows of `iam.refresh_tokens`, linked into families by `replaced_by` | issue, look up, rotate, revoke a family, revoke a client's tokens | a token is rotated once; a family has at most one active token; scopes never grow; a committed revocation left nothing it selected active |
| Service-client registry (`app/auth/service_clients.py`, `deploy/iam_api_key_schema.sql`) | clients, scopes, bcrypt secrets, event log | load a client (database, environment, hybrid), check a secret, provision, rotate, disable | a client disabled in the database is not let in; in hybrid mode it still is where the environment knows it too |
| Accounts and personal API keys (`app/services/account_service.py`, `app/auth/user_api_keys.py`, `deploy/iam_user_api_key_schema.sql`, `scripts/`) | users, their keys, an event log | create, deactivate (a trigger revokes the keys), issue, provision, check, backfill expiry | an inactive user has no enabled key, whatever runs together; a revoked key stays revoked, also when the user returns |
| Per-subject rate limit (`app/core/subject_rate_limit.py`) | a deque of times per subject, in each worker | one check per request, in the thread pool | at most `max_requests` per subject and window |
| Per-IP rate limit (`app/core/rate_limit.py`) | deques per address; a Redis counter per window; the time of the last Redis failure | one check per request, on the event loop; fallback and reconnection | no address exceeds its limit while one backend serves; a Redis failure never refuses a request |
| Policy (`app/policy/repository.py`, `app/auth/dependencies.py`) | tenants, memberships, entitlements, policy versions, locks, revocations (owned by another service) | grant a delegated token; enforce at every request | a principal that lost its entitlement is refused at its next request; a database error refuses |
| Access tokens and secret rotation (`app/auth/tokens.py`, `app/core/config.py`, `scripts/rotate_secrets.py`) | current and previous signing secrets in `.env` and in each worker's memory | sign, verify against both, rotate, restart, clear | an unexpired token stays valid across one rotation |
| Deploy and watchdog (`scripts/deploy.sh`, `scripts/watchdog_all.sh`) | checkout, virtualenv, running service | sync, install, restart, health check, roll back | a failed deploy ends on the previous version; two runs do not undo each other |
| Admin gateway (`app/api/routes/admin_gateway.py`) | none; the admin service keeps idempotency keys | forward an allowed route; 504 when the outcome is unknown | a retried command is applied once |
| Admin dashboard (`app/services/admin_service.py`, `app/repositories/sql_market_data.py`) | one session per request | six sections in turn, each swallowing its failure | a failing section does not spoil the others |
| Market-data, macro, fixed-income and table reads (`app/services/`, `app/repositories/`) | one session per request; the tables belong to the ingestion jobs | one to five SELECTs per request, each at READ COMMITTED | what a limit cuts off; which instrument a symbol names; answers put together from several statements agree with each other; table access stays within the caller's rights |
| Advisor, signals, portfolio, health (`app/services/`) | one session per request, kept while OpenAI answers | the same repository; a chat with its fallbacks | every branch answers; a portfolio's owner is the caller |
| Middleware, errors, pages, schemas, reference data | none | headers, request ids, error mapping, rendering | mapping only |

How they interact: a route's dependencies run the per-IP limiter (middleware),
authentication (access tokens, or a personal key from the accounts' tables), the
scope check, the policy and the per-subject limiter, in this order, and only then
the handler. The token routes load a client from the registry and carry that
snapshot to the end of the request. All of them share PostgreSQL and nothing
else, except the limiters, which share a worker's memory.

`PROJECT.json` lists every component with its status, and every hazard at the
line where it bites, with the properties that cover it or the reason none does
yet.

## 2. Plan

In this order, the most important behaviour first:

1. **Refresh tokens** (done): `TokenFamilies` (abstract) and `RefreshTokens`
   (detailed), their proofs, the refinement and its proof.
2. **Accounts and personal keys** (done): `Accounts` (abstract) and `UserApiKeys`
   (detailed), with the deactivation trigger, key issuing and the backfill as
   interleaved transactions; their proofs and the refinement.
3. **Rate limits** (done): `SubjectRateLimit` (threads and worker processes) and
   `IpRateLimit` (Redis window, fallback, reconnection), composed in
   `RequestLimits`; what each of them really keeps, alone and together, proved.
4. **Policy** (done): `PolicyGate`, grants at issue against enforcement at each
   request while operators change memberships, locks, policy versions and the
   client's registration, in the registry's three modes; proved.
5. **Reads** (done): `MarketDataRepository` and one module per family of
   services over `ReadRequests`, composed in `Reads`; every property of an answer,
   proved.
6. **Secrets and operations** (dropped, section 6): secret rotation, deploy and
   watchdog, the admin gateway.

## 3. Modules

| Module | Role |
|---|---|
| `TokenFamilies` | abstract: tokens are minted, exchanged for an heir, revoked, each atomically |
| `RefreshTokens` | the two token endpoints and their table, one action per SQL statement |
| `MCRefreshTokens` | values, symmetry and the in-order variants for TLC |
| `TokenFamiliesProofs` | families are chains, proved |
| `RefreshTokensProofs` | inductive invariant of `RefreshTokens` and what follows from it; that it implements `TokenFamilies`; the history of the table; what holds of whole families; why its requests end |
| `Accounts` | abstract: accounts open and close, keys are issued and die, each atomically |
| `UserApiKeys` | creating, deleting, issuing, provisioning, checking and backfilling, one action per SQL statement |
| `MCUserApiKeys` | symmetry and the in-order variant for TLC |
| `AccountsProofs` | only an active account has a live key, proved |
| `UserApiKeysProofs` | inductive invariant of `UserApiKeys`, what follows from it, that it implements `Accounts`, and why its operations end |
| `WorkerProcesses` | what the two limiters share: requests, worker processes and time |
| `SubjectRateLimit` | the per-subject limiter, one action per operation on the shared deque |
| `SubjectRateLimitProofs` | how far a deque can exceed its limit, when it cannot, and that a refusal has a reason, proved |
| `IpRateLimit` | the per-address middleware, with Redis and without |
| `RequestLimits` | both limiters on a request's way: the middleware, then the endpoint's dependency, over one clock and one process life; each is said to work as it does alone |
| `RequestLimitsProofs` | inductive invariant of `IpRateLimit` and what follows from it; that the two limiters together keep what each keeps alone |
| `MCRequestLimits` | values and symmetry for TLC; both limiters, or one at a time with room for more requests |
| `PolicyGate` | delegating, and being let in, one SELECT at a time, while the policy changes |
| `MCPolicyGate` | values and symmetry for TLC |
| `PolicyGateProofs` | inductive invariant of `PolicyGate` and what follows from it |
| `ReadRequests` | what every read shares: a session's statements, others' commits between them, failures, ORDER BY and LIMIT |
| `MarketDataRepository` | each SELECT of the market-data repository, as the set of results it may return |
| `MarketDataService` | the market, analytics, reference, sector and universe use-cases |
| `MacroReads`, `FixedIncomeReads`, `AdvisorReads` | the macro, fixed-income, and signals, portfolio, advisor, health and admin use-cases |
| `AdminDashboard` | seven statements of one session that each swallow their failure |
| `DataTables` | the generic table API: who may read what, and how a statement is built |
| `Reads` | composition of the reads and what their answers promise |
| `MCReads` | the requests and contents TLC tries |
| `ReadsProofs` | what answers promise, family by family, proved |

### RefreshTokens and the code

Each request runs in a thread with a session of its own, so an action is one SQL
statement with the Python up to the next one. PostgreSQL's part is what the
statements rely on: a statement reads what was committed when it started; `FOR
UPDATE` and `UPDATE` wait for a row another transaction holds and then look at it
again; a commit shows what was written and releases the rows.

| Variable | In the code |
|---|---|
| `registry` | `iam.service_clients` with its scopes: active, short-lived tokens enabled, scopes |
| `table` | committed rows of `iam.refresh_tokens`; a row's number stands for its id and its hash |
| `pc[r]` | the statement request `r` executed last, or how it was answered |
| `caller`, `presented`, `client` | the Basic credentials, the row of the token in the body, the `ServiceClient` loaded at the start |
| `reason`, `scan`, `todo` | why `r` revokes; the snapshot of its `UPDATE`; the rows the `UPDATE` has still to visit |
| `held` | row locks of `r`'s open transaction |

`LoadClient` and `VerifySecret` are `get_service_client` and
`verify_service_client_secret`; `IssueServiceToken` is the service-token route
after them; `LookupActive` is `lookup_active` with the checks of
`AuthTokenService.refresh`; `LockPresented` and `CommitRotation` are `rotate`;
`BeginRevocation`, `VisitRow` and `CommitRevocation` are the two revoking
`UPDATE`s, which are not atomic: the rows are chosen from a snapshot and locked
one after the other. `Fail` is any database error or dead worker, at any point;
`Expire` and `Reregister` are the clock and the operators.

What is abstracted: raw tokens, hashes, uuids, dates (a row is expired or not),
wording and logging, the event rows of `verify_service_client_secret`, and the
access token itself, whose scopes are those of the row. `INSERT` and `UPDATE` of
a rotation are one step because neither is visible before the commit that follows
and no other request can change what they write; losing both is `Fail`. That the
`UPDATE` skips a row that was revoked while it waited is not a case of its own:
revoking it again changes nothing a property can see. The registry is read in
database mode.

### UserApiKeys and the code

The same reading of PostgreSQL, over `iam.users` and `iam.user_api_keys` and all
the transactions that touch them. Besides row locks on keys there are three
strengths of lock on a user's row, and the model tells them apart because the
code depends on it: `INSERT`, `UPDATE` and upsert exclude each other;
`SELECT ... FOR UPDATE` in `issue_user_api_key` excludes those and also an event
that refers to the user; an event (foreign key) only shuts out `FOR UPDATE`.

| Variable | In the code |
|---|---|
| `users` | committed rows of `iam.users`: absent, active, inactive |
| `keys` | committed rows of `iam.user_api_keys`: owner, enabled (`is_active` and no `revoked_at`, which are written together), who wrote `expires_at`, whether it passed |
| `op[r]`, `user[r]`, `key[r]` | what request `r` asks for, of whom, with which key; in a backfill `key[r]` is the loop's row |
| `pc[r]` | the statement `r` executed last, or how it ended |
| `todo[r]`, `held[r]`, `logged[r]` | keys its `UPDATE`s have still to visit, keys its transaction has locked, keys it has inserted an event for |
| `deadOnArrival[r]` | history: the key of a check was unusable when the request arrived |

| Operation | Actions |
|---|---|
| `AccountService.create_account` | `InsertUser` (waits on the unique e-mail), `CommitCreate` |
| `AccountService.delete_account` and the trigger `revoke_user_keys_on_disable` | `Deactivate`, `RevokeRow` for each key, `CommitDeactivation` |
| `iam.issue_user_api_key` | `LockUser`, `InsertKey` |
| `iam.provision_user_api_key`, `provision_user_api_key.py` | `Upsert`, then `LockUser`, `InsertKey` in the same transaction |
| `verify_user_api_key` | `ReadKey`, then `RecordUse` or `LogRejection` |
| `backfill_user_api_key_expiry.py` | `ReadCandidates`, `UpdateExpiry` and `LogUpdate` for each key, `CommitBackfill` |
| a database error, a dead worker, a deadlock's victim | `Fail`, `DetectDeadlock` |
| the runbook's manual revocation, the clock | `RevokeByHand`, `Expire` |

What is abstracted: secrets, prefixes and hashes (a key's row number stands for
them, and a retry of a colliding prefix is invisible), scopes, names and plans,
`last_used_*`, and the event rows except for the lock they take. `refused` covers
a wrong or missing approval code, "no active account", a conflict and what the SQL
functions raise: nothing is written in any of them. Writes are kept in `held` and
`pc` until the commit shows them, as no other transaction can change what they
touch. Several keys are visited in any order, because no statement fixes one.

### The rate limits and the code

`_make_rate_limiter`'s dependency is a plain function, so it runs in a worker's
thread pool and its threads share the deques. CPython switches threads between
bytecodes, and each of `while bucket`, `bucket[0]`, `popleft`, `len` and
`append` is one operation: `CheckEmpty`, `LookAtOldest`, `PopOldest`, `Count`,
`AppendNow`. Taking the time and the deque (`Enter`) is one action because
nothing of it is shared. A deque holds the requests whose times it stores
(`stamp`); `present` and `Restart` tell requests of a process that still runs
from those of one that was replaced.

The per-address middleware runs on the event loop and awaits nothing before it
has decided, so a `Dispatch` is one action: reconnect if due (`AfterReconnect`),
then count in Redis (`CountInRedis`), fail there (`RedisFails`: before `INCR`,
between `INCR` and `EXPIRE`, or after both), or count in memory
(`CountInMemory`). `connection` is the client, or the time of its last failure;
`counts` is what Redis holds, with the time a key expires (`Forever` without
`EXPIRE`); `hits` are the deques, as sets: their times are in order because time
does not run backwards, so which requests are old enough to be dropped does not
depend on how they are stored. The cleanup every 500 requests drops empty
deques, which an access creates again: it is left out.

`RequestLimits` puts them in the order of the code: `Arrive` is the middleware's
decision, `CallNext` its `call_next` up to the dependency, `RunThread` the
dependency's own steps, `PassTime` and `ReplaceWorker` the clock and gunicorn. A
request that was passed may come to an endpoint without a limit, or be rejected
before it, and then takes no further step.

### PolicyGate and the code

| Variable | In the code |
|---|---|
| `tenantOf`, `members`, `entitled` | the joins of `grant_lens_delegation` and `enforce`: the tenant of the client's active application, active members, versions that are active, effective and entitle a tenant |
| `locks`, `revoked` | `dataapi_locks` and `dataapi_credential_revocations` in force |
| `registered`, `mode` | the client's row, and `service_client_auth_mode` |
| `op`, `subject`, `presents`, `needs` | what is asked: delegate, or a protected route with a delegated token, a service token or a certificate; for whom, with which token, for which scope |
| `scopes`, `grant` | the scopes it goes by; tenant and policy version it was granted |
| `blocked` | history: why it should be rejected, as long as that was so ever since it arrived |

`LoadClient` is `get_service_client` in its three modes; `GrantNewest` and
`CheckEntitlement` the two entitlement statements; `CheckLocks` and
`CheckRevocation` `_assert_not_locked`; `Reject` a check that fails or a
database error (fail closed). Between any two of them `ChangePolicy` may
withdraw or restore anything, and `Expire` ends a token's life. Enforcement is
on, as the settings demand in production. Personal keys and plain users' tokens
meet no policy and are not in the model.

### The reads and the code

A read keeps no state, but it is not one statement: `step` is the statement a
request comes to next, `held` what the ones before returned, `db` the tables as
committed now. `OthersCommit` replaces `db` between two statements by other
contents (a job, a migration, an operator); `StatementFails` is the
`DatabaseUnavailableError` every repository method raises. Each SELECT is an
operator that yields every result PostgreSQL may return: ties at a LIMIT go
either way, `.first()` without an ORDER BY takes any row. NULL sorts first in
`DESC` unless the statement says otherwise, and the statements differ in that.

Of a row only what selects, orders or limits it is kept, with a value where one
is computed (adjusted prices, totals, ranks, changes, fallbacks). Copying some
forty column lists into response schemas is left out, so are formatting and
logging. Texts are a handful of values with their case, length, prefix and
containment given as relations. Days are 1..3, a timestamp is the half of a day.
Prices are floats, in a unit of which all floats are multiples, and the quotient
and product that `_adjust_price_day` rounds are constants, as the floats are:
`RoundingAssumption` says what of IEEE 754 is used. TLC has floats of four
significant bits, rounded to the nearest with ties to even, and a price for each
of them between 32 and 120, on which it evaluates that assumption.

| Family | Actions | Statements |
|---|---|---|
| market data | `GetQuotes`, `GetPriceHistory` and thirty more | one; quotes one per symbol; an adjusted history two |
| macro | `ListSeries`, `GetSeries`, `GetLatest`, `GetMacroRegime` | one or two |
| fixed income | `GetRegime`, `GetHistory`, `GetSignals` | five; two; two |
| portfolio, advisor | `GetPortfolioState`, `GetContext` with `Advise` | two; three |
| dashboard | `FillSection`, `SectionFails`, `ShowDashboard` | seven, of which a failed one aborts the transaction |
| tables | `ListTables`, `ListColumns`, `QueryRows` | one; two; three |

In `DataTables` a row has a value for each of its date columns, and the statement
ranges over one and orders by one, which need not be the same; a range over a
column that is no date fails the statement. When rows are ordered by a column of
another type, any order is allowed.

The ETF prices of a regime go by symbol: two active ETFs of one symbol share a
row, and bars of one time are numbered in any order (`EtfProxyPrices`).

## 4. Runs

| Run | Instance | Shows |
|---|---|---|
| `tokens_family` | 4 requests (symmetric), 1 client, 1 scope; operators disable or opt out | `TypeOK`, `OneActivePerFamily`, `RotatedAtMostOnce`, `SelectedRowsRevoked`, `RacersCutEachOtherOff`, `DeadlocksAreOfRevocations` |
| `tokens_grants` | 3 requests, 2 clients, 2 scopes that come and go | `FamilyNeverGains`, `OnlyOwnerRotates`, `HistoryIsKept`, `ImplementsFamilies` |
| `tokens_liveness` | 4 requests, 1 client that opts out and in | `EveryRequestEnds` |
| `tokens_reuse` | 4 requests, nothing changes around them | violated: `ReuseRevokesEveryDescendant` |
| `tokens_wildcard` | 2 requests, a client granted a wildcard | violated: `CutOffOnlyWithoutGrants` |
| `keys_safety` | 4 requests and 2 users (both symmetric), failures, expiry, revoking by hand | `TypeOK`, `EnabledKeysAreOfActiveUsers`, `AccountCreatedOnce`, `DeadKeyIsRejected`, `DeadlocksInvolveABackfill`, `RevocationIsFinal`, `ExpiryIsFinal`, `ImplementsAccounts` |
| `keys_liveness` | 4 requests, 1 user, the first a provision | `EveryOperationEnds` |
| `limits` | both limits: 2 requests, 3 ticks; or that of a subject: 4 requests, 4 ticks; or that of an address: 3 requests, 4 ticks, or 3 ticks with one of them from a second address; 2 workers, 2 threads, a window of 2 ticks, limits of 1 | `TypeOK`, `BucketBound`, `SerialLimit`, `AddressLimit`, `FailsOpenRarely`, `RefusalIsDeserved` |
| `limits_per_minute` | 2 requests, 2 workers | violated: `OncePerWindow` |
| `access` | 3 requests, 2 tenants, 2 policy versions, 2 scopes, the right to delegate and a wildcard, 2 changes, 3 modes | `TypeOK`, `BlockedIsRejected`, `DisabledIsRejected`, `DelegatedReadsOnly` |
| `reads` | one request of every operation, on all contents of up to 4 instruments and 3 days that matter to it, 1 commit in between | `TypeOK`, `HistoryIsDaily`, `AdjustedBarsMoveTogether`, `UniverseIsCurrent`, `SearchKeepsExactMatch`, `ResolvedNameIsOneInstrument`, `RegimeIsOneDay`, `BasicReaderConfined`, `HighVolumeReadsAreBounded`, `DashboardAlwaysAnswers` |
| `dashboard` | the dashboard, with the columns the deployed schema has | violated: `DashboardListsClients` |

Bounds. A request is served once, so the number of requests bounds everything
else: the table has at most one row per request. Four requests are what the
interesting cases need and no more: one issues, one rotates, and two race on a
token (`RacersCutEachOtherOff`), or one issues, one rotates, one rotates the
result and one presents the first token again (`ReuseRevokesEveryDescendant`).
Two client-wide revocations that lock two rows in opposite orders need four as
well: two issues and two refreshes. Two clients suffice to present another's
token, two scopes to narrow and widen a grant. Symmetry is used where only
invariants and properties of single steps are checked, each of which treats
requests (and users) alike; in `tokens_grants` and the liveness runs the requests
enter in a fixed order instead (`InOrderSpec`, `InOrderFairSpec`), which loses
nothing because requests differ in nothing but their name. Requests end and the
system may then stop, so deadlock is not checked; that no request is stuck is
`EveryRequestEnds` and `EveryOperationEnds`.

For the account operations, four requests are the fewest in which two
transactions can lock each other out: a provision and an issuing make two keys,
and a deletion and a backfill visit them in opposite orders. They also suffice
for the longest single-key story, provision, delete, provision again and check
with the old key. The second user is there so that a deactivation could revoke,
or a provision revive, the wrong one's keys. `keys_liveness` begins with a
provision, so that the other three have a key to meet at, and leaves out
failures, expiry and manual revoking: a failure ends its request, and the rest
only shortens what has to be visited.

Limits. Two threads race on a deque of one subject, and two more requests make
the deque old and full; a limit of one is that of account deletion. The deques
of two workers are apart, so in `limits` the requests of a subject meet in one;
`limits_per_minute` has them in two. Three requests come to ordinary endpoints:
one that loses Redis, one that counts in memory and one that comes back. One of
them may come directly, while the others are named by the proxy, so that two
addresses share the connection and are counted apart. A window, a reconnection interval and the life of a key are two, two and
three ticks, which keeps their order (60 s, 30 s and 65 s: an interval is no
longer than a window, a key outlives it). Where requests may meet both limits,
what could go wrong is of one request (it comes to the endpoint unpassed, or in
another process) or of two around a replaced worker, so two requests in three
ticks suffice; the theorems about the composition are not bound to that.

Access. A token is issued, used, and used again while two changes happen; two
tenants, versions and scopes are the fewest that can be mistaken for each other.
The client holds what may be delegated and a wildcard that covers everything: a
delegated token must not carry the latter.

Reads. Requests do not meet each other, only what commits meanwhile, so one
request at a time loses nothing. One commit suffices to set two statements
apart. Two instruments share a symbol up to case, a third has it as a prefix, a
fourth as its name; a day has two bars; every optional parameter is absent or
present and every limit below, at and above what there is. A request ends with
its answer, so deadlock is not checked; in `dashboard` it need not be.

Fairness. A thread whose next statement can run, runs it (`WF` of `Serve`): the
operating system schedules threads and PostgreSQL executes statements. New
requests, failures, expiry and operators are not assumed to happen. PostgreSQL
breaks a cycle of waiting transactions by failing one (`DetectDeadlock`); without
that assumption both liveness properties fail, because the code fixes no order in
which revocations, deactivations and backfills lock rows.

### Disagreements

- `tokens_reuse`. The module docstring of `sql_refresh_tokens.py` and
  `docs/API_REFERENCE.md` say that presenting a rotated token revokes every
  descendant, the newest included. The `UPDATE` takes the family from its
  snapshot: with A rotated to B and B being rotated to C, a replay of A waits for
  B, finds it revoked when the rotation commits, and commits without having seen
  C. C stays active. What does hold, and is proved, is that every row of the
  snapshot is revoked.
- `tokens_wildcard`. `refresh` intersects scopes as strings; issuing matches
  wildcards. A client granted `admin:*` is issued `admin:read` and at its first
  refresh is told the scope is no longer granted, and loses all its tokens.

- `limits_per_minute`. The docstring of account deletion and the API reference
  promise one request per minute and subject. Each of gunicorn's workers has its
  own deques, and threads of one worker can both find room. What does hold, and
  is proved, is at most `Threads` - 1 more per worker (`BucketBound`); where no
  two requests overlap the limit is exact (`SerialLimit`).
- `dashboard`. `get_service_client_summary` counts scopes by a column that
  `iam.service_client_scopes` has not. The section is always empty, and because
  the failure is swallowed without a rollback, so is the list of recent events
  after it, which the API reference describes as the most recent audit events.

Met while modelling, and not given a run because no sentence of the repository
is clear enough to contradict: when two backfills overlap, the second inserts a
`key_expiry_backfill` event for, and counts as updated, every key the first has
dated meanwhile, although its own `UPDATE` changed nothing (the docstring says
only that it "logs each update"). The same goes for these:

- A service token has no id, so a CREDENTIAL lock never applies to one; a plain
  user's token or a personal key meets no lock at all, while the main README
  speaks of locks "checked on every request".
- A client granted only a wildcard such as `market:*` cannot delegate: the
  delegable scopes are intersected as strings.
- An entitlement and a lock are read by two statements. A subject that is
  unentitled at one moment and locked at another, but never both, can slip
  through between them; `BlockedIsRejected` speaks of one reason that holds
  throughout.
- The portfolio's owner is checked and returned, but no SELECT mentions an owner:
  every caller is shown the same positions.
- Reads by symbol mix the rows of instruments that share it; only `/resolve`
  detects that. A blank search lists all active instruments. An industry's id is
  its rank after the filter, so it differs between filtered and unfiltered lists.
- In the table API an inclusive `end` is compared with midnight when the column
  is a timestamp, and the range of a high-volume read may be over any date column
  the caller names, not the one the table is partitioned by.
- An adjusted bar that closed at its high may have its high below its close:
  open, high and low are multiplied by a rounded factor and the close is not. A
  close of 49 adjusted to 1 gives a high of 0.9999999999999999. The docstring
  says only that the four prices "move together", and the test compares the close
  with `==` and the others with `pytest.approx`.
- A chat that the prompt guard refuses gathers its context first.

## 5. Proofs

TLC checks the instances above; TLAPS proves the following for any number of
requests, clients, scopes, registrations and tokens. The assumptions are those
`RefreshTokens` names: registrations are records of the right type
(`RegistrationsAreRegistrations`) and a scope covers itself
(`ScopesSatisfyThemselves`).

- `RefreshTokensProofs!SpecInv`: the inductive invariant. `RotatedAtMostOnce` is
  not inductive as it stands: to see that a commit cannot be the second rotation
  of a token one has to know that the token is still active at the commit
  (`LockedRowActive`), which holds because the lock taken with the check excludes
  every other writer (`RowsHeldOnce`), and that a rotated token is revoked
  (`RotatedRowsRevoked`). `SelectedRowsRevoked` needs `SelectedRowsTracked`: while
  the `UPDATE` runs, each selected row is still to be visited, held, or revoked.
  `TypeCorrect`, `RotateOnUse` and `RevocationComplete` are its consequences.
- `RefreshTokensProofs!TableImplementsFamilies`: a commit of an issue is a
  `Mint`, of a rotation an `Exchange`, of a revocation a `Revoke` of the rows it
  holds; everything else stutters. That a rotation is an `Exchange` of a token
  that is still live is where the invariant is used.
- `TokenFamiliesProofs!FamiliesStayChains`, and through the refinement
  `RefreshTokensProofs!TableKeepsChains`: in the table a replaced row is
  revoked, successors are younger and never shared, and along a family the client
  stays and the scopes never grow.
- `RefreshTokensProofs!HistoryStays`: no step loses or rewrites a row.
- `FamilyStaysSingle`, `FamilyStaysNarrow`. A family is the least set of rows that
  holds a token and, with a row, the one it was replaced by: what the recursive
  query computes, without the recursion, which nothing could be proved about. To
  show something of every member it is enough that it holds of the token and that
  the rows of which it holds are closed under `replaced_by` (`FamilyIsLeast`).
  With the chains of `TableKeepsChains` the closed sets to take are the rows of the
  same client with no more scopes, and the rows no older than the last.
- `OwnersRotate` and `RaceLeavesNoLiveFamily` need to know who did what, in a
  second invariant (`FamilyInv`): only the owner gets past the lookup; a row was
  replaced by a request that presented it; a revocation for reuse has selected the
  row and its successor. If nobody presented the successor it was never replaced,
  so those two rows are the family, and what was selected is revoked.
- `ServiceNeverStandsStill`, `RotationsDoNotDeadlock`. Both rest on who holds rows
  (`HoldersAreUnderway`): a request that waits for the row it presents has none.
  So if all that run wait, the holders are among them and all are one cycle; and
  of a cycle, whoever is waited for is revoking and waits for another that is. The
  first is of `NobodyIsStranded`, which the proofs' module defines; what TLC
  checks of the same question is `EveryRequestEnds`.
- `EveryStepWindsDown`. A statement or a failure takes its request to a later
  stage, or leaves its `UPDATE` one row fewer, and moves no other request. With
  `NobodyIsStranded` this is all that `EveryRequestEnds` needs besides fairness:
  there is always a step to take, and there are only so many.

For the accounts, with any number of users, requests and keys, assuming only that
the stand-ins `NoUser`, `Never` and `AtIssue` differ from what they stand beside
(`NoUserIsNobody`, `ExpiriesDiffer`):

- `UserApiKeysProofs!SpecInv` and `DeactivationRevokes`. That only active users
  have enabled keys is not inductive: a deactivation commits long after it chose
  the keys. `EnabledKeysTracked` says that while it runs each enabled key of its
  user is still to be visited or held; it survives because an issuing needs the
  user's row, which two transactions never hold at once (`UsersHeldOnce`), and
  because what a transaction saw of the row it holds stays true (`LockedUserKept`).
  `TypeCorrect`, `OneAccountPerEmail` and `DeadKeysOpenNothing` follow from the
  same invariant.
- `DeadlocksNeedABackfill`. Backfills apart, whoever is waited for holds a user's
  row and whoever holds one waits for nobody (`WaitersHoldNoUser`), so of the two
  neighbours of a transaction in a cycle of waits one is a backfill.
- `SessionsNeverStandStill`. If every open operation waits, the open ones are a
  set in which everybody waits for somebody (`BlockersAreOpen`). It is finite
  although `Requests` need not be, because only finitely many have arrived
  (`FinitelyManyArrived`), so it has a smallest such subset (`CycleWithin`): that
  is the cycle PostgreSQL looks for. `EveryStepWindsDown` is the rest, as for the
  tokens above; a backfill returns to a stage, with one key fewer to do
  (`LogsWhatIsDue`).
- `RevocationStays`, `ExpiryStays`: the action properties, from one lemma on what
  a step does to the rows (`KeysStep`).
- `TablesImplementAccounts`: a commit of a creation is an `Open`, of a
  deactivation a `Close` that kills exactly the user's keys, of an issuing an
  `Issue`; manual revoking, expiry and backfills are `Lapse`s. The part that
  needs the invariant is that a `Close` leaves no key behind.
- `AccountsProofs!OnlyActiveAccountsHaveLiveKeys`: the abstract specification
  keeps what it is for.

For the per-subject limit, with any numbers of requests, workers, threads and
subjects and any limit (`RequestsAreFinite`, `LimitsAreNatural`):

- `SubjectRateLimitProofs!BucketStaysBounded`. That a deque holds at most `Max` +
  `Threads` - 1 requests needs the requests about to be appended counted in, and
  that a worker serves no more than `Threads` (`ThreadBound`): one that finds room
  finds at most `Max` - 1 in the deque, and at most `Threads` - 1 others can be
  between their own count and append. `LimiterTypeCorrect` is proved along.
- `LimitIsExactInSeries`, `RefusalsAreDeserved`. Both need to know what a deque
  remembers (`History`): it holds admitted requests, each once, in the order of
  their admission (`InOrder`), and whoever has looked at the oldest and found it
  young enough counts young ones only (`CountsRecent`), also where another thread
  has popped since, because popping leaves younger ones. In a deque that no two
  requests have used at a time an admitted request is missing only once it has
  left every window to come (`Serial`), so `Max` in the deque are all there are.

For the per-address limit, with any numbers of requests, workers and addresses,
any limits and any failures (`IpLimitsAreNatural`, `MarksAreNotTimes`), and a key
that outlives its minute (`KeysOutliveMinutes`: the code gives it
`window_seconds` + 5):

- `RequestLimitsProofs!AddressLimitHolds`. A key counts at least what it let pass,
  until its minute is over (`KeysCount`): a key that is dropped was written
  `KeyTtl` earlier, which is in an earlier minute (`MinuteEnds`), and `INCR`
  without `EXPIRE` only makes it live longer. The deque of a process has all
  requests it let pass that still count (`DequesCount`), also those from before
  it went back to Redis.
- `FailsOpenRarelyHolds`: a worker that let a request pass uncounted has not
  Redis back before `RetryAfter` (`FailuresRemembered`).
- `LeakedKeysHaveAFailure`, `AddressTypes`, from the same invariant.

For the two limits together (`RequestLimits`), from the assumptions of both:

- `RequestLimitsProofs!AddressesServedAlike`. What the endpoints do stutters for
  the limit per address, so `Spec` implies `IpSpec` as it stands.
- `SubjectsServedAlike`. The limit per subject alone lets a request enter any
  worker, once; behind the middleware it knows of the requests that came through
  to it (`Entered`), and that it is implemented needs an invariant
  (`CameThrough`, theorem `ServedWherePassed`): who has entered was passed before,
  by the process that serves it, so a replaced worker loses the same requests in
  both.
- `TogetherTypeCorrect`, `BothLimitsHold`, `RefusalsStayDeserved`: hence the
  theorems of the parts, those of `SubjectRateLimitProofs` through an instance of
  that module, hold of the whole.

Account deletion has a second limiter of the same kind behind the first
(`require_account_delete_rate_limit`). It has deques of its own; the composition
takes up one limiter per request.

For the policy, with any tables and any number of changes (`VersionsAreNumbers`):

- `PolicyGateProofs!BlockedStaysRejected` and `DelegationReadsOnly`, from one
  invariant `IInv`: a reason that has held since the arrival holds now, while
  the request is open, so the check being made finds it, and a check that is
  passed has excluded its reason (`Excluded`); which needs to know what each
  operation goes through (`OnItsWay`) and which reasons it can have (`Possible`).
  A token carries delegable scopes from its issue on, and so does whoever
  presents it (`CarriesDelegable`).
- `DisabledStaysRejected`: who is let in although disabled was found in the
  environment, which the registry's mode must allow (`KnownInEnvironment`).
- `GateTypeCorrect`. What has to be shown is that a token is granted an existing
  tenant and version: the newest of the entitled ones is one of them
  (`NewestIsOne`), whatever operators withdraw afterwards.

For the reads, with any calls, contents and commits between statements. The
assumptions say what the columns and parameters are: tables are finite, dates,
ids numbers, prices floats, limits positive (`DataAssumption`, `PriceAssumption`,
`RoundingAssumption`, `InstrumentAssumption`, `LimitAssumption`;
`HighVolumeIsBasic`), and `LIKE` finds the query itself (`SearchAssumption`:
symbols hold no backslash). Common to all: a call never changes (`CallStays`), and is answered only by its own
operation's actions (`DataStep` and its like).

- `ReadsProofs!TableAccessIsConfined`. Whatever gets past the first statement was
  allowed by it (`OneTableVisible`, `TablesConfined`).
- `HighVolumeStaysBounded`: what the first statement checked (`BoundsChecked`)
  still bounds the rows of the last (`RowsBounded`), which is built from columns
  that were looked up in between.
- `RegimesAreOfOneDay`: the signals held are of the metric held (`HeldIsOneDay`),
  although the tables may have changed since it was read.

- `HistoryStaysDaily`. A history is a result of the first statement, adjusted or
  not, as long as nothing commits (`AnsweredFromHistory`). What is left to choose
  from has exactly one bar of each recorded day, so rows are as many as days
  (`AsManyDays`), and a day left out is one the order put behind (`HistoryByDay`).
- `AdjustedBarsStaySound`, with the hypothesis `RecordedBarsAreSound` (the bars of
  the table have their open and close between low and high, which is not this
  program's to ensure). Exact order is not kept, see section 4. One factor
  multiplies open, high and low, and rounding keeps the order of the products.
  The product of the close is between those of low and high and at most one float
  from the adjusted close, so no float fits between the adjusted close and the
  bar (`AdjustedPrices`, `BetweenShrinks`).

  That two roundings end next to where they began is `RoundingAssumption`. It is
  what IEEE 754 gives: with u = 2^-53 the factor is adj/close * (1 + d), |d| <= u,
  so the product before its rounding is off adj by at most u * adj, which is less
  than the distance to the next float above, and no more than that to the next
  below; rounding to the nearest cannot pass either. The prices are
  `numeric(18,6)`, so nothing underflows or overflows.
- `ResolvedNamesOneInstrument`. A name with two listed instruments never resolves:
  `LIMIT 2` finds two of them (`TwoAreFound`), which takes that the least id is
  kept (`LeastId`). So a series' rows, which are of instruments of that name
  (`SeriesOfTicker`), are of one.
- `UniverseStaysCurrent`, `ExactMatchIsKept`: the minimum and the limits only drop
  rows, and the first of the five tiers is the exact symbol (`ExactIsFirstTier`).
- `DashboardIsAlwaysShown`: before statement `n` every section before it but the
  version is filled (`FilledSoFar`), and no failure is raised that is not caught.
- `AnswersTypeCorrect`: an answer has the rows one `LIMIT` kept (`CutIsShort`), or
  their image; an adjusted history keeps to it from its first statement on
  (`HeldWithinLimit`).

Only model-checked. `EveryRequestEnds` and `EveryOperationEnds`: liveness under
fairness is out of the prover's reach. Their safety part is proved, as described:
nobody is stranded, and every step winds down. Every invariant and every action
property the passing runs check is stated by a theorem; so are the refinements.

## 6. Not modelled

- **Secret rotation** (`scripts/rotate_secrets.py`, `app/core/config.py`). An
  operator rewrites `.env` and reloads; two secrets are verified against, the
  rest is the JWT library. Nothing but a second rotation interferes.
- **Deploy and watchdog** (`scripts/`). Shell around git, pip, systemd and cron;
  a model would be one of those tools.
- **Admin gateway**. A stateless proxy; idempotency is kept by the admin
  service, which is not in the repository.
- **Provisioning scripts** for service clients: an operator's statements, whose
  effect is in the models as registrations and keys that change.
- **Middleware, pages, schemas, reference data, the TypeScript plugin**: headers,
  request ids, HTML, typed copies of rows; no behaviour to check.
- The connection pool: SQLAlchemy's code.

The tables of the policy component belong to another service; only what this code
reads from them is modelled.
