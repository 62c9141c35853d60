# Verification of app-home-services

TLA+ models of the parts of the service whose correctness depends on
interleaving, failure and time, checked with TLC on small instances; what is safety
in them is also proved with TLAPS for every size. Paths are relative to the
repository root.

## 1. The system and its models

The service is a modular monolith (axum, tokio, sqlx/Postgres, Redis). Several
instances may run over one Postgres and one Redis. A request has its address
resolved and counted, is authenticated against the revocations, runs a use case
that loads an aggregate, decides and saves it, and publishes events that become
audit rows.

| Part | Code | Modules | Hard because |
|------|------|---------|--------------|
| Access token revocation | `access_token_blacklist/durable.rs`, `redis.rs`, `telemetry/pollers.rs`, `logout_routes.rs` | `RevocationRegistry`, `DurableRevocation` | three stores without a transaction, commands that land late, one worker per instance, crashes |
| The same without Redis | `access_token_blacklist/memory.rs` | `MemoryBlacklist` | a lookup changes from the read to the write lock |
| Sessions | `aggregate.rs`, `postgres_user_repo.rs`, the four auth use cases | `Sessions` | every use case decides on a snapshot |
| Their transaction | `save_aggregate`, `database.rs` | `SaveTransaction` | row locks, a small pool, errors half-way |
| Rate limiters | `rate_limiter/memory.rs`, `redis.rs` | `FixedWindow`, `RateLimitEntries`, `MemoryRateLimiter`, `RedisRateLimiter` | eviction at the limit, two readings of the clock, a Lua script, timeouts, a shadow per instance |
| Client address | `shared/src/net.rs`, `metrics_guard.rs` | `ClientAddress` | the header mixes what clients write and what proxies append |
| Event bus and audit | `event_bus.rs`, `audit_event_handler.rs`, `main.rs` | `AuditTrail` | lag, failed inserts, crashes |
| bcrypt | `bcrypt_task.rs`, `password_verification.rs` | `BcryptLimiter`, `PasswordVerification` | work that outlives its caller, a shared cache, equal work |
| Google keys | `google_auth_provider.rs` | `JwksCache` | racing fetches, rotation, stale fallback |
| Admin | `crates/admin` | `AdminRoles`, `UserListing` | roles change between check and use, pages shift |
| Profiles | `crates/profiles` | `Profiles` | read, merge, write |
| Startup | `main.rs`, migrations 010 to 012, `rate_limiter_setup.rs`, `access_token_blacklist_setup.rs`, the settings | `Startup`, `AuthSettings`, `Settings` | instances that start together, an interrupted index build, a URL that two parsers read |

`PROJECT.json` lists every part, every hazard at the line where it bites, and
for each definition the lines it models.

Modules named `MC...` are for TLC, modules named `...Proofs` hold the theorems.
`Boot` (`Startup`, `Settings`), `Caches` (`JwksCache`, `MemoryBlacklist`),
`BcryptWork` (`BcryptLimiter`, `PasswordVerification`), `Throttling`
(`ClientAddress`, `MemoryRateLimiter`) and `RedisThrottling` (`RedisRateLimiter`)
give components that are checked together names of their own for constants and
variables, and state what is assumed of the constants; a run and a proof module
extend the same one, so they are about the same definitions.
A definition whose name ends in a word after an underscore that the source does
not have (`Drop_Releases`, `Candidate_First`) is a wrong variant of the
definition that follows it, kept to show that the properties notice.

## 2. How the models correspond to the code

A step is what happens between two awaits, lock acquisitions or statements. A
handler is one action per such step, its early returns and errors included; a
client that disconnects drops it at any of them (`Leave`, `Abandon`, `Drop`).

### RevocationRegistry, DurableRevocation, MemoryBlacklist

`RevocationRegistry` is the promise: recorded revocations, from which only dead
tokens disappear, and acknowledgements given only for recorded or dead tokens. A
token is called dead once the clock has reached `exp + leeway`, its deadline.

| Model | Code |
|-------|------|
| `redis[j]`, `late` | the key of j, as the second it expires in; SETEX commands whose caller timed out |
| `outbox` | rows of migrations 009 and 010 |
| `pending[i]`, `flush[i]` | the map of `durable.rs` on instance i; the locals of its `flush_pending` |
| `Arrive`, `Lookup`, `Exists` | extractor and `is_revoked`: clock, pending map, then Redis, failing open |
| `LogoutHandler`, `RevokeInner`, `Journal`, `Remember` | `logout_handler` and `revoke`: TTL, SETEX, INSERT ON CONFLICT DO NOTHING, pending map |
| `FlushPurge` ... `FlushForget` | `flush_pending`, one action per await |

One clock for all machines, in seconds. A key Redis acknowledged stays until its
TTL runs out (no failover, no eviction). While Redis or Postgres is down every
call errs, and a write may have been, or may yet be, applied. A token validates
up to and in the second `exp + leeway`; revocations are kept until that second
begins. `acked`, `seen`, `must`, `backlog` are history.

`MemoryBlacklist` has `revoke` under the write lock, with its sweep, and
`is_revoked` as clock, read lock, second clock, write lock. `promised` is
history: when the last revocation of a token lapses.

### Sessions, SaveTransaction, AuditTrail

`Sessions` is one user; requests of different users share nothing. `Load`,
`Create`, `Reload` are the repository's statements; `Login`, `Logout`, `Rotate`,
`ReuseDetected`, `Refuse` the aggregate's decision on the snapshot with the
transaction of `save_aggregate`; `Publish` the handler after Ok. The transaction
is one step there, and its commit may be reported as an error. Whether a
password or a refresh token matches is a choice. `FreshSpec` has the behaviours
in which a request that saves finds the table as it loaded it.

`SaveTransaction` opens that step: a connection from the pool, BEGIN and INSERT,
an UPDATE per session the snapshot has as inactive, newest first as the load
returns them, each holding its row lock, COMMIT or rollback. Other statements
compete for the pool. Sessions have distinct creation times: two with the same
`created_at` could be loaded in either order.

`AuditTrail` takes over where a use case has committed: requests publish their
batch, the channel keeps the last `Capacity` events, the task receives (or is
told that it lagged), inserts, and goes on whatever the result. A crash of
the process loses what was queued.

### RateLimitEntries, MemoryRateLimiter, RedisRateLimiter, FixedWindow

`RateLimitEntries` is the table of `memory.rs` and what each operation does to
it under the mutex; it is used twice, as the in-memory limiter and as the shadow
of the Redis one. An operation reads the clock twice, and the clock may move in
between. `RedisRateLimiter` has the five operations on several instances inside
the handlers that use them: the script (INCR, EXPIRE on the first, compare), the
DEL after a success, the 250 ms bound, commands that land after their caller
gave up, the shadow, the error counters and the poller that exports them. `Serve`
is what the service does; `CallPort` are the operations of the port that no
handler calls. `counted` is history, a ledger for Redis and for each shadow: which
attempts of an address it counted in the last window's time since it last forgot
the address (a reset, or an eviction), and which of them it allowed.
`FixedWindow` is the promise of both: a budget per address and window, no
table, script or key. It may forget a window early only when it is full, and
then the one that closes first. The attempts and the window are at least 1; the
settings accept 0, which turns the limiter into one that refuses everybody or
nobody.

### ClientAddress

A client writes any X-Forwarded-For and X-Real-IP, every proxy appends its peer,
and `resolve_client_ip` scans from the right. Proxies append to one header line.
An entry may be one that is not text (`Opaque`); the code then takes the whole
X-Forwarded-For for absent (`Legible`) and goes on with X-Real-IP or the peer. The
properties are about requests whose address the service is told (`Told`): by an
X-Forwarded-For it can read, by X-Real-IP, or because it is the peer.

### BcryptLimiter, PasswordVerification, JwksCache

tokio's semaphore is a FIFO queue and free permits; a permit is assigned to the
head, moved into the blocking closure at `Spawn`, and given back when the work
ends, returns or panics. `PasswordVerification` counts the work of bcrypt, 2^c
at cost c, through the cache of dummy hashes with its two critical sections and
the padding. `JwksCache` has the cache, fetches of concurrent logins with any
Cache-Control, rotation at Google, and the order in which `verify_id_token`
finds fault with a token. Google publishes a key before it signs with it and
keeps it for a while after; the constants say how long.

### AdminRoles, UserListing, Profiles

Each SQL statement is a step. `was_admin` and `had` are history: whether the
caller was an admin at some moment of the request, and which roles the target
had since the change. `UserListing` is a client that walks through the pages
while users are created, with every page size a client may send. `Profiles`
keeps of a text what the value objects look at: characters, bytes per character,
white space around it. The `FreshSpec` of `AdminRoles` has the behaviours in
which whoever changes a role still is an admin when it is written, that of
`Profiles` those in which a change finds the row it read (`read`, history) when
it writes. An upsert of a dropped request that Postgres still
executes is not modelled in `AdminRoles`.

### Startup, AuthSettings, Settings

`Startup` is `main` on several instances: settings, pool, the migration lock,
migrations 010 to 012 (011 outside a transaction, with an invalid index when it
is interrupted), count, hash and insert of the default user, limiters,
blacklist, bind. All instances have the same default user, and the table of users
starts empty. The index build of 011 is Postgres's (`Fill`, `Build`): once filled,
it waits for the snapshots that are older (`older`), and an instance whose `SELECT
pg_advisory_lock` has begun has one while it waits for the builder's lock. Postgres
then aborts one of the two (`Deadlock`), and its process ends. The build of a
process that is gone either stops, or goes on in the server, which keeps the lock
until it is done (`holder = "server"`); a waiter that is killed is taken to lose
its session at once. The insert is two steps: ON CONFLICT looks the username up,
and the row goes in, which by then may meet another instance's username (nothing
is done) or its email (an error: the clause does not cover it). `AuthSettings` and
`Settings` are the validators in the order of `from_env`; the list of known weak
passwords never decides, since each of them fails the length or the class test.
`Settings` adds what sqlx does with the URL afterwards (the last `sslmode` in
either spelling wins) and the protocol that is served. A query is a list of
parameters; one that is taken out leaves its place empty, which neither parser
notices. A `host` or `hostaddr` parameter replaces the host sqlx connects to
(`Target`), while the service judges the one before the query.

## 3. Runs

Four runs put several components side by side. Their module has a variable
`part` that names the component, and the instance of it, a behaviour is of; the
variables of the others do not move. The state space is the sum of the
components', and the cfg is one. The components of such a run do not interact.
Some parts restrict the steps of their component to what they are about; the
theorems have no such restriction.

| Run | Instance | Shows |
|-----|----------|-------|
| `revocation` | 2 instances, 1 token, up to 2 requests, leeway 1, clock to 2 | no acknowledged revocation is lost before its token's deadline, nobody is told "not revoked" once it was known, the inductive invariant, and the refinement of `RevocationRegistry` |
| `revocation_liveness` | 1 instance, 2 tokens, batches of 1 | an acknowledged revocation reaches Redis although the batch is smaller than the backlog |
| `sessions_concurrent` | 3 sessions, 2 requests, cap 2 | what holds however stale the snapshots are: a rotation closes its predecessor, events are backed by rows, a user is created once, nothing is reactivated |
| `sessions_fresh` | 3 sessions, 2 requests, cap 2, lifetime 1, clock to 1 | the documents' promises (cap, reuse, one successor, logout) for concurrent requests none of whose saves is overtaken (`FreshSpec`) |
| `throttling` | addresses: 5, 2 written entries, 2 proxies; in memory: 3 addresses in a table of 2, and 1 address over three windows; Redis: budget 2, window 2, with 2 instances and 2 requests, with 2 scopes, with late commands, and with the unused operations | under which address a request is counted; both limiters are fixed-window budgets; who is refused has used up the budget; under any failure each limiter grants fewer than twice the budget in a window |
| `process` | 2 instances starting, 3 faults, 22 environments; URLs with up to 2 parameters; 3 bcrypt callers, 2 permits; 2 threads; 2 racing logins; 2 tokens in memory | whoever serves is ready for it, nobody exits without a cause (its environment, a fault, Redis away, a deadlock over the index build, another's default user just before its own), nothing is silently plaintext on the host the URL names, permits are conserved, logins cost the same, tokens are judged right while keys rotate, in-memory answers are true |
| `records` | channel of 2, 4 events; 3 users, 2 admin requests; 4 users listed; 3 saves, 2 connections | audit rows are the events in order and a missing one has a cause; only admins are served; role changes that are not overtaken leave an admin; a walk through the pages skips nobody; a profile update that is not overtaken changes what it was given; a save is all or nothing, and saves never all wait for each other |
| `progress` | small instances of five components | liveness, see below |
| `sessions_fork`, `sessions_reuse` (violation) | 2 requests | two refreshes with one token both succeed; a reuse leaves a concurrent login open |
| `revocation_outlives` (violation) | 1 instance | a late flush writes the original TTL: the key outlives the token |
| `profile_lost_update` (violation) | 2 requests | two updates of different fields: one is undone |

### Bounds

Tokens do not interact except in a batch, hence one token where a batch does not
matter. The deadline of the token of the runs is second 2 (exp 1, leeway 1), so
journaling, flushing and the deadline fall into different seconds. Two instances show every race of
two workers, two requests every race of two handlers; both together are too
many, so `revocation` bounds them (`Narrow`): two requests at once only while
they are on one instance and every other instance is as it was when it started.
The theorems have no such bound. Three session ids allow one login and two
rotations of it, or a reuse next to a fresh login. The clock of
`sessions_concurrent` stands still; expiry is in `sessions_fresh`, and the
theorems cover both together.

The table of `throttling` is smaller than the set of addresses, so that eviction
happens with windows of different ages open, and its clock runs for two windows;
the second in-memory instance has one address and attempts before, at and after
the end of a window. The Redis limiter has a budget of 2 in a window of 2 for
one address; its parts have two instances with two requests (time to 2), two
scopes (time to 1), or a late command or the operations no handler calls over a
window and a half, each without what the others are about: together they are too
many states, and `RedisThrottlingProofs` has no such bound. In `process` an
environment is good but for one variable, and the values are those on both sides
of each limit; the pairs of query parameters include both spellings, an
upper-case value, an unknown one and both host parameters; three faults allow a killed index build, a
killed repair and an outage. In `records` the channel of 2 is overrun by 4
events, and three saves of up to three rows share two connections. Symmetry is declared for sets of model values that only stand for
identities, and nowhere with liveness.

Deadlock is checked except in `process` and `progress`, where bounds on calls,
time and faults, and a process that failed to start, make the system stop.

### Fairness

| Component | Fair | Why | Then |
|-----------|------|-----|------|
| `DurableRevocation` | the flush worker, weakly | a tokio task of its own that loops while the process lives | an acknowledged revocation is shared, if Redis, Postgres and the instance stay up |
| `RedisRateLimiter` | handlers and poller, weakly | tokio polls what can go on; every Redis call is bounded by a timeout | nobody hangs, errors reach the gauge |
| `AuditTrail` | the audit task, weakly | a task of its own; it ends on neither an error nor a lag | every event is dealt with |
| `BcryptLimiter` | assignment of permits, callers, blocking threads, weakly | a FIFO semaphore; bcrypt ends | whoever waits is served or dropped, with a configured limit of 0 too |
| `SaveTransaction` | the pool and the statements weakly, row locks strongly | the pool and Postgres queue who waits | every save ends, with one connection or with one each |
| `Startup` | each process's steps and its supervisor weakly, the migration lock strongly; an index build and the detection of its deadlocks weakly; Redis comes back | Postgres queues who waits for an advisory lock, and looks for a deadlock after `deadlock_timeout` | every instance serves for good once the faults stop |

Nothing is assumed of clients, nor of Redis and Postgres except where the table
says so. No clock is fair: nothing is obtained by waiting for an expiry.

## 4. Proofs

Every safety property and every refinement that a passing run checks is also a
theorem, for all values of the constants that satisfy the named assumptions
(`...Constants`, `ConstantsOK`), which TLC evaluates on the runs. They ask for
what the code fixes or validates: a budget, a window and a page size of at least
1, costs bcrypt accepts, finite sets where something is counted, and of Google
that it publishes a key for long enough before and after it signs with it.
Bounds on time, faults and calls are constants too, and may be any number.

Hardly any of the properties is inductive. What has to be added is below; most of
it says why something read earlier is still good enough when it is used.

`DurableRevocationProofs` (`TypeCorrect`, `AlwaysCovered`, `Durability`,
`NoStaleAnswer`, `Refinement`). A sweep works with rows it read earlier, and a
request with a TTL computed earlier. `RevocationsCovered` says why they are
harmless: a TTL computed from the token at some time reaches the deadline when
applied then or later; so every SETEX in flight still covers the token
(`LongEnough`), whatever a sweep counts as flushed is in Redis long enough or dead
(`Landed`), and so is whatever left the pending map or the outbox. `KeepsCovered`
carries the untouched part over a step.

`SessionsProofs`. `SessionsTypeCorrect`, `RotationIsAtomic`, `EventsTellTheTruth`,
`ClosedForGood`, `OneCreator` are for any number of requests in flight. `SInv`
adds that a snapshot only knows rows the table has, and that the events a request
carries are backed before it publishes them; `Grows` says what no step undoes.
`FreshCap`, `FreshReuse`, `FreshRotation`, `FreshLogout` are the promises that races
break. They too are for any number of requests in flight, of `FreshSpec`: as long as
what a request loaded is still the table when it saves. Other requests may load,
decide, fail and publish in between, and time may pass. `FreshInv` adds to the
promises that a logout a request is about to announce is as final as one announced,
and says nothing of what the requests have loaded. `OneAtATimeIsFresh` shows that requests that come one at a time are
such a behaviour: the snapshot of the only request is the table.

`ThrottlingProofs`. `KeepsFixedWindow`: the in-memory limiter implements
`FixedWindow`, for any addresses (at least one), budget, window and table size.
The invariant is that every entry has an attempt in it and began in the past,
and that there are at most `MAX_ENTRIES`. `TrackedForgets` shows that cleaning
and evicting drop ended windows and at most one open one, the one that closes
first and only of a full table; `CountedIs` that the entry left is the abstract
count in each of three cases (tracked, ended since the cleaning, new).
`ResolvedIsLastUntrusted`, `MetricsOnlyForListed`: for any headers and any number
of proxies, whenever the service is told the address (`Told`). `HeaderIsPath` says that the header is what the client wrote followed
by the way of the request but its last hop; the rightmost untrusted entry is then
the last untrusted hop, found as the maximum of a set of positions.

`RedisThrottlingProofs` (`BudgetOfEach`, `RefusalsAreEarned`, `SharedWindow`), for
any instances, scopes, addresses, requests, budget and window, and any failures,
timeouts and late commands. `Sound` compares a limiter with its ledger: its count
is covered by attempts of the open window, what it allowed in that window is at
most its count, and of the windows before at most one less than the budget is
left. The last is the argument: when a window closes, the attempt that opened it
is a window's time old and leaves the ledger. The same statement serves for a key
in Redis and for an entry of a shadow. A limiter refuses when the count has used up
the budget, so its ledger then has that many attempts. `SharedWindow` is the
refinement of `FixedWindow` by the keys, with the scope and the address for the
address and no eviction.

`CredentialProofs`. `Conservation`, `Bounded` (bcrypt permits, any callers and
limit): the queue holds who waits, once each, and running work of a caller that
has not spawned its present call is of earlier calls, so that spawning adds a
thread and finishing removes one. `LoginsCostTheSame` (any threads, any costs):
`WorkSound` adds up the work at each step of a verification, whichever thread
fills the cache; the rest is 2^(a+b) = 2^a 2^b, which the provers do not know
and `PowerOfSum` gets from the sizes of sets of subsets. `TokensAreJudged`,
`StaleKeysAreForFailures` (any logins, any Cache-Control): `KeysSound` dates what a
cache or a fetch holds, and says which keys Google can have signed with since, so
that unexpired keys verify every token in order and answers that overtake each
other do no harm. `LookupsAreTrue`: the map has what was promised for every
revocation in force, whatever a lookup read before it changed locks.

`BootProofs`. `ServingIsReady`, `ExitsHaveCauses` (any instances, any number of
kills and outages): `InstanceSound` says what each stage of a process can rely on
(its settings load, it holds the lock while it migrates, the index after each
migration, the default user), and only the lock's holder moves the migrations;
`BuildHasOwner` that an index build belongs to the holder, or to the server for a
process that is gone. An instance can be made to exit by another that starts with
it in two places, the index build and the row of the default user, and in no other.
`PlaintextIsKnown` (any query): the rewritten URL has one mode, so that the service
and sqlx agree on it; the warning was decided on that same URL. With
`DB_REQUIRE_SSL` this is for any URL, without it for those whose parameters name no
other host.

`RecordsProofs`, about the components of the run `records` with `part` and all.
`EveryEventAccountedFor`: rows are of events before the next one to be read, and
before the one being inserted. `WalksMeetEverybody`: whoever was there and has not
been met is not before the next page, since new users only move others to later
places. `ProvidedFieldsChange`: what any of the requests has merged differs from
the row it read in the fields it was sent, so it is right to write it where that is
still the row. `SavesShowAtOnce`, `ConnectionsAreConserved`: who commits has nothing
left to do, rows are locked by one transaction, and a connection is free or with one
task. `SavesNeverStandStill`, for any number of tasks, rows and connections: while a
task is under way, the pool can hand out a connection or a task that has one can take
its next step; no timeout or error is needed to break a circle. `OrderInv` adds that
what a task has locked is newer than what it has still to lock, that who has locked a
row has a connection, and that who waits for one is in the queue. If all who are
connected waited, the one who waits for the oldest row would wait for a task that
itself waits for an older one. `AdminsAreServed`,
`AnswersAreLater`, `AnAdminIsLeft` come from `AdminRolesProofs` (`ServedWereAdmins`,
`AnswersAreLater`, `RolesAreOfUsers`, `FreshChangesLeaveAnAdmin`, `OneUpdateIsFresh`),
where `Sound` says what holds of a request between its statements: past the check its
caller was an admin, and after the upsert the role the target has is among those it
had. For `AnAdminIsLeft`, nobody is the target of their own change, so a caller who is
still an admin when it is written is one afterwards; `OneUpdateIsFresh` shows that the
caller is, when no other change is in flight, whatever reads are.

Only model-checked: the liveness properties (`EventuallyShared` and those of
`progress`), which need fairness and ENABLED and are out of the prover's reach.

## 5. Where code and documents differ

The violation runs each show one difference; `PROJECT.json` quotes the lines.
The first two, and the third and fourth below, have one cause: neither the load
nor the save locks the user or requires that rows are as they were loaded. That it
is the only cause is what the `Fresh...` theorems prove: however many requests run
at once, the promise holds until one saves over a table that is not the one it
loaded. A lock, or a version checked by the save, would be enough. The same is
proved of the lost profile update (`ProvidedFieldsChange`) and of admins who demote
each other (`AnAdminIsLeft`). Further differences, met while modelling:

- The gauge of revocations not flushed counts the rest of one batch, while
  `README.md:396` says it is the number of rows.
- With Redis unreachable at startup the blacklist falls back to memory, say
  `docs/modules/auth.md:112`, `docs/modules/infrastructure.md:92` and the comment
  at `src/main.rs:153`. The rate limiters, built first, end the process then, and
  `build_access_token_blacklist` falls back only when its client cannot be set
  up, which a URL that does not parse causes and an outage does not.
- Concurrent logins one below the cap all pass it (`docs/modules/auth.md:30`).
- A refresh that loaded its session before a logout committed rotates it
  afterwards (`specs/002-audit-security-hardening/contracts/logout.md:50`).
- A second logout of a session is answered 400; line 51 of the same contract
  says 200.
- A login is not always recorded (`specs/001-user-auth/spec.md:135`): a failed
  insert, a lag or a crash leaves no row. `RowsAccountedFor` lists the causes.
- A token validates in the second `exp + leeway` as well, when the entry that
  revokes it is just gone; `logout_routes.rs:128-130` has the entry live exactly as
  long as the token could still validate.
- Instances that start together on an empty database can make each other exit, at
  the index build of 011 or at the insert of the default user, which
  `specs/002-audit-security-hardening/spec.md:97` wants idempotent. A restart finds
  the work done: `EventuallyServing` covers both.
- An X-Forwarded-For that `to_str()` refuses is ignored as a whole (`net.rs:28`), so
  the comment below it, which has the scan find the exact boundary of the trusted
  hops, is about headers that can be read.
- `db_host_is_loopback` judges the host before the query, sqlx one that a `host` or
  `hostaddr` parameter names; the warning and the refusal are about the former.
- The limits on profile texts are in bytes; the contract
  (`specs/005-user-profiles/contracts/update-profile.md:48`) says characters.

Two admins who demote each other at the same moment leave none. No document
promises otherwise, and `SomeAdmin` is checked and proved for changes whose caller
still is an admin when they are written.

## 6. Not modelled

- JWT signing and parsing: cryptography and encoding; the arithmetic on expiry
  is in `DurableRevocation`.
- `postgres_session_repo.rs`: no handler uses it.
- Routing, CORS, security headers, health, OpenAPI, logging, the metrics
  exporter: no state that a step could get wrong.
- In part: defaults and number and list parsing in `Settings::from_env`, length
  checks on request bodies, header parsing in the extractor, migrations 001 to
  009 (transactional, tables only).
- Redis failover and eviction, and clocks that differ between machines.
