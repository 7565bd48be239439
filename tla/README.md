# A TLA+ model of slowquery-demo-backend

`slowquery-demo-backend` is a FastAPI service that serves one commerce dataset
from one of two Postgres branches, `slow` (without indexes) and `fast` (with
four), and is observed by the library slowquery-detective. Visitors switch the
branch while requests run, ask for query plans, and watch the p95 of each query
in an event stream. A container migrates its databases before it serves; the two
branches are filled by two scripts run by hand.

This directory holds a specification of that behaviour: TLA+ modules, TLC
configurations that check them on small instances, and proofs that TLAPS checks
for every instance. Paths below are relative to the repository's root; `core/`,
`api/` and `services/` are under `src/slowquery_demo/`.

To run: `tlc -config BranchSwitch.cfg MCBranchSwitch` (each configuration
`X.cfg` or `X_*.cfg` goes with the module `MCX`), `tlapm BranchProofs.tla`.


## 1. The system

The service is one process with one asyncio event loop. A handler therefore runs
without interruption from one `await` that suspends to the next. That is the
grain of atomicity of every module about the service: one action is one such
stretch. Around the process there are Postgres, bastion (the issuer of platform
tokens), the library's worker, other containers and the people who call.

| Component | State it keeps | Operations | What is hard | What makes it correct |
|---|---|---|---|---|
| Branch switcher (`services/branch_switcher.py`, `api/routers/branches.py`) | `_active`, the asyncio lock and its queue | `POST /branches/switch`, `GET /branches/current` | requests queue on the lock; four awaits (the lock, the check, two disposals) and a write to disk, of which the check and the write may raise; a crash at any of them | switches are serialized; an answer means what it says; a failure leaves the service where `/branches/current` says it is; the whole is one register |
| State file (`core/branch_state.py`) | one line: the branch | `save_branch`, `load_branch` | `write_text` truncates before it writes; may raise | a boot finds the branch that was active |
| Application and hooks (`main.py`) | `BranchTarget.url`, `branch_current` | boot, retarget, post-switch | the URL flips two awaits before `_active` | outside a switch, what is dialled is what is active |
| Engines and sessions (`core/database.py`) | two engines, each with a connection pool | `get_db`, connect, ping, dispose | connections dialled before a flip and used after it; a pool replaced while requests wait on it | nobody is served by a branch of an earlier switch; nobody waits forever |
| Observability (`core/observability.py`) | the library's ring buffer | a sample per query, clearing on a switch | a query that ends after the clear | a stale sample can only be a late one |
| Token middleware (`core/platform_auth.py`, `platform_keys.py`, `platform_token.py`) | bastion's cached key | a verdict per request | fetches of the key overlap, lag and fail; keys rotate and tokens expire meanwhile | replaced keys are forgotten; only live tokens are admitted; without a key it fails closed |
| Access gates (`core/access.py`) | the cooldown's last call per bucket | cooldown, admin token | callers who share an address or a subject; calls refused after passing the cooldown | a visitor's calls are a window apart; nobody pays for another's |
| Force-explain (`api/routers/dashboard.py`) | the library's store | `POST .../force-explain` | five awaits, any of which may raise after the plan was written; the library's worker writes too | the answer tells what became of the plan; only the admin overwrites one |
| Event stream (`api/routers/dashboard.py`) | per client: `last_p95` | poll, tick, heartbeat | rows come and go with the page, lose their p95; the client leaves at any moment | the client's view follows the store; the stream ends |
| Migrations (`scripts/migrate_all.py`, `alembic/`, `docker-entrypoint.sh`) | version, constraint and rows of every database | migrate each database in turn, then serve | two containers at once, the previous release inserting, crashes between steps | a container that serves finds all databases at head; the first of each group of duplicates survives |
| Seed scripts (`scripts/seed_slow.py`, `seed_fast.py`) | the rows and indexes of a branch | reset, copy, index | several runs at once, whose locks collide and deadlock; TRUNCATE, copies and indexes are separate transactions | never two datasets; only a reset removes one; without an interruption the branch ends up with one |
| Commerce API (`repositories/`, `services/`, `schemas/pagination.py`) | none; the client keeps a cursor | read-only queries | ties in `created_at`; cursors that outlive a switch or a reset; an order read in two statements | a walk shows all users once and ends; an order comes with all of its items |
| Smoke test, traffic generator (`scripts/smoke_health.py`, `traffic_generator.py`) | attempts; the statistics of the tasks | probe `/health` until it is healthy; run tasks until a deadline | an instance that sleeps, boots or restarts, and pages of the host in its place; budgets; percentiles and rates at their edges | a service that is fit is not given up; the exit code says what happened; the job ends |
| Settings, schemas, models, error handlers, benchmark | none | - | - | not modelled: declarations and measurements |

How they interact: the switcher calls the retarget hook (check the branch, flip
`BranchTarget.url`, dispose two engines) and the post-switch hook (clear the ring
buffer) under its lock, then writes the state file. Engines read
`BranchTarget.url` each time they dial. The middleware decides before the access
gates do, the gates before the handlers of the switch and of force-explain.
Force-explain, the event stream and the library's worker share the library's
store. Migrations run before any of this exists, beside the release that is still
serving. The smoke test and the traffic generator see the service from outside, as a
host that has to wake it does.


## 2. The modules

| Module | Models | Rests on |
|---|---|---|
| `BranchRegister` | abstract: what `POST /branches/switch` promises, one register | - |
| `BranchSwitch` | switcher, state file, hooks, boot and crash | implements `BranchRegister` |
| `ServedBranch` | `BranchSwitch` composed with both engines, the requests and health probes on them, and the ring buffer | extends `BranchSwitch` |
| `BranchProofs` | theorems about the two | `ServedBranch` |
| `PlatformAuth` | token middleware and key cache | - |
| `MutationGate` | cooldown, admin gate, force-explain | - |
| `EventStream` | the stream's generator | - |
| `SuggestionTables` | abstract: what spec 13 promises of the suggestions | - |
| `Migrations` | the boot of containers | implements `SuggestionTables` |
| `BranchDataset` | abstract: what a reader of a branch may rely on while it is seeded | - |
| `Seeding` | both seed scripts | implements `BranchDataset` |
| `Commerce` | paging through users, an order with its items | its branches are `BranchDataset`s |
| `LiveChecks` | smoke test and traffic generator, against an instance that sleeps and boots | - |
| `PlatformAuthProofs`, `MutationGateProofs`, `EventStreamProofs`, `MigrationsProofs`, `SeedingProofs`, `CommerceProofs`, `LiveChecksProofs` | theorems about each | the module of that name |
| `MC*` | model values for TLC | the module of that name |

**BranchSwitch.** `phase[c]` says at which await request `c` stands: queued on the
lock, in `check_branch_reachable`, disposing the commerce pool, disposing the
health pool. `Refuse` is the `ValueError` of the comparison under the lock,
`CheckRaises` any exception of the check, `CheckPasses` the flip of the URL.
`Complete` is everything after the last await: the buffer's clearing (in
`ServedBranch`), `_active`, `save_branch`, the release of the lock, the answer.
`SaveRaises` is the same with an `OSError` from the file, before or after it was
truncated. A disposal waits and does not raise: SQLAlchemy's pool logs and drops what
closing a connection raises, and lets only a cancellation through, which here is the
process going down. `Crash` may happen anywhere; `CrashInSave` happens between truncating
and writing. A URL is the branch it belongs to; the file holds a branch or
"other" (absent, empty, malformed), which `Load` reads as slow, as `load_branch`
does. `malformed` is the set of branches
whose URL raises a `ValueError`; it is chosen at the start and never changes. The
variable `saved` is history: it is FALSE from a write that raised to the next one
that did not, or the next boot. Its refinement mapping is at the end of the module:
the register's branch is `_active`, its `pending` what a request in flight asks for.

**ServedBranch.** Each engine owns a pool at a time, numbered by `pool[e]`;
`idle[e][p][b]` counts its idle connections by the branch they reach. A request
takes an idle connection (and pings it), or dials, or waits; the branch it is
on was read from `url` when it dialled. A disposal closes idle connections one
await at a time and then replaces the pool; requests that hold a connection of
the old pool, or wait on it, go on. SQLAlchemy's pool is external and modelled
from its documented behaviour with the parameters `build_branch_engine` gives it.
`buffer` holds, for each kind of sample, the branch it was measured on and whether
its request began before the last clear. `seen[u]` is history: what `url` and
`_active` have been since `u` began.

**PlatformAuth.** `Arrive` is the middleware up to the verdict, or up to the fetch
of bastion's key; `BastionAnswers` and `KeyArrives` take the two halves of the
fetch apart, so that a response may be overtaken; `FetchFails` covers every way to
end without a key. `Verdict` keeps the order of the code's checks (no key, no
token, `DEMO_MODE`, signature and claims). Keys are numbered by rotation and
signatures are who signed. One clock stands for `time.time()` and
`time.monotonic()`.

**MutationGate.** Cooldown, admin gate and body validation are one action (no
suspension between them), in that order; `force_explain` is one action per await,
and `Raise` ends it at any of them with 500. `Record` and `Capture` are the
library's. The code's buckets are flat texts such as `bastion:alice`; `Key` builds them as
the sequence of the parts between their colons. The address in them is whatever the
leftmost `X-Forwarded-For` says, which the code does not check: a header that reads like
another bucket is that bucket. `AddressAssumption` excludes it: an address does not begin
with an issuer's name. `AdmittedApart` and `ThrottledForOwnCalls` hold under it and not
without.

**EventStream.** `Poll`, one `Row` per row of the page, `EndBatch`, `Wake`. The
store changes and the client leaves between any two of them. Which rows a poll
returns, when there are more than `_STREAM_LIMIT`, is left open.

**Migrations.** `Start` is `migration_targets`; `Connect` reads the version;
`Lock`, `Create`, `Deduplicate`, `Constrain`, `Commit` are the statements of 0001
and 0002 that matter to suggestions, in one transaction. `DatabaseOf` maps URLs,
taken up to what `_identity` ignores, to databases, so that two URLs may reach
one database. `Insert` is the previous release. The refinement mapping is short: the
databases at head are those whose version is 0002, and their content is `rows`, in which a
transaction's deletions appear with its commit. So `Commit` is the abstract `Upgrade`, and
everything before it, whatever ends it, is a stutter.

**Seeding.** A dataset is named by the run that copied it. A run takes its locks
one at a time: TRUNCATE the four tables children first (`LockNext`), the copies
parents first (`CopyUsers`, `CopyNext`), each index its own table (`BeginIndex`).
`WaitsFor` says whom a run waits for: who holds a conflicting lock, or has
inserted the same e-mails and not committed (`InsertUsers`, which fails when they
are there). `DeadlockDetected` ends any one of the runs that wait in a circle, and
`Interrupt` any run anywhere. The locks and their conflicts are Postgres's and
marked external. The queue in front of a lock is left out: who gets a lock
next is open. To a reader the branch is a `BranchDataset`: the dataset it holds is
`datasets`, and a run counts as spent once it can no longer commit its copies.

**Commerce.** `ListUsers` is one `GET /users`: the router's bounds and the decoding
of the cursor (`Requests`), the statement (`Page`), `next_cursor`. A walker keeps
the last cursor, may spoil its id, and is shown pages until there is no next one.
`ReadOrder` and `ReadItems` are the two statements of `GET /orders/{id}`; between
them the session has a lock on `orders`, which a `TRUNCATE` that already has
`order_items` waits for (`LockItems`, `Truncate`), so that Postgres may have to break a
deadlock (`ReadFails`, `TruncateFails`). The switch and the seed scripts are one
step each here; `BranchSwitch` and `Seeding` take them apart, and each branch here is
again a `BranchDataset`. `Copy` may commit any dataset not copied yet: a dataset is named
by the `created_at` its run chose, and runs need not commit in that order. The API's other
endpoints are a single statement and keep nothing.

**LiveChecks.** Both jobs of CI that look at the deployed service. Time is counted in
ticks; a sleep has a `timer`, and so has each wait of a request, and a tick passes only
while none has run out. The timeout given to httpx is one of each wait (to connect, to
send, for each part of the answer) and the request as a whole has none. `Send` begins the
first wait and `WaitsOn` any further one with the whole timeout, up to `Waits` of them;
that bound is the model's and not the code's, and no property is stated without it.
`Probe` and `_probe_once` are an attempt of the smoke test, `Probed` what follows its
verdict; `Loop`, `Ask`, `_run_driver` are the traffic generator's loop, the requests of
its tasks and what their answers do. The instance sleeps, boots within `BootTime`,
restarts, loses its database; until it is up the host may answer with a page of its own
(`HostPages`), be it 502 or 200. A page that is no JSON ends the driver where it reads
the answer (`Died`), as the exception of `response.json()` does. `Sorted` says of the
sorted samples what sorting makes true of them: the k-th has fewer than k below it, and
k or more up to it.

Operators commented "Mutant:" are not part of the model: each is a version of
the definition that follows it with a plausible mistake, and shows that the
property it is listed with (`PROJECT.json`, "mutants") notices the mistake.


## 3. The runs

| Run | Instance | What it shows |
|---|---|---|
| `BranchSwitch` | 3 clients, any contents of the file at boot, any malformed URLs | `Serialized`, `DialsTheActiveBranch`, `RestartKeepsTheBranch`; `AnswerIsTheTruth` and `FailureKeepsServing` of every answer; `ActsAsRegister` (refinement); `EveryRequestEnds` |
| `ServedBranch` | 1 switching client, 2 requests that share a pool of one connection, a health probe on the other engine, one switch in each life of the process | `ServedByABranchOfItsTime`, `CurrentPoolOnTarget`, `StaleSamplesAreLate`, `EveryUseEnds` |
| `PlatformAuth` | 2 requests, all 24 configurations, 4 tokens (one whose life is too long), one rotation, clock 0..4 | `HeldKeysAreDated`, `ReplacedKeysExpire`, `AdmittedAlive`, `FailsClosed` |
| `MutationGate` | 2 requests, 5 callers, window 2, clock 0..2 | `AdmittedApart`, `ThrottledForOwnCalls`, `AnswersTellOfTheWrite`, `OverwritesNeedTheToken` |
| `Migrations` | 2 containers, 2 databases, 3 URLs, 7 environments, ids to 3, 2 faults | `ServesAtHead`, `RerunChangesNothing`, `FirstsSurvive`; `MigratesAtOnce` (refinement); `EveryContainerServes` |
| `Seeding` | 3 runs of either script, each with or without `--reset`, on a new or a seeded branch | `NeverDoubled`, `BranchEndsSeeded`, `OnlyAResetReplaces`; `ActsAsOneDataset` (refinement); `EveryRunEnds` |
| `EventStream` | 2 fingerprints, 2 values, pages of one row | `ViewFollowsThePoll`, `ChangesArrive`, `StreamEnds` |
| `Commerce` | 1 walker, 1 reader, 2 datasets of 1 to 3 users, pages of 1 and 2 | `NothingTwice`, `WalksAreComplete`, `OrdersAreWhole`, `WalksEnd` |
| `LiveChecks` | either job, every kind of setting (valid, out of range, garbage), an instance that sleeps, boots or is up, tasks of 1, 2 and 3 requests, requests of one or two waits | `GivesUpOnTheUnfit`, `ExitCodeTellsTheRuns`, `StopsInTime`, `JobEnds` |
| `BranchSwitch_doc_restart`, `Seeding_doc_indexed`, `EventStream_doc_first` | the same, smaller | violated: see section 6 |

The type invariants of `BranchSwitch`, `ServedBranch`, `PlatformAuth`, `MutationGate` and
`Migrations` are proved (section 5) and no run checks them, nor `NoTwinSlipsIn` of
`Migrations`, which says of the lock what `MigratesAtOnce` needs. The type invariants the
other proofs state for themselves are part of their inductive invariants. Every property
of a passing run has a mutant that violates it.

Why the bounds are enough:

- *Clients, requests, runs, containers.* The hazards are between two actors, the
  one that acts and the one that overtakes it; the lock's queue needs a third,
  which waits while the other two change places, and so does a circle of three seed
  runs, which section 5 shows to be the longest there is. TLAPS removes these bounds for
  every safety property of the runs.
- *Pools (`MaxPools` = 1).* One switch in each life of the process, in either
  direction; a boot starts with the pools numbered anew. That a second and a third
  switch, with connections and waiters of pools two switches old, change nothing is
  what `BranchProofs` shows for any number. `EveryUseEnds` is about one
  request and the pool it waits at. The bound is in the guard of the flip.
- *Clocks (`Horizon`).* Windows, lifetimes, leeway and the cache's time are
  scaled to 1 or 2 seconds; in `PlatformAuth` the clock reaches twice the cache's
  time and beyond the last token's end, in `MutationGate` the end of the first
  window. Nothing compares more than two instants. In `LiveChecks` a tick is about 15
  seconds of the smoke test and 5 of the driver; the longest job (3 attempts of two
  waits each with 2 ticks of delay, or 5 ticks and a burst) ends by the horizon, so `Tick`'s bound
  is never met, and 60 in place of the 95th percentile makes the index move within
  the five tasks that fit.
- *Waits of a request (`Waits` = 2).* Two are one that takes its whole timeout and another
  after it, which is what a timeout per request would not allow. `LiveChecksProofs` has
  any number.
- *Ids and faults in `Migrations`.* Three suggestions are an original, its twin
  and one inserted meanwhile; two faults are one for each container, or one in
  each of two boots.
- *Pages.* One row out of two is the smallest page of the stream that can leave a
  row out. Three users in pages of one and two give full last pages, partial ones
  and empty ones. Walkers do not affect each other, so one is enough; two datasets
  are one before and one after the cursor's.

`CHECK_DEADLOCK FALSE` is set where the system stops: all seed runs have ended; all
containers serve and the bound on ids or faults is reached; the job is over.


## 4. Fairness

- `BranchSwitch`: weak fairness of each request's next step. The check has
  timeouts, disposal closes finitely many connections, and an asyncio lock wakes
  its waiters in order. Nothing obliges a client to ask or the process to crash.
- `ServedBranch`: weak fairness of each request's progress (ping, dial, query,
  `pool_timeout` all end), none of the switch: requests end even if it never does.
- `EventStream`: the generator goes on when it can; a client that is there takes
  what it is sent. Nothing obliges a client that is gone to be noticed at once.
- `Migrations`: a container that has not died goes on, one that gave up is deployed
  again (the platform restarts a container that exits); faults are bounded,
  inserts are not obliged.
- `Seeding`: a run that is not interrupted goes on; Postgres gives a lock to one that
  waits for it when nobody holds it, and finds deadlocks (`deadlock_timeout`).
- `LiveChecks`: the scripts go on, time passes, a container boots in the end, and a request
  has no more than `Waits` waits: against a service that sends its answer without end,
  neither script would end. No fairness obliges a wait to be the last. Nothing
  obliges the database to recover or the host to stop restarting the instance.
- `Commerce`: a walker asks for its next page. Nothing else is obliged.
- `PlatformAuth`, `MutationGate`: no liveness is claimed, no fairness assumed.


## 5. The proofs

Every safety property that a run expects to hold, invariant, action property or
refinement, is stated by a theorem. So is, for each of the eight liveness properties, the half
that needs no fairness: that somebody can always go on, that every step makes progress, or
that what is compared is never out of date.

**`BranchProofs`**, part 1, from `NoOneAssumption` (the free lock's holder is no client):
`TypeOK`, `Serialized`, `DialsTheActiveBranch`, `RestartKeepsTheBranch` are
invariants, `AnswerIsTheTruth` and `FailureKeepsServing` hold of every step, and
`ImplementsRegister`: the switch implements `BranchRegister`. The set of clients,
the malformed branches and the number of crashes are arbitrary. The inductive
invariant is the conjunction of the four. `DialsTheActiveBranch` is not inductive
alone: a step of one request may falsify it for another unless at most one is past
the lock, which is `Serialized`; and `Serialized` needs that the queue names a
request once. The refinement maps each step to one action of the register or to
a stutter: the check, the flip and the disposal stutter, `Complete` is `Switch`,
`SaveRaises` is `SwitchUnsaved`, a crash is `Restart`. `Restart` may keep the effect
of a switch that was not answered, because the file may already be written.
`SwitchesGoOn` and `QueueIsFair` are about the lock's queue: whoever waits is in it, the
first of it may enter when the lock is free, and nobody loses a place.

**`PlatformAuthProofs`**, from `ClockAssumption` (the time constants and bounds are
natural numbers): the type invariant; `HeldKeysAreDated`; `ReplacedKeysExpire`;
`FailsClosed`; `AdmittedAlive`; and `ValidityIsBounded`, about `Valid` alone: the
moments at which a token is valid lie within its greatest lifetime and twice the
leeway. Requests, tokens, configurations and rotations are arbitrary. The
inductive invariant adds `TimesArePast` (nothing is recorded as having begun in
the future) to `HeldKeysAreDated`: a rotation replaces the published key *now*,
so a key recorded for an earlier moment was still published then. The bound on a
replaced key follows because an entry's age counts from the beginning of its
fetch; with its age counted from the end (the mutant `KeyArrivesNew`) it fails.

**`BranchProofs`**, part 2, from `PoolAssumption` (sizes and capacities are numbers, requests
are not probes): `ServedSwitches`, that the composition is still a `BranchSwitch`, so
that every theorem of part 1 holds of it; the type invariant; `ServedByABranchOfItsTime`;
`CurrentPoolOnTarget`; `StaleSamplesAreLate`. Clients, requests, probes, pool sizes and
the number of switches are arbitrary. None of the three is inductive. The
invariant is about what a pool *reaches*, through its idle connections and those its
users hold: a current pool reaches the branch that is dialled or active, and only
the former once disposed (`CurrentPools`, which needs `Paced`: between the disposals the
health engine is exactly one pool behind); a pool somebody waits at, replaced or not,
reaches only what the one who waits has seen (`WaitedPools`); a pool not yet in use
has no connection (`Fresh`); and between switches only requests from before the
last clear hold connections of a replaced pool (`LateComers`).
`PoolsKeepWithinCapacity` bounds a current pool's connections, idle and in use, by
`pool_size + max_overflow`. The bound is of one pool: users of a replaced pool keep their
connections until they end, so that a switch may have up to twice as many open, and every
further switch meanwhile as many more. `RequestsGoForward`: a request keeps to the pool it came
to and is never sent back to wait. `ServedActsAsRegister` carries the refinement over.

**`MutationGateProofs`**, from `VisitorAssumption` (who counts as one visitor),
`AddressAssumption` (addresses are addresses: see section 2) and `CooldownAssumption` (the
window and the horizon are numbers): the type invariant,
`AdmittedApart`, `ThrottledForOwnCalls`, `AnswersTellOfTheWrite` and
`OverwritesNeedTheToken`, for any callers, requests and fingerprints. The limiter
knows buckets and the first two properties speak of visitors; they meet in
`BucketsAreVisitors`: what the limiter's table says of a bucket is what the history says
of its visitor. That buckets are visitors at all is `KeyIsVisitor`, which needs
`AddressAssumption`. The other two carry what was found out at one await to a later one:
`ExplainersMay` takes the token and the recorded fingerprint to where the plan is written,
`StagesTellOfTheWrite` takes the write to the answer.

**`MigrationsProofs`**, from `ConfigurationAssumption`: `ServesAtHead`,
`RerunChangesNothing`, `NoTwinSlipsIn`, `FirstsSurvive` and the type invariant, for any
containers, databases, environments, suggestions and faults. The invariant says that a
container at work stands at a target of its environment with every name before it
at head (`OnItsWay`), that from the lock to the commit it is the table's holder,
that what it has deleted is what there was to delete (`Deleted`), and that a database
at 0002 has the constraint and no duplicate (`Clean`). `OnItsWay` is about names and
not targets, because a name that is skipped shares its database with an earlier one.
`FirstsSurvive` needs that every set of ids has a least one. `ImplementsSuggestionTables`
then maps `Commit` to `Upgrade`: what remains is what the abstract step keeps, because the
lock has kept `Deleted` true since the duplicates were read. `NobodyWaitsForTheDead`: a
table is locked only by a container at work on it, which holds no other.

**`SeedingProofs`**, from `RunAssumption`: `NeverDoubled`, `BranchEndsSeeded` and
`OnlyAResetReplaces`, for any number of runs. Two datasets are kept apart by the unique
e-mail alone: whoever has inserted its users has done so in an empty branch and is
the only one (`OneCopies`). `BranchEndsSeeded` needs that an empty branch always has a
run that is still to copy or to count (`Pursued`); a deadlock ends one of those, and the
one it waited for remains. `ImplementsOneDataset` is `OneCopies` again: when a run commits,
the branch is empty. `DeadlocksAreFound`: while a run has not ended, one
can go on or sits in a circle of at most three, which is what `DeadlockDetected`
looks for. One run at a time has begun to truncate (`OneTruncates`), because that begins
with an exclusive lock on the table everybody truncates first; one at a time has inserted
its users; and any other run that holds a lock waits for that one's users. So whoever
waits, waits for one of the two, and if both of those wait they close the circle.
`RunsAreShort` counts what a run has before it: at most 21 steps, each of which brings it
nearer its end, whatever the other runs do.

**`CommerceProofs`**, from `PageAssumption` (the sizes are positive, the default page is no
larger than the greatest, "no cursor" is not a cursor). `OrdersAreWhole`: while a reader
stands between its two statements, the branch keeps the dataset it reads
(`ReadersKeepTheirData`), since a TRUNCATE waits for the lock on `orders` and a copy needs an
empty branch. `NothingTwice` and `WalksAreComplete`: the statement sorts, and the cursor
cuts the sorted rows, so a page counts down from where the cursor stands; what a walk has
been shown descends (`Descends`), its cursor is the last of it (`CursorIsLast`), and as long
as it has met one dataset, that is the dataset's upper end (`FromTheTop`). `PagesGoOn`: a page
ends the walk or moves its cursor strictly on. `BranchesActAsDatasets`: both branches
implement `BranchDataset`, so what `Commerce` assumes of the scripts is what `Seeding` shows.

**`EventStreamProofs`**, from `StreamAssumption`: `ViewFollowsThePoll`. The generator
remembers a number only after it has sent it (`Remembered`), and of the rows it has
gone through the client knows each (`ToldSoFar`). `NothingIsForgotten` states the first for
every moment. `StreamsWindDown`: once the client has left, what remains is the poll, the rows
and the interval under way.

**`LiveChecksProofs`**, from `TimesAssumption`: `GivesUpOnTheUnfit` and `StopsInTime`. Both
count what the clock shows together with what is left of the timer and of the waits, so that
neither a tick nor the end of a wait changes them: the n-th probe does not begin before
n - 1 delays (`Paced`), a task has used no more than the waits of the requests it has made
(`Within`), and the probes no more than theirs and the delays between them (`ProbesInTime`).
`TheScriptsStop` is for any number of waits a request takes, and its bounds grow with that
number: the code bounds a wait, the requests of a task, the attempts and the delays, and not
the waits. It says in particular that nothing but waits and delays takes time, that no task
begins after the deadline and that no delay follows the last attempt.
`ExitCodeTellsTheRuns`: the figures are those of the tasks that ran (`Tally`), and the
percentile is over the limit exactly when more samples are over it than the index leaves
room for. That an element of the k-th place exists is shown by the least value with k
samples up to it, without going through the sorting. `TheClockGoesOn` shows that the model's own bound,
`Horizon`, stops no job when it is set beyond what the two bounds allow, as it is in the run.

What TLC alone shows is what must eventually happen: `EveryRequestEnds`, `EveryUseEnds`,
`EveryContainerServes`, `EveryRunEnds`, `ChangesArrive`, `StreamEnds`, `WalksEnd`, `JobEnds`.
TLAPS proves neither liveness under fairness nor ENABLED. The safety half of each is proved:

| Liveness, by TLC | Its safety half, by TLAPS |
|---|---|
| `EveryRequestEnds` | `SwitchesGoOn`, `QueueIsFair` |
| `EveryUseEnds` | `RequestsGoForward` |
| `EveryContainerServes` | `NobodyWaitsForTheDead` |
| `EveryRunEnds` | `DeadlocksAreFound`, `RunsAreShort` |
| `WalksEnd` | `PagesGoOn` |
| `StreamEnds` | `StreamsWindDown` |
| `ChangesArrive` | `NothingIsForgotten`, `TheViewFollows` |
| `JobEnds` | `TheScriptsStop`, `TheClockGoesOn` |

In these theorems "can go on" is a predicate over the state in place of ENABLED, read off the
guards (`GoesOn` in `SeedingProofs`, `MayEnter` in `BranchSwitch`), and what is left of a run,
a request or a stream is a number read off its stage (`StepsLeft`).


## 6. Where the code and its documents disagree

Shown by a run:

- `BranchSwitch_doc_restart`: spec 06 says the active branch survives restarts.
  When `save_branch` raises, the switch is in effect and the file is not: the next
  boot serves another branch (`RestartKeepsTheBranch` says when it does survive).
- `Seeding_doc_indexed`: `seed_fast` exits 0 on a branch that has rows, also when the
  run that copied them was interrupted before its last index, or is not there yet.
- `EventStream_doc_first`: the first batch is meant to say something at once; when
  none of its rows has a p95 it sends neither a tick nor a heartbeat.

Seen while modelling, without a run of their own:

- Spec 06 answers 503 when the check of the target fails. The handler catches
  `ValueError` alone; the answer is 500 (`CheckRaises`).
- `schemas/pagination.py` promises a 422 for any malformed cursor and spec 04 (test
  16) that it is refused before any SQL. A malformed `created_at` is a `ValueError`
  of `fromisoformat`, hence a 500; a malformed id goes on without its half of the
  comparison and skips the rest of the dataset (`AfterCursor`).
- `app.state.branch_current` is assigned at boot and by no switch; spec 06 says it
  is what the state file mirrors.
- A target whose URL the driver rejects with a `ValueError` gets the 409 meant for
  "already active" (`CheckRaises`, in the run `BranchSwitch`).
- Spec 06 clears the buffer so that no sample of the previous branch stands beside
  fresh ones; a query under way is recorded after the clear. `StaleSamplesAreLate`
  is the bound that does hold.
- Spec 14 says bastion's key is fetched once and cached; requests that meet an empty
  cache each fetch it.
- Spec 02 says an interrupt rolls everything back; TRUNCATE is not part of the
  transaction. `OnlyAResetReplaces` is what holds.
- `ci.yml` (line 107) says the smoke job verifies that the deploy a push triggered
  came up. The script accepts the first healthy answer, which may be the previous
  release's while the new one is still being built.
- `smoke_health.py` (line 32) and spec 12 call 10 attempts of 15 seconds a budget of about
  2.5 minutes. That is the time of the delays; each attempt may use its 30 seconds as well.
  And the 30 seconds are of each wait of a request (connect, send, each read), of which an
  attempt may have several. So there is no bound in seconds: `StopsInTime` has 9 delays and
  the waits of 10 attempts, and `GivesUpOnTheUnfit` says that the 9 delays are the least.
- Spec 07 has the driver run for `--duration` seconds. The deadline is looked at between
  tasks, and a task is as long as its requests' waits, which again have no bound in number
  (`StopsInTime`).
- Spec 03 hashes rows of both branches for equality, `user_id` included; the ids are
  fresh in every run.


## 7. What is not modelled, and the plan

Done, in this order: BranchRegister, BranchSwitch and its proofs, ServedBranch,
PlatformAuth and its proofs, MutationGate, Migrations, Seeding, EventStream, Commerce,
LiveChecks; the proofs about each of these; the abstract specifications BranchDataset and
SuggestionTables and what implements them.

What would come next, and why it is not here:

1. `SwitchTiming`: spec 06's bound on the answer, which needs the durations of the
   awaits under the lock. Nothing in the code bounds the disposals or the wait for
   the lock, so the model would have to invent the numbers it checks.
2. An abstract rate limiter that `MutationGate` implements. `AdmittedApart` and
   `ThrottledForOwnCalls` already are its two halves, stated over the calls themselves.
3. A bound on the connections of all pools of an engine together. The code has none: see
   `PoolsKeepWithinCapacity` above.
4. Proofs of the eight liveness properties themselves, beyond the prover.

Left out, and why:

- *External.* The internals of slowquery-detective, and Postgres beyond its locks and
  transactions. Which of several waiting statements gets a lock next is open.
- *String work.* The rewriting of database URLs (`core/db_config.py`), the encodings and
  the JSON of a token, the table of public routes: none keeps state, and each enters
  the models as what it decides. Which URL a branch has, and that a script is
  pointed at the right one, is configuration.
- *One statement and no state.* The lists of products, orders and items and the lookups
  of one row. The two reads of the API that take more than one step are in `Commerce`.
- *Declarations.* Models, response schemas, the mapping of errors to bodies, the tables
  of 0001 other than suggestions; the downgrades, which nothing runs.
- *Which release answers.* The smoke test takes the first healthy answer; deployments
  are not modelled, an instance is one.
- *The benchmark.* Its result is a duration.

- *The form of an address.* See `AddressAssumption` in section 2.
- *The number of waits of a request.* It is the constant `Waits` of `LiveChecks`; what the
  scripts do against a service that never finishes an answer is wait.

Two hazards have no property (`PROJECT.json`): the bound on the answer of a switch,
above, and the cooldown's table, for which the code has no limit that a property could
state. `PROJECT.json` lists every component with what is modelled of it, and every
hazard with the properties that cover it.
