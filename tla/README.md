# PulseBoost: specifications

TLA+ models of the PulseBoost backend (`src/pulseboost`), the configurations
TLC checks them with, and theorems about them that TLAPS proves.

PulseBoost is a Windows optimizer: a FastAPI process that watches the machine,
changes settings of the operating system ("tweaks"), promises to put them back,
and shows a React interface what it found. The backend is one asyncio event
loop. Coroutines are switched only at an `await`, and nearly every await is a
database call that commits by itself; so the behaviours that are hard to test
are interleavings at those awaits, crashes between two of those commits, and
state that is read before one and used after it. Every module here has one
action for the code between two awaits.

## The system

| Component | State | Operations | Interacts with |
|---|---|---|---|
| Tweak lifecycle: `optimizer.py`, `revert_manager.py`, `temporary_tweaks.py`, the service, registry, priority and affinity managers | the OS settings; tables `rollback_snapshots`, `tweak_applications` | apply (read, capture, write, register), revert one, restore all (list; then write, mark, remove for each row) | called by requests, the adaptive engine, benchmarks, startup and shutdown |
| Application lifecycle: `api/main.py` `lifespan`, `session_recovery.py` | the row "current" of `app_runtime_state`; the background tasks | launch, recovery after an unclean exit, serving, stop, cleanup, cancellation, clean exit; crash | calls restore-all; owns the orchestrator's task |
| Benchmark engine: `benchmark_engine.py` | the running flag; `benchmark_results` | measure, apply one tweak after another, measure, revert, record | tweak lifecycle, from within a request |
| Orchestrator: `agents/orchestrator.py` | `current_state`, `last_snapshot`, `running` | one monitoring cycle after another; user decisions; `stop()` | calls everything below |
| Adaptive engine: `adaptive_engine.py` | stored cool-downs | list the active tweaks, apply the first rule that matches, touch its cool-down | tweak lifecycle, from within the cycle |
| Session manager: `session_manager.py`, `game_detection.py` | `current_session`; table `sessions` | start, end and change of a game session | the cycle, `stop()`, the watchdog |
| Watchdog and live view: `api/main.py` | the watched game and its monitor; the live connections | watch, announce a closed game; accept, broadcast, disconnect | session manager, orchestrator, interface |
| Optimization feed: `waste_hunter.py`, `memory.py`, orchestrator | table `optimizations`; the list in `current_state` | hunt, look up, execute, store, publish; approve, dismiss | executor |
| Executor, reasoner, planner, safety guard | actions and their log | carry one action out or refuse it | optimization feed |
| Account store: `auth_service.py`, `entitlements.py`, `plans.py`, `secure_storage.py` | six tables: identities, plans, activations, sessions, tokens, entitlements | sign-in, sign-out, refresh; cleaning at launch | feature gates of the API |
| Database service: `db/service.py`, `db/migrations.py` | connection pool, the database and its recorded versions | seven migrations; acquire, one transaction, release; close | everything |
| Metrics memory: `cognition/memory.py` | table `metrics`: samples, minutes, five minutes | store, roll up twice, delete by age | orchestrator |
| HTTP API: `api/routes.py` | response cache | handlers, caching, invalidation | everything |
| Settings: `gpu_controller.py`, `adaptive_engine.py` | rows of `settings` | read a row, change it, write it back | the API, the cycle |
| Desktop shell: `electron/main.cjs` | the backend's process, port and owner | start, adopt, fall back, restart, stop | starts and kills the backend |
| Analysis: anomaly, scores, leaks, predictions, thermal, scheduling, learning | baselines, histories in memory | pure functions of samples | the cycle |
| Trust center, reports, capabilities, library, event bus, audit log, React interface | little or none of their own | reads and single writes | the API |

What is hard, and what would make each part correct:

- **Tweaks.** Restores and applies overlap, writes are refused, processes end,
  reads fail, the backend crashes at any await. The original value must survive
  all of it, and as long as a setting is altered there must be a snapshot or a row
  of it that has not been used up.
- **Lifecycle.** Recovery, requests, the cycle and the cleanup follow each other
  over the same tables, and the session row decides whether the next launch
  recovers. Recovery must have attempted everything before anyone else adds to
  the list, and a shutdown may leave behind only what it was refused.
- **Benchmarks.** A benchmark applies tweaks that others restore, and restores
  what it applied while others apply the same. It must take back its own and
  leave the rest, and the next one must be let in whatever ended it.
- **Accounts.** Six tables in six transactions: any prefix of any call. A session
  must have its account, an entitlement must come from a plan.
- **Sessions.** The cycle and `stop()` end the same session, and the watchdog
  goes by what the cycle knew a second ago. No row may be lost, none may be open
  twice, the game that ended must be closed and announced.
- **Feed.** The cycle reads a status, executes for seconds and writes later; the
  user decides in between. The cycle may not take back a decision.
- **Launch of the database.** Python commits before `executescript`, so that a
  launch has several commits. A crash between two of them may neither leave a
  version recorded that was not carried out, nor bring back old rows.
- **Pool, cache, settings, live view, retention, shell.** Each reads something,
  awaits, and acts on it. What each may lose and what it may not is the property
  of its module.

`PROJECT.json` lists each hazard at its line with the properties that would
catch it, and those that nothing covers with the reason.

## The modules

| Module | Models | Proofs | Checked by |
|---|---|---|---|
| `SettingLedger` | what the tweaks promise: saved before altered, never lost | - | refined by `TweakLifecycle` |
| `TweakLifecycle` | apply, revert and restore by any number of tasks | `TweakLifecycleProofs`, `TweakRecoveryProofs` | `MCTweakLifecycle` |
| `AppLifecycle` (extends `TweakLifecycle`) | lifespan, session row, recovery, adaptive cycle, shutdown | `AppLifecycleProofs` | `MCAppLifecycle` |
| `BenchmarkEngine` (extends `TweakLifecycle`) | benchmarks beside other tweak calls | `BenchmarkEngineProofs` | `MCBenchmarkEngine` |
| `AccountStore` | sign-in, sign-out, refresh, launch | `AccountStoreProofs` | `MCAccountStore` |
| `SessionBook` | what the table of sessions promises: one at a time, no end taken back or written over once a later session has ended, earlier runs untouched | - | refined by `GameSessions` |
| `GameSessions` | the cycle, `stop()` and the table of sessions | `GameSessionsProofs` | `MCGameSessions` |
| `GameWatch` (extends `GameSessions`) | the watchdog and its monitor beside them | `GameSessionsProofs` | `MCGameWatch` |
| `OptimizationFeed` | cycle and decisions on the optimizations | `OptimizationFeedProofs` | `MCOptimizationFeed` |
| `Migrations` | the seven migrations as functions on databases | `ServicesProofs` | `DatabaseLaunch` |
| `DatabaseLaunch` | launches, their commits, crashes and the rows of the backend | `ServicesProofs` | `MCServices` |
| `TransactionStore` | what the database promises its callers: a bounded number inside, one writer, all of a transaction or nothing | - | refined by `ConnectionPool` |
| `ConnectionPool` | permits, connections and transactions | `ServicesProofs` | `MCServices` |
| `LiveView` | the list of websockets and the broadcasts that walk it | `ServicesProofs` | `MCServices` |
| `MetricsRetention` | samples, rollups and deletes | `ServicesProofs` | `MCServices` |
| `ResponseCache` | the cached list of profiles, its readers and writers | `ServicesProofs` | `MCServices` |
| `SavedSettings` | the GPU record and the cool-downs | `ServicesProofs` | `MCServices` |
| `DesktopShell` | the Electron shell and the backends it starts | `ServicesProofs` | `MCServices` |
| `Services` | the composition of the seven services: launch, pool, live view, retention, cache, settings, shell | `ServicesProofs` | `MCServices` |

`MC*` modules only give the constants values. Each component module has a
section of *slips*: definitions that no specification uses, each of them another
definition with one plausible mistake in it. They are what each property was
tried against; a property that holds with every slip would say nothing.

**TweakLifecycle.** `os`, `snapshots` and `applications` are the operating
system and the two tables; `pc` and `job` are the await and the locals of each
coroutine and do not survive a crash. A task is whatever calls the optimizer;
`Kind` says which manager a setting has, as they differ in what they do when a
write is refused (registry raises, the others return a failure) and in what they
restore when nothing could be read (a service gets "demand"). Values are
abstracted to the original, the tweaked, a process that is gone, and a reading
that failed. `Faults` is what may go wrong outside the program.

**AppLifecycle.** `phase` is how far `lifespan()` is. Its own actions start tweak
calls on the coroutine `main`; the adaptive cycle runs on `orch` and requests on
the remaining tasks. A raise in the restore loop or in `orchestrator.stop()`
leaves the lifespan ("failed"), after which the process ends. `adaptive` is the
stored switch of the adaptive engine: a request may turn it at any time
(`Toggle`), and each cycle reads it once, some awaits before it applies. `refused`
and `late` are history variables: the rows whose restore the loop of this phase
was refused, and those that the last cycle added while the cleanup was restoring.

**BenchmarkEngine.** `bench[c]` is what `run()` holds on coroutine `c`, with the
tweaks still to apply and the snapshots to take back; each apply and each revert
is a step of `TweakLifecycle` on the same coroutine. `running` is the flag of
the engine. `found` is a history variable: the settings as the benchmark found
them, until another call meets it.

**AccountStore.** One variable for each table. `age` orders the rows of
`auth_sessions` by their last update, which is all `get_active_auth_session`
looks at. Time stamps are left out, as nothing reads `expires_at`.

**GameSessions, GameWatch.** `rows` is the table, `current` is
`current_session`, and `loc` keeps what each of the two coroutines has read
before its await. A row counts how often its end was written: `complete_session`
updates without asking whether it has ended, so that the last cycle and `stop()`
may both write the end of one session. `rows` with `base`, the rows of earlier
runs, is a `SessionBook`. `watched` and `monitor` are the locals of the watchdog; its
round is one action, as it awaits only its sleep.

**OptimizationFeed.** `status` is the table, `shown` the list in
`current_state`, `entries` the feed that a cycle is putting together. What
`WasteHunter` finds is an arbitrary set; which of it may be executed unasked is
the constant `Unasked`. `ran` and `known` are history variables that no action
reads.

**Migrations, DatabaseLaunch.** A table is a function from the keys of its rows
to who wrote them ("legacy" for imported rows, "user" for rows of the backend);
profiles keep the columns that migration 6 decides by. `disk` is what is
committed, `work` what the migrating connection sees: a crash makes the one the
other. Migrations 1 and 7 are scripts, which commit what is pending before they
run, and are therefore two actions; the others are one. Two migrations may raise
and fail the launch (`Fails`): migration 4, which gives all rows of a game one
`profile_id`, where that is the primary key and a game has two rows, and
migration 5, when an artifact table lacks a column that it copies. What such a
launch had not committed is lost, and the next one meets the same database.

**ConnectionPool.** One action for each await of a call: the permit, the opening
of the connection, the two statements of its transaction, the return. `waiting`
is the semaphore's queue. A call may be cancelled at each of them and a
connection may fail to open; `lost` counts the permits a cancellation while the
connection is opened takes with it, which is what the code does. Seen from the
callers it is `TransactionStore`: connected are the calls that open or hold a
connection, left are the permits not lost, writing are the calls inside their
transaction, and the effect is what `saved` says of each.

**LiveView.** `walk` is the position of each broadcast in the list that it walks
while others change it. A socket that is removed before that position moves the
next one under it, which is passed over. The senders are the cycle, the monitor
of the watched game, and the requests that decide an optimization and send the
changed state. A shutdown cancels the first two where they are (`serving`) and
then closes the sockets one by one.

**MetricsRetention.** Time is counted in samples; a row is a sample, a minute or
five minutes with its bucket. The two rollups and the deletes are three actions,
as they commit three times, and a crash may fall between them.

**ResponseCache, SavedSettings.** Reads before an await and writes after it: the
list that a GET caches, the record that a GPU request writes back whole, the
cool-downs that the cycle reads before and touches after a tweak. A GET may raise
after it has read and caches nothing then; a POST may raise after the save has
committed and drops nothing then. `mayMiss` is a history variable: the second up
to which an answer may still lack the newest save. `TweakDrops` is the
invalidation that a tweak request makes.

**DesktopShell.** `call` is where each call of the shell waits and what it waits
for; `process` is every backend that was spawned. `foreign` is what a program
the shell has not started serves at the default port.

**Services.** These seven have no variable in common, so each is proved and
checked beside the others with the others standing still; which one moves is
chosen initially, and TLC adds up their states. (In the code they share the event
loop and the database file, in which each has tables of its own.)

## The runs

| Run | Question | Bounds |
|---|---|---|
| `tweak_faults` | Do overlap, crash, cancellation, refusal, ended processes and failed reads ever lose the original, both the restorable snapshot and the listed row of an altered setting, or the order of mark and removal? Do the tweak calls implement the ledger? | 3 tasks, one setting of each manager, 2 snapshots, every fault |
| `app` | Has recovery attempted everything before serving, and does it end? What does an exit that counts as clean leave on the list: more than what its own cleanup was refused and one tweak of the last cycle? | 3 coroutines, registry and process, 3 snapshots, the adaptive engine switched at any time, live launches, crash, drop, refusal, exit |
| `benchmark` | Are benchmarks only steps of `TweakLifecycle`? Do they take back what they applied and nothing else, and let the next one in? Is every listed row taken off the list when nothing goes wrong? | 2 coroutines, registry and process, 2 benchmarks of two tweaks (one tweak twice, or two), 2 snapshots, 1 mishap of any kind |
| `accounts` | Does a session always have its account, an entitlement its plan, and do refreshes repair it? | 2 calls, 2 accounts, 2 tiers, crash, cipher failure |
| `game_sessions` | One open row, none lost, ended games closed? Do cycle and `stop()` implement the book, however often they write one end? Are lasting sessions watched, ended games announced? | 2 games, 3 rows, 1 raising call, watchdog and monitor |
| `optimization_feed` | Is "done" always true, and does the cycle respect decisions? | 2 findings, one of them automatic, one decision at a time beside the cycle, one raising call |
| `services` | Launch: recorded is done, newest profile kept, no old row twice. Pool: permits accounted, transactions whole; does it implement the store? Live view: who is missed, who is dropped. Retention: has every bucket inside its window a row, and one only? Cache: how long is a save hidden? Settings: what was accepted is kept. Shell: no backend without an owner, and none left but by a failed launch. | below |

Two or three coroutines are enough for each pair and triple of steps to meet.
Two snapshots let a setting be captured again while it is altered, which is
where restoring goes wrong; three let a loop have a row behind and a row ahead
of the one that another loop takes from it. One mishap in a benchmark is enough
for each of its awaits to be the one that fails. Two accounts let a session be
behind another. Three rows let a session be ended, changed and started anew
within one run and the next. Two findings let the feed be empty, partial and
full. One raising call of the feed and one of the sessions lets each await fail
and be met by the retry of the next cycle.

In `services` the old databases are every combination of profiles (none, one
game twice with one time stamp, two games with the newest row first), legacy rows (none or one of every table)
and a second database (none, with rows, with a missing column), one whose
`profile_id` is the key and that has a game twice, so that migration 4 raises,
and one of a release before migration 6. Three calls of
the service and one of the memory share two connections, so that one waits and
one holds while another fails; two sockets and three senders are enough for one
socket to be passed over for the other, by two broadcasts at once. A minute is 2 samples, five minutes are 4, the windows
2, 5 and 10, and 11 samples are taken: every window ends inside a bucket and at
its edge, and a bucket of five minutes leaves its window. Three GPU requests on
two settings let one be overtaken twice. The clock of the cache outlives four
times to live, so that two saves, an entry older than the first and its expiry
follow each other; that of the cool-downs three cool-downs. Four backends on three ports let a
launch, its fallback, a restart and that one's fallback each have one.

`EXECUTOR_DRY_RUN` is fixed in `tweak_faults` and `app` (live), and read again by
each launch in `benchmark`, whose properties hold in both: a dry-run launch after
a live one marks snapshots as restored that it has not restored, which is listed
as a hazard.

`CHECK_DEADLOCK` is off everywhere: the bounds on rows, raises and time end the
models, and a backend that nobody calls really does stand still.

Each component has a type invariant. All of them are proved, for every value of
the constants, and therefore no run checks them again.

### Where the code and what is said of it part

Each of these runs checks one statement of the documentation or of a test and
finds a behaviour of the code that violates it.

| Run | Statement | What happens |
|---|---|---|
| `rollback_order` | rollback-all will "restore all active temporary tweaks" (`docs/PULSEBOOST_API_REFERENCE.md`:418) | the same tweak applied twice is restored oldest row first, so the tweaked value that the second apply captured is written last |
| `clean_exit_race` | tweaks "must be restored on clean shutdown" (`docs/INSTALLER_ARCHITECTURE.md`:24) | the cleanup lists the rows while the last cycle is still to apply; the exit is recorded as clean |
| `unregistered_crash` | recovery "must review and restore temporary tweaks before reuse" (`docs/INSTALLER_ARCHITECTURE.md`:25) | a crash after the OS write and before the registration leaves no row to recover by |
| `sign_out` | no active session after a sign-out (`tests/test_auth_foundation.py`:99) | the session of an account that signed in before becomes active |
| `stop_race` | the cleanup of a shutdown runs (`docs/INSTALLER_ARCHITECTURE.md`:24) | `stop()` and the last cycle end the same session; the second reads `None` and raises, before the cleanup |

### What else was seen

Not statements that a run refutes, but worth knowing beside this code:

- `docs/PERSISTENCE_ARCHITECTURE.md`:15 speaks of schema version 6;
  `SCHEMA_VERSION` is 7.
- `migrations.py`:1055-1058 calls the import of the second database "already
  written" where it is not yet committed; a raise takes it back.
- Where `profile_id` is the primary key and a game has two rows, migration 4
  raises, and so does every launch after it; the database stays as it was.
- A service or process whose restore the cleanup is refused stays on the list
  while the exit is recorded as clean, and its snapshot is no longer restorable:
  neither the next launch nor a rollback attempts it again
  (`ExitLeavesRefusedOrLate` counts it as refused).
- Migration 4 may fill the empty columns of a game's newest profile from the
  payload of a duplicate that is older, before migration 6 removes it.
- Samples that no retention sees for longer than the minute window are deleted
  without a rollup, and a bucket that a cut-off divides is rolled up in part;
  `HistoryIsCovered` says only that each bucket inside its window has a row.
- The end of a session is written twice when `stop()` meets the last cycle, or
  when the audit entry after it raised: its time and metrics are then those of
  the later write. `ImplementsBook` bounds when that may happen.
- A GET that has read before a save and returns after it caches the old list
  behind the invalidation, and a save whose read-back raises does not invalidate;
  `SaveIsSeen` bounds for how long.
- A shell whose launch has failed quits without stopping the backend it tried
  last; `OnlyFailedLaunchLeaves` allows that and nothing else.
- The monitor of a closed game announces it again while the row of its session
  is still open.
- Of two restarts of the shell that overlap, the later overwrites the process of
  the first, which then runs on: `NoOrphan` holds of calls that do not overlap.
- A permit of the pool is lost when its call is cancelled while the connection
  is opened. Only the orchestrator's task is ever cancelled, when the backend
  stops.

### Fairness

Safety properties are checked of specifications without fairness, and
`services` has safety and action properties only. The others assume:

- `BenchFairness`: a tweak call or a benchmark that has begun goes on. asyncio
  resumes a coroutine whose await is answered and aiosqlite answers every call.
  Nothing forces a call to begin.
- `AppFairness`: the lifespan goes on, and a process whose lifespan has raised
  ends. Launching and stopping are the user's. A crash may always come instead,
  which is why `RecoveryEnds` allows for it.
- `WatchSpec`, `OptimizationFeed!FairSpec`: the cycle goes on, and so do the
  watchdog, its monitor and an announcement under way. `Orchestrator.run` is a
  loop that catches every exception of a cycle and sleeps for a bounded time,
  and the watchdog sleeps for one second, its monitor for five. The bound on
  raising calls says that the database does not fail forever.
- `RefreshRepairs` assumes no fairness: that refreshes are repeated and sign-ins
  end is in its hypothesis.

## The proofs

The theorems hold for every value of the constants, that is for any number of
tasks, settings, accounts and findings, from the assumptions on constants in the
component modules, which TLC evaluates in every run.

**TweakLifecycleProofs.** `TypeCorrect` needs `Typed`, which adds to `TypeOK`
that every row and every task refers to a snapshot and a row that exist, and
that a task past the capture has its snapshot of its target. `OriginalSurvivesAlways`
is not inductive alone: a second apply may capture the value a first one wrote.
`SavedInv` adds that every setting with a snapshot has one that holds its
original value (or that it could not be read), and that a task about to capture
a tweaked value already finds one. From it `LedgerIsImplemented` follows: each step of the tweak calls
saves, alters, puts back, or leaves both sets alone.

**AccountStoreProofs.** `AccountsInv` says at each point of a sign-in which
tables it has already written (`CallsInv`), that a tier on its way to an
entitlement is one the account's plan has held, and that a plan row is of such
a tier (`PlansInv`). No table but sessions and tokens is ever deleted from, so
what other calls do keeps all of it; `SessionHasAccountAlways` and
`EntitledWasPlannedAlways` are conjuncts of it. Two more theorems say when an
entitlement is that of the plan and not only of a plan. `EntitlementIsPlanSerial`:
at rest, if calls neither overlap nor fail. `RepairedStaysAlways`: for good, once
a refresh has repaired it and until somebody signs in, whatever overlaps; that a
refresh comes to repair it is the part of `RefreshRepairs` left to TLC.

**OptimizationFeedProofs.** `FeedInv` follows an outcome from the executor to
the table: wherever "done" is written or about to be (a result, a feed entry,
the list) the finding has run (`OutcomesRan`); what was dismissed before the
cycle began is still dismissed, unless a decision has settled it since
(`KnownIsDismissed`). `CycleRespectsDecisionsAlways` follows from a lemma that
only `Store`, `Dismiss` and `Settle` write a status.

**TweakRecoveryProofs.** `OwnersInv` says whose a snapshot is: the one under an
apply that has not registered it belongs to that apply alone, and the one under
a restore is registered. With it `RemovedAfterMarkAlways` is inductive.
`AlteredIsRecoverable` is not, because a row that is listed may be under a
restore that removes it next; `UsableInv` asks for a snapshot that no call is
about to take away. It is proved of live launches only
(`LaunchModes = {FALSE}`): a dry-run launch removes rows it has not restored, and
the property is false then.

`OnceCapturedIsRestoredLive` is the other side of the run `rollback_order`: with
live launches and no call cut short, a setting that was captured once only is
either as it was found or the target of a row that is listed. Its invariant
`ListedInv` says that the snapshot of an altered setting is listed, or belongs
to the apply that is about to list it.

**AppLifecycleProofs.** The application is built of tweak steps
(`AppTakesTweakSteps`, a lemma and not a result: its actions name those of
`TweakLifecycle`), so what is proved of the tweak calls holds of it;
`AppOriginalSurvives`, `AppRemovedAfterMark` and `AppAlteredIsRecoverable` are the
instances. `AppTypeCorrect` adds that what the adaptive engine has listed are
targets of rows that exist.

`PhaseInv` then follows the lifespan: who may be at work in each phase, and that
the session row is armed in all of them but "down". `LeftInv` says of the rows
that are listed while a restore loop runs, and after it, where each of them is:
still to be restored by the loop or in its hands (`LoopHasAll`), refused, or
late. Nothing but the loop is at work while the backend recovers, so that no row
is late and those that are left when it ends were refused, which is
`RecoveryAttemptsAllAlways`. While it cleans up, the last cycle still is:
`OneIsLate` says that it adds one row at most, and never one of a registry value,
as no cycle begins after `stop()`, a cycle applies one tweak (`OrchInv`) and its
rules apply services and process tweaks only. `ExitLeavesRefusedOrLateAlways`
follows, whichever way the adaptive engine was switched meanwhile; the run
`clean_exit_race` shows that the late row does occur.

`LeavesKnownSettingsLive` says the same of the settings, with live launches: one
that is still altered when a recovery or a cleanup is over was captured while
altered (`rollback_order`), or belongs to an apply that was cut short before it
registered (`unregistered_crash`), or is listed because it was refused or late.

**BenchmarkEngineProofs.** The same for benchmarks, where it takes an invariant:
`run()` reverts by snapshot, and the row that it then restores and removes is
only the right one because a snapshot has one row at most, and none while its
apply is still under way. With it every action is a step of `TweakLifecycle`
(`BenchImplementsTweaksAlways`), and `OriginalSurvives`, `RemovedAfterMark` and,
for live launches, `AlteredIsRecoverable` carry over. `OneBenchmarkAlways` says that the flag is set exactly as long as
one coroutine is inside `run()`. `RecordedIsRevertedAlways` needs `RevertInv`:
what `run()` has applied has a row, and what its revert loop has passed is out of
force, but for the row it is restoring. `StaysOut` says why it remains so: a
snapshot that has a row belongs to no apply (`OwnersInv`), so that no call can
list it again, and a mark is never undone.

`BenchmarkIsNeutralReadable` assumes that every start type can be read, as one
that cannot is restored as `demand`, whatever it was. Its invariant `Neutral`
relates the settings to those found at the start: one that differs is the target
of a snapshot still to be reverted, or of the call that `run()` waits for
(`Accounted`), and each such snapshot holds the found value (`Stands`), as a set
names a setting once (`Firsts`), so that the next tweak reads one not yet
touched (`Ahead`).

**GameSessionsProofs.** `Typed` adds to `TypeOK` where each coroutine may be and
what it holds there. `OneRowInv` then bounds the open rows at each point of the
cycle: none between the end of a session and the next insert, only the cycle's
own around a commit, only the current one otherwise. It also says what `stop()`
has done to the row, which is why a cycle that `stop()` overtakes cannot open a
second one. `OneOpenRowAlways` and `NoSessionLostAlways` follow from it.
`ImplementsBookAlways` refines `SessionBook`: the insert finds no open row by
`OneRowInv`; the update of `complete_session`, whose session was read before the
await, writes a row of this run, as `OwnRows` says that neither `current_session`
nor a coroutine holds a session of an earlier one; and it writes an end over only
while no later session has ended, as `LastInv` says that whoever is about to end
a row finds no ended one behind it. As
the watchdog changes nothing of the sessions (`WatchIsSessions`) all three hold
beside it too.

**ServicesProofs.** A step of `ServicesSpec` is a step of one service
(`OneServiceMoves`), so that each is proved alone. For the cache, `SaveIsSeen` is strengthened by
the times (`EntryExpires`): no entry and no allowance is dated later than the
clock permits, and a stale entry has an allowance for as long as it is answered. For the GPU record, a setting that
is missing from what a request has read is one whose write that request crosses
(`LossIsCrossed`). For the cool-downs, `CoolsDown` relates a rule's last firing to its
stored cool-down at each await of `evaluate`. The pool's `PoolInv` adds that
exactly the calls that wait are in the queue, once each (`Queued`), and that
nobody is queued while a permit is free, from which `PermitsAccountedAlways`,
`AllOrNothingAlways` and `NoIdlePermitAlways` follow for any number of calls and
connections. `MigratedOnceAlways` needs `LaunchInv`: once every version is on
disk, a launch has nothing to apply, and its connection sees what is committed.
`ImplementsStoreAlways` refines the abstract store step by step: the permits
accounted for bound the calls inside, that one call at most is in its
transaction is a part of `PoolInv`, and each step of the pool shows the callers
one step of the store or none. The return of a connection shows two things at
once when somebody waits: one call leaves and the next enters, which is the
store's `HandOver`.

`RecordedIsDoneAlways` and `NewestProfileKeptAlways` share `FaithfulInv`: on disk
and in what the connection sees alike, each recorded version is done, each old
profile has one of its game that is at least as new, and rows are distinct.
It starts from `ReleasesAssumption`, which says the same of what an older release
left. Every migration, every commit of a script and every write of the backend
keeps it. Migration 6 keeps the newest profile of a game, which exists because
the profiles are finite: `FiniteGreatest` takes it from the well-founded order of
the finite sets, as the induction theorems themselves are out of reach.

For the shell, `OneCall` says that calls that have not overlapped are one at
most, that whatever backend is left is the one the shell knows and owns, and
what each await implies of it: nothing is left while the old process is being
stopped or a port probed, so that the next start cannot lose one.

For the retention, `MetricsInv` adds to `HistoryIsCovered` that what the next
step deletes has been rolled up (`Covered`), and that a row carries the bucket of
its time, so that it is never older than what it stands for by more than that
bucket. The sizes are assumed to differ (3, 60 and 300 seconds in the code).

For the live view, `LiveInv` says that the list names a socket once, that a
broadcast has begun a send to the sockets at all the places that it has walked
but `removed` of them (`Counted`), and that while nothing was
removed it has every dead socket that it has walked among those it will drop
(`DeadFound`). The model takes sockets off the list with `Without` in place of
`SelectSeq`, which the prover cannot look into; `MCServices` assumes that the two
agree, which TLC evaluates on every list of three. Of `Without`, `Numbering`
counts the places that are kept and `WithoutShape` says that their order stays.

`ServicesTypeCorrect` puts the types of the seven together. The database is
typed by migration (`MigrateKeeps`) and by write of the backend (`WrittenKeeps`).

Every invariant and every action property of the passing runs is proved. Only
checked by TLC are:

- all liveness properties (`ListedRowsAreReverted`, `RunningIsReleased`,
  `RecoveryEnds`, `RefreshRepairs`, `EndedGameIsClosed`, `SessionIsWatched`,
  `CloseIsAnnounced`, `DismissedLeavesFeed`), as the prover cannot reason about
  fairness;
- the violations.

## The plan

Modelled first were the tweaks, lifecycle, accounts, sessions and feed, as the
rest works on what they keep; then the benchmarks, the launch of the database,
the pool, live view, retention, cache, settings, watchdog and shell. What is
left, in order:

1. Algorithms as operators: the verdict of a benchmark over its integer metrics,
   the safety guard's and the reasoner's rules, the detection of a game.
2. The overlap of dry-run and live launches, with a property that says what a
   dry run may do to the rows of a live one.
3. The reconnecting WebSocket hook of the interface as a client of `LiveView`.
4. Proofs: an abstract board of optimizations that the feed implements, and an
   abstract shelf of profiles for the cache.

## Not modelled, and why

- Reading the machine (`collector.py`, `metrics.py`, GPU and network readings),
  launcher manifests and files: input, with no promise of their own. So are the
  writers of each GPU setting and the probes of the network optimizer: they
  call the driver or the shell once and keep nothing.
- Trust center, reports, capabilities: they aggregate what others hold.
- The event bus and the audit log: append-only and read by nothing modelled; an
  audit insert is an await that may raise, and appears as that.
- Floating-point statistics: anomaly scores, leaks, predictions, thermal and
  scheduling analysis, and the numbers of a benchmark. They share no state, and
  an integer form of them would be another algorithm.
- What a call that is under way does between `close_all` and the end of the
  process, and a semaphore permit handed to a waiter that is cancelled in the
  same turn of the loop.
- `desktop_app.py` (the pywebview window), the React interface and the hook that
  reconnects its websocket; the copy of the expert mode that `preferences`
  keeps beside `expert_mode`; deployment files and prompts.
- Two backends on one database. The shell prevents it but for the overlapping
  restarts above.
- A process id that Windows gives to another process, and a delayed automatic
  start that reads as automatic: the models have one original value for each
  setting.
