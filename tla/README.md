# Verification of the league database and the protocols around it

The repository is a fantasy-football platform. Importers fetch a league from its
host, build its tables in a private DuckDB file, and publish them to a server
(`duckdb-server/`) that keeps every league in one file, `___leagues.duckdb`, and
the platform's registries in another, `___ops.duckdb`. Most of the repository's
690 000 lines convert data. This project is about the part where state, failure
and concurrency meet: how an update gets into that file exactly once and in the
right order, who owns an update and what its row says, who may hold the files
open, what the lanes that rewrite whole leagues do to each other, whether derived
tables still belong to the rows beside them, and what a crash leaves.

| module | what it is |
|---|---|
| `DeltaPublish` | publication of bundles in two lanes: capture, retries, fence, receipts, fleet window |
| `LeagueStore` | the abstract store that `DeltaPublish` implements |
| `OpsLocks` | `___ops` inside the server: two locks, attached users, `/merge-ops` |
| `OpsStore` | the abstract file that `OpsLocks` implements |
| `DbSwap` | replacement and compaction of a database file, recovery at startup |
| `ServerGate` | admission: slots, pool, status, league writers, checkpoint, permits |
| `UpdateClaim` | the dispatch row of a league update, its reports and its recovery |
| `LeagueRewrites` | whole-league uploads and renames beside the publications |
| `SeasonRefresh` | derived tables and the workers that compute them |
| `SeasonStore` | the abstract store that the workers implement together |
| `MCDeltaPublish`, `MCServerGate`, `MCLeagueRewrites` | small instances for TLC |
| `<module>Proofs` (seven) | theorems, for all values of the constants |

`PROJECT.json` lists runs, mutants, hazards, theorems and the source lines of
every definition.

## 1. Inventory

### 1.1 State

The server is one `uvicorn` worker: an asyncio event loop runs the endpoints,
`asyncio.to_thread` runs SQL in threads, timers and the watchdog run beside them.
Its clients are import runs, each a process of its own on a workflow service.

| state | where | who changes it |
|---|---|---|
| `___leagues.duckdb`: league rows, `merge_admin` receipts, generations, locks | disk | merges, renames, table replacements, `/query-rw` |
| `___ops.duckdb`: inventory, aliases, credentials, dispatch rows, manifests | disk | `/query-rw`, `/merge-ops`, rename |
| `<db>.duckdb.incoming`, `.prev`, `.bad` | disk | `/replace-db`, `/compact-db`, startup recovery |
| `_merge_lock` (asyncio) | `main.py:201` | every writer of leagues |
| `_ops_rebuild_lock`, `db._ops_lock` (threads) | `main.py:224`, `db.py` | every user of `___ops` |
| `_ops_attachment_users` | `main.py:2300` | queries and merges that attach `___ops` |
| pool, `_active_count`, dedicated `___ops` connection | `db.py` | queries; drains and reopenings |
| `_state["status"]`, `_ops_write_count`, `_ops_read_count` | `main.py:206` | endpoints, `___ops` threads, timers, watchdog |
| publish slots and `_delta_publish_inflight` | `main.py:202` | publications, rename, derived rebuild |
| storage latch, WAL policy | `storage_guard.py` | deadline timers, checkpoints, watchdog |
| receipt file, claim token, captured generation | an import run | that run |

### 1.2 Components

| component | hard behaviour | what makes it correct | modules |
|---|---|---|---|
| publication (`main.py`, `fleet_merge.py`, `fly_target.py`) | two lanes over the same rows, lost answers, retries of what is still running, deadline against commit, crash between commit and answer | each bundle once; no update lost; no older over newer; success is durable; every publisher settles | `DeltaPublish`, `LeagueStore` |
| `___ops` access (`main.py`, `db.py`) | five kinds of thread, two locks, a user count, waits with and without deadlines | no deadlock; exclusive writers alone; no acknowledged write lost to a snapshot; every count given back | `OpsLocks`, `OpsStore` |
| database swap (`swap.py`, `main.py`) | crash between any two renames, torn files, errors half-way | a database that opens always survives; nothing else is ever live; every drain ends | `DbSwap` |
| admission, pool, status (`main.py`, `db.py`) | event loop and threads write the same status; counts reset under users; a blocking call on the loop | a serving server has a pool; exclusive writers exclude; slots are conserved; whatever arrives is answered | `ServerGate` |
| WAL policy, storage health (`storage_guard.py`) | the checkpoint beside everything else; the deadline timer | whom the checkpoint excludes; closed storage stays closed | `ServerGate`, `DeltaPublish` |
| update claims (`claim_manual_league_update.py`, `league_update_status.py`, the worker workflow) | expired leases, late workers, scripts that commit statement by statement and are repeated, a run that is lost after its commit | the row tells the truth; it only goes forward; manifest and row belong together | `UpdateClaim` |
| remote writer (`fly_writer.py`) | a statement whose answer was lost is sent again | the scripts sent bear repetition, also a late one | `UpdateClaim` (`wire`) |
| whole-league upload and rename (`main.py`, `league_rename.py`) | autocommitted statements; two transactions in two files with two receipts; a COMMIT that raises | no row twice; resumable, done once; one name | `LeagueRewrites`; its locks in `OpsLocks` |
| rollups and derived tables (`fleet_merge.py`, the refresh and repair scripts) | who derives, from which reading, beside which rows | what is derived belongs to the rows beside it; no week is lost | `SeasonRefresh`, `SeasonStore` |
| import dispatch; import pipeline; authentication; fetchers; transformations, validation; NFL data; research, corpus and newspaper scripts; workflows | none that a model checker reaches (section 7) | - | not modelled |

The components interact through the two files (receipts and generations tell
publishers what happened), through HTTP answers that may be lost, through the
locks, and through the connection pool that every exclusive writer closes under
the queries of the others. A module that needs only the outcome of another takes
it as an action of its own: `UpdateClaim` has a `Commit` under the generation's
fence, and why that is all `DeltaPublish` promises is the theorem `Refinement`.

## 2. The models

### 2.1 DeltaPublish

Publishers are instances of `FlyTarget`; one publisher per bundle. The server is
the endpoint, the merge thread and the deadline timer. What a league holds is
abstracted to the set of bundles whose updates it reflects: a bundle is built from
what its publisher saw (`seen`) plus its own update, and merging it *replaces* the
rows, so a bundle built from an older state erases what came between. That is the
only thing the properties need to know of the data.

| model | code |
|---|---|
| `facts`, `gen`, `receipt`, `latest`, `fleetLock` | league rows; `merge_admin.league_publish_generations`; the delta publish-state table; its newest COMMITTED row per league; `publish_locks` |
| `healthy`, `armed` | the `StorageHealth` latch; `_MergeDeadlineTimer` |
| `inbox`, `admitted`, `cur`, `stage`, `code` | requests uploading; requests past `_acquire_delta_publish_slot`; the holder of `_merge_lock`; progress and answer of its thread |
| `pc`, `base`, `seen`, `tries`, `reply` | the publisher: where it is, the generation it captured, what it read, its attempts, the answer it has |
| `applied`, `crashes` | ghosts |
| `CaptureGeneration`, `BuildBundle` | `capture_import_generation.py`, `build_delta_bundle`: the generation is read *before* the source |
| `Post`, `HandleReply`, `Timeout`, `Reconcile` | `_post_file`, `merge_league_delta`, `_reconcile_committed_merge` of `fly_target.py` |
| `Admit`, `Refuse`, `TakeLock`, `Respond` | `/merge-league-delta`, `/merge-fleet-partition` and the admission middleware |
| `Enter`, `Validate`, `BeginTransaction`, `StepFails`, `Commit`, `RecordFailure` | `_merge_delta_bundle`, `_merge_fleet_bundle`, `_commit_merge`, `_delta_upsert_state` |
| `DeadlineExpires` | `_start_merge_hard_exit_timer` |
| `SetFleetLock`, `CrashRestart` | `/fleet-publish-lock`; the process dies, what is on disk stays |

The order of the checks, the autocommitted receipts before the transaction - a
DELETE and an INSERT that commit apart, so that a failing write may lose the row
(`LosesReceipt`) - the all-or-nothing commit, and the commit that succeeds and then reports an error are
kept. Rows of SQL, archive validation and the slot permits (the merge lock alone
serializes merges) are abstracted. A crash inside the transaction leaves what was
there before, which is DuckDB's promise and is assumed.

`LeagueStore` is the abstract specification: one `Publish` step per bundle, which
adds its update to its leagues and moves each generation by one. `DeltaPublish`
implements it with `published` mapped to the bundles whose receipt is COMMITTED.

### 2.2 OpsLocks

One task per request, with the two thread locks, the attachment users, the two
kinds of connection and the content of `___ops.duckdb` as a set of updates. Each
wait that has a deadline in the code may give up (`GiveUpGate`, `GiveUpOps`,
`DrainTimeout`), the others - those of writers without a deadline - last until the
lock is free; each step that may raise has its failing disjunct, and each
failing disjunct does the clean-up of its `finally`.

| model | code |
|---|---|
| `TakeGate`, `TakeOps`, `FinishRead` | `_ops_read_connection`, `_execute_ops_query_rw_serialized`, `_merge_fleet_bundle_serialized` |
| `Attach`, `Detach` | `_acquire_ops_attachment`, `_release_ops_attachment` |
| `BeginWrite` ... `EndWrite` | `_execute_ops_query_rw`; a *hot* writer borrows the dedicated connection, a *cold* one closes it and opens its own |
| `DrainSnapshot` ... `EndMerge` | `_merge_ops_tables`: drain, close, checkpoint, reopen, copy, build, drain, close, replace, reopen |
| `TakeOpsForCheck`, `FinishCheck` | the validation of `_rename_league_server_side`, under `db._ops_lock` alone |
| `CloseAll`, `ReopenAll` | the league branch of `/query-rw` and its kin, on the event loop |

`OpsStore` is the abstract specification: an update takes effect in one step, at
most once and before its answer, an answer of success comes after it, and nothing
is undone. `OpsLocks` implements it with the same `content` and `out`. A hot or cold
write takes effect at its commit; a `/merge-ops` when its snapshot replaces the file,
which is one step only because no write can have come between the copy and that
step. An update that is answered with failure may have taken effect, as in the code,
but does not do so later.

### 2.3 DbSwap

Names and inodes are apart: a rename moves an inode, an open upload keeps writing
to its inode under whatever name that has by then. An inode remembers whose data
it holds and whether it is whole, damaged (opens, wrong content) or torn (does not
open). Every rename and unlink of `atomic_swap` and of `startup_recovery` is a step
of its own, so that a crash can fall between any two. Nothing else runs on the
event loop during `atomic_swap`, which never awaits (`Up`). A host crash may tear
the upload that was installed last, since nothing syncs it.

### 2.4 ServerGate

The event loop is one actor: `loop` names the coroutine that blocks it, and no
other coroutine takes a step meanwhile; threads (`exec`) do. What lies between two
awaits is one step, what a thread does between two calls of DuckDB likewise.

| model | code |
|---|---|
| `Arrive`, `Polled`, `Recheck`, `TakeSlot`, `SlotTimeout` | `/query`: the status, the wait for an `___ops` write (for an NFL read a task of its own, after which the status is checked again), `_acquire_query_slot` |
| `Connect`, `Unblock`, `BlockTimeout` | `acquire_connection`, called on the event loop: an empty queue blocks every coroutine for up to 30 s |
| `QueryThreadEnds`, `FinishQuery` | the query's thread; its result, or the timeout that leaves the thread behind |
| `StartNfl`, `ArriveMeta`, `OpsReadLocked`, `OpsReadEnds`, `FinishOpsRead` | reads of `___ops`: NFL relations under a slot, metadata under `_ops_read_count` |
| `ArriveWrite`, `TurnAway`, `OpsWriteBegins`, `OpsWriteGivesUp`, `OpsWriteEnds` | `storage_write_admission`, `/query-rw` on `___ops`, `_begin_ops_write_state`, `_end_ops_write_state` |
| `BeginDrain`, `EndDrain`, `WriteEnds`, `Reopen`, `Settle`, `ReopenFails` | league writers: drain, `close_pool`, SQL, `_refill_pool`, `_set_serving_or_ops_writing`, a reopening that raises |
| `AskPermit`, `AdmitPublish`, `RefusePublish`, `Merge`, `MergeDeadline`, `MergeEnds`, `FinishPublish` | publish permits and their release in `finally`, the merge, its deadline |
| `Wake`, `Probe`, `DogFindsNone`, `Sound`, `Broken` | `_watchdog` and `_check_db_health` |
| `DogTakes`, `DogConnects`, `DogReleases`, `DogReturns` | `acquire_connection` and `release_connection` in the watchdog's thread: queue and count are changed one after the other, and the loop may run in between (`Uncounted`) |
| `OpsCheckpointEnds`, `CheckpointSettles` | `_checkpoint_if_due` |
| `gaveUp`, `drift` | ghosts: a pool closed while a connection was out that the drain did not wait for or could not see; connections that were out when the count was reset |

### 2.5 UpdateClaim

One league's dispatch row and the manifest beside it. A report is an SQL script:
once sent, it stays on `wire`, and the server may execute it late, again and after
its sender is gone (`Serve`), or execute the statement for the row and not the one
for the manifest (`Tear`). This is what `FlyWriter`'s retries, and a server that
stops, can do to it.

| model | code |
|---|---|
| `row`, `fresh`, `published` | the row of `league_update_dispatches`; its lease and heartbeat; the published manifest |
| `Reported`, `Promotes`, `Accepted`, `Prior` | the script of `league_update_status.py` and `ALLOWED_PRIOR_STATUSES` |
| `Claimable`, `Claimed`, `Refreshes` | `claim_manual_league_update.py`; heartbeat renewal |
| `gen`, `base`, `at`, `posted`, `warm` | the league's generation; what a run captured; the generation its commit made; bundles still in the server; the generation the cache was warmed from |
| `Proceed`, `Capture`, `Publish`, `Commit`, `Told`, `Warm` | the steps of a worker run, in the order of its workflow |
| `receipt`, `FailJob`, `LoseRun`, `FailureStatus` | the receipt file; the failure step, decided by it; a runner that is gone |
| `StartRecovery`, `Reconcile`, `RecoveryWarms`, `RecoveryReports` | `recover_league_update_cache.py`, with and without `--receipt` |
| `TimePasses`, `OtherPublish` | the lease and the heartbeat run out; a publication of another lane |

### 2.6 LeagueRewrites

`rows[name][table][season]` is the sequence of uploads or bundles the rows were
inserted from, so that a season stored twice is a sequence of length two. All
writers hold `_merge_lock` (`job`); a failure or a crash may fall between any two
commits (`Interrupted`), and requests repeat at will, also after a success.

| model | code |
|---|---|
| `DecideUpload` | `merge_league` of `fly_target.py`: skip the delete, or not |
| `StartUpload`, `BeginMerge`, `ClearTable`, `InsertRows`, `FinishUpload`, `SkipsDelete` | `/merge-league`: merge state in two commits, sentinel tables, autocommitted deletes and inserts |
| `StartRename`, `MoveRows`, `KeepRows`, `DataFails`, `Witnessed` | `/rename-league`: validation, `consolidate_canonical_league` with its receipt, and the receipt read after a COMMIT that raised |
| `LinkName`, `EndRename`, `Retargeted` | `retarget_league_control_plane` with the other receipt |
| `Capture`, `MergeBundle` | a delta publication and its fence |
| `Register`, `MarkImported` | writes of `___ops` that need no `_merge_lock` |
| `outdated`, `torn` | ghosts: a league rewritten after a capture; a merge state lost while it was replaced |

### 2.7 SeasonRefresh

The content of a partition is the set of publications it reflects; that of a
derived table is the rows it was computed from. A worker reads piece by piece, and
computes a part of the derived tables itself; the transaction that merges its
bundle computes the rest.

| worker | code | computes itself | left to the merge |
|---|---|---|---|
| `Weekly` | `refresh_sleeper_active_season.py`, `refresh_yahoo_active_season.py` | season rollups of the active year, homepage and rankings over the history it read | careers; rollups that lack rows, if planned |
| `Quick` | version 3 bundles | - | all |
| `Draft` | `update_sleeper_offseason_draft.py` | grades, season and careers of the picks | - |
| `Ranks` | repair of missing manager rankings | rankings | - |
| `Gap` | `no_week_season_rollup_repair.py` | nothing: a context row as witness | rollups of damaged years, careers |
| `Full` | whole-league import, with a generation or without (`Unfenced`) | all | - |

`Capture`, `ReadSettings`, `ReadTable`, `Recheck`, `ReadHome`, `FindGaps` and
`ReadWitness` are the readings, each a request of its own; `MergeWeek`,
`MergeQuick`, `MergeDraft`, `MergeRanks`, `MergeWitness` and `MergeFull` the
transactions of `apply_fleet_merge` and of the delta lane; `Refuse` a conflict.
`Save` is the web application's write of settings, which moves no generation.

`SeasonStore` is the abstract specification. It has no readings: a publication
replaces its rows, as they are at that instant, in one step and at most once, and
season rollups, careers, the games of the homepage and the rankings are views of the
rows. `published` is mapped to the publishers whose outcome is "ok". The worker's
whole sequence of readings, comparison and merge is one step of it; the repair of
season rollups, which changes no row, is none.

## 3. Runs

Every passing property has a mutant: a plausible bug, written as an operator of
the module, in whose place TLC must find the property violated.

| run | instance | shows | distinct states |
|---|---|---|---|
| `publish_retries` | two repair bundles of one league, one ordered by its run id alone and one fenced, two attempts each, one crash, no expired deadline | `ExactlyOnce`, `SuccessIsDurable`, `StaleIsFinal`, `NoOlderOverNewer` | 1 175 599 |
| `publish_lanes` | a repair bundle of one league, a fleet bundle of two, two attempts each, the window moving freely | `NoRewind`, `LockWindow`, the refinement `StoreSpec` | 1 341 179 |
| `publish_settles` | two contents under one `bundle_id`, one crash, fair | `PublisherSettles`, `LockReleased` | 30 952 |
| `ops_locks` | a metadata read, a query, a fleet merge, a hot write, a rename with its cold write, `/merge-ops`, a league writer, fair | `UsersCounted`, `NoLostOpsWrite`, `ColdWriterAlone`, `FleetFindsOpsFree`, `ConnectionOwned`, the refinement `OpsStoreSpec`, `EveryRequestAnswered` | 466 971 |
| `swap_crash` | two uploads (one checked) and a compaction, two crashes that may tear a file, one refused rename or unlink, fair | `NothingElseIsLive`, `GoodCopySurvives`, `PrevOutlivesDoubt`, `ServesAgain` | 105 658 |
| `gate_drain` | two queries on a pool of one, a metadata read, an `___ops` write, a league writer that may fail to reopen, a publication, the watchdog | `CountExact`, `ReadsExcluded`, `CheckpointExcludes`, `ServingHasPool` | 839 242 |
| `gate_reads` | a query and an NFL read for one slot, an `___ops` write, a `/query-rw` on leagues, a publication, fair | `SlotsConserved`, `OpsWritingEnds`, `EveryRequestAnswered` | 16 671 |
| `claims` | two runs, one recovery, one publication of another lane | `RowTellsTruth`, `AcceptedIsPromoted`, `SucceededIsWarm`, `NoGoingBack`, `ManifestFollowsCommits` | 726 090 |
| `rewrites` | one league under two names, two seasons, a table of facts and one of aggregates; an upload, a rename, two bundles, two failures, fair | `RowsOnce`, `OkMeansBoth`, `OneNameLeft`, `MovedOnce`, `RenameFinishes` | 994 589 |
| `season_refresh` | any four of two weekly refreshes, a quick import, a draft update, two repairs and an unfenced full import, over two years, beside a save of the settings | `RollupsTellTruth`, `HomepageTellsTruth`, the refinement `SeasonStoreSpec` | 1 704 592 |
| `claim_recovery`, `swap_half_done` | section 6 | two disagreements of the code with its own documentation | - |

**Bounds.** Each stands as a guard of the action it bounds.

- `MaxTries`, `MaxCrashes`, `Deadlines` (`DeltaPublish`): two attempts are the first
  number at which an attempt can overtake the one before it; with one, the last
  answer is final. A fleet bundle over two leagues and a bundle of one of them are
  the smallest instance in which a lane sees only part of another's scope, two
  bundles of one league the smallest in which one can be stale. In `publish_retries`
  no merge deadline expires: for a receipt that is a statement that fails, and the
  latch it closes is the matter of `publish_lanes` and `publish_settles`. The
  theorems of section 5 remove all of these bounds.
- `MaxCrashes`, `MaxFaults` (`DbSwap`): the second crash interrupts the recovery
  from the first, one refused operation is where the two renames come apart.
  `Overlap = FALSE`: requests come one after the other, since overlapping uploads
  share one file name (section 6).
- `OpsLocks` and `ServerGate`: a task serves one request; its properties relate it
  to the others, which meet in every order. `MaxWakes` (one round of the watchdog
  per run), `MaxReopenFailures`, `Strikes = 1` (the code's three strikes are the
  same round three times), a pool and a set of slots of one: contention is total.
- `MaxOther` (`UpdateClaim`): one publication beside the runs is enough to come
  between any two of their steps. `LateClaims = FALSE`: a copy of a *take-over* is
  not executed after its answer (section 6); copies of all other scripts are.
- `MaxFaults = 2` (`rewrites`): one failure breaks a rename in two, the second
  meets its repetition. `Holds` gives one bundle a season less than the league has.
- `AtOnce = 4` (`season_refresh`): a reader, whoever computed what it reads, and
  two publications between its readings. `Gaps = {y1}`, `Extras = {}`: one year
  whose rollups lack rows, none with rows too many (section 6). The theorems have
  neither bound.

`gate_drain` uses symmetry, for safety only: its two queries may change places.

**Fairness.** What is assumed is that work that has begun goes on: threads have
deadlines or are interrupted, waits have timeouts. Nothing is assumed to make a
request arrive, a crash or a deadline happen, an operator open a window or the
watchdog wake.

- `DeltaPublish!FairSpec`: a merge thread, and a publisher once its import has
  started, since its loop waits for nothing but a request timeout.
- `OpsLocks!FairSpec`: every thread. Python locks are not fair, but the requests
  are finitely many, so a lock that is given back is free in the end.
- `DbSwap!FairSpec`: a request that has started, and a recovery.
- `ServerGate!FairSpec`: threads and timeouts, weakly; `BeginDrain` and `Merge`
  strongly, because `asyncio.Lock` serves its waiters in order.
- `LeagueRewrites!FairSpec`: the request at work, by its deadlines. `StartRename`
  strongly: an operator whose rename failed runs it again (`fly_target.py:153`
  asks for it), and the lock serves in order.

**Deadlock** is checked where every task must be answered: `publish_*`,
`ops_locks`, `swap_*` and `season_refresh`, whose specifications stutter
explicitly (`Quiet`) only when all have been, or always have the fleet window to
move. `gate_*`, `claim*` and `rewrites` turn the check off, because these systems
may stop: once each task has had its request, each run has ended, or the faults
are used up, there need not be another step. For them `EveryRequestAnswered` and
`RenameFinishes` say what a deadlock check would.

## 4. Properties

Each is stated in a comment above its definition. The ones that took several
actors to get wrong:

- `ExactlyOnce` - replays, overlapping attempts, a commit reported as failed, a
  crash after it: the update reaches the disk once, if and only if the receipt is
  COMMITTED with this bundle's hash.
- `NoRewind`, `StoreSpec` - a repair and a fleet bundle built from the same state
  cannot both commit; whichever comes second is refused by the generation.
- `StaleIsFinal` - a publisher that gives its bundle up as stale has attempts left
  on the server, and none of them commits later.
- `NoLostOpsWrite`, `OpsStoreSpec` - a snapshot rebuilt from a copy cannot swallow a
  write that was acknowledged while it was built; hot and cold writes and snapshots
  that are swapped in are one atomic file to whoever waits for an answer.
- `FleetFindsOpsFree` - a fleet merge gives up on `db._ops_lock` after two seconds;
  the outer gate keeps every long holder but a rename's check out of its way.
- `GoodCopySurvives`, `NothingElseIsLive` - at every instant, in the middle of a
  swap, a rollback or a recovery, what startup would serve opens, and holds what
  was last acknowledged or was just being installed.
- `CountExact`, `ReadsExcluded` - what the drain of a league writer is worth: the
  count it waits for is exact unless a reopening reset it over a connection that
  was out, and then nobody a client waits for is in DuckDB beside the writer -
  provided that the watchdog had no connection in hand that was not counted
  (section 6).
- `EveryRequestAnswered` (`gate_reads`) - a query that finds the pool closed blocks
  the very event loop that would reopen it; it still ends, and so does the writer.
- `OpsWritingEnds` - threads, a league writer and the checkpoint all write the
  status; whoever leaves `ops_writing` behind, someone is left to end it.
- `NoGoingBack`, `AcceptedIsPromoted` - reports arrive late, twice and in halves,
  and claims change hands in between; the row only goes forward, and a run that
  was told that its commit is recorded finds the manifest there.
- `RowsOnce` - a first import skips its deletes on the word of a flag that lags
  behind the rows; the merge state and the sentinel tables must catch the rest.
- `MovedOnce`, `OkMeansBoth`, `RenameFinishes` - one rename is two transactions in
  two files; it is repeated after new rows were published under the old name.
- `RollupsTellTruth`, `HomepageTellsTruth` - three kinds of workers bring tables
  computed from readings that another publication may have torn; the generation
  alone keeps the torn ones out, also for the homepage, whose sources are read
  after the last comparison.
- `SeasonStoreSpec` - the same, said of the whole: readings that took minutes and
  crossed other publications add up to publications that happen at one instant, so
  that no refresh loses the week of another.

## 5. Proofs

Each proof module is about its component for every value of the constants that the
component's `ASSUME` allows: any sets of requests, runs, leagues, names, years, any
number of crashes, faults and repetitions.

| module | theorem: property | further assumption |
|---|---|---|
| `DeltaPublishProofs` | `TypeCorrect`, `CommitsOnce`: `ExactlyOnce`, `SuccessDurable`: `SuccessIsDurable`, `WindowRespected`: `LockWindow`, `FencedLosesNothing`, `MergesGoForward`, `PublishersGoForward` | |
| | `NoLostUpdate`: `NoRewind`, `Refinement`: `StoreSpec` | `RequireBase` |
| | `GenerationCounts` | `IsFiniteSet(Bundle)` |
| | `OrderRespected`: `NoOlderOverNewer`, `StaleFinal`: `StaleIsFinal` | `IntegerOrders` |
| `OpsLocksProofs` | `OpsIsAtomic`: `OpsStoreSpec`, `OpsWritesAreKept`: `NoLostOpsWrite`, `ColdWriterIsAlone`: `ColdWriterAlone`, `FleetIsNotMadeToWait`: `FleetFindsOpsFree`, `ReadersKeepTheirConnection`: `ConnectionOwned`, `NoOneIsStuck`, `RequestsGoForward` | |
| | `OpsTypeCorrect`, `UsersAreCounted`: `UsersCounted` | users are finitely many |
| `DbSwapProofs` | `DrainGoesOn`, `DrainNearsItsEnd` | |
| | `SwapTypeCorrect`, `GoodCopyAlways`: `GoodCopySurvives`, `PrevIsKept`: `PrevOutlivesDoubt`, `NothingElseEver`: `NothingElseIsLive`, `VerifiedIsLive`: `SwappedIsVerified` | `~Overlap` |
| `ServerGateProofs` | `NoOneIsStuck`, `RequestsOnlyGoForward` | |
| | `GateTypeCorrect`, `SlotsAreConserved`: `SlotsConserved`, `CountIsExact`: `CountExact`, `WritersWriteAlone`: `ReadsExcluded`, `CheckpointIsAlone`: `CheckpointExcludes`, `ServingPoolIsWhole`: `ServingHasPool`, `OpsWritingIsLeft`: `OpsWritingEnds` | readers are finitely many |
| `UpdateClaimProofs` | `ClaimTypeCorrect`, `RowIsTrue`: `RowTellsTruth`, `SuccessIsWarm`: `SucceededIsWarm`, `GoesForward`: `NoGoingBack`, `ToldIsNotSettledAsFailed` | |
| | `AcceptedIsSafe`: `AcceptedIsPromoted`, `ManifestForward`: `ManifestFollowsCommits` | `~LateClaims` |
| | `ClaimImplementsStore` | runs are not numbers |
| `LeagueRewritesProofs` | `RewritesTypeCorrect`, `OkIsBoth`: `OkMeansBoth`, `NeverMovesAgain`: `MovedOnce`, `OneName`: `OneNameLeft`, `HolderGoesOn`, `RepetitionFinishes` | |
| | `StoredOnce`: `RowsOnce` | `Small # {}` |
| | `LockComesBack` | `IsFiniteSet(Table)` |
| `SeasonRefreshProofs` | `SeasonIsAtomic`: `SeasonStoreSpec`, `RefreshTypeCorrect`, `RollupsAreTrue`: `RollupsTellTruth`, `HomepageIsTrue`: `HomepageTellsTruth`, `WeeksAreKept` | |

A theorem without a property states what no run checks by itself:

- `FencedLosesNothing`: what `NoRewind` leaves when the server accepts unfenced
  bundles too: the fence protects whoever uses it.
- `GenerationCounts`: a generation is the number of bundles committed to its league.
  A run would only repeat `StoreSpec`, where each `Publish` moves it by one.
- `WeeksAreKept`: a published week leaves the season only with an import of the year
  that passed the fence or captured no generation; what `SeasonStoreSpec` means for
  a refresh.
- `ToldIsNotSettledAsFailed`: a run that has its receipt is not shown as failed;
  what holds of `FailedDidNotPublish`, which does not (section 6).
- `ClaimImplementsStore`: the `Commit` of `UpdateClaim` and the publications beside
  it are `Publish` steps of `LeagueStore`, the specification that `DeltaPublish`
  implements (`Refinement`). This is what joins the two modules. The publications of
  other lanes are told apart by numbers, hence the assumption.
- The rest is what remains of liveness when the fairness is taken away, see below.

That sets are finite is needed to count them, and runs that are not numbers are only
a way to name bundles. The other assumptions are not conveniences: without
`REQUIRE_DELTA_BASE_GENERATION` an unfenced repair bundle may overwrite a fleet's
update; without `IntegerOrders` (repair bundles have integer run ids) the order
check has a gap; overlapping swaps, late take-overs and uploads without a small
table break what is proved without them.

**The inductive invariants.** None of the properties is inductive. In each module
one lemma per group of actions shows that the strengthening is preserved.

`DeltaPublish`: `IInv` is the conjunction of

- `TypeOK` and `ExactlyOnce` themselves;
- `LockInv`: a thread is at work exactly while a request holds the lock, and it
  answers "committed" only with a receipt on disk;
- `StartedInv`: what is on the server, or committed, has been built. Without it
  a commit could precede the reading of its base;
- `ReceiptInv`: from its first receipt to its commit the key on disk is the
  worker's own and not COMMITTED. This is what makes a second application of the
  same bundle impossible, and it rests on the hash check of `Enter`;
- `FenceInv`: a bundle whose base generation is still current was built from
  exactly what the league holds. This is the heart of no-rewind: generations only
  grow, and rows change only where a generation moves;
- `StagedInv`: what was compared when the transaction began still holds at the
  commit, because only the holder of `_merge_lock` moves generations;
- `OutcomeInv`: a success on its way to a publisher, or reported by it, has its
  receipt, and a committed bundle's leagues have left its base generation behind.

The same lemmas say what a step changes for a reader of the store: nothing, or one
commit. The refinement and no-rewind follow without a second induction.
`WindowInv` and `OrderInv` are induction hypotheses on top of `IInv` for the window
and the order, `TriesInv` for the attempts a publisher has left.

`OpsLocks`: `LocksInv` says, for each lock, at which points of which tasks it is
held, so that two tasks are never between the same acquire and release; `WritesInv`
does so for the count of writes. `AloneInv`: past its drain a writer has nobody
attached. `FileInv` knows for each task whether its update is in the file, and that a
copy about to be swapped in is the file as it is, with the update of its merger: a
copy is only made, kept and swapped in under the outer gate.

`DbSwap`: `OneInv` (one request at a time, none during a recovery), `FileInv` (what
an upload has under its handle, and what was verified under its name), `GoodInv`
(at each point of a swap or a recovery, which name leads to the good file) and
`TruthInv` (whose data that file holds). The last two are claimed while no file
operation was refused. `HolderInv` (who holds `_merge_lock`) and `DrainInv` (a status
other than serving has a recovery or a holder behind it) need no `~Overlap`.

`ServerGate`: `LocksInv` as in `OpsLocks`; `CountInv` ties each counter to the set
of tasks it counts; `OpsInv` ties `ops_writing` to a write under way, and keeps it
out of what the checkpoint will restore; `CheckInv`, `DrainInv` and `PoolInv` say
what a checkpoint, a drained writer and a status that admits queries find; `LoopInv`
says at which points a coroutine blocks the event loop.

`UpdateClaim`: `OnceInv` (a bundle commits at most once), `TruthInv` (whoever
speaks of a commit - the row, a script on the wire, a receipt file, a recovery, the
manifest - speaks of one that took place), `WarmInv` (the same of the cache),
`FailedInv` (a report of failure, or a row settled by one, names a run that is over
and holds no receipt), and `OrderInv` (the owner of the row commits after every run
whose commit was recorded before), which is where `~LateClaims` is needed.

`LeagueRewrites`: `ReceiptInv` (a rename on its way to `___ops` has its receipt in
`___leagues`) and `RowsInv`: a league without a merge state has each season in all
of its tables or in none, which is why the emptiness of one small table may stand
for all, and what an upload inserts into next is empty. `JobInv`: no
request holds the lock without being at work.

`SeasonRefresh`: `Fresh`: while the generation a worker captured is the present one,
everything it has read is still what is there. Together with `ReadBefore` (nobody
reads before its capture, nobody merges before its readings are in) this is the
whole reason why derived tables tell the truth, and why a publication that was read
piece by piece looks like one step: at its merge, what it was built from is what is
there. `OutInv` (no outcome before the end) makes it happen once.

**Abstract specifications.** Four theorems are refinements: `DeltaPublish` and,
through it, the publications of `UpdateClaim` implement `LeagueStore`, `OpsLocks`
implements `OpsStore`, `SeasonRefresh` implements `SeasonStore`. In each, one lemma
shows for every action that it is a step of the store or changes nothing of it. The
first, third and fourth are also properties of runs.

**Only model-checked.** Liveness (`PublisherSettles`, `LockReleased`,
`EveryRequestAnswered` of both modules, `ServesAgain`, `RenameFinishes`): fairness
and ENABLED are beyond the prover. All safety properties of the passing runs are
proved. What the liveness rests on is proved as well, in two halves:

| liveness | nobody is stuck | every step leads forward |
|---|---|---|
| `EveryRequestAnswered` (`OpsLocks`) | `NoOneIsStuck`: some request waits for no lock and no other request | `RequestsGoForward`: one request has a step less, of 13 at most |
| `EveryRequestAnswered` (`ServerGate`) | `NoOneIsStuck`: someone waits neither for the event loop nor for `_merge_lock` | `RequestsOnlyGoForward`: whoever moves has fewer places left |
| `ServesAgain` | `DrainGoesOn`: the recovery, or the holder of the lock, waits for nobody | `DrainNearsItsEnd`: at most nine of its own steps, without a crash or a refused operation |
| `PublisherSettles`, `LockReleased` | `PublishersGoForward`, `MergesGoForward`: an attempt is left; the holder is at work | the same: three steps for each attempt, seven for a merge |
| `RenameFinishes` | `HolderGoesOn` | `LockComesBack`, `RepetitionFinishes` |

The predicates that say who waits are written from the guards of the actions. For
`OpsLocks` and `ServerGate` TLC found on the instances of the runs that whoever does
not wait can take a step; the prover cannot be asked, since ENABLED is beyond it.

## 6. Disagreements between the code and its documentation

Two are runs that end in a counterexample:

- `swap_half_done` (`SwapIsAtomic`) - an OSError between the two renames of
  `atomic_swap` is not rolled back; `/compact-db` reopens the pool on a missing
  file, which creates an empty database (`main.py:5248` against `swap.py:1`).
- `claim_recovery` (`RecoveryAdmits`) - neither a take-over nor the report of a
  commit clears `cache_verified_at`, so that the cache-only recovery of a league's
  second update finds it finished (`recover_league_update_cache.py:56` against its
  line 2); a committed row cannot be claimed either.

The next ones can be seen by checking the property named, with these constants.
Where a passing run checks the same property, its cfg or its statement excludes
the case.

| property | instance | disagreement |
|---|---|---|
| `NoOlderOverNewer` | `DeltaPublish`: three unfenced repair bundles, one with a run id that is no integer | `_delta_latest_committed_order` reads only the newest COMMITTED row; if that one's run id is `local-...` the order check is skipped, and run 1 commits over run 2 (`main.py:3969` against 4026) |
| `NoBlindFailure` | `DeltaPublish`: one bundle, `MaxTries = 2` | a 429 on the last attempt raises at once although an earlier attempt, whose answer was lost, has committed (`fly_target.py:225` against 194) |
| `WriteClosed` | `DeltaPublish`: one fenced repair bundle, `MaxTries = 2`, `Deadlines = TRUE` | the deadline timer closes the storage latch in the instant before COMMIT, the interrupt finds no statement to stop, and the merge commits into write-closed storage (`main.py:1813` against the docstring at 1810) |
| `PoolComesBack` | `OpsLocks`: one `Merger` | a failure of `/merge-ops` between `close_pool` and `reopen_pool` leaves the league pool empty while the status says serving (`main.py:2280` against 5359) |
| `AttachmentOwned` | `OpsLocks`: one `Query`, one `Merger` | `/merge-ops` counts the attached users before it takes `db._ops_lock`; a query that attaches in between loses `___ops` (`main.py:2269` against 2354) |
| `ConnectionOwned` without its exception | `OpsLocks`: one `Reader`, one `LeagueWriter` | an exclusive league write closes the dedicated connection under a running metadata read (`main.py:1609` against 1852) |
| `FleetFindsOpsFree` without its exception | `OpsLocks`: one `Fleet`, one cold `Writer` that is a `Renamer` | the rename's validation takes `db._ops_lock` without the outer gate, so a fleet merge can wait behind it until its two seconds are over (`main.py:3194` against 1853) |
| `SwappedIsVerified`; `GoodCopySurvives` | `DbSwap`, `Overlap = TRUE`: two checked replacements; two replacements and a compaction with one crash, or three replacements without any | both uploads write `<db>.duckdb.incoming`; the second replaces the first's data after its checksum was verified (`main.py:5118` against 5126). With an asynchronous startup a swap can also run beside the recovery (`main.py:873`) |
| `ServesAgain` without `faults` | `DbSwap`: one replacement, `MaxFaults = 1` | an OSError in `atomic_swap` is not a SwapError: `/replace-db` leaves the pool closed and the service draining (`main.py:5152`) |
| `GoodCopySurvives`, `PrevOutlivesDoubt` without `faults` | `DbSwap`: two replacements, `MaxFaults = 1` | the retry after such a failure unlinks `.prev`, the last good copy, while nothing is live (`swap.py:60` against 89) |
| `CheckpointAlone` | `ServerGate`: one `Nfl`, or one `OpsWriter` | `_database_activity_idle` does not count reads of NFL relations, and an `___ops` write may begin during the checkpoint (`main.py:671` against the docstring at 721) |
| `ReadsExcluded` with `gaveUp' = late` in `ClosePool` | `ServerGate`: the instance of `gate_drain` | `release_connection` lowers the count before it puts the connection back, `acquire_connection` raises it after taking one: a league writer that looks in between finds nobody and closes the pool, the watchdog's thread then puts a connection of the old pool into the queue, and a query that already has its slot reads on it beside the write (`db.py:558` and 547 against "Number of connections currently checked out", 567) |
| `PublishBound` | `ServerGate`: three `Publish`, `Permits = 1` | the `finally` of both publication endpoints releases a permit also for a request that never had one (`main.py:5571`, 4626) |
| `FailedDidNotPublish` | `UpdateClaim`: one run | a runner that fails between the server's commit and its own receipt file settles the row as failed, "did not publish" (`sleeper_incremental_refresh_worker.yml:301`) |
| `AcceptedIsPromoted` | `UpdateClaim`: two runs, `LateClaims = TRUE` | a copy of a take-over that is executed after the other run has settled takes the row back (`claim_manual_league_update.py:163`) |
| `NeverTwice` | `LeagueRewrites`: the instance of `rewrites` | the merge state is replaced by a DELETE and an INSERT that commit apart; a stop between them loses the trace of a partial upload, and its repetition inserts it twice (`main.py:5655` against 5702) |
| `RowsOnce` | the same with `Small = {}` | an upload none of whose tables is small has no sentinel: rows that a publication or a rename brought are not noticed (`main.py:5676`) |
| `FenceSeesRewrites` | the same | a rename into a league whose generation is the higher one leaves it as it is, and `/merge-league` never touches it: a bundle built before the rewrite passes the fence after it (`league_rename.py:167` and `main.py:5318` against 4053) |
| `FiledOnce` | the same | a rename moves receipts to the new name, so that a repeated request under the old one does not find its own (`league_rename.py:180`) |
| `OldNameGone` | the same | the inventory mark of an upload may come after a rename and insert the old name again (`fly_target.py:359`) |
| `RetryFinishes` | the same | a rename done by half cannot be finished once another league is registered under the new name (`main.py:3096`) |
| `RepairRepairs` | `SeasonRefresh`: `Extras = {y2}`, or `Gaps` with `Active` | the planner compares fingerprints both ways, the server looks for missing keys only, and not in the active year (`league_update_plan.py:335` against `aggregation_utils.py:307` and `fleet_merge.py:827`; the comment at `no_week_season_rollup_repair.py:27` calls the contracts identical). The repair commits, and raises "left incomplete" each time |
| `SettingsStay` | `SeasonRefresh`: one `Gap` or `Full`, one `Editor` | the "unchanged" context row (`no_week_season_rollup_repair.py:6`) and that of a full import replace settings saved after they were read, since a save moves no generation |
| `HomepageShowsDraft` | `SeasonRefresh`: one `Draft` | the draft update keeps the homepage because its sources "are unchanged" (`update_sleeper_offseason_draft.py:815`), but `homepage_refresh.py:79` reads the draft too |

These were found by reading, and a model only shows the steps that lead there:

- A `/query` that times out returns its connection while its thread still executes
  (`main.py:1464`). The drain then counts it as gone, and a league writer may write
  with that thread in DuckDB; `ReadsExcluded` speaks of queries that are waited for.
- A publisher whose receipt was lost between the DELETE and the INSERT of
  `_delta_upsert_state` (`main.py:3548`) is told that its bundle is unknown. It was
  never committed then - a COMMITTED receipt is written inside the transaction - and
  may be sent again, so that no property is touched.
- When the reopening after `/merge-league` raises, the status stays "writing"
  (`main.py:5330`, 5336): nothing answers reads until a restart.
- An update whose commit was superseded by another publication stays committed for
  ever: recovery refuses it (`league_update_status.py:91`), and nobody may claim it.
- Two overlapping renames can leave aliases that lead to each other.
- A repair of season rollups leaves a homepage that was computed from the rollups
  with the gaps; draft-only maintenance leaves careers as they were
  (`check_offseason_drafts.py:935`).
- A version 3 bundle whose franchises differ from the league's is refused each time.
- A full import goes on without the manager settings when their read fails
  (`run_multi_platform_import.py:203`), and publishes a context without them.

## 7. Not modelled

*Of modelled components.* Startup and shutdown of the server and `/merge-ops` are
not in `ServerGate` (the first is in `DbSwap`, the last in `OpsLocks`), and the two
`___ops` locks are one there. `MergeBundle` of `LeagueRewrites` does not repeat the
checks of `DeltaPublish`, and uploads of one league do not overlap in its run. The
claim the website makes for its own runs is not in this repository. In
`UpdateClaim`, `StartRecovery` leaves out that the published manifest must be that
of the receipt when the receipt's scope is complete (`league_update_status.py:109`):
the modelled recovery starts in more states than the real one. In `DbSwap` the
connections of the old file are closed when it is renamed: after a drain that ran
out of time a query may still have it open, and its WAL file, which keeps the old
name, may meet the new database. A reopening that raises there
(`_reopen_pool_after_write`, `recovery_failed`, `main.py:561`) is only in
`ServerGate`. The server's storage recovery mode is left out. In
`SeasonRefresh` what the SQL computes is opaque; the first quick import's
`initialize_missing`, `/rebuild-league-derived`, `/repair` and `/reaggregate` are
left out, as are the finalization after a publication (`local_db.py:937`, an alias
file and a notice) and the registries other than inventory and alias that a rename
retargets. Of `storage_guard.py`, `StorageOwner` is one lock of the operating
system and the thresholds of `WalPolicy` are the choice whether a WAL is due.

*Whole components.* Import dispatch: one POST and a check of a string, nothing kept
between two calls. Import pipeline: one process per import that runs scripts in
order over a private file; what it publishes is `DeltaPublish`'s publisher.
Authentication and SQL screening: stateless; every modelled request has passed
them. Workflows: their concurrency groups are the hosting service's; the models
assume no exclusion between imports. Fetchers, transformations, SQL aggregation,
validation, NFL reference data, research and corpus scripts, newspaper tools:
batch conversion of data, each in one process and without state that another one
sees. They are by far the most of the repository's 2 812 files, which is why the
mapped lines are a small share of it: TLA+ would repeat them line by line, and no
interleaving, failure or order in them is left for a checker to find.

*DuckDB.* Transactions are atomic, committed data survives, a statement outside a
transaction commits on its own, a COMMIT may succeed and then report an error.
*CPython.* `_begin_ops_write_state` and its kin are single steps (see the header of
`ServerGate`).

## 8. What could follow

1. Startup and shutdown in `ServerGate`, with `/merge-ops` and both `___ops` locks,
   and its composition with `DbSwap` for a swap during an asynchronous startup.
2. The maintenance scripts that rewrite one derived table, and the finalization
   after a commit, beside `SeasonRefresh`.
3. `LeagueRewrites` with `DeltaPublish` in the place of `MergeBundle`: what a rename
   does to the receipts of attempts that are still in the server.
4. The registries a rename retargets apart from inventory and alias.
5. An abstract file for `DbSwap`, and an abstract rename for `LeagueRewrites`: one
   step each, which the renames of the file system and the two transactions
   implement while nothing fails half-way.
