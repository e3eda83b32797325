# Formal model of the digital-twin backend

TLA+ specifications, model-checking instances and machine-checked proofs for the
code under `src/app`. File names below are relative to `src/`.

## 1. The system

A CMMS (maintenance system) sends a finished work order to the API; the API
stores it as a job; a worker fetches master data from the CMMS, stores the work
order, lets a prediction module compute a prediction and posts it back. A data
collector polls a SilverFrog DC for sensor values. All of them are separate
processes (`compose.yaml`) that share nothing but one PostgreSQL database.

| Component | Code | State | Operations |
| --- | --- | --- | --- |
| Job submission | `app/maintenance/api.py`, `jobs.py`, `schemas.py`, `utils.py` | a row of `prediction_jobs` per `request_hash` | look up, INSERT (queued or skipped), unique-index conflict, requeue a failed job |
| Job queue | `job_queue.py` | `status`, `created_at`, `updated_at` of the rows; row locks | `claim_one_job`, `requeue_stuck_jobs`, `touch_processing_job` |
| Heartbeat | `job_queue.py` (`JobHeartbeat`) | a thread per running job | start, one touch per 30 s, stop |
| Worker | `worker.py` | the job in hand | `main` loop, `process_job`, `update_job_status`, recovery |
| CMMS client | `cmms.py` | none | GET failure causes, POST reliability, POST failure causes |
| Work-order synchronisation | `data_sync.py` | `assets`, `failure_types`, `asset_failure_types`, `asset_worksheet_lists`, `operations_done_lists` | `synchronize_workorder` and its helpers |
| Asset mapping | `asset_mapping.py`, `api.py` | `assets`, the reset of `last_metrics_sync_at` | `apply_asset_mappings` |
| Data collector | `app/datacollector/*` | `sensors`, `measurements`, `datacollector_sync_state` | `run_cycle`, `refresh_metrics`, paging |
| Prediction module | external (`prediction_module`) | `predictions` | `run_prediction` |
| Schema, settings, keys, import script, logs | `db/init`, `init_db.py`, `settings.py`, `security.py`, `scripts` | - | one-shot or stateless |

How they meet: the API and the workers through `prediction_jobs` (unique index
on `request_hash`, `FOR UPDATE SKIP LOCKED`, ages of `updated_at`); workers with
one another through the same table and through the master-data tables; the
mapping endpoint and the collector through `assets` and
`datacollector_sync_state.last_metrics_sync_at`; workers and the CMMS through
HTTP calls that may fail after they took effect.

What is hard: every status write is `UPDATE ... WHERE job_id = ...` without
looking at the old status or at an owner; liveness of a job is judged by the age
of a timestamp that another thread refreshes; a worker may die, or lose the
database, between any two transactions; a COMMIT or a POST may take effect
without the caller learning it; identical requests may run through two handlers
at once. `PROJECT.json` lists each such hazard at its line, with the property
that covers it or the reason why none does yet.

### What makes each component correct

* Submission: one row per request; a finished job is never run again; only
  failed jobs are requeued; late requests are never processed.
* Queue and heartbeat: one claimant per row; no job with a living heartbeat is
  requeued; a job whose worker has gone is requeued eventually.
* Worker: one worker per job; `done` only after both messages were delivered;
  each job ends in a final status; no work order without operations is predicted.
* Synchronisation: one asset per CMMS id, one worksheet per work order, each
  CMMS operation stored exactly as often as it was received.
* Mapping: an identifier never moves to another asset; a new mapping is followed
  by a refresh of the metrics.
* Collector: each value the DC published is stored exactly once; the watermark
  never passes a value that was not asked for.

## 2. Modules

| Module | Contents |
| --- | --- |
| `JobLifecycle` | abstract specification: what the queue promises to clients and workers |
| `JobQueue` | the table, the API handlers, the workers, their heartbeats, the CMMS and time |
| `MCJobQueue` | TLC instance (symmetry of workers and of handlers) |
| `JobQueueProofs` | theorems that hold under every fault |
| `JobQueueHealthyProofs` | theorems for workers that keep their deadlines, refinement included |
| `DataCollector` | the data collector, the DC, the sync state and the mapping endpoint that resets it |
| `MCDataCollector` | TLC instances: assets, metrics and the values the DC may publish |
| `DataCollectorProofs` | theorems about what is stored, the watermark and new mappings |
| `SyncData` | work orders and answers of the CMMS, and what `data_sync.py` computes from them without the database |
| `WorkorderStore` | abstract specification: each synchronisation takes place at once or not at all |
| `WorkorderSync` | `synchronize_workorder`, statement by statement, in several workers at once |
| `MCWorkorderSync` | TLC instances: work orders and answers that share, grow, shrink or are refused |
| `WorkorderSyncProofs` | theorems, the refinement of `WorkorderStore` included |
| `AssetRegistry` | abstract specification: a batch of mappings is applied as a whole and moves no identifier |
| `AssetMapping` | `apply_asset_mappings` and the `ensure_asset_id` of workers, statement by statement |
| `MCAssetMapping` | TLC instances: batches of mappings |
| `AssetMappingProofs` | theorems about rows, identifiers and answers, the refinement of `AssetRegistry` included |
| `PredictionDelivery` | from the return of `run_prediction` to the two POSTs, with the data |
| `MCPredictionDelivery` | TLC instance: results that each break one rule |
| `PredictionDeliveryProofs` | theorems about what the CMMS receives |

How they fit together: `JobQueue` is the life of a job; its step from `started` to
`synced` is what `WorkorderSync` opens up, and its steps from `synced` to `done` are
those of `PredictionDelivery`. Each of the three takes from its neighbours what they
promise: `WorkorderSync` lets workers die, and run at once, as `JobQueue` does;
`PredictionDelivery` has one worker per job (`OneWorkerPerJob`) and lets other
workers commit failure causes at any time (`SyncLink`). `AssetMapping` and
`WorkorderSync` meet in the `assets` table: workers appear in `AssetMapping` as
sessions that insert one CMMS id, the mapping endpoint in `WorkorderSync` as `Map`,
in `DataCollector` as `MapBegin`/`MapCommit`.

### JobQueue and the code

| State | In the code |
| --- | --- |
| `status[r]` | `prediction_jobs.status` of the row with the hash of request `r`; `"none"` without a row |
| `older[r]` | the rows that come before `r` in `ORDER BY created_at, job_id`. A retry keeps `created_at` |
| `age[r]` | now minus `updated_at`, counted while the row is `processing` (no query reads it otherwise), cut off one tick above the limit |
| `stored[r]` | rows of `predictions` of that job, numbered from 1 |
| `received` | what reached the CMMS: request, message kind, number of the prediction |
| `phase[w]`, `job[w]`, `prediction[w]` | the program counter of `main`/`process_job` and its local variables |
| `beating[w]`, `wait[w]`, `misses[w]` | the heartbeat thread, its wait, and how many touches failed in a row |
| `call[h]`, `body[h]` | an API handler between its SELECT and its write |
| `faults`, `retries` | how much of the budgets `MaxFaults`, `MaxRetries` is used |

One database transaction is one step. Exceptions:

* The claim is two steps (`ClaimLock`, `ClaimCommit`): its row lock lasts from
  the SELECT to the COMMIT, `SKIP LOCKED` of other claims and the UPDATEs of
  handlers and late workers meet it.
* `enqueue_prediction_job` is two steps, its SELECT (`Submit`) and its write
  (`Insert`, `InsertConflict`, `Retry`), with an `await` between them. The write
  uses nothing but the primary key, as the ORM does.
* A POST that fails and the status write that follows it are one step
  (`PostFails`): between the two only time passes and others act on a row whose
  status that write ignores, so the separate steps add no new row states.
* The heartbeat's failed attempt leaves the age as it is; an attempt still in
  flight when `stop()` gives up joining after 35 s is left out.

Worker phases: `idle` (between jobs), `locking` (claim open), `claimed`
(committed, no heartbeat yet), `started` (`process_job` entered), `synced`
(`session.commit()` after the synchronisation), `predicted`, `half_posted`,
`posted`, then `Complete`; `recover_error` and `recover_queued` are the handler
of escaped exceptions in `main`; `down` is a dead process that compose restarts.
`SyncFails` stands for every outcome of the payload validation and the
synchronisation that `process_job` records itself; `PredictionFails` for an
exception of `run_prediction` and for a result the checks refuse (with or without
a stored prediction). `Escape` is any other exception, in every phase from the
claim to the last write.

Time is counted in ticks. `Tick` waits for a heartbeat or a write that is due:
that is the assumption that a live worker gets its turn within one heartbeat
interval. The fault `"stall"` removes it (suspended container, database away).

`Faults` says which of three further things may happen: `"stall"`,
`"concurrent_retry"` (two handlers in the window between the SELECT and the
UPDATE of a retry of the same job) and `"lost_ack"` (a COMMIT of
`update_job_status` takes effect but raises). Crashes, escaped exceptions, failed
claims and failed recoveries may always happen, up to `MaxFaults` of them.
`Healthy` means that none of the three kinds may happen.

`requeue_stuck_jobs` may run whenever a worker is idle: the pause of 30 s between
two requeues is left out, so the model allows more requeues than the code.

### DataCollector and the code

| State | In the code |
| --- | --- |
| `clock`, `visible` | `datetime.now()`; the items the DC has published |
| `mapped` | the `dc_asset_id`s of `assets` |
| `api`, `batch` | `apply_asset_mappings` between its look at the sync state and its COMMIT: whether it will write the reset, and which assets it adds |
| `sensors`, `since` | pairs with a row in `sensors`; when it was committed (history, used by properties only) |
| `exists`, `watermark`, `lastSync` | the row of `datacollector_sync_state`: `last_successful_time_to`, `last_metrics_sync_at` (`NoTime` is NULL) |
| `stored[i]` | committed rows of `measurements` made from item `i` |
| `pc`, `now`, `back`, `todo`, `fresh` | where `run_cycle` is, its `now`, where it continues after a refresh, the metrics still to look at, sensors that are flushed only |
| `pairs`, `pair`, `pageNo`, `lastPage`, `page`, `pending`, `refreshed` | the two loops over pairs and pages: locals of `run_cycle`, and measurements that are added only |

A step is one HTTP call, one item of an answer or one COMMIT:
`BeginFirst`/`Begin` (`get_state`, is a refresh due), `FetchMetrics`,
`StoreMetric` per item, `CommitMetrics`, `SaveSync` (the second COMMIT, which
writes `last_metrics_sync_at`), `ListPairs`, `FetchPage`, `StoreItem` per item,
`MissingMetadata` (a refresh in the middle of a page, once a cycle), `CommitPage`,
`EndCycle`. `CycleFails` is every exception and the death of the process: the
rollback of `main`, or of PostgreSQL, drops what was not committed (`fresh`,
`pending`, a new state row), and the locals go.

* The session does not flush by itself (`db.py`), so `MeasurementExists` sees
  committed rows only. Two items of one page with the same pair and `createdAt` are
  both stored; `StoredOnce` therefore counts rows per item of the DC.
* `CommitMetrics` in the middle of a page commits the measurements too: one
  session holds both.
* The DC is external. The list of metrics is fixed; values are sorted by
  `createdAt` and published at most `MaxDelay` later, so pages may shift while
  they are read. `Stray` items come back whatever pair was asked for: no other way
  leads to `MissingMetadata`. `Bad` items are not valid or are refused by the parsers.
* `MapBegin` takes any set of new assets; the empty one stands for a batch that
  changes CMMS ids only. Its reset is skipped when it has read NULL or no row,
  because the ORM then has nothing to write.
* The wait of `poll_interval_minutes` is left out: a cycle may begin whenever the
  collector is idle. `service.py:48-51` needs a NULL watermark, which nothing
  writes, and is left out; `config.page` is 0, as in `config/datacollector.toml`.

### WorkorderSync and the code

| State | In the code |
| --- | --- |
| `assets`, `types`, `links`, `sheets`, `ops` | committed rows of `assets`, `failure_types`, `asset_failure_types`, `asset_worksheet_lists`, `operations_done_lists` (a count per worksheet and operation) |
| `newAssets`, `newTypes`, `newLinks`, `newSheet`, `added` | what the worker's session has flushed and not committed; for the first three it is also what it has locked |
| `pc`, `order`, `answer`, `item` | where the worker is in `synchronize_workorder`, its work order, what the GET returned, the loop index |
| `seenType`, `seenLink` | the row that `session.get` returned, which decides between INSERT, UPDATE and nothing |
| `sheet` | `asset_worksheet_list_id` of its worksheet |

One statement is one step: `Fetch` (the GET and
`build_asset_failure_cause_operations`, which refuse before anything is read),
`FindAsset`/`AddAsset` (`ensure_asset_id`), per failure cause `FindType`/`PutType`
(`ensure_failure_type`) and `FindLink`/`PutLink` (`ensure_asset_failure_type`, its
checks included), then `FindSheet`/`AddSheet` (`store_asset_worksheet`), `StoreOps`
(`store_cmms_operations`) and `Commit` (`session.commit()` in `process_job`).
`Refuse` is each of their `ValueError`s, which `process_job` answers with a
rollback. `Finish` is the rest of `process_job`, which only reads these tables.

PostgreSQL is external and at READ COMMITTED: a SELECT sees committed rows and those
of its own session; a flush waits while another session has the row or the key
(`Waiting`), fails when the key has been committed meanwhile (`InsertConflict`), and
when sessions wait in a circle one of them is ended (`BreakDeadlock`). `Abandon` is
the death of the worker or of its connection at any point. An UPDATE sets the
columns that differ from what was read, in the row as it is by then (`NewLink`).
`Leak` is the one exception that reaches `main()`: `int()` or `float()` of a number that
is too large raises `OverflowError`, and the `session_scope` that `main()` is in commits
what is flushed and pending. Three fields of a failure cause can do this once something
has been written: its id (`data_sync.py:255`), its probability (405, a huge integer) and
its severity (66); `overflow` of an item says which. A row whose rate fails keeps its
old rate; a new one has NULL, counted as 0. An asset-failure-cause id or an operation
that cannot be converted fails before anything is written.

`Overlap` says whether two workers may have work orders of one worksheet (same asset
and times) at once: the request hash covers the whole body, so such jobs exist.
`SheetNo` bounds the worksheets, `Answers` what the CMMS may say.

### AssetMapping and the code

| State | In the code |
| --- | --- |
| `rows`, `new`, `entries` | committed rows of `assets`; rows a session has flushed; keys that the flush under way has locked already |
| `pc`, `batch`, `item` | where a session is in the loop of `apply_asset_mappings` |
| `cmmsAsset`, `dcAsset`, `asset` | the objects the variables of these names refer to, with the attributes they were loaded with |
| `results` | items of the answer |
| `told` | identifiers that committed answers gave a row (history, used by a property only) |

`FindCmms` and `FindDc` are the two SELECTs; then `ReportConflict`, `Keep`, `Create` or
`Complete`, where a flush takes its locks one after the other (`TakeEntry`: row, key
of `cmms_asset_id`, key of `dc_asset_id`), `Commit`, or `Refuse` (the unique index
fails the flush: rollback, 503; `Duplicate` looks at the other rows only, as an UPDATE
that sets a column to what its row has by then meets no other entry). The identity map of the session is modelled because
it matters: a SELECT that finds a row whose object is still referred to returns the
object as it was loaded. A worker is a session with one mapping of a CMMS id.

### PredictionDelivery and the code

`pc[j]` goes through `process_job` from `run_prediction` on: `RunPrediction`,
`Validate` (`validate_prediction_result`), `Resolve`
(`resolve_asset_failurecause_ids`), `Verify` (`verify_stored_prediction`), `Build` (both
payloads, before either is sent), `PostAsset`, `PostCauses`. `links` are the committed
rows of `asset_failure_types`, keyed by `asset_failurecause_id`. At any step another
synchronisation may commit one (`SyncLink`): a new row, or a row of the same asset that
moves to another failure type (`data_sync.py:389-391`); `RowsOf` says which rows the CMMS
may give a link. A synchronisation of several causes is several such steps, which only
lets more states be seen than its one COMMIT does. `moved[j]` (history, used by
properties only) are the links that moved since job `j` looked them up.
`stored` are the rows of `predictions`; `received` what reached the CMMS, each message
with the result it was made of. `run_prediction` is not trusted: it returns any of
`Results`, whatever it has stored. Probabilities are integers per mille; the limits
that matter are 0, 0.99 (`schemas.py:42`) and 1. `Again` stands for a retry or a requeue at any
point (JobQueue decides when they happen), after `done` too: a COMMIT of `done` that is
not acknowledged is followed by a recovery that queues the job again.

## 3. Runs

The JobQueue runs use `HeartbeatInterval = 1`, `StuckMaxAge = 2`, `MaxMisses = 1`. This
is the tightest instance of the timing assumption
`(MaxMisses + 1) * HeartbeatInterval <= StuckMaxAge` (30 s and 600 s in the
code leave room for 19 failures): one more missed heartbeat, or an age compared
with `<=`, and the properties fail.

| Run | Instance | Shows |
| --- | --- | --- |
| `deadlines` | 2 workers, 1 handler, 2 requests, 1 fault, 1 retry, `Faults = {}`, fair | `TypeOK`, `OneWorkerPerJob`, `HeldIsFresh`, `PredictionsAreExplained`, `FinalStays`, `ImplementsLifecycle`, `EveryJobSettles` |
| `faults` | 2 workers, 1 request, 2 faults, no retry, stalls and lost acknowledgements | `DoneIsDelivered`, `CausesFollowAsset`, `OneClaimant` hold whatever happens |
| `retries` | 2 workers, 2 handlers, 3 requests (one late, one without operations), 2 retries that may overlap | `SkippedIsNotPredicted`, `PredictionsAreExplained` |
| `two_workers` | 1 request, 2 handlers, overlapping retries | violates `OneWorkerPerJob` (finding 1) |

Why these bounds are enough for JobQueue to meet the interesting cases: two workers
are what the races on a row need, and two handlers, which `retries` and `two_workers`
have, what those between two clients need (one handler at a time can still retry a job that a
worker is about to fail); one fault is enough to leave an orphaned row and have it
requeued under another worker, two let a recovery fail as well, and every fault
action fires in one of the runs; the order of claims matters from two requests on; two overlapping retries
show what one retry cannot. The theorems remove the bounds for the safety
properties.

| Run | Instance of DataCollector | Shows |
| --- | --- | --- |
| `values` | 1 pair, 3 values, two of them simultaneous; pages of 1, `Overlap = MaxDelay = 2`, 4 ticks, 1 failure, fair | `TypeOK`, `StoredOnce`, `NoGap`, `EveryValueStored` |
| `stray` | 2 assets mapped at any time but during a refresh (`Races = FALSE`), an early, a refused and a stray item, all of time 1 and published late or not; pages of 2, 3 ticks, 1 failure | `StoredOnce`, `OnlyMapped`, `NoGap`, `MappingIsNoticed` |
| `lost_reset` | 2 assets, no values, `Races = TRUE` | violates `MappingIsNoticed` (finding 2) |

Four ticks let cycles overlap with a late value between them; pages of one
value make three values enough for a page to shift while the next is read; one
failure at every step is enough to leave half a cycle behind and repeat it.
`Overlap = MaxDelay` is the tightest case `NoGap` allows. Two assets
are needed for a mapping that is new while another has its sensors. In `stray` three
ticks are enough for `time_from` to pass the time of the items, so `NoGap` asks there for
a value and for a stray item that must have been stored.

| Run | Instance | Shows |
| --- | --- | --- |
| `sync` | WorkorderSync: 2 workers, 2 assets that share two failure causes, listed in opposite orders; answers that list a link of the other asset, or rename a cause; 3 work orders, `Overlap = FALSE`, fair | `TypeOK`, `WorksheetKeepsCause`, `NoPartialSync`, `ImplementsStore`, `EverySyncEnds` |
| `sync_changes` | 2 workers, one asset, 3 work orders (two with the same times), 8 answers: operations added and repeated, causes dropped, a rate changed or refused, a cause listed twice, an id, a rate or a severity that cannot be converted, nothing | `OneWorksheet`, `OperationsAreReceived`, `CausesResolve` |
| `sync_doubled` | one asset, two answers, `Overlap = TRUE` | violates `OperationsAreReceived` (finding 3) |
| `mapping` | AssetMapping: 2 imports and a worker, 1 CMMS id, 2 DC ids, two batches with the same identifiers in opposite orders, fair | `TypeOK`, `AnswersHold`, `NothingReplaced`, `ImplementsRegistry`, `EveryBatchEnds` |
| `delivery` | PredictionDelivery: 2 jobs of 2 assets with the same causes, links that synchronisations add and move between causes at any step, 2 sound and 8 broken results | `TypeOK`, `CausesArePredicted`, `OnlyMovedAreStale`, `NoHalfPrediction` |

Two workers are what deadlocks, unique-index conflicts and rows changed between look-up
and flush need; two shared causes in opposite orders are the shortest cycle of
locks. `SheetNo` has one number per worksheet that can exist at once, and one to spare
where two may be inserted for one key. In `mapping` two sessions can wait for each
other because each writes two keys; the third shows a bystander that inserts one of
them. The batches contain each outcome: created, updated, unchanged, conflict of
values and of rows. The results of `delivery` break one check each, so that each
`Refuse` fires.

Deadlock is checked in every run: an idle queue can still accept time or
requests, an idle collector can begin a cycle, an idle worker or session a work order
or a batch.

### Fairness (`FairSpec`)

Weak fairness of the clock, of each worker's own next step, of each heartbeat, of
each worker's requeue and restart, and of each handler's pending write. The code
justifies them: the loop of `main` never ends and catches every exception, the
requeue runs every 30 s in it, PostgreSQL answers, `restart: unless-stopped`
restarts a dead worker, HTTP calls have timeouts (10 s). It also assumes that
`run_prediction` returns: the heartbeat keeps a hanging prediction alive for ever.
Nothing obliges a client to submit or retry.

For the collector it is weak fairness of `RunCycle`: the loop of `main` never ends
and catches every exception, HTTP calls have `request_timeout_seconds`. Cycles that
fail are bounded by `MaxFailures`; against a DC or database that fails for ever
nothing can be promised.

For synchronisations and mappings it is strong fairness of each session's own next
step and weak fairness of `BreakDeadlock`. Strong, because a lock may be free and taken
again in turn: PostgreSQL queues the sessions that wait for a lock and serves them in
order, so that one that could get it again and again does. Its deadlock detector acts
on every cycle. No fairness is assumed of clients, crashes or the mapping endpoint.

### Findings

1. `two_workers`: two identical requests read the same `error` row (`jobs.py:51`).
   The first UPDATE requeues the job and a worker claims it; the second UPDATE, which
   looks at nothing but `job_id`, puts the job in `processing` back to `queued`, a second
   worker claims it and both run it, against `docs/mukodes.md:55-56`. A status in the
   WHERE clause of the UPDATE (or `SELECT ... FOR UPDATE`) would close it.
2. `lost_reset`: `/sf_asset_mapping` commits a mapping and the reset of
   `last_metrics_sync_at` between the moment `refresh_metrics` has looked for the
   asset and the save at `service.py:45` (or 35, 164), which then writes `now` over
   the NULL. The same happens without any write to lose: the endpoint reads NULL,
   or no state row, while the refresh that will miss the asset is running, and
   resets nothing. The next cycle does not refresh, against
   `docs/asset_mapping.md:50-51`; the asset waits for
   `metrics_refresh_interval_minutes` (4320) or for a stray item. Run `stray` shows
   that this overlap is the only way.
3. `sync_doubled`: two workers on one worksheet count its stored operations, both find
   one missing and both insert it: `store_cmms_operations` locks nothing. More is stored than
   was received, every later synchronisation of the worksheet is refused
   (`data_sync.py:694`), against the docstring at `data_sync.py:647-648`.

Seven further configurations are kept beside the runs. Each has a single property that
TLC finds violated; they document limits of the code which a reader of the passing
runs should know:

| Configuration | Violates | What happens |
| --- | --- | --- |
| `JobQueue_retry_race.cfg` | `FinalStays` | the race of finding 1 with a job that has finished meanwhile: the second UPDATE puts a `done` job back to `queued` |
| `WorkorderSync_twice.cfg` | `OneWorksheet` | two workers find no worksheet for the same asset and times and both insert one; no unique index stands behind the SELECT (`data_sync.py:576`) |
| `WorkorderSync_reissued.cfg` | `CausesResolve` | the CMMS gives a failure cause a new id; the old row stays, the cause no longer resolves to one link, and predictions of that asset are refused (`worker.py:208`) |
| `WorkorderSync_overflow.cfg` | `NoPartialSync` | a number that cannot be converted: `Leak` stores failure causes without a worksheet (`data_sync.py:66`, 255, 405) |
| `AssetMapping_rivals.cfg` | `AnswersHold` | two requests give one asset two DC ids; both read the empty column, the second UPDATE overwrites the first, and both are answered `updated` (`asset_mapping.py:89`) |
| `PredictionDelivery_moved.cfg` | `CausesAreCurrent` | a synchronisation moves a link to another failure cause (`data_sync.py:389`) between `resolve_asset_failurecause_ids` and the POST: the probability of the old cause is sent under a link that is by then of the new one (`worker.py:304`) |
| `PredictionDelivery_boundary.cfg` | `ValidIsSendable` | a probability above 0.99 is valid for `normalize_probability` and refused by the payload (`schemas.py:42`) |

## 4. Proofs

Nothing below bounds the number of workers, handlers, requests, retries, faults,
metrics, values, pages, failed cycles, work orders, answers, results, sessions,
mappings in a batch or assets; the constants
are only assumed to satisfy the `ASSUME`s of their modules (`ConstantsAssumption` and
`TimingAssumption`; `CollectorAssumption`; `DataAssumption` and `SyncAssumption`;
`DeliveryAssumption`; `MappingAssumption`), which TLC evaluates in every run.

| Theorem | States | Argument |
| --- | --- | --- |
| `TypeCorrect` | `Spec => []TypeOK` | inductive as it stands |
| `Claimants` | `[]OneClaimant` | inductive with `TypeOK`: every write to a row asks for the row lock, or only touches `processing` rows |
| `Delivery` | `[](DoneIsDelivered /\ CausesFollowAsset)` under every fault | `DeliveryInv` adds what the worker knows in each phase: its prediction is stored, the asset message was received from `half_posted` on, the causes from `posted` on |
| `NeverPredicted` | `[]SkippedIsNotPredicted` under every fault | `SkipInv` adds that no worker has a late job in hand and no handler is about to retry one |
| `Exclusive` | `Healthy` implies `[](OneWorkerPerJob /\ HeldIsFresh)` | `HealthyInv`, below |
| `Finality` | `Healthy` implies `FinalStays` | from `HealthyInv`: only a holder's write, a requeue of a `processing` row or a retry of a still failed row changes a status |
| `Refinement` | `Healthy` implies `Spec => ImplementsLifecycle` | step by step, `holders` mapped to the workers that hold the job |
| `Explained` | `Healthy` implies `[]PredictionsAreExplained` | a job that is not held has used up what its faults and retries paid for (`Accounts`) |

`HealthyInv` is needed because "no job that beats is requeued" is not inductive:
that a held row is young follows from the clock of the thread that refreshes it.
`AllInTime` is the bridge: `age[job[w]] <= misses[w] * HeartbeatInterval + wait[w]`;
with at most `MaxMisses` failures in a row and `wait` at most one interval,
the timing assumption keeps the age below the limit. `RetriesWait` adds that the
row a handler is about to retry is still failed (nobody else can move it when
retries do not overlap), `HeldProcessing` that a held row reads `processing`.

| Theorem of `DataCollectorProofs` | States | Argument |
| --- | --- | --- |
| `TypeCorrect` | `[]TypeOK` | inductive as it stands |
| `Once` | `[]StoredOnce` | with `PendingIsNew`: what waits for a COMMIT has no committed row |
| `Mapped` | `[]OnlyMapped` | with `SessionIsMapped`: the same for what waits for a COMMIT |
| `Gapless` | `MaxDelay <= Overlap` implies `[]NoGap` | `GapInv`, below |
| `Noticed` | `Races = FALSE` implies `[]MappingIsNoticed` | `NoticeInv`: a refresh sees all mappings until its state is saved, so `last_metrics_sync_at` is set only while every listed metric of a mapped asset has a sensor; a mapping that leaves the column alone found it empty |

`NoGap` speaks of the watermark, which moves once a cycle; that it may move is
decided page by page. `NoneSkipped` is the invariant of the two loops: each value
that is `Owed` (visible, of a known sensor, older than the next `time_from`, not
stored) belongs to a pair still to be asked for, or is in hand, or its rank in the
DC's answer is at or after the next page. Ranks only grow when the DC publishes
late (`RankGrows`), so a page that shifts may repeat values but never skips one;
`RankBelow` makes the last page the last. Nothing becomes owed during a cycle
(`OwedBefore`): this is where `MaxDelay <= Overlap` is needed.

| Theorem of `WorkorderSyncProofs` | States | Argument |
| --- | --- | --- |
| `TypeCorrect` | `[]TypeOK` | with `LocalOK`: what a worker has in hand, by where it is |
| `OneSheet`, `ExactOperations` | `Overlap = FALSE` implies `[]OneWorksheet`, `[]OperationsAreReceived` | `SerialInv`, below |
| `KeepsCause` | `[]WorksheetKeepsCause`, with or without overlap | `CauseInv`, below |
| `Atomic` | `Convertible` (every number of every answer can be converted) implies `[]NoPartialSync` | no worker leaks (`NeverLeaks`); then rows of failure causes are committed together with a worksheet of their asset |
| `Refinement` | both conditions imply `Spec => ImplementsStore` | a `Commit` is the step `Store`, `Map` is `Map`, every other step a stutter |
| `Resolves` | `StableLinks` implies `[]CausesResolve` | `ResolveInv`, with `SyncedPart`: after the commit the rows of the causes are there and keep their asset, and no other row has the same cause |

No unique index protects a worksheet, so what protects it is that nobody else works on
it: `SheetPart` says that a worker past `find_sheet` has either a committed worksheet of
its work order or one of its own under a fresh number, `NoneMatches` that in the second
case there is still no committed one, `AddedUp` that what is stored and what is about
to be stored add up to what was received. Each survives the commits of others because
of `Exclusive`, the condition `Overlap = FALSE` carried along. For rows of
`asset_failure_types` it is the primary key: `GoodRows` says that a flushed row is
flushed by one session only, keeps the asset of the committed one and has the cause of
an answer; `LinkPart` that the causes a worker is done with have their rows. So no
row changes its asset, and `SheetsLinked` follows.

| Theorem of `PredictionDeliveryProofs` | States | Argument |
| --- | --- | --- |
| `TypeCorrect` | `[]TypeOK` | inductive as it stands |
| `Faithful` | `[]CausesArePredicted` | `DeliveryInv`: what has been checked by the phase the worker is in stays true while others add predictions and add or move links, as far as they can leave it true: a stored prediction never changes, a link is never deleted nor given to another asset, and each link looked up was given the cause it was looked up for |
| `Timely` | `OnlyMovedAreStale` | from the same invariant: a link looked up still is the row of its cause, or is in `moved` |
| `Current` | `LinksStay` (no link has two rows) implies `CausesAreCurrent` | then `moved` stays empty |
| `Whole` | `[]NoHalfPrediction` | from the same invariant: both payloads are buildable before the first is sent |

Nothing holds the rows of `asset_failure_types` between `resolve_asset_failurecause_ids`
and the POSTs. `Faithful` therefore does not say that a link sent still has its cause,
only that it is of the asset and had been given the cause; `Timely` says which links may
be out of date, those moved in between; and the configuration
`PredictionDelivery_moved.cfg` (section 3) shows that such a link is sent.

| Theorem of `AssetMappingProofs` | States | Argument |
| --- | --- | --- |
| `TypeCorrect` | `[]TypeOK` | `TypeInv`: with what a session has in hand, by where it is (`PlaceOK`), and that its objects are of rows that exist for it (`HeldExist`) |
| `OneAsset` | no two committed rows share an identifier (`OneRowEach`), without conditions | `LockInv`, below |
| `Answers` | `[]NothingReplaced` implies `[]AnswersHold` | `AnswerInv`: an answer given or still to be committed is `Settled` in the view of its session, and views only grow |
| `Peaceful` | `[]NoRivals` implies `[]NothingReplaced` | `RivalInv`, below |
| `PeacefulAnswers`, `PeacefulRefinement` | `[]NoRivals` implies `[]AnswersHold` and `ImplementsRegistry` | from the theorems above |
| `Refinement` | `[]NothingReplaced` implies `Spec => ImplementsRegistry` | `ChainInv`, below |

Every flush locks its row and keys one after the other, and in between others may
commit. `LockInv` says that what two sessions have locked is disjoint (`Apart`), that
the locks of a flush under way are of keys that no other row has (`EntriesOK`), and that
each session sees at most one row per identifier. A flush that gets its last lock keeps
this, and so does a commit, because nobody else can have written what was locked.

The locks protect the table and not the decision. `HeldOK` says what an object in hand
is worth: what it has, the row has; where it lacks an identifier the row has got since,
another session committed it. The code tests the object and updates the row by its
primary key (`asset_mapping.py:81-91`), so the theorems about answers need a hypothesis,
and `NothingReplaced` names what may not happen: a session's view contradicting the row.
`mapping` shows it on its instance, and `AssetMapping_rivals.cfg` (section 3) shows how
`AnswersHold` fails without it. `NoRivals` is a condition on the requests alone under
which it always holds: no two sessions at work at the same time have mappings that give
one asset two values of its other identifier. It is sufficient, not necessary.
`RivalInv` is what makes it inductive: a row that a session has completed is one of its
mappings (`CompletedOK`), and where an object is old, the mappings of its session say
what the row says by now (`OutdatedOK`).

`AssetRegistry` applies a batch in one step, `AssetMapping` item by item. `Chain(s, h)`
keeps, for each item done, the table that `s` had written by then; by `Outcome`, each
item adds a row, fills one in, finds its identifiers or is a conflict, each for the rows
as they are *now*: the commit of another session changes the rows under the chain, and
the chain must survive it. At the commit `AppliedChain` runs along the chain, by
induction on the number of items (with the least counterexample, `WFMin` of
`WellFoundedInduction`, as the induction theorems with an operator parameter cannot be
instantiated).

Only model-checked: liveness and everything about `ENABLED` (`EveryJobSettles`,
`EveryValueStored`, `EverySyncEnds`, `EveryBatchEnds`), which is out of the prover's
reach.

## 5. Not modelled, and simplifications

* The prediction module is outside the repository. The modules have what the caller
  relies on: it stores a prediction and returns, or fails with or without having
  stored one, and it commits before it returns (`worker.py:286-291`). `predict.py` is
  a dummy that nothing calls.
* Synchronisation: an asset is known by its CMMS id (`OneAsset` and `Peaceful`: its
  row stays the only one and keeps the id). A failure cause always has a code. Failed GETs and answers that are refused
  as malformed leave no state behind and are the absence of `Fetch`.
  `build_prediction_failure_cause_operations` only filters the argument of
  `run_prediction`. The share locks of foreign keys add waits on rows the session has
  locked or committed already, in the same order, and no new deadlock. A row id is
  used again after a rollback; no property compares them across transactions.
* `StableLinks`: that the CMMS always gives a cause of an asset the same link is a
  hypothesis of the last part of `WorksheetKeepsCause` and of the theorem `Resolves`.
  PredictionDelivery does not assume it, but for the theorem `Current`.
* Submission: `older` orders rows by their commit; `created_at` is taken shortly before
  it (`jobs.py:113`), so two jobs submitted at the same time may be claimed in the other
  order. No property depends on the order of claims.
* Collector: `createdAt` of a value is converted to naive local time and the clock is a
  naive `datetime.now()` (`service.py:211-217`); and `timeFrom` is sent without an
  offset (`client.py:89`); the model has one clock for all of them. That is right only
  while the container's clock is UTC, which nothing in the repository sets or checks.
* Mapping: the reset of `last_metrics_sync_at` is in `DataCollector`; the write of
  that row at the end of a batch adds no order of locks among batches.
* Collector: texts and types of metrics (a sensor is known by its pair),
  the rejected-item log, and which answers the parsers refuse (`CycleFails`, `Bad`).
* Submission: the validation of the body and the hash are one `Request` per distinct body.
* Schema creation, settings, API keys, the import script and logging keep no state
  of their own.

## 6. Plan

1. `JobLifecycle`, `JobQueue` and their proofs (done).
2. `DataCollector` with the mapping endpoint's reset, and its proofs (done).
3. `WorkorderSync` with `WorkorderStore` and its proofs (done).
4. `AssetMapping` with `AssetRegistry` and its proofs (done).
5. `PredictionDelivery` and its proofs (done).
