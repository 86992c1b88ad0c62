# ANA: a verification project

ANA is a local-first quantitative research platform for A-shares and US equities:
a FastAPI application with background threads in one process, PostgreSQL for state
and a Parquet lake for prices.  Most of its code is data processing; this project
is about the part that is concurrent, that survives restarts, and that talks to
providers which cannot be asked twice.  It holds TLA+ modules translated from the
source, TLC configurations that check them on small instances, and proofs that
TLAPS checks for every instance.

`PROJECT.json` lists, for every definition that models code, the lines it stands
for; for every run, its properties; and every hazard with the properties that
cover it.

## 1. Inventory of the system

| Component | State it keeps | Operations | Talks to |
| --- | --- | --- | --- |
| Job control (`services/job_control.py`) | `_STATE`: a control entry per job (cancel flag, timeout flag, deadline), under one lock | register, request_cancel, check_cancelled, has_timed_out, clear | worker and heartbeat threads, the cancel route |
| Background jobs (`services/repositories/jobs.py`, `api/routes/jobs.py`) | rows of `data_jobs` and `job_run_attempts`, `_JOB_CLAIM_LOCK`, two threads per job | claim, create, run, heartbeat, cancel, complete, sweep of stale rows | every other component runs inside a job |
| CN post-close scheduler (`services/cn_market_scheduler.py`) | its configuration setting (last run date, skipped), one polling thread, a pipeline thread, collection and shadow jobs | poll, refresh, recover, start pipeline, stages | lake, jobs, daily report |
| US, social, metadata, capacity schedulers | a configuration setting and a polling thread each | poll, refresh, retry with a cooldown | jobs, providers |
| Decision ledger and publication outbox (`services/stock_selection/decision_ledger.py`) | tables of decisions (a supersedes chain) and of publications (status, ordinal, attempt count) | freeze, dispatch, record result | daily report, push notifications |
| Automatic analysis and daily report | saved reports | build, save, deliver | decision ledger |
| Runtime cache (`services/runtime_cache.py`) | an LRU of entries with a TTL, `_INFLIGHT` flights | get_or_set, clear_namespace | watchlist and portfolio routes |
| Market lake (`market_lake.py`), adjusted view | a file per date in the canonical store and in its provenance shadow, locks per file, a divergence log, a cached listing | merge a batch, backfill the shadow, remove symbols, list files | schedulers, job runners, maintenance scripts in processes of their own |
| Storage cutover and legacy mirror (`physical_storage_cutover.py`, `market_storage_routing.py`) | a marker per market, the shared prediction tables | activate, roll back, is it active | every publisher, retention |
| Prediction archive, live predictions (`prediction_archive_migration.py`, `prediction_artifacts.py`, `repositories/predictions.py`) | rows in shared and market tables, folders of Parquet files, their registrations | publish, withdraw, archive, register, prune | trainer, Kronos panels, imports, pages |
| Retention (`storage_retention.py`) | reads status, completion time, registration, rows | select, check, delete | archive |
| Forward sentiment batch, forward shadow | frozen manifest, daily snapshots | freeze, capture, mature | scheduler |
| Promotion gate, publication guard | evidence in, decision out | evaluate | daily report |
| Backtest engine, paper simulation | a book of positions and pending orders | match, settle | evaluation |
| Training, screeners, providers, pages | data frames, HTML | — | the components above |

They interact in three ways.  *Calls*: a route or a scheduler thread calls a
service synchronously.  *Rows*: `data_jobs` is the shared state through which
threads exclude each other (`has_running_job`), and a restart finds it again.
*Callbacks*: a worker gets a cancellation checker and a progress callback, a cache
load is a callback that may call the cache again.

What is hard, and where a test would hardly reach it:

* a job row is written by its worker, its heartbeat thread, the cancel route, the
  sweep and, after a crash, by nobody; `params_json` is rewritten whole from a value
  that was read earlier;
* the check for a running job and the insert of a new one are one critical section
  only in the routes; the sweep closes rows of threads that are still at work;
* a provider call that timed out may have been delivered: the outbox must never call
  twice, whoever crashes or overlaps;
* the scheduler writes "today is done" in a commit of its own, before or after the
  work that this is about; a crash or an error in between decides whether the day
  is lost or run twice;
* a cache load started before a commit ends after the commit cleared the cache;
* a run's predictions are in up to four places, each written in a commit of its own or
  by a rename; publishers, archive, retention and the cutover take no lock;
* a date of the lake is two files, merged under locks of one process and written by
  others too; the write of the second may fail after the first is in place.

What makes each component correct:

* *Jobs.* Claimed jobs of types that exclude each other do not run at once; a
  cancellation accepted in time is honoured and "cancelled" means that somebody
  asked; an ended job is not revived; a stop takes effect; threads end.
* *Outbox.* At most one provider call per delivery key; the row's status never lies
  about the call; every intent gets an outcome when nothing fails.
* *Cache.* One loader per key; nothing older than a cleared commit is served, but for
  loads in progress; every call ends.
* *Scheduler.* A pipeline once per trading day, not two at once, and no fresh day
  without one.
* *Prediction store.* A successful run keeps every row it was published with, in one
  place or another; its success is taken back only for a reason; its live rows make way
  for newer runs only; after the cutover the shared mirror is frozen.
* *Lake.* A batch merged into a date keeps the symbols of every other batch; no failure
  leaves a date unreadable; the two stores differ only where the log says so; a listing
  has every file whose write had returned; locks are given back.

## 2. Plan

| Order | Modules | Abstract specification | Theorems |
| --- | --- | --- | --- |
| 1 done | `JobControl`, `BackgroundJobs` | — | types, exclusive claims, cancellations honoured and asked for, attempts agree, runners overlap after a sweep only, ended rows only fail |
| 2 done | `PublicationOutbox` | `DeliveryOnce`, implemented | types, at most one call, status, refinement, forks only by overlap |
| 3 done | `RuntimeCache` | — | types, single flight, bounded, cleared is fresh |
| 4 done | `CNPostClose` | — | types, one pipeline per day, one running row, no day lost; next: the collection and the frozen shadow decision (`ForwardShadow`) on top of it |
| 5 done | `PredictionStore` (publication, archive, retention, cutover over the same rows) | — | types, no row lost, success kept, mirror frozen, folders registered, live rows until replaced |
| 6 done | `MarketLake` | — | types, merges atomic, partitions readable, divergence explained, listing fresh |
| 7 | `ForwardShadow`, `USPostClose`: the US scheduler is the CN one with attempts and a cooldown | — | stages once per date |
| 8 | `ForwardBatch`, `PromotionGate`, `PaperBook` | — | conservation of the book |

Every module has its bounds as CONSTANTS with named assumptions, one action per
commit or critical section, and no RECURSIVE operator, so that proofs can follow.
The runs stay few: one for a module's main instance with its liveness, a second where
two jobs are the point, and one per disagreement with the documentation.

## 3. The modules and the code

### JobControl, BackgroundJobs

`JobControl` is `job_control.py`: an entry per job as a record (`present`, `cancel`,
`timedOut`, and the deadline as none, ahead or passed) and one operator per function.
Each function runs under `_STATE_LOCK`, so each is one step of whoever calls it.

`BackgroundJobs` composes it with the rows and the threads.

| Variable | Code |
| --- | --- |
| `row`, `attempt` | `data_jobs` (status, type, and of `params_json` the durable cancel flag and whether the result is there), `job_run_attempts.status` |
| `control` | `job_control._STATE` |
| `worker`, `watch` | program counters of `_work` and `_watch` in `_run_background_job`, with the `params_json` they hold between a read and a write |
| `req`, `lock` | handlers that claim or cancel, `_JOB_CLAIM_LOCK` |
| `pending` | a scheduler between `has_running_job` and `create_job` |
| `sweep`, `aged` | `complete_stale_running_jobs` in progress, rows past its cutoff |
| `accepted`, `used` | history and bounds |

`ClaimCheck`, `ClaimCreate`, `ClaimMetadata`, `StartWorker` are a request that starts
a job; `StageCheck`, `StageCreate`, `TailCreate`, `StageMetadata` are the scheduler and
the tail thread, which create rows outside the claim lock and run without a control
entry.  `Announce` to `Clear` are the worker: announcement, heartbeat, checkpoint,
runner (which returns, raises or reaches a checkpoint), the check after it, the
result in two transactions, the finally block.  `WatchWakes`, `WatchExpires`,
`WatchReads`, `WatchWrites` are a turn of the heartbeat thread; `CancelLookup`,
`CancelRequest`, `CancelPersist` the cancel route; `SweepRead`, `SweepCommit`,
`SweepAttempt` the sweep.  A whole-value write of `params_json` is a step that reads
and a step that writes.  `Fault` and `PulseFault` are database errors, with the
handler each of them meets; `Crash` keeps the rows and forgets the rest.  `ClaimFault`,
`StageFault` and `StageCreateFails` are those of `create_job`: an insert that fails takes
the request or the stage with it; an error in the attempt's insert is swallowed if it
is an `OperationalError` (the job runs, and `complete_job` makes the attempt) and
raised if not, which leaves a running row that has no worker.

### PublicationOutbox, DeliveryOnce

`ledger` and `outbox` are the tables; `locks` the row locks of `SELECT … FOR UPDATE`;
`pub` and `tx` the publishers: where they are in their receipt and what their open
transaction will insert; `calls` counts provider calls and is never read.  A report
is a *plan*: its decision and its list of message intents with their positions.
`FreezeRead`, `FreezeCommit`, `FreezeFails` are `freeze_final_decisions` inside its
caller's transaction; `RowMismatch`, `Skip`, `Select`, `Claim`, `Send`, `Record` are one
turn of the loop of `dispatch_publication_message`.  A skipped row stays locked
until the next commit, as in the code, so lock cycles exist and `Deadlock` is the
database's way out.  `Fault` is a database error or a crash at any point.

`DeliveryOnce` is the promise: per key none → intended → claimed → confirmed or
doubtful, and one call in between.  `Once == INSTANCE DeliveryOnce WITH stage <- …`
maps a row's status to a stage.

### RuntimeCache

`cache` is the `OrderedDict` as a set of entries, each with an age instead of a place:
the number of uses of other keys since its own, so the entry used last has age 0 and
`_store` keeps the `MaxEntries` youngest.  `flight` is `_INFLIGHT`, and
`call[t][k]` is the frame of thread `t`'s `get_or_set` for key `k`.  A loader of a
fragment calls `get_or_set` for the items (`Needs`), so a thread has up to two frames.
A critical section of `_LOCK` is one step: `Hit`, `Lead`, `Join`, `Store`, `Abandon`;
`event.set()` is a step of its own (`Signal`, `SignalFailure`), and so is the loader's
read of the database (`Load`).  A value is the version of the watchlist it was made
from.  `Commit` and `Clear` are the routes that change the watchlist:
`_clear_watchlist_caches` clears three namespaces one after the other.

### CNPostClose

| Variable | Code |
| --- | --- |
| `clock` | the trading day, and whether 18:00 has passed (`run_due_job`) |
| `lake` | the newest date with a partition in the price lake |
| `config` | `last_run_trade_date` and `last_run_skipped` of the scheduler's setting |
| `sched` | the polling thread: its place, and the locals `trade_date`, `refresh_job_id`, `pipeline_job_id` and the refresh's status |
| `row` | running rows of `data_jobs` of the types refresh and pipeline |
| `pipeline`, `manual` | pipeline threads alive; a refresh that a request runs |
| `fate`, `used` | history per day (pipelines started, or that none was due), bounds |

`Poll` is `run_due_job`, which decides between `RecoverCreate` … `RecoverSkip`
(`_recover_post_close_pipeline`: the lake is fresh already) and `Check` … `Fail`
(`run_now`).  Both go on to `StartCheck`, `StartCreate`, `StartThread`
(`_start_post_close_pipeline`) and `Collect`.  Each commit is a step.  `Fault` is an
exception in any of the scheduler's database calls, sent to the handler that the code
has there: the recovery's (`RecoverSkip`), `run_now`'s (`Fail`), or the loop's (the
next poll).  `Refresh` and `RefreshRaises` are every way a refresh can end, with a
lake that it reached or not: a refresh that reports success or
partial may have left the lake without the date, and then the day is recorded without
a pipeline.  `PipelineEnds`, `PipelineFault`, `ManualStart`,
`ManualEnds`, `Age`, `Dashboard`, `Tick` and `Crash` are everybody else.

Only running rows matter to the scheduler, so a row that ended is a free slot; ids are
given in order of the slots, which changes nothing because no id is compared.  Days
are trading days: `Poll` does nothing on others.  `Latest` caps the lake at the last
complete session, as `latest_completed_market_date` does.

### PredictionStore

One module for the five programs that move the rows of one market's model runs,
because what they do to each other is the question.

| Variable | Code |
| --- | --- |
| `status`, `older` | `model_runs.status`, the order of `finished_at` |
| `mirror`, `hot`, `live` | rows in `predictions`, in the market's table (`cn_predictions`), in its live table; rows are `compact` (what `select_hot_prediction_rows` keeps) and the `rest` |
| `folder`, `registry` | the folder `model_run_id=…`, the row of `prediction_artifacts` |
| `marker` | whether the physical-only cutover is active |
| `pub` | per run, the process that publishes it: its place, its kind, what it read |
| `arc`, `ret` | the archive migration and the retention batch |
| `owed`, `used` | what a run was published with (history); bounds |

`Start` to `PruneDelete` are a publication: the sweep of stale runs, the training, the
plan, the folder and its registration, the rows and their single commit, the timings
after it, the pruning of the live table.  A Kronos panel has no sweep, live rows or
pruning and may be published over an earlier run (`Again`); an import has no folder.
`Handler` names where an exception leads from each step, `UndoMirror` to `UndoStatus`
are the handler's own commits, and `Fails` raises anywhere, also inside the handler.
`Killed` leaves everything as it is.  `ArchiveStart` to `ArchiveRegister` cover the
archive in memory and the streamed one, which differ in what they do with a folder
that exists.  `RetentionSelect`, `RetentionCheck`, `RetentionDelete` are
`clean_model_history`; `Cutover` sets or clears the marker.

Details and explanations go the way of their predictions; batch limits, the receipts
that admit a cutover or a retention batch, and workspace snapshots are left out.  A
folder's content is the rows in it and what else enters its digest: who wrote it and
whether it names the mirror.

### MarketLake

| Variable | Code |
| --- | --- |
| `file` | per store and date the partition and its temporary file `.part.parquet.tmp`: absent, being written by one or by several processes, torn, or complete with its rows |
| `job` | what a writer is doing: a call of `write_ohlcv_rows_to_lake`, the provenance backfill, the cleaning of non-common symbols; its frames and the dates still to come |
| `lock` | `_LAKE_WRITE_LOCKS`, which only the web process's threads share |
| `logged`, `listing`, `reader` | `write_divergence.jsonl`, `_LAKE_FILE_LIST_CACHE`, calls of `_all_parquet_files` under way |
| `committed`, `overlapped`, `killed`, `cleaned`, `returned` | history, never read by an action's guard |
| `used` | bounds |

A row is the number of the batch that wrote it, so `Merge` tells who won.  `Prepare`
takes the lock of the canonical file and merges; `ReadShadow` takes the shadow's and
merges there; `OpenTemp`, `CloseTemp`, `MoveTemp` write a file: first the shadow's, then
the canonical one; `Invalidate` drops the cached listing after the locks.  `WriteFails` is
the exception of each of these, with the divergence log when the shadow was already in
place, `MoveFails` the rename of a temporary file that another process took away.
`FillRead` and `CleanRead` are the scripts, which read without a lock; `CleanOpen` and
`CleanClose` rewrite the partition in place.  `ListFiles`, `StoreListing`, `Expire` are the
cache of the listing, `Crash` the death of a process.

Since locks are per process, what the properties promise ends where two processes work
on one date at once (`overlapped`); the module shows what holds up to there, whatever
the threads do.  A date on which a process stopped between the two stores, or in the
middle of a rewrite in place, is exempt where the property is about that (`killed`).
Every caller writes raw prices, so the refusal of a mixed price basis is the fault
that `ShadowRefuses` may spend.

## 4. The runs

| Run | Instance | What it shows |
| --- | --- | --- |
| `jobs_one` | one job, of a type with deadline, checkpoints and heartbeats or of a short one with none of them, one claimer, one canceller, one fault, one crash, `FairSpec` | A cancellation accepted before the last checkpoint is never lost (to `register`, to the heartbeat, to the sweep, to a restart); a job that timed out is not reported as cancelled; row and attempt agree, also after an error between their two transactions; an ended job is rewritten to failed at most; a cancellation or a deadline ends a job with checkpoints although its runner would never return; the heartbeat thread ends. |
| `jobs_two` | two jobs, two conflicting types, two claimers, a scheduler, a tail thread, the sweep, one crash, one database error | Two claimed jobs that exclude each other are never both running, and their runners overlap only after the sweep closed the row of a thread that was still at work. |
| `jobs_tail_cancel` | a tail job and a cancel request | *Violation*: the route accepts the request and the job succeeds. |
| `jobs_result` | one job and its heartbeat | *Violation*: a late heartbeat drops the stored result. |
| `outbox_deliver` | two publishers, three runs of five reports over four keys, one fault, `FairSpec` | The outbox implements `DeliveryOnce`; the supersedes chain forks only between freezes that overlapped; every intent of a receipt that agrees with the rows gets an outcome. |
| `outbox_receipt` | one publisher, two runs: a readiness notice, then a full report | *Violation*: a message that was sent with the notice is refused in the report instead of skipped. |
| `cache_fragments` | two readers, two writers, an item list and a fragment of it, capacity one, one expiry, `FairSpec` | One loader per key; nothing older than a cleared commit unless it was being loaded; bounded; every call ends. |
| `cn_days` | two trading days, a manual refresh, one crash, two database errors, `FairSpec` | At most one pipeline is started for a day and there is never a second running pipeline row; when nothing fails, no day is recorded as done without a pipeline that was due; a fresh lake gets its pipeline after an interrupted refresh or a failed recovery. |
| `cn_start_fails` | one day, one database error | *Violation*: an error between `_persist_last_run` and the start of the pipeline loses the day. |
| `store_two` | two runs, each a training, a panel or an import, with and without folder and mirror; one archive, one retention batch, one cutover, one repeated panel, one error, one kill; one run kept | A run that was mirrored or has a folder of its own keeps all its rows; a success is taken back only by an error after the commit, a repeated publication or a sweep; live rows go only for newer runs or to a pruning that overlapped the commit; a success has a folder without registration only when an archive was cut off; after the cutover the mirror grows only by a commit that had passed the check. |
| `lake_merge` | two threads, a script, a reader; two symbols, one date, two calls, one failed file operation, one dead process, `FairSpec` | Batches merge without losing a symbol; no partition is left unreadable; the stores differ where a logged symbol, a stopped process or a removal explains it; a cached listing has every date whose write returned before it was taken; every call returns, so no failure keeps a lock. |
| `store_loss` | one and two imports, one archive, one retention batch, one cutover | *Violation*: an import published after the cutover is archived empty and then deleted. |

**Bounds.**  `MaxCrashes`, `MaxFaults`, `MaxRuns`, `MaxCalls`, `MaxLapses` close the state
space.  One job is enough for the properties of a single row, since jobs share only
the claim and the sweep; two are enough for exclusion, which relates two rows, and
the theorem has it for any number.  One crash and one fault each can be placed at
every step; the handlers of a second fault (inside the handler of the first) appear
because a worker's own recovery can be faulted in the proofs' unbounded setting and
because a crash can follow a fault.  Three publications let a third meet what two
overlapping ones left.  Two keys with capacity one make every store an eviction of
what the same thread has just loaded, the smallest case of a full cache; three
calls let a third caller come between a leader and its waiter; a capacity of one is a
value `configure_cache` accepts.  Two trading days let a pipeline, a refresh or a row
of yesterday meet today's; two errors let a recovery fail and its retry fail too;
`MaxRows` is large enough that a slot is always free.  Two runs let one be stale while the
other is kept (`KeepHistory`, `KeepLive` are one instead of twenty and two), swept by
the other's training, and pruned by it; each budget of one can be spent at any step.
One date is enough for the lake, whose properties are about a date and whose locks are
per file; two calls put a merge beside a merge, a backfill or a cleaning, or one of the
scripts after the other, and two symbols tell a merge from a replacement.  A writer
gives both locks of a date back before it takes the next date's, so it never holds
locks of two dates and one date also suffices for `WritesReturn`.

**Fairness.**  Threads that can take a step are scheduled and database calls return
(`WF` per thread or publisher).  Nothing is assumed of a runner, which may run for
ever, of the arrival of requests, of time, or of crashes and faults.  A provider
call ends, because `send_event` has a timeout; row locks end with the transaction.  The
scheduler's polling thread is one such thread (`WF` on its own steps), but a refresh
waits for a provider and owes nothing.  A writer of the lake waits for its two locks,
in the order canonical, shadow; each is freed by a step of its holder.
`EventuallyDispatched` and `StopTakesEffect` except the behaviours in which the fault
or crash that the instance allows has happened: it may hit the very thread the
property is about.  `FreshLakeRuns` starts from a state whose budget of crashes and
errors is spent, after which a poll must succeed by itself.

**Named exceptions.**  Some hazards are outcomes that the code has, by its design or by
an omission that no document denies.  A property about such a hazard says that the
outcome has no other cause, and names the one it has: `FolderRegistered` an archive that
was cut off between its rename and its registration, `LiveUntilReplaced` a pruning
that chose before the run was committed, `SuccessStays` an error behind the commit, a
repeated publication and a sweep that had read the run as running, `MirrorFrozen` a
commit that had passed the check, `ListingFresh` a listing that was under way,
`PartitionReadable` and `DivergenceExplained` a process that died in a rewrite in place
or a log that failed as well, `AttemptAgrees` the sweep.  They do not show these outcomes
to be harmless.  Two hazards have no property because the outcome follows from a
single step: types blocked after a restart until the sweep's age limit, and a pipeline
row whose thread never started.

`CHECK_DEADLOCK FALSE` everywhere: when the bounded number of jobs, publications, calls
or days is used up, nothing is left to do.

## 5. What is proved

All proofs are checked by TLAPS from the assumptions named in the modules
(`ConflictsAssumption`: a type conflicts with itself, and conflicts are symmetric, as
the `job_types` tuples of the routes are; `PlanAssumption`, `OrdinalAssumption`;
`NestingAssumption`: only fragments load through the cache, and they load items;
`RunsAssumption`: runs are numbered in the order of their start; `WritersAssumption`:
a writer is a thread or a script; `DateAssumption`: finitely many dates, which the lake
visits in order).  The bounds on faults, crashes and calls are any natural numbers.

* `BackgroundJobsProofs` — `JobsTypeCorrect`: `Spec => []TypeOK`, one lemma per
  variable.  `ClaimsAreExclusive`: `Spec => []ClaimExclusive`.  The invariant is
  `ExclusiveInv`: the holder of the claim lock is the only request between its check
  and its insert (`LockInv`); while it is there, no claimed running job conflicts with
  the type it is about to create (`PermitInv`) — schedulers may create rows of that
  type in between, but not claimed ones; no step takes an ended row back to running.
  `OutcomeInv` (what a worker is about to write is never "running") supports the last
  part.
* `BackgroundJobsOutcomeProofs` — how a job may end: `CancellationsAreHonoured`
  (`Spec => []CancelHonoured`), `CancelledMeansAsked`, `AttemptsAgree`,
  `OverlapNeedsSweep`, and the action property `EndedRowsOnlyFail`
  (`Spec => EndedOnlyFails`).  The invariant `EndInv` speaks of one job at a time.
  Up to the commit of its outcome only the sweep can have closed the row of a job
  (`StillRuns`), so an early cancellation finds a running row; the control entry
  remembers it up to the worker's last look (`Heeded`), because `register` keeps an entry
  that is there and nothing clears one before the finally block; a flag that no
  timeout explains was set by a request, and so was every outcome decided from it
  (`Asked`); the attempt stays open until the row has its outcome, and an error between
  the two sends the worker through its handler, which writes both again, so that only
  a second error leaves the attempt open (`Agrees`); a request in the middle of starting a job is alone with its worker
  (`ReqInv`), so none can register over the entry of another's.  None of the five
  properties is inductive without them: each relates a row to what a thread will write
  several steps later.  `OverlapNeedsSweep` combines `StillRuns` with `ClaimExclusive`.
* `PublicationOutboxProofs` — `ProviderCalledAtMostOnce`, `StatusNeverLies`,
  `OutboxDeliversOnce` (the refinement).  `OutboxInv` says, per publisher, what its place
  in the loop implies about its row: about to claim, the row is PENDING and locked by
  it (`ClaimReady`); about to send, SENDING and not called (`SendReady`); about to
  record, SENDING and called once (`RecordReady`); and two publishers past their claim
  are at different keys (`OneOwner`).  Neither property is inductive without these.
  `PublicationTypeCorrect` and `ForksOverlap` (`Spec => []ForkOnlyByOverlap`) rest on
  `LedgerInv`: a row has been attempted as often as its status says (`Counted`, without
  which `attempts` is not bounded by one), and an entry of the ledger, committed or still
  a draft in somebody's transaction, is newer than all it could see and names the newest
  of them (`Chained`).  Two entries with one predecessor can then not have seen each
  other: the later one would have named the earlier, or something newer.
* `RuntimeCacheProofs` — `SingleFlight`: `Spec => []OneLoader`.  `Owned`: the owner of a
  flight is exactly the thread between `Lead` and `Store` or `Abandon`; `Nested`: two
  frames of a thread are a loader and the call it makes, without which asking for the
  items could overwrite a frame that owns a flight.  `CacheTypeCorrect`, `CacheBounded`
  (`Spec => []Bounded`) and `ClearsTakeEffect` (`Spec => []ClearedIsFresh`) rest on
  `ServeInv`.  `LruInv`: no two entries have one age, so of those that `_store` keeps the
  oldest has all the others before it, and they fit.  `FreshInv`: a value is fresh not
  for its own key only but for the fragments that may be made from it (`Serves`), in the
  cache, in a loader about to store it, and in a flight that is about to return it to
  the loader of a fragment (`Carried`); `ClearedIsFresh` alone would be lost when old
  items turn into a new fragment.  A clear of fragments keeps it because of `FloorInv`:
  whoever clears a fragment has cleared the items for the same commit before.
* `CNPostCloseProofs` — `SchedulerTypeCorrect` and `PipelineStartsOnce`:
  `Spec => []PipelineOncePerDay`.  The thread about to start a pipeline must know that
  its day has none: because the poll found the day open (`Fresh`), because only days up
  to the recorded one have a pipeline (`NoneAhead`), because a day recorded as skipped
  has none (`SkippedFree`), and because the day is recorded before the start
  (`Recorded`), so that no later poll finds it open.  It is the order of these two
  commits, of which finding 4 shows the price, that makes the start happen once.
  `PipelineRowIsOne` (`Spec => []OnePipelineRow`) adds `Clear`: between the scheduler's
  check and its insert no row of the pipeline is running, because nothing else inserts
  one.  `NoDayIsLost` (`Spec => []NoDayLost`) adds `Kept`: as long as there was no crash
  and no error, a day recorded as started is spared, started or on its way to its start.
* `PredictionStoreProofs` — `TypeCorrect`, `RowsKept`, `SuccessKept`, `MirrorStaysFrozen`.
  `StoreInv` says for each run what its publisher's place implies (`RunInv`: before the
  commit a run is unknown to archive and retention; a run with rows in its mirror or a
  folder has them there until it is registered; `MirrorKeeps`: the rows an archive has
  counted are all that a mirrored run has) and that the archive registers only a run
  whose folder is in place (`ArchiveInv`).  It holds for any number of runs, faults and
  cutovers.  `MirrorStaysFrozen` needs `EpochInv`: a publisher that is about to write the
  mirror while the marker is set read it before the last cutover.
* `PredictionStoreServingProofs` — `FoldersRegistered` (`Spec => []FolderRegistered`)
  and `LiveServes` (`Spec => []LiveUntilReplaced`), over `ServeInv`.  The first needs that
  a panel registers its folder before its rows, also when it is published again
  (`FolderInv`).  The second needs what a pruning knows (`LiveInv`): a run that it did not
  choose had `KeepLive` newer trainings when it chose, these stay published, and a run
  committed after the choice is marked as raced.  `ServeInv` also keeps the set of
  published trainings finite, since counting them is part of the property and the
  set of runs is not bounded.
* `MarketLakeProofs` — `LakeTypeCorrect`, `MergesAreAtomic`, `PartitionsReadable`,
  `DivergencesExplained`, `ListingsFresh`.  `LakeInv` has two layers.  Who is where
  (`WhoInv`): a thread at the partition of a date holds that date's lock (`HoldsLock`),
  and two processes at one date have been noticed (`Noticed`); hence on a date that is
  not `overlapped` a writer is alone (lemma `Alone`).  What it does there (`DateInv`):
  what it carries was computed from what is committed, and stays so until its rename,
  for the canonical store and for the shadow (`Carries`); the file it has in hand is its
  own (`InHand`, `OpenInv`); a partition that can be read is what was committed
  (`FinalInv`); a row in which the stores differ has its reason (`DivInv`).  The lock is
  the heart of it: `Carries` would be lost at the first step of a second writer between
  the read and the rename.  `ListingsFresh` is an invariant of its own, `ListInv`: a date
  whose write has returned has its partition, and a listing under way remembers what
  it may be missing.  A call visits its dates in order, so the proof needs the least
  element of a set of naturals (lemma `Least`, by well-foundedness).

**Model-checked only.**  Every invariant and every action property of the runs that pass
is a theorem, and so is the refinement of `DeliveryOnce`.  The liveness properties
(`StopTakesEffect`, `HeartbeatEnds`, `EventuallyDispatched`, `CallsEnd`, `FreshLakeRuns`,
`WritesReturn`) stay with TLC, because fairness and ENABLED are out of TLAPS's reach.

## 6. Disagreements found while modelling

1. `cancel_job` answers that any running job will stop at its next checkpoint; jobs of
   schedulers and tail threads never look (`jobs_tail_cancel`).
2. `record_job_runtime` is documented to merge its metadata into `params_json`; it
   rewrites the whole value from an unlocked read and can remove a committed result
   (`jobs_result`).
3. A test has a message that was sent and is frozen again skipped as SENT
   (`test_sent_delivery_key_is_not_resent`), with the same message list both times.  When
   the list changed the message is refused: a readiness notice freezes and sends the
   CN message alone, as number 1; the full report of the same decision has it as
   number 2, and the dispatch compares the ordinals before it looks at the status
   (`outbox_receipt`).  Nothing behind it in the report is sent.
4. The recovery keeps a day eligible when its pipeline cannot be started, "a fresh lake
   alone must not permanently suppress dependent models"; `run_now` records the day as
   done first and its handler leaves it so (`cn_start_fails`).
5. Retention keeps a run unless a verified artifact exists, "the hard guard that prevents
   retention from turning a database cleanup into data loss"; the archive verifies the
   rows of the shared tables, which a run that was imported after the cutover does not
   have, so its artifact is empty and verified, and its only rows are deleted
   (`store_loss`).  A research panel or a training with artifacts has its own folder and
   is safe.
6. The cleaning of non-common symbols rebuilds the shadow of a partition "so the two
   stores stay in lockstep" (`clean_us_non_common_lake.py:70`); it merges the kept rows
   into the shadow, where the removed symbols stay.  No run is kept for it:
   `DivergenceExplained` has to except the symbols a cleaning removed (`cleaned`).

## 7. What is not modelled

Runners, report contents, prices and model numerics are data: a runner is something
that returns, raises or stops at a checkpoint; a report is a list of intents.  The
listing, serialization and HTML parts of the routes change no state.  PostgreSQL is
modelled from its use: atomic commits, row locks, unique keys, deadlock detection,
read committed.  Elapsed times, heartbeat counters and messages are left out because no
decision reads them.  Of the modelled code, these details are left out: the results
`empty` and `not_configured` of a runner (`routes/jobs.py:199`), which nothing tells from
`partial`; the repetition of `create_job` while a SQLite database is locked (PostgreSQL
never reports that), which after an error in `refresh` would insert a second row; a
loader that calls `get_or_set` for its own key (`runtime_cache.py:120`), which no loader does
and `NestingAssumption` excludes; the commit of the stale sweep (`signals.py:300`) apart
from the new run's (`signals.py:224`); the batch limits of retention
(`storage_retention.py:873-880`) and, in its test of staleness, the dates of
`model_chart_signals` (`:818`); in the lake, `merge_existing=False`, the rejections before the
lock, and other scripts that rewrite partitions as the two modelled ones do.  The components of the inventory without a module are listed with
their reason in `PROJECT.json`; the plan says which of them come next.
