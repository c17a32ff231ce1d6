# stock_data_sync: formal models

This directory holds TLA+ models of the data pipeline in
`src/src/server/app`: a scheduler process that collects raw market data
from Tushare into sealed Parquet files, and turns them into published tables in
PostgreSQL. The modules are checked with TLC on small instances, and nearly all safety
properties that are checked are proved with TLAPS for every value of the constants.

Paths below are relative to `src/src/server/app` unless they start with
`src/`. `PROJECT.json` maps every definition to the lines it models.

## 1. The system

One scheduler process (`scheduler/runner.py`) runs timers (APScheduler), two
thread pools and, beside it, an API process runs administrator commands. They
share nothing but PostgreSQL and the directory of raw files. Every decision is a
transaction at READ COMMITTED with explicit row locks (`FOR UPDATE`, often
`SKIP LOCKED`) or an advisory lock, and the sessions neither autoflush nor
expire (`db/sync_session.py:10`): what a transaction read without a lock may be
out of date when it writes.

    timers ──plan──> collection_batch/task ──claim──> collection threads
      │                     │   ▲                          │ seal file, register
      │                     │   └── reconcile (files) ─────┘
      └──close──────────────┘
      │
      └──plan──> processing_task/dependency ──claim──> processing threads
                            ▲                              │ publish, fail
                            └── wake or block dependents ──┘
    administrator: retry, skip, cancel, repair, backfill, manual runs

### Components

| component | state it keeps | operations | hard behaviour | correct when |
|---|---|---|---|---|
| collection repository (`modules/acquisition/repository.py`) | `collection_batch` (status, frozen plan), `collection_task` (status, attempts, token), `raw_data_asset` | create a batch, append tasks, claim, complete, fail, recover, close, mark an asset missing | several writers per row, staged planning, late threads | a closed batch is its frozen plan, all settled; results are final and match their file |
| collection executor (`executor.py`) | none; a claimed task | query page by page, validate, seal, register, record a failure | dies or is timed out between any two steps; the table changes between pages; attempts that run over the cut-off or midnight | one registration per task, by the holder of the lease; a sealed result is whole; no attempt is given up that would be in time |
| collection recovery (`recovery.py`) | none; two snapshots | reconcile at startup and every five minutes | its snapshots age while it works | finds the file of a dead execution, never breaks a live one |
| collection runtime (`runtime.py`) | pool, futures, refill event | dispatch, refill, shutdown | callbacks against shutdown | slots are refilled, shutdown ends |
| capacity gate (`capacity.py`) | none | batch types admitted at a storage level | changes between claims | nothing but the urgent types runs under pressure |
| raw asset store (`storage/raw_assets.py`) | sealed, temporary and lock files | seal, verify, find orphans, clean up | writers that die, power failures | a registered file is there and complete; a live writer is not cleaned away |
| processing repository (`modules/processing/repository.py`) | `processing_task`, `processing_dependency`, `dataset_release`, `processing_plan_version` | plan closed batches, claim, publish, fail, recover | unlocked reads in planning, upstreams ending meanwhile, upgrades | tasks run on complete inputs, once per scope; none is forgotten |
| processing executor, runtime | pool | prepare, publish or fail; refill | as for collection | one publication per execution |
| stock_daily rules (`repository.py:523-964`) | core, limit and their releases | invalidate, re-plan and succeed limit tasks | core republished while limit runs | a limit release belongs to the core release shown |
| staging (`staging.py`) | staging table | merge, replace, patch | partial replacement | the target holds what was staged |
| processors (`processing/processors`) | the published tables | check, merge and write the rows of a dataset | thresholds, repeated rows, writes that prune what others publish | what is published is right, or the task fails |
| scheduled jobs (`scheduler/management.py`, `lock.py`) | job enablement, execution records, advisory locks | timed, manual and catch-up runs | dies with a record RUNNING | one run of a job at a time, each with a final record |
| planning jobs (`scheduler/jobs.py`) | daily and deferred stages | plan a stage, freeze the day | stages missed, replayed | a frozen plan is complete, a stage planned once |
| sync alert (`data_sync_alerts.py`) | last check | check once a day, notify | crash after sending | silent only when all is well, one message a day |
| administrator commands (`modules/operations/command_service.py`) | command records by idempotency key | retry, repair, backfill, recover, skip, cancel, enable, run | races with one another and all of the above | an effect once per key, no second repair of what is under repair, nothing passed over |
| provider client (`integrations/rate_limit.py`, `tushare_provider.py`) | next free slot of each limiter | reserve, sleep, send, retry | threads wake out of order | spacing is kept |
| catalog (`catalog/`) | declarations | what is collected when, what is made from what | declared far apart | the declarations fit each other |
| partitions (`modules/partitions/service.py`) | monthly partitions | create for months ahead, ranges, writes | turn of the year | each promised date has one |
| backup (`maintenance/backup.py`) | database, files | create, verify, restore, go back | fails half-way, chains of increments | each step can be undone, a chain can be restored |
| market queries, MCP server (`modules/market_query`, `mcp/`) | none | the tools of the read-only service | publications between the statements of one call | answers are of released data, nothing is guessed |
| admin queries, tables, system, shell, web console, deployment | views or none | reads, wiring | none | not modelled |

`PROJECT.json` lists the components with their status, and the hazards: what in
this code is hard to test, each at its line, with the properties that watch it.

## 2. Modules

| module | what it is |
|---|---|
| `Collection` | batches, tasks, threads, files, reconciliation, crash and restart, skip and cancel |
| `TaskLedger` | abstract: what the collection side promises to the processing side |
| `CollectionProofs` | proofs about `Collection` |
| `Processing` | planner, threads, recovery, upgrade, retry, skip and cancel of processing tasks |
| `ProcessingProofs` | proofs about `Processing`: its threads, publications and refinement; its planner |
| `ReleaseLedger` | abstract: what the processing side promises to readers of published tables |
| `StockDaily` | one business date of `stock_daily.core` and `stock_daily.limit`: withdrawal, successors, kept columns |
| `StockDailyProofs` | proofs about `StockDaily` |
| `Runtime`, `RuntimeProofs` | a pool of threads: dispatch under its lock, refill thread, callbacks, shutdown; proofs about it |
| `ScheduledJobs`, `ScheduledJobsProofs` | runs of the jobs: lock, record, enabling, manual requests, dispatchers, restarts; proofs about them |
| `Catalog` | the declarations of APIs, jobs and datasets, and the rule of affected datasets |
| `PlanDay` | the stages of one day, their timers and catch-up, the check of the next morning |
| `DeferredStages` | stages that wait for the boards they ask for |
| `RepairCommands`, `RepairCommandsProofs` | retry of a task, a batch or everything, idempotency records, the planner and the audit beside them; proofs about them |
| `ManualPlans` | backfill, repair and recovery of gaps over a range of days |
| `RetryPolicy` | one task against the clock: empty answers, errors, cut-off, retention, attempts |
| `ProviderCalls` | requests under two limiters, sleeping, network errors |
| `Paging` | one result read page by page from a table that changes |
| `AssetStore` | sealing, scanning and cleaning up the files of one task, with power failures |
| `Backup` | full and incremental backups, restore and the way back |
| `Publication` | what a processor refuses, keeps and replaces; pruning of themes |
| `RowQuality` | when a day of `stock_daily.core` is good enough, and what is written of it |
| `RowRules` | rows that come more than once: old codes, snapshots of a list, contradictions |
| `BusinessDates` | monthly partitions and the years of the trade calendar |
| `MarketQuery` | day, month, topic and rows of an answer, statement by statement, beside publications and withdrawals |
| `MCCollection`, `MCProcessing`, `MCStockDaily`, `MCRowRules` | instances for TLC |
| `Planning`, `PlanningProofs` | what is planned, side by side: a task, the day, deferred stages, repairs, manual plans; proofs about them |
| `Data`, `DataProofs`, `MCData` | what is read, kept, written and shown, side by side; proofs about it; its instance for TLC |
| `Declarations` | declarations found by name |

`Collection` and `Processing` meet at one point, the closing of a batch, after
which neither its tasks nor its results change except by losing a file. That is
what `TaskLedger` states and `ImplementsLedger` shows; `Processing` takes it as
its `CloseBatch` action, with the set of datasets whose raw assets are there
chosen freely. `RetryPolicy` refines one thing `Collection` leaves open, which
retryable errors are retried, `Paging` and `AssetStore` another, how a result is read
and sealed, which `Collection` takes as one step; `Publication`, `RowQuality` and
`RowRules` refine the one step in which `Processing` publishes or fails, and
`ScheduledJobs` is why `PlanDay` and `DeferredStages` have a job run once at a time.

A definition whose comment begins with "Variant" is a wrong version of the
definition after it (a dropped guard, an off-by-one, a forgotten reset). No
specification uses it; it is there so that each property can be seen to fail when
the code has that mistake (`mutants` in `PROJECT.json`).

### Collection

One action is one transaction or one file operation.

* `batchStatus`, `frozen`, `planned` are the columns of `collection_batch`;
  `taskStatus`, `attempts`, `lease` those of `collection_task`; `asset` its
  `raw_data_asset` row. `file` is the directory. `worker` is what a thread holds
  between two transactions, `recon` what a reconciliation holds between its
  reads and its writes, `cancelling` the row locks of `cancel_batch`.
* A token (`uuid4`) also names the file of its execution, because the path is
  computed from it. A token nothing names any more may be used again, so a small
  set is enough; `Named` says what still names one.
* `append_tasks` replays, extends or refuses; `close_ready_batches` closes;
  `cancel_batch` locks the tasks, then the batch, and compares the count
  (`CancelLockTasks`, `CancelCommit`, `CancelReject`).
* Execution is `Claim`, `Seal`, then `Register` or `RecordFailure`. `Register`
  whose acknowledgement is lost goes on to record a failure
  (`RegisterUnacknowledged`). A thread may die at any point.
* A reconciliation reads the running tasks (`ReconReadRunning`), audits the
  registered files (`ReconAudit`), then handles task by task the file it finds
  (`ReconRegister`), a task it leaves (`ReconLeave`) or one it gives back
  (`ReconRecover`), and may fail as a whole (`ReconAbort`). It runs beside
  live threads, at startup with every task, later with those past their timeout.
* Time is left out. A running task nobody executes is stale at some time; one
  whose thread is alive may also be taken for stale, which costs one of
  `MaxFaults`.

Single transactions are atomic in the model because of the locks they take:
`claim_next` locks the task with SKIP LOCKED (and re-evaluates the row, which is
why `Locked` and the status are in one guard), `complete_task` and `fail_task` lock
it and compare the token, `cancel_batch` locks tasks and batch, and
`close_ready_batches` reads a plan that no longer grows.

Left out: the order within one priority class, `next_retry_at` (see
`RetryPolicy`), partition checks, orphan deletion, the audit of several assets in
several transactions (one step here), and the branch of the executor that finds
its file already there, which a fresh token never takes.

### Processing

* A task (`Process`) is identified as in `_processing_identity`: batch, dataset,
  processor revision. `raw` and `dep` are its dependency rows, `release` the
  `dataset_release` rows, `available` what the closed batch has.
* `lease` names the thread instead of a random token: a thread ends its
  execution before it claims again, so both identify the execution.
* Planning is one transaction in three steps. `PlanBegin` locks the batch and reads
  its tasks. `PlanResolve` inserts the current tasks, locks the ones to resolve
  (a row somebody else holds is skipped: `skipped`) and resolves their
  dependencies. `PlanCommit` makes it visible and cancels the replaced tasks.
  The steps matter because the transaction reads upstream tasks and older tasks
  without locking them, and others do not see its rows before it commits.
  Actions that need a row it has locked wait (`Free`).
* `Publish` and `Fail` also do what the code does to the dependents in the same
  transaction (`Marked`, `Readiness`). `Recover` gives back the attempt. `Restart`
  may bring new code with new processor revisions.
* `RetryTask`, `RetryReplaced`, `TransitionTask` are the administrator's commands
  on one task. A retry of a task of an older revision creates or queues the current
  one with the older one's dependency rows.

Left out: the additional rules of `stock_daily.core` and `stock_daily.limit`
(`repository.py:336-346`, `446-470`, `523-964`), which are `StockDaily`; the time of a retry (a waiting task
is due at any time), queue priorities and the order in which batches are planned,
the advisory lock of `claim_next` (a claim is one step), and what the processors
compute. All raw assets of a dataset are one row. Recovery of several tasks in
one transaction is one step per task.

### StockDaily

`stock_daily.core` replaces the rows of a date, `stock_daily.limit` patches two of
their columns. The module follows one business date under one version of the code.

* `status`, `attempts`, `limit`, `lease` are columns of `processing_task`, `row` is
  the `stock_daily.core` dependency of a limit task, `coreRelease` and
  `limitRelease` the two `dataset_release` rows, by the task that made them.
  `columns` is the task whose limits the target table holds.
* A limit task is `<<b, None>>`, planned for batch `b`, or `<<b, c>>`, the successor
  made from `b`'s raw data for the release of core task `c`. That is
  the output version `_stock_daily_limit_successor_output_version` computes.
  `Sealed` is the time `_freshest_stock_daily_limit_task` orders by.
* `PublishCore` is the whole of `publish_success` for a core: it points rows at the
  new release, withdraws the limit release, chooses what the next limit is made
  from (`Sources`, `Chosen`), cancels the others (`Superseded`) and keeps the columns
  where the prices are unchanged (`KeptColumns`; whether they are is an input).
  `RefuseLimit` and `PublishLimit` are the two ends of a limit execution.
* Planning is `PlanResolve`, which reads the release without the advisory lock of
  publication, and `PlanCommit`.

The dependency of a limit on the stock list is taken as ready, and what a core
task waits for is published by `CoreReady` at some time.

### Runtime

`AcquisitionRuntime` and `ProcessingRuntime` have the same protocol. A step ends
where a thread gives up a lock or touches what another one may touch.

* `lock` is `_dispatch_lock`, which the timer tries and the refill thread waits for;
  `futures`, `event`, `stopping` are the fields of those names. `_lock` is held for
  one access at a time, which is a step. `pc`, `slots`, `current` are the
  locals of a dispatch, `callback` the progress of `_task_finished`, run by the
  thread of the pool or, if the future is done already, inside `add_done_callback`.
* A thread of the pool is busy until the callback has ended (`Start`). `Closed` is the
  pool after `ThreadPoolExecutor.shutdown`, where `submit` raises.
* A task is claimed once: what claims and executions do to the rows is in the other
  modules. `ClaimError` is an exception of the capacity snapshot or of `claim_next`,
  which ends the refill thread for good.

The synchronous `ProcessingRuntime.dispatch`, which bypasses the pool, is not modelled.

### ScheduledJobs

* `records` are the rows of `scheduled_job_execution`, `enabled` those of
  `scheduled_job_control`, `holder` the advisory locks, each on a connection of its
  own, `thread` what a thread of the scheduler does: it reads, takes the lock, opens its
  record, runs, closes the record, and gives the lock back, a transaction each.
* Timers and dispatchers of manual requests compete for a job (`Fire`, `Dispatch`);
  `Interrupted` is what the next holder of the lock, and the start of the process, do to
  a row that is still RUNNING. A closing transaction may fail (`TransactionFails`),
  the lock's connection may be lost under a run (`LoseConnection`), the process may die.

What a job does between opening and closing is in the other modules.

### PlanDay, Catalog

* `Instants` are the times of a day at which a timer fires, up to the check of the next
  morning; at each one the due jobs fire in any order, may be late, and may be requested.
  `runs` has one run per job because of `ScheduledJobs`.
* `AppendTasks` adds the APIs of the stage (`Catalog!DailyStages`) to the batch, and the
  last stage freezes it; a stage after that appends nothing. `Start` and `CatchUp` are
  the restart, which runs the stages of today that are due, one after the other in the order
  of their times (`First`), and then the check, before the timers start. The calendar may be published
  late. `Issues` is what the check reports, `CheckRead`, `CheckSend`, `CheckEnd` its
  three steps. Left out: a daily batch that was cancelled, which refuses its later stages
  (`acquisition/repository.py:95`), and alerts that are switched off (`data_sync_alerts.py:50-56`), where
  the check logs instead of sending.
* `Catalog` has the groups, cut-offs and empty policies of the APIs, the jobs, the datasets
  with their dependencies, and `AffectedBy`, the rule of affected datasets. Its properties
  are about declarations and have no steps.

### DeferredStages

Only the stages of board members are created by today's commands. `Order` leaves them,
`Publish` publishes boards with codes, a round (`StartRound`, `Visit`, `AppendTasks`,
`EndRound`) marks all its stages in one transaction while the planner commits each batch for
itself; `LoseRound` rolls the marks back and leaves the batches.

### RepairCommands, ManualPlans

* A request goes through the steps of `_execute` and of the command: its time is read and the
  record inserted under its key (`Begin`, `Insert`), advisory lock (`Lock`), selection
  (`Select`), effect and answer in one commit (`Create`). A request may wait between any two
  of these as long as it likes, while whole repairs begin and end. Tasks are rows with the time they
  finished, `Audit` is the five-minute audit that moves it.
* `Plan` is everything else that makes tasks of the same logical scopes: stages that
  append to a batch of a fixed time of the day (`create_or_get_batch`, `append_tasks`), which may lie
  ahead when a planning job is run by hand, and the commands that collect anew, at the time of
  their arrival. It may come at any moment, also between the steps of a command.
* Left out: the retry of one SKIPPED or CANCELLED task (`COLLECTION_RETRYABLE`,
  `command_service.py:47`) and the window of 30 days of a retry of everything (666).
* `ManualPlans` has clients whose commands read the calendar, the releases and the tasks
  under way, and then commit their batches (`Recover`, `Backfill`, `Repair`, `Commit`).
  The recovery takes no lock; two that overlap may plan an API of a day twice, which
  `RecoveredOnce` leaves out.

### RetryPolicy

One task of any type, policy, cut-off and retention, and a clock. The executor reads
the clock when it starts (`started`, used for the verdict on an empty answer) and
again when it records a failure, and `fail_task` then grants the retry or not
(`RecordFailure`). Hence the attempts that start before a cut-off or midnight and
end after it. Retention counts days here and months in the code. Leases and
recoveries are left to `Collection`.

### ProviderCalls, Paging

* `next` is `_next_request_at` of the limiter of an endpoint and of the one all share. A
  thread reserves under the lock (`Advance`), sleeps outside it and may oversleep. The
  spacing of the shared budget holds for what is sent in order of the slots; an endpoint's
  holds for the slots reserved, since a thread may wait for the shared one afterwards.
* `Paging` has the provider's table as a sequence that gains and loses rows between
  pages, and `Validated` the check of keys across pages. A sealed result is whole if no row
  was deleted meanwhile: a deletion shifts a row over a page end, which only
  `expected_row_count` would notice. A server that returns fewer rows than asked for
  without being at the end cannot be told from a last page.

### AssetStore, Backup

* `temps`, `locks`, `finals` are the files of the directory of each execution; a final file
  has a writer, may be incomplete and may not be on the disk yet. `PowerFails` drops what
  was not synced. `Reconcile` finds sealed files, registers one, and removes lock and
  temporary files that are old. A reconciliation may register a renamed file before its
  directory is synced; a power failure then loses it and the audit of the next start marks it
  missing, which is the last disjunct of `RegisteredIsThere`.
* `Backup` has the rows of `raw_data_asset`, the files, the backups with their lists and
  copies, and a `job` that creates or restores. A backup dumps the database, lists the files,
  hashes and copies them while files are sealed; an incremental one takes what an earlier
  one holds (`StoredIn`). A restore replaces the database, moves the directory aside and
  the new one in, and each step may fail (`RestoreFails`). The application is stopped
  during a restore and one maintenance command runs at a time, as the wrapper
  `src/deploy/production/bin/stock-data-sync` sees to.

### Publication, RowQuality, RowRules, BusinessDates

* `Begin` gives a task its payload, `ReadParent` is the read of the parent's time that the
  members of a theme are pruned by, `Write` the transaction that checks, merges, replaces
  and prunes. Datasets are examined family by family. One task of a scope runs at a time
  (`ConcurrencyLimits` of `Processing`), which `LatestThemesKept` rests on: the
  time of a publication is read before its transaction.
* `RowQuality` describes a day by the number of stocks of each kind (which APIs have it,
  whether they agree, whether it moved, of which exchange), so that the bounds of the code
  are checked at their own values. `Prepare` gives the verdict, `Write` drops what the master table
  does not have or has as delisted. No bound holds for the latter: `prepare` refuses an empty
  trading day (`stock_daily.py:261`) before it, and the write only counts and warns, as
  `src/docs/03-tushare-collection.md:154` has it.
* `RowRules` has one input sequence per behaviour, of old and present codes, of snapshots of
  a hot list (two whole ones, of one or two stocks, and the beginning of a third), of rows of
  the top list, and the folds the processors apply to it. An amount of the top list is
  its value in cents and the number of decimals it came with; `Close` and `Precise` have
  the tolerance of 500 yuan and of a thousandth, and the comparison of exponents, of
  `topics.py:1155-1183`. The amounts stand for the monetary fields; prices and ratios go by the same
  rule with another tolerance.
* `BusinessDates` has dates as records of year, month and day, and the month arithmetic
  of `partitions/service.py` on them; the calendar is counted by year and exchange.

### MarketQuery

`Tools` names, for each tool, the datasets whose release it asks for and those whose rows it
shows. A call resolves its day (or month, or topic) in one statement and selects in later
ones; `Publish`, `PublishTopics` and `PublishWeights` commit in between. A publication of
`stock_daily.core` also takes back the release of `stock_daily.limit` of its day (`Withdrawn`,
`processing/repository.py:508-514`, `585-703`), so that a day that had all the tool asks for when
it was chosen may lack it when the rows are read. Row filters, order, limits,
`search_securities` and `get_data_status` are left out.

### Planning, Data, MCData

The check of a small module takes seconds, and what its properties say of one another is
nothing. So these two put modules side by side: the first state draws a `part`, and a
behaviour is one of that module with its own constants. `Planning` extends `RetryPolicy` and
`Data` extends `AssetStore`; the other parts are instances that share variables. Their
properties are properties of parts that belong together, put side by side as well; each is
stated and explained in its module. `MCData`, and `MCRowRules` for `RowRules` alone, have the
values for TLC that a configuration file cannot write down.

## 3. Runs

| run | instance | shows |
|---|---|---|
| `collection_threads` | 1 task, 2 threads, 3 tokens, 3 faults | `ResultMatchesAsset`, `RetryBudget`, `OutcomeFinality`, `RegisteredByLeaseHolder`: a timed-out execution, its successor and two reconciliations race to settle a task; it settles once, with the result of the file it names |
| `collection_batches` | 1 daily batch, 2 tasks, 1 thread, 1 fault | `ClosedBatchSettled`, `CancelledBatchDead`, `LeaseDiscipline`, `ImplementsLedger`: staged planning against closing and cancelling |
| `collection_liveness` | 1 backfill task, 1 thread, 2 faults | `FrozenBatchEnds`, with storage pressure coming and going |
| `processing_plan` | 1 batch of 3 datasets in a chain, 1 repair batch of the middle one for the same date, 2 threads, 1 attempt, 1 fault, 1 retry, 1 skip | `NoDegradedExecution`, `NothingOverlooked`, `ConcurrencyLimits`, `PublishedByLeaseHolder`, `ImplementsReleases` |
| `processing_upgrade` | 1 batch, 2 datasets, the second upgraded, 2 attempts, 1 fault, 1 retry | `OldTasksRetired`, `QueuedEnds`, `WakeUp` |
| `stock_daily` | 3 core and 2 limit batches, 2 threads, 1 attempt, 1 fault or command | `LimitsOfCores`, `FreshestCarriesOn`: shown limits belong to the shown core, no lineage is refused, a core publication leaves one limit task made from the freshest data; `WithdrawnLimitReturns`: a withdrawn limit release is made again |
| `runtime` | a pool of 2, 3 tasks, 1 error | `DispatchSafe` (no thread too many, no task or signal lost), `ShutdownEnds`, `EverythingExecuted` |
| `scheduled_jobs` | 1 job, 3 threads, 4 records, 1 fault | `RowsTellRuns` (one run at a time, one row per state, orphans collected), `VerdictsFinal`, `RequestsServed`, `RunsEnd` |
| `planning` | `RetryPolicy`, `PlanDay`, `Catalog`, `DeferredStages`, `RepairCommands`, `ManualPlans` | `AttemptsUsedInTime`, `PlansInOrder`, `NothingTwice`, `CatalogFits`, `NothingLeftOut`, `StagesPlanned` |
| `data` | `AssetStore`, `ProviderCalls`, `Paging`, `Backup`, `Publication`, `RowQuality`, `RowRules`, `BusinessDates`, `MarketQuery` | `AssetsKept`, `FilesKept`, `SourceRead`, `TablesConsistent`, `RowsChecked`, `LiveLeftAlone`, `AnswersSound` |
| `cutoff_retry` | `RetryPolicy`, 3 days of 6 ticks | violated: see finding 1 |
| `stock_daily_forgotten` | `StockDaily`, 2 core and 2 limit batches, no fault | violated: see finding 2 |

What the properties of `planning` and `data` say, in the words of their modules:

* `AttemptsUsedInTime` (`RetryPolicy`): a retryable failure is final only when every attempt is
  used or, for a daily task, the next one would be due after the cut-off; no retry of a daily task is
  due after its cut-off (one that is due before may be claimed late); where empty answers are not
  allowed, one becomes a result only as the gap of a historical day that was over, after all
  attempts or when the provider no longer keeps the day. It does not say that a task is tried until
  its data can come: attempts may be used up long before the cut-off, which is finding 1.
* `PlansInOrder`: a frozen plan of a day has every daily API; a last stage recorded as a
  success has frozen it; one alert message a day, and one more per crash or lost record; a
  deferred stage has one batch, is asked for after its boards and marked with that batch.
* `NothingTwice`: while a repair of a logical task is under way, another one is made only if
  a failure of that task was scheduled no earlier (`OneRepairUnlessOvertaken`; without the condition
  it is finding 3); an idempotency key has one effect, and whoever is told of it is told of all of it;
  an API of a day has one recovery among those that see each other.
* `CatalogFits`: no dataset is made from itself; inputs are declared and released in the
  scope they are looked up in; a scheduled batch has all raw inputs of what it makes; every
  API is planned and read; what is retried until a cut-off is planned before it; a new
  master makes nothing again needlessly; every gap of a date can be recovered by date.
* `NothingLeftOut`: a stage after the last one is accepted; the check is silent only
  about a complete day; a repair of everything leaves no idle failure out; a recovery plans all
  that its gaps need.
* `StagesPlanned`: a deferred stage whose boards are published is planned, unless one is
  stuck (see below).
* `AssetsKept` (`AssetStore`): a registered file is whole and its own, but for a power failure
  that is then noticed. `LiveLeftAlone`: no clean-up takes the files of a live writer.
* `FilesKept`: registered files are there, and backups hold those of their dump; a
  restore is all or nothing.
* `SourceRead`: budgets are kept, a sealed result is the whole table.
* `TablesConsistent`: rows have masters, a scope one publication, the latest themes stay; a
  promised date has one partition, the calendar whole years.
* `RowsChecked`: Beijing's figures never block a day, yesterday's are never published,
  today's are not taken for them; of the stocks that the master has at the write, few are lost. Of
  the rows of a code the present one stays in any order; of a hot list the latest whole
  snapshot is found again; of a key of the top list nothing known is lost, a key whose amounts fall into
  two groups with nothing close between them is refused in every order, and one whose amounts are
  all close is published in every order (`ApartOut`). Between these two the order decides, which
  is finding 5.
* `AnswersSound`: an answer is of a day that all it shows is released for, or was until a
  publication of the prices withdrew the limits during the call, the limits of a history excepted (finding
  4); no newer day was complete when the call began and stayed so; a topic is never guessed,
  constituents fit the time asked for.

**Bounds.** Two threads suffice for a late and a new execution of one task, and
`MaxFaults` = 3 lets the late one be timed out, the new one lose its
acknowledgement and the process crash. Two tasks suffice for a planner to slip
one in between the steps of a cancellation, and for two tasks to compete for a
token. Three datasets in a chain give a dependent two upstreams that end in any
order; a repair of one of them for the same date makes two tasks compete for a
release scope. One attempt there is enough for a failure to be final and a retry to
raise the limit; `processing_upgrade` has two, so that a failure may also wait.
`MaxRetries` and `MaxStops` bound the administrator's commands of `Processing`; in
`Collection` skips and cancellations are not bounded. In `Runtime` three tasks on
two threads leave one to be refilled while a second dispatch is under way. In
`ScheduledJobs` one job is enough, since jobs share nothing but the order of the requests,
and three threads let a timer meet two dispatchers.

In `planning`: the day has all of its instants, one crash and one switched job. Deferred
stages have one order for two dates and two codes per board, so that a lost round may be
repeated after boards have changed. `RepairCommands` has two requests with two keys, one
logical scope, three tasks, two plans at two times, one fault and one audit: a planned failure, its
repair, and a second repair or a later plan beside them, or a plan ahead of its time whose failure
is repaired twice. `OverlappingRepairs.cfg` has three commands, the fewest that overlap so without
a plan ahead. `ManualPlans` has two clients and two days.

The clock of `RetryPolicy` runs over three midnights, three ticks a day, with two attempts, so
every attempt may cross a cut-off and midnight (`cutoff_retry` has six ticks and three attempts). Three
executions and two faults of `AssetStore` let a dead, a late and a new writer share a
directory tree. `StockDaily` has three cores and two limit deliveries: a core publication
meets a limit that is published, one that is planned and one of a core yet to come, and a
withdrawn limit may be refused because of a third core. With one attempt a refusal is final at
once; with two, a successor begins with fresh attempts and would never use them up. A behaviour
has one fault or one command (`OneDisturbance`).

In `data`: three backups make a chain with a full one in the middle; two threads, one
limited endpoint and the shared limiter are all the ways slots interleave; six keys in pages
of two with two changes put a change before, at and after a page end. `Publication` has two
codes, two days, a further month and three tasks, so that two days of themes can be published
and pruned by a third task. `RowQuality` has its numbers at the bounds of the code (0, 1,
199, 200, 2100 stocks; 19, 20 of Beijing), and the master lacks none, one or twenty-one of a kind, or
all. `RowRules` has four rows of a key and four amounts, in a chain each of which is close to the
next only, with different decimals: the kept amount may move twice. `BusinessDates` has both sides of a turn of the year and of
February.
`MarketQuery` has four dates in two months, two of them trading days, and two topics. Each
`History`, `Horizon`, `Max...` constant is such a bound and named in the module.

Symmetry is used over threads and tokens, in safety runs only. `Collection` states a
type invariant that is proved (below) and not checked by a run; those of the other modules
are conjuncts of the properties above.

**Deadlock.** `Collection` and `ScheduledJobs` are checked for deadlock: their jobs run for
ever. Everything else may end: a finished, published or failed set of tasks has
nothing left to do, a runtime may be shut down, a day and a bounded list of commands are
over at some time (`CHECK_DEADLOCK FALSE`). That a shutdown does not hang is `ShutdownEnds`.

**Fairness.** Weak: timers that always come back (close, plan commit, restart of the
service by its supervisor, recovery of a stale task, the round of deferred stages). Strong:
steps that other actors disable time and again, but never for good: a thread's own steps wait
for row locks, which PostgreSQL grants in order of arrival; a claim competes with
others and needs a scope that is free now and then; a reconciliation is attempted
every five minutes; the planner finds a waiting task's row unlocked at some round; a timer
and a dispatcher of `ScheduledJobs`, which come again and again, find the job's lock free
and get it. In `StockDaily` one strong fairness is enough: planning passes, which lock the
limit of a day whose core still waits, do not keep all other steps from happening for ever.
No fairness for anything the administrator, the planner of `Collection` or a fault
does. Faults are bounded: a task that kills the process each time it runs is given
its attempt back each time and retried for ever, by design of the recovery
(`modules/acquisition/repository.py:463`).
Capacity pressure is assumed to end. In `Runtime` the threads run (weak); the refill
thread and the shutdown get the dispatch lock at some time although the timer may take
it again and again, and a timer that finds it taken finds it free at some time (strong);
Python's locks do not promise that, but a timer of five seconds leaves room for
it. Nobody needs to shut down.

## 4. Findings

1. **The cut-off retry is refused** (`cutoff_retry`, `CutoffRetryKept`).
   `_record_failure` asks for a retry at the cut-off when the attempts of a
   current-day task are used up (`executor.py:338-345`); `fail_task` grants none
   then (`repository.py:416`). The task fails before its data can be there, which
   `src/docs/03-tushare-collection.md:48` excludes. The unit test that expects the
   retry uses a fake repository without that condition.
2. **A limit batch is forgotten** (`stock_daily_forgotten`, `LimitNotForgotten`). The
   planner finds no `stock_daily.core` release and records MISSING
   (`repository.py:1201`); the first core release of the date is committed before
   the planning is, and its search for limit tasks does not see the new one. The task
   stays BLOCKED although `src/docs/02-task-workflow.md:89` has it enter the queue.
   The window is the length of a planning transaction; a later core publication
   or the administrator repairs it.
Three more claims of the documents are refuted by configurations that are kept beside the runs, each
for one module alone. TLC stops at the counterexample within seconds: `OverlappingRepairs.cfg`
with `RepairCommands` (one scope, one planned task, three commands, no fault), `HistoryLimits.cfg`
with `MarketQuery` (four dates), `TopListConflict.cfg` with `MCRowRules` (three rows of one key,
three amounts).

3. **Two repairs of one task** (`OneRepairAtATime`). A command reads its
   time when it arrives (`command_service.py:1107`), then waits for the advisory lock (1377), and its
   time is that of the batch it makes. What is under repair is told by a batch scheduled later than
   that of the failure (563, 655, 1427). In the trace a command waits while another one makes a repair,
   which fails; the first then repairs that failure with a batch that is scheduled before it,
   and a third command, which does not see it, repairs it again.
   `src/docs/02-task-workflow.md:55` says that the check behind the lock makes sure that concurrent
   operations make one repair. Where the failed batch was scheduled ahead of its time, as a
   manual run of a planning job before the hour of its stage does (`jobs.py:435`, 452;
   `claim_next` does not look at `scheduled_at`), two commands one after the other are enough. Both
   collect the same data; the later success is the one that counts.
4. **The limits of a history** (`HistoryAsksForAll`). The history of a stock
   selects `limit_status`, `up_limit` and `down_limit` (`market_query/service.py:627-629`) on the days
   released for the prices, and asks for `stock_daily.limit` never.
   `src/docs/07-mcp-read-only.md:22` has the day found from the datasets that a tool depends on. Days
   whose limits are not released, or were withdrawn, come without them, or with the columns a
   core publication has kept, and look like the others.
5. **A contradiction in the top list is published** (`ConflictsOut`). A row is
   compared with what the rows before it have become (`topics.py:1063-1183`), being close is not
   transitive, and the kept amount is that with more decimals, whose place in the range is any. So
   1000000.0, 1000400.0 and 999600.55 give one row of 999600.55, though the last two are 799.45 yuan
   apart; in another order the key is refused.
   `src/docs/plans/10-special-index-data-pipelines.md:29` has contradictions fail with a warning.

Met while modelling, and not kept as runs:

*Processing.*

* The planner reads tasks of an older processor revision without a lock
  (`repository.py:1046-1054`) and cancels those that do not run by then (1060-1068) at commit, by
  primary key, whatever they have become: one claimed or even published in between ends
  CANCELLED. `src/docs/02-task-workflow.md:94`: running ones may finish, published ones stay.
* A dependency on a task that is BLOCKED, for instance for missing raw assets, is stored
  as WAITING (`repository.py:1209-1217`); a batch with a WAITING row is not recorded as
  planned and is planned again in every round, for ever if nothing unblocks it.
  `src/docs/02-task-workflow.md:94` asks that planning converges.
* With two upgrades in a row, the administrator's retry of a failed task of the first revision
  inserts the task of the third (`command_service.py:1484-1574`); the planner then finds the current
  one and returns early (`repository.py:1036-1075`), so that a task of the second revision that is
  queued is not cancelled and runs as well. TLC finds it with `OldTasksRetired` and three
  revisions; the run has two. Both write the same rows one after the other.
* A core publication that finds no limit release cancels every other limit task of the
  date that does not run, also the one planned for a core of a later batch
  (`repository.py:780-802`), as "superseded by a newer stock_daily.core publication".
  The later core then gets a successor made from older limits.
* The mechanism of finding 2 also concerns an upgraded dataset: its new task, inserted but
  not committed, is resolved to a failed upstream task, which the administrator retries
  and which succeeds before the planning commits. The dependency stays FAILED. TLC finds it
  with `ReadyTasksQueued` in the instance of `processing_upgrade`, so that property
  is claimed for one processor revision only.

With one processor revision, `WaitingIsReplanned` and `ReadyTasksQueued` show that the
planner's unlocked read of upstream tasks is harmless: a stale WAITING is covered by
planning again, and a stale FAILED by the lock on the dependent that the publication
waits for. They hold because the planner looks upstream tasks up again in
`_resolve_dependencies`: nothing in the session keeps the objects of
`_upsert_processing_task` alive, so the lookup is a new read.

*Scheduler and commands.*

* A job whose final write failed keeps its RUNNING record until the next holder of its lock.
  If the job is disabled there is none before a restart (`scheduler/management.py:56`),
  and manual requests are refused meanwhile (`command_service.py:441-450`), although
  `src/docs/02-task-workflow.md:132` says no restart is needed. Hence the last disjunct of
  `RunsEnd`.
* Only the last stage of a day freezes the daily plan, and catch-up plans today only
  (`jobs.py:416-516`); a day that was missed altogether is left to the check of the morning.
* A deferred stage is stuck for good if its round was lost after its batch was committed and the
  batch is then cancelled, or boards with new codes are published: the planner refuses it
  each round, no stage behind it is planned, and at a restart the start-up run of
  `plan-processing-tasks` fails with it.
* The five-minute audit sets `finished_at` of a task with a lost asset anew each time
  (`acquisition/repository.py:594`); a failure that a later success has recovered is newer
  than that success again, and comes back to the alerts and the repair commands
  (`operations/repository.py:1105-1139`, `command_service.py:544`).
  `src/docs/04-admin-console.md:92`: a later success takes the alert away.
* `recover_release_gaps` takes no lock, so that two recoveries at the same time may plan an API of
  a day twice: `RecoveredOnce` is claimed only of those that see each other.

*Data.*

* A temporary file that changes between its hash and its copy is listed by a backup, which is
  published and cannot be verified; later incremental backups are refused until a full one is
  made. `ChainHolds` excludes such lists. A restore that is killed, or whose way back
  fails, is left to the operator.
* Members of a theme that has been deleted may stay in `market_theme` tables (no foreign key).
  A payload without any known code empties `concept_board_member`, which
  `theme_index_member` refuses. A stock whose type changes stays in its old master as well.
* Constituents of an index are limited to snapshots up to the first day of the released month
  (`jobs.py:355-371`), so that those of the rest of the newest month are not shown before
  the next month is released. A month that is published again between the choice of its
  snapshot and the selection may give no constituents.
* A core publication between the statements of a call takes the limits away from a day that was
  chosen because it had them: the answer shows the columns as they are by then, hence
  `withdrawn` in `NothingUnpublished` and `NewestComplete`.
* A day of `stock_daily.core` that passed all bounds is published without the stocks the master table
  lacks, be they all of them; the same filter is in the writes of the other stock datasets.
* A topic that appears between the exact and the fuzzy search is missed, if its code is the
  identifier.
* The status tool fails with UNKNOWN_DATASET for a dataset that was never released, so
  "never_published" is not reached.

## 5. Proofs

Every theorem is about all values of the constants that the `ASSUME` of the module allows:
any finite numbers of tasks, threads, deliveries, attempts and faults. Each rests on an
inductive invariant `IInv`, which was checked by TLC on an instance before it was
proved; one lemma per action shows that it is preserved.

### Collection

`CollectionProofs` proves, for any sets of batches, tasks, threads and tokens and any numbers of attempts and faults, under
`CollectionAssumption` alone (finitely many tasks, each of one batch, null values
apart from the others):

* `TypeCorrect`, `ClosedBatchesSettled`, `CancelledBatchesDead`,
  `ResultsMatchAssets`, `AttemptsBudgeted`, `LeasesDisciplined`: types and the invariants of
  the runs;
* `OutcomesFinal`, `RegistrationsLeased`, `BatchesFinal`: the action properties (the
  last one is not a run's: `ImplementsLedger` implies it);
* `Implements`: `Spec => Abstract!Ledger`.

None of the invariants is inductive alone. `IInv` (in `Collection`) adds:

* `OneOwner`: a token belongs to one task as long as a lease, an asset, a thread or
  the snapshot of a reconciliation names it. Without it a late execution could
  settle a task that was claimed by somebody else under the same token.
* `ThreadsApart`: two threads hold different tokens; with `OneOwner` this gives the
  fence of `complete_task` and `fail_task` its force.
* `FilesFollowThreads`: a thread that has not sealed has no file, one that has
  sealed has one, and only a registered file is ever lost. It makes a registration
  point to a file.
* `LeasesMatchStatus`, `FreshTasks`: running means leased; a new task has used no
  attempt. With `RetryBudget` they bound `attempts`.
* `PlansFrozen`: a frozen plan is what the batch has. It is the reason why the count
  of settled tasks in `close_ready_batches` is the count of all of them.
* `EndedBatches`: what has ended is settled. The step that needs an argument is
  `CancelCommit`: the locked tasks are a subset of the batch's, and as many
  (`CancelAllowed`), so they are all of them (finite sets, `FS_Subset`).
* `CancelLocksTasks`, `ReconSeesAssets`: what the two-phase command and the
  reconciliation carry from one step to the next is still true of the rows.

One lemma per action shows that it preserves `IInv`, one step per conjunct it can
disturb; `Inductive` puts them together. The action properties follow from `IInv`
and the action; the refinement maps creating, appending, closing, cancelling, settling
and losing a file to steps of `TaskLedger` and everything else to a stutter.

### Runtime

`RuntimeProofs` proves, for a pool of any size and any finite number of tasks and
errors (`RuntimeAssumption`), `TypeCorrect`, `NeverOversubscribed`, `NothingEverLost` and
`SignalsKept`, which together are the `DispatchSafe` of the run (`DispatchesSafe`). The
inductive invariant is
`IInv` of `Runtime`:

* `DispatchLocked`, `ClaimHeld`: one thread at a time is in a dispatch, and it holds the
  task it has claimed until the callback is attached.
* `SlotsReserved`: what is left of a dispatch's count plus the dictionary is within the
  pool. Finishing futures only make room, so a count that is out of date is too small.
* `ClaimsAccounted`: a claimed task is with a dispatch, in the pool or done, and every
  future in the dictionary has its callback to come.
* `ShutdownOrdered`: after the barrier no dispatch can claim: those that come later find
  `stopping`, and the refill thread has ended. This is what the empty
  `with self._dispatch_lock: pass` is there for.
* `SlotsNoticed`: a waiting task beside a free slot is known to a signal, to a callback
  that will give one, or to a dispatch whose count includes that slot.

### Processing

`ProcessingProofs` proves, for any batches, datasets, dependencies and threads and any
succession of code releases that never lowers a revision (`ProcessingAssumption`):
`TypeCorrect`, `LimitsHold` (`ConcurrencyLimits`), `InputsAreDelivered` and `HoldersPublish`
(`PublishedByLeaseHolder`); and, while no code release changes a processor
(`SameRevisions`, as in `processing_plan`), `NeverDegraded` (`NoDegradedExecution`) and
`ReleasesRefined` (`ImplementsReleases`). With upgrades the last two are not true: the planner may
cancel a task that was published after it read it (see "Met while modelling").
`InputsAreDelivered` is what remains, each input was published once.

The invariant (`IInv` of `ProcessingProofs`) turns on one fact: *what was delivered stays
delivered*. `RowFits` says that a dependency row marked READY names a task that has published
(or was cancelled by an upgrade afterwards), of the dataset and scope it is looked up in, so
no failure or skip marks it again. `InputsReady` says that whatever is queued or runs has only
READY rows; hence neither `mark_failure` nor a skip ever takes a task out of execution, and
`RowsDecide`, that a waiting task has the status its rows give, survives every marking.
`PlannerReads` and `PlannerHolds` say what the planner's unlocked reads are good for: a
SUCCESS it saw is one still, an absent task it inserts and a row it locked have not changed.
`AttemptsFit` and `ScopesApart` carry the retry budget and the limits.

The last part of `ProcessingProofs` is about what a plan leaves behind: `WaitingPlannedAgain` (across upgrades),
`NothingLost` (`NothingOverlooked`, under `SameRevisions`) and `OldTasksGone`
(`OldTasksRetired`, under `PlainUpgrades`: no processor is replaced twice, or nothing is
retried). Each has an invariant of its own that says what others cannot do between the
reads and the commit of the planner: nobody else makes a task wait, or queues any but the current
one (`Unplanned`). The second disjunct of `PlainUpgrades` came out of a failed proof, and TLC
confirms it; it is described in section 4.

### ScheduledJobs

`ScheduledJobsProofs` proves `RunsTold` (`RowsTellRuns`) and `VerdictsAreFinal`
(`VerdictsFinal`) for any jobs, threads, requests and faults, if keys never run out
(`KeysNeverRunOut`: uuid4; the instance of the run has few keys and a bounded history). The core
of `IInv`: whoever executes a job holds its advisory lock, or the lock was lost with its
connection. So an execution whose lock was not lost is the only one, a RUNNING row it finds is
an orphan, and the row it will close is RUNNING until it does. The keys a dispatcher read long
before must still lead to rows of the job it locked (`Coherent`), which is where the keys matter.

### StockDaily

`StockDailyProofs` proves `LimitsFit` (`LimitsOfCores`) and `FreshestIsCarried`
(`FreshestCarriesOn`) for any number of deliveries, threads and commands. `IInv` adds that a
core task that succeeded stays so, that its successors keep the link to it, and that a limit
task that may be executed has READY rows of the core that is shown (`ExecutableReady`): so
publishing a limit never meets a core other than the one it was resolved to. That there is a
freshest delivery among any finite number is shown with a well-founded order.

### RepairCommands

`RepairCommandsProofs` proves, for any number of requests, keys, scopes, tasks, plans and times
(`Bounded`: the bounds and the times are numbers, there are finitely many scopes, None is a value of
its own), `RepairsOverlapOnlyIfOvertaken` (`OneRepairUnlessOvertaken`), `KeysTakeEffectOnce`
(`OneEffectPerKey`) and `NothingIsLeftOut` (`NoneLeftOut`). The first two are what `NothingTwice` says of
commands, the third what `NothingLeftOut` says of them. Nothing is assumed about how long a
command waits or when a batch is planned. The invariant:

* `FinishedApart`, `TasksApart`: every task ends at a time of its own, and a scope has one task in a
  batch. So of the failures of a scope one is the newest in the order of a retry of everything, and
  a selection of everything has it.
* `OneRepairUnlessOvertaken` is inductive with `ChosenFit`: what was selected has failed, is of
  different scopes, and a repair of it that is under way was scheduled no later than it. The
  selection sees all repairs that were scheduled later than the failure, and no other; that is
  all that `_has_newer_collection_result_or_active_task` gives.
* `LockHeld`: who selects or creates has the advisory lock, so that between a selection and its
  batch no other command makes one.
* `KeysApart`, `KeysHeld`, `AnswersTold`: what a key has made it made at once; a record that is
  not accepted belongs to one open transaction, which will accept it or remove it; an accepted one
  names the batches of its key.

### Planning

`PlanningProofs` is about the parts of `Planning` with constants of any value
(`RetryPolicyAssumption`, `PlanningAssumption`: bounds are numbers, there are finitely many
scopes, watched datasets are declared ones, None is a value of its own).

* `AttemptsAreUsed` and `AttemptsAreUsedAmongOthers` (`AttemptsUsedInTime`), for days, cut-offs,
  waits and retentions of any length: the time of the next attempt is bounded by the cut-off when
  it is computed, and a retryable failure becomes final only through the guards of `RetryTime`
  and `fail_task`. What the clock and the attempts were then stays in the row, so the property can be
  read off a settled task.
* `PlansComeInOrder` (`PlansInOrder`). For the day, `DayInv` adds what a run has found:
  a run that appends is of an open day whose batch is there, the last stage is over with a
  frozen batch or not at all (`LastFroze`), and the check has one message more than there were
  faults only while a record of it is, or is going to be, a success (`MessagesPaid`). That
  the frozen batch has just the daily APIs rests on the declarations: what the earlier stages
  append is all among what the last one appends (`EarlyAreFinal`). For the deferred stages,
  `StageInv` says that a batch is found again under a key that is its stage's own, and that a mark
  in the table, or in an open round that may still be lost, is the key of a frozen batch.
* `CommandsCollectOnce` (`NothingTwice`). The part about `RepairCommands` is its own
  proof (above), taken over with the substitution of `Planning`. For the manual plans,
  `ManualInv` says that a batch was read before it was committed (`ReadBefore`) and that what an
  open recovery is going to collect is collected by no batch it has read (`LeftOut`).
* `NothingIsPassedOver` (`NothingLeftOut`), a property of steps: a stage is never refused
  (`StagesAccepted`), a check that stays silent is right, a repair of everything has every
  failure that is idle, and a recovery has all the datasets made that its days miss. The last
  one needs the rule of affected datasets. `AffectedBy` is a recursive function over sets
  of datasets, which exists because a round only adds (`MadeSo`); that what a
  collected API is an input of is among the affected datasets at the end (`AffectedHasInputs`) is
  shown for a smallest counterexample, as induction is not available.

### Data

`DataProofs` is about the parts of `Data` (`AssetStoreAssumption`, `DataAssumption`: bounds
are numbers, waits and page sizes are positive where the code's are, families are of
declared datasets, days are numbered, None and the temporary file are values of their own).

* `AssetsAreKept` (`AssetsKept`) and `LiveIsLeftAlone` (`LiveLeftAlone`), for any number of
  executions, crashes and power failures. An execution renames only once, into a directory of
  its own, and only what was synced: so a file that is there is whole and its own
  (`FilesWhole`), and a power failure takes only what is not yet safe. A task with an
  asset has no execution any more (`AssetSettled`), which is why nothing is registered over it.
* `SourceIsRead` (`SourceRead`), for any threads, APIs and distances: a limiter's next
  slot lies a distance after every slot that a thread holds or has used (`CallInv`), whatever is
  done between the two reservations of a request. And for results of any length: until a row goes, a
  row that was there in the beginning has been read or lies ahead of the next page
  (`ReadOrAhead`); if nothing changes, what was read is the beginning of the table.
* `TablesStayConsistent` (`TablesConsistent`), for any families, codes, days and number of
  tasks: masters only grow and a scope is replaced as a whole. Pruning by a time that was read
  before needs `LatestKnown`: the latest themes of a day have one time, no task has read a later
  one, and every task that is going to write themes has a later one. For partitions,
  `DateInv`: a partition is the month it is named after, whatever month it was created in.
* `FilesAreKept` (`FilesKept`), for any number of files, backups and faults. `BackupInv`
  says that a file under its own name is whole and is never taken away, so that the files of a dump,
  which is taken first, are among those that are listed later (`BackupGoesOn`); that a listed
  copy is stored in the backup that is named, which is this one or one before
  (`BackupsSound`); and that a restore keeps what was there until it is over (`RestoreGoesOn`),
  which is what the way back puts in place again.
* `AnswersAreSound` (`AnswersSound`), for any days, topics and order of publications between
  the statements of a call. `QueryInv` says that a day that was complete stays so, unless it was
  complete with limits and these were withdrawn, which the call then has in `withdrawn`; that
  a dataset is released after what it is made of (`MadeAfter`), which is why a tool may show what it
  does not ask for; and that the day of a call was the newest one when it was chosen (`RightDay`). Counting the releases of a day, as the statement does, tells that all
  are there because as many different ones as there are datasets are all of them.
* `RowsAreChecked` (`RowsChecked`). For any numbers of stocks of each kind of `RowQuality`:
  `QualityInv` only says that the verdict is that of the day and that what was written is what the
  master has of it (`WrittenIs`), and what is left is arithmetic on
  sums over sets of kinds (`WrittenBounds`). A function of sums (`AddsUp`) exists and is what the fold over a set
  gives in whatever order it goes (`NumberIs`), so numbers grow with sets and add up over disjoint
  ones. For any number of rows of `RowRules`, in any order: the fold goes through states of
  `CodesAfter` (a present code that was seen is the row kept, or all are refused) and `ListedAfter`
  (the row kept knows all that rows before it knew, its amount is one of theirs with the most decimals,
  and the amounts so far do not fall apart: `Linked`, to which every row that is merged adds one that is
  close to a member). For hot lists, the parts that THS splits the rows into are the snapshots
  as far as they have come (`PartsAfter`), and the rows DC takes of a time are one snapshot
  (`RowsAtIs`); the snapshots are the two and the beginning of a third that the model has, at
  any times and of any stocks, but of no more than two.

### What is left to TLC

Liveness (`FrozenBatchEnds`, `QueuedEnds`, `WakeUp`, `WithdrawnLimitReturns`, `ShutdownEnds`,
`EverythingExecuted`, `RequestsServed`, `RunsEnd`, `StagesPlanned`) and ENABLED are out of the
prover's reach. `CatalogFits` is about the declarations as they are: it has no variables, and
TLC evaluates it for good. Hot lists of more than two stocks are neither checked nor proved.

What folds over sequences and sums over sets compute for every input is induction over data. The
library's theorems for it take an operator as a parameter, which the installed provers cannot
instantiate. Where only a least element is needed it comes from the
well-foundedness of numbers (`LeastNatural`) or of finite sets under inclusion (`LeastSubset`): a
claim that fails somewhere fails at a least place, and one step before it held. This is how
`LeastNumber` of `ProcessingProofs`, the freshest delivery of `StockDailyProofs`, the
rounds of `AffectedBy`, the sums (`SumExists`, `NumberIs`) and the folds (`FoldExists`,
`FoldReaches`) are shown.

## 6. Not modelled

* Admin queries, API and views (`modules/operations/api.py`, `repository.py`, `service.py`,
  `schemas.py`): they change nothing; what they count as recovered is discussed above.
* The search of securities, the status tool, row filters, order and limits of the queries; the
  read-only guard of the MCP session.
* Unit conversion, texts, column lists of the processors, and the table of old Beijing codes
  (`RowRules` has the rule that uses it).
* COPY and the temporary table of the staging; HTTP; what Lark does with a message.
* The level of the capacity gate is chosen freely at each claim.
* The synchronous `ProcessingRuntime.dispatch`, which bypasses the pool.
* Table models, migrations, settings, logging, health, the web console, and the shell scripts
  that install and upgrade: no decisions of the pipeline.

## 7. Plan

All of the above is modelled and checked, and every safety property of the passing runs is proved
but `CatalogFits`, which has no variables (section 5). What would be worth doing next: hot lists of
any number of snapshots and stocks; the retry of skipped and cancelled collection tasks; the
administrator's views, as far as they decide what is repaired; the level of the capacity gate over time.
