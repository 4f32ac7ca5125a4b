# RetailPulse: TLA+ models and proofs

RetailPulse generates retail transactions, loads them into PostgreSQL in
checkpointed batches, builds an analytics warehouse from them, and records every
pipeline run. What makes it hard is not the arithmetic but the transactions:
several processes run the same code, every function takes a connection that may
or may not be inside a transaction, `with connection.transaction()` is a commit
in the one case and a savepoint in the other, and failures roll back more or
less than the code around them expects. The models keep that control and
abstract the data (names, prices, texts) away.

## 1. Inventory

Python paths are under `src/src/retailpulse/`.

| component | state it keeps | operations | what is hard | what makes it correct |
|---|---|---|---|---|
| Transaction ingestion (`generators/transaction_ingestion.py` and its repositories) | `retail.ingestion_batches`, `retail.ingestion_batch_parts`, `retail.orders`, `retail.order_items` | claim or retry a batch, allocate ids, load part by part, checkpoint, heartbeat, reconcile, complete, fail | sessions race for ids and rows; a failure or crash between any two statements; retry after a partial load | no hole, duplicate or reordering of order and item ids; orders are appended in whole parts; a COMPLETED batch or part has its data; COMPLETED is final |
| Reconciliation and quality (`quality/`) | `retail.ingestion_quality_results` | compare counts, store the report, raise | the report is stored in the transaction its failure rolls back | the verdict agrees with the data |
| Pipeline runner (`pipeline/runner.py`, `pipeline/repository.py`) | `analytics.pipeline_runs` | run, resume, complete, fail | the row is uncommitted until a stage commits; a stale read on resume; concurrent resume | one executor per logical run; SUCCESS is final and backed by work; the result agrees with the row |
| Stage runner and retry (`pipeline/stage_runner.py`, `pipeline/retry.py`) | `analytics.pipeline_stage_runs` | start, complete, fail an attempt; retry with backoff | a stage row can be rolled back by the operation it describes | attempts are recorded in order, quality failures are not retried |
| Analytics build (`analytics/build.py`, loaders, marts, watermarks) | dimensions, facts, marts, `analytics.pipeline_watermarks` | upsert dimensions, load facts past the watermark, rebuild marts, advance the watermark | two reads of a moving source, concurrent builds, a failed build that is committed | everything at or below the watermark is a fact and in the marts; the watermarks agree and never regress |
| Customer dimension (`analytics/loaders/customer_loader.py`) | `analytics.dim_customer` | close and open versions (SCD 2) | sequences of changes, changes between the read and the load, re-runs | one current version per customer, adjacent validity, a past that is not rewritten, later orders on later versions |
| Scheduling (`src/airflow/dags/retailpulse_pipeline.py`) | none | run daily, retry once | a retry meets the failed run's row; all days name one logical run | a green task means a successful run |
| Database access (`common/database.py`) | the connection | commit at the end of the block, roll back on an exception | the whole block is one transaction unless somebody commits inside | |
| Reference data bootstrap (`generators/bootstrap.py`, `reference_loader.py` and its loaders, called by `_ensure_reference_data_and_ingest` of `runner.py`) | the five reference tables | count the rows, insert all of them if there are too few | the rows share ingestion's transaction: kept, lost or kept in part with it; concurrent bootstraps wait for each other's rows; a build reads the tables one by one | an ingestion has its whole reference data; no order or item is lost for a row that came late |
| Data generation | none | draw orders and items from a seed | which ids and how many rows | the items of a retry are those of the first attempt |
| Observability and inspection | none | report, print | read-only | not modelled |

Interactions: the scheduler or a script opens a connection and calls the runner;
the runner calls ingestion and the analytics build through the stage runner, all
on the same connection and so in the same transactions; ingestion's commits make
the runner's rows durable and ingestion's rollback discards them. Ingestion and
analytics share `retail.orders`, with the order id as watermark. Only three
places in the source commit explicitly: `transaction_pipeline.py:57` (a part is
done), `stage_repository.py:168` (a stage's record count) and
`common/database.py:40` (the end of `get_connection()`); two roll back:
`transaction_ingestion.py:757` and `database.py:43`.

## 2. Modules and how they correspond to the code

| module | models | builds on |
|---|---|---|
| `Postgres` | what a connection sees of pending and committed rows | |
| `TransactionIngestion` | `run_transaction_ingestion()` and everything it calls | `Postgres` |
| `OrderLog` | what readers of `retail.orders` may rely on: a log of whole parts | |
| `OrderItems` | `retail.order_items` and the item ids, every step of ingestion joined with what it does to them | composes with `TransactionIngestion` |
| `PipelineRunner` | `run_pipeline()`, `resume_pipeline()`, stage runner, retries; ingestion and analytics from the outside | `Postgres`, `RunLifecycle` |
| `RunLifecycle` | what other processes may rely on: the abstract life of a logical run | |
| `ScheduledPipeline` | the Airflow task and its retries | composes with `PipelineRunner` |
| `AnalyticsBuild` | `build_analytics()` with its retries, several at once, next to ingestion | `Postgres` |
| `CustomerDimension` | `load_customers()`, the `customer_key` of facts, the customer mart's grain | |
| `ReferenceData` | `bootstrap_reference_data()` and its readiness check in an ingestion attempt; the build's reads of the reference tables and the resolution of facts against them | |
| `MCIngestion`, `MCItems`, `MCRunner`, `MCSchedule`, `MCAnalytics`, `MCCustomer`, `MCReference` | bounds for TLC | the module they extend |
| `TransactionIngestionProofs`, `IngestionOutcomeProofs`, `PipelineRunnerProofs`, `ScheduledPipelineProofs`, `AnalyticsBuildProofs`, `ReferenceDataProofs`, `CustomerDimensionProofs` | inductive invariants, theorems and their proofs (section 5) | the module they are named after; `IngestionOutcomeProofs` on `TransactionIngestionProofs` and `OrderItems`, `ScheduledPipelineProofs` on `PipelineRunnerProofs` |
| `NumberSets` | lemmas about sets of numbers: least and greatest elements, bounds | |

**Atomicity.** An action is one SQL statement, or one `with
connection.transaction()` block, together with the Python up to the next
statement; between two actions any other session may act and the process may
die. Every model keeps *committed* rows and each session's *pending* rows apart.
A pending row is seen by its own session only (`Seen`), locks the row for the
others (`BatchLocked`, `PartLocked`, `RunLocked`), and becomes committed with
everything else its session has pending (`CommitWith`, `Commit`).

**TransactionIngestion.** `batches`, `parts`, `orders`, `quality` are the tables;
`pendBatch`, `pendPart`, `pendOrders`, `pendQuality` what each session has
written to them uncommitted; `open[s]` says whether the session's connection is in a
transaction, and so whether `WritePart`, `WriteOrders` and `WriteBatch` are
durable at once or pending; `pc` is the next statement, `job`, `start`, `part`
and `counted` the local variables. The claim is `StartBatch`, `InspectBatch`,
`RetryFailedBatch`; the plan `ReadStartIds` (the ids pinned by part 1),
`AllocateStartId` (else `MAX(order_id) + 1`, a statement of its own),
`ReadCompletedParts`; a part
`SelectPart`, `InsertPart` or `ReclaimPart`, `LoadPart`, `CompletePart`,
`HeartbeatBatch`, `FailPart`; the end `Reconcile`, `CheckQuality`,
`CompleteBatch`, `Return`; the handlers `Rollback`, `FailBatch`. `Fault` is an
exception of any statement, routed to the `except` block that catches it, `Crash`
the death of the process. `ItemsOf(i)` is the number of items of order `i`, which the
generator draws from the seed and the order id and which therefore never changes;
`CheckQuality` counts the items of a range of orders through it, which
`ItemsFollowOrders` of `OrderItems` justifies.

**OrderLog** is the abstract specification of ingestion: a batch appends its next whole
part at the end, and only behind its own orders. `TransactionIngestion` implements
it (`AppendsWholeParts`, with `orders` mapped to itself).

**OrderItems** extends ingestion by `items` (pairs of an order id and an item id), `pin`
(the item id in part 1's row), what sessions have pending of both, and `itemStart`.
`ReadItemStart` and `AllocateItemStart` read the item id apart from the
order id, `RegisterPart` pins it, `LoadItems` is the second COPY of a part, with the
offset obtained by generating the earlier parts again (`OrderItemOffset`). An item
id that exists already has no successor in the model other than `Fault`, which is
what the unique violation is. The generator gives an order
`min(item_count, number of ACTIVE products)` items; that the constant `ItemsOf` does not
change assumes a catalogue that has five ACTIVE products from its first ingestion on
(the default configuration has a thousand products).

**PipelineRunner.** `db[l]` is what is committed of a logical run: its
`pipeline_runs` row, its batch and number of loaded parts, and its
`pipeline_stage_runs` rows by call and attempt; `pend[s]` a session's uncommitted
part of it. Ingestion appears as the commits, rollbacks, returns and raises that
`TransactionIngestion` has towards its caller: `ClaimBatch`, `LoadPart`,
`HeartbeatBatch`, `CompleteBatch`, `FailIngestion`, `Rollback`, `FailBatch`. `masked`
records that the `RuntimeError` of `fail_batch` has replaced the first exception. `id`
is the `pipeline_run_id`, which is what makes an UPDATE miss a row that was
rolled back.

**ScheduledPipeline** extends it by one variable, the state Airflow shows for the
task of each logical run. Every step is a step of the runner joined with what
Airflow makes of it, except `NextDay`: the DAG runs daily, one run at a time, and the
tasks of all days name one logical run, since the `{{ ds }}` of its id is not rendered in the
body of a task (`retailpulse_pipeline.py:84`).

**AnalyticsBuild.** Orders are numbered in the order in which they are committed,
which the theorems `OrderIdsHaveNoHoles` and `OrdersAscend` justify, so the
source is one number; the items of an order are one unit, which `ItemsFollowOrders`
justifies. `wh` is the committed
warehouse, `pend` each builder's pending writes. The four marts are alike up to
which orders and items they count; two of them are enough to be between marts.

**ReferenceData** keeps the five tables (`rows`), what a session has inserted and not
committed (`mine`), what is left of its bootstrap (`todo`) and what its ingestion has
read (`known`). `Supply` is the number of rows a bootstrap generates: the configured one, except for
categories, of which `generate_categories` always makes the same (`RootCategories`). Only rows that are ACTIVE or OPEN are offered to orders; the model's rows
are those, and an ingestion that finds none is a `FailIngestion`. An attempt is `CheckReference`, `InsertRow` (`ON CONFLICT DO NOTHING`,
which waits for an uncommitted row of the same id), `FinishBootstrap`,
`ReadReference`, `CommitPart`; it ends by `Exit`, `FailOutsideIngestion` (no rollback:
the exception passes no handler that has one), `FailIngestion` (the rollback takes
the reference rows along) or `Crash`, and `Retry` repeats all of it. A build reads and
upserts a dimension per step (`LoadDimension`) and then resolves orders and items
(`LoadFactOrders`, `LoadFactItems`), each with its own read of the source.

**CustomerDimension** has the source's history as an observer, so that versions
can be compared with what was true. Builds run one after another here because each holds
the dimension's row locks to its end (`LoadDimensions` of `AnalyticsBuild`).
Assumed of the source system, which is not part of the repository: every change
of a customer gets a later `updated_at`, and an order is stamped with the time
it is placed.

## 3. What the runs check

Passing runs:

| run | instance | what it shows |
|---|---|---|
| `IngestionTwoBatches` | 2 sessions, 2 batches, 3 orders of one or two items in parts of 2 and 1, one counted retry, called in a transaction as the runner does; 0.4 million states | ids are contiguous (`NoHoles`), become visible in order (`CommitsAscend`), a retry never duplicates a logical order (`NeverLoadedTwice`), part 1 pins ids only with data (`PinnedWithData`), COMPLETED parts and batches have their data and are final, item ids follow the orders without a hole (`ItemsFollowOrders`), a verdict is stored only together with the completion it allowed (`VerdictComesWithCompletion`), nobody takes up a batch whose process died (`AbandonedStaysStarted`), and ingestion implements `OrderLog` (`AppendsWholeParts`) |
| `IngestionLiveness` | 2 sessions, 2 batches, no retry | every call ends: no circle of row locks and of uncommitted order and item ids (0.2 million states) |
| `RunnerConcurrent` | 2 sessions, 4 calls of run or resume on one logical run at once; 0.5 million states | however runs collide, SUCCESS is backed by both stages, ingestion is skipped only when it is done, stored attempts have no gaps |
| `RunnerSerial` | the same, never two calls at once | every behaviour refines `RunLifecycle`, in which SUCCESS is final; a quality failure is not retried; every call ends |
| `ScheduledTasks` | 2 workers, 4 calls, 2 attempts of the task, so that a second day begins after the first | a green task has left a stored run; a FAILED run is not executed again by the retry or the next day; every task ends |
| `AnalyticsBuilds` | 2 builders with 2 attempts each, 2 orders on 2 dates, 2 marts; 0.2 million states | nothing below a watermark is missing, watermarks never go back, marts have whole orders, a successful build is complete, every build ends |
| `CustomerVersions` | 1 customer, 2 segments, 2 cities, 4 changes, 2 orders; 2.5 million states | versions are a chain of segments that were true and are never rewritten; a successful build shows each customer as it was read; facts of later orders refer to the same version or a later one (`FactsFollowVersions`) |
| `ReferenceBootstrap` | 2 sessions, the second configured for one store more and for a category more than are generated (so that it bootstraps in every attempt), 1 order, builds one after another; 2.4 million states | an ingestion chooses among its whole reference data although bootstraps fail half-way, are rolled back and are repeated (`IngestsOnWholeReference`); bootstraps never wait in a circle (`NoCircularWait`); no order or item below a watermark is lost, whatever row arrived between two statements of a build (`NoOrderIsDropped`) |

Runs that refute something the source says of itself (the trace is TLC's):

| run | claim | what happens |
|---|---|---|
| `IngestionPartRollback` | "If any step fails, all three are rolled back" (`transaction_ingestion.py:561`) | the failure is that of the COMPLETED checkpoint of part 2. The connection is idle there, so `load_transaction_batch` has committed by itself, and when `process_transaction_batch` raises the orders are in the database. The invariant looks at the moment between that exception and `fail_batch_part`, for a part that has not been counted as loaded: neither a failing heartbeat nor a crash can violate it. Afterwards the rollback takes the FAILED of `fail_batch_part` back, the part stays STARTED, and the next attempt dies on its order ids |
| `IngestionQualityRange` | "Order-item count matches expected count" (`checks.py:117`) | the check's range of order ids is as long as the number of *items*, so the items of a later batch are counted too and a sound batch fails |
| `RunnerTwoExecutors` | "only one UPDATE affects a row" (`repository.py:187`) | the reopen is uncommitted, and ingestion's rollback gives the run back while its session still works on it |
| `ScheduledGreen` | the outer layer retries the run (`retailpulse_pipeline.py:20`) | the retry meets the stored run, is SKIPPED, and the task is green without a successful run |

Further configurations are kept beside these; each is run by hand as
`tlc -config <name>.cfg <MC module>`. The first two are further safety checks that
pass, the others end in a counterexample to the line they quote.

| configuration | module | question |
|---|---|---|
| `IngestionIdleCaller` | `MCIngestion` | the safety of `IngestionTwoBatches` without items when each call comes on an idle connection (0.3 million states); passes |
| `AnalyticsThreeOrders` | `MCAnalytics` | the safety properties of `AnalyticsBuilds` with a third order on a third date, and `WatermarksAgree` (0.6 million states); passes |
| `IngestionAnyCaller` | `MCIngestion` | reusing the ids of part 1 "is critical for deterministic recovery" (`transaction_ingestion.py:270`): a session on an idle connection and one in a transaction may both find no part 1, and the later one allocates new ids for the batch (`NoHoles` fails); only tests call on an idle connection |
| `ReferenceStores` | `MCReference` | "Fail loudly ... instead of silently dropping it from the JOIN below" (`order_fact_loader.py:113`): a store that was committed after the stores were read is lost from the fact for good |
| `ReferenceCategories` | `MCReference` | "Load order matters: products reference categories and suppliers, so those load first" (`build.py:197`): every table is read in a statement of its own, so rows committed in between give products without a category |
| `CustomerMart` | `MCCustomer` | "Grain: One row per customer." (`customer_performance.py:10`): grouping is by `customer_key`, which identifies a version since type 2, so one customer has two rows |
| `IngestionStartedCheckpoint` | `MCIngestion` | "The STARTED checkpoint is committed independently" (`ingestion_parts_repository.py:17`): for part 1 it is a savepoint |
| `IngestionFailedCheckpoint` | `MCIngestion` | "so that it survives the surrounding ingestion failure" (`ingestion_parts_repository.py:199`): the rollback discards it |
| `IngestionAllocation` | `MCIngestion` | "establishes the source ID allocation for the entire logical ingestion" (`ingestion_parts_repository.py:238`): another batch takes `MAX(order_id) + 1` inside it |
| `IngestionQualityReport` | `MCIngestion` | "persist the resulting quality report" (`quality/pipeline.py:22`): a failed one is rolled back by its own exception |
| `IngestionCompletion` | `MCIngestion` | "only after every physical batch has completed successfully" (`transaction_pipeline.py:72`): a late `fail_batch` makes another session mark a loaded part FAILED |
| `RunnerResult` | `MCRunner` | "persist the pipeline as FAILED" (`runner.py:577`): an early failure rolls the row back, and the result names a run that does not exist |
| `RunnerAttempts` | `MCRunner` | "Every retry attempt is persisted separately" (`stage_runner.py:42`): the FAILED update is lost in the next rollback |
| `RunnerQualityRetry` | `MCRunner` | "Data-quality failures are never retried" (`retry.py:53`): with two sessions, `fail_batch`'s own error takes the place of the quality error |
| `RunnerSuccess` | `MCRunner` | "already completed successfully; resume is a no-op" (`runner.py:195`): with two sessions, a late `fail_pipeline_run` overwrites SUCCESS |
| `CustomerAsOf` | `MCCustomer` | "as of any past date" (`customer_loader.py:19`): `valid_from` is the last change of any attribute, and states between two builds are missed |
| `CustomerOrders` | `MCCustomer` | "which segment a customer was in at the time of a given order" (`022_add_dim_customer_scd2.sql:4`): a fact takes the version that is current at load time |

**Bounds and why they are enough.** Ingestion: two parts are needed for a durable
part followed by another one and for a shorter last part; two sessions for every race;
two batches for a race for ids and a foreign batch behind one's own; two attempts for a
retry. An attempt that fails before its first commit takes its own count back with
the rollback and may be repeated any number of times, so two *counted* attempts include
longer sequences of retries. Orders with one and two items, of both parities, make the item
offset differ from any multiple of the order offset. Idle callers are covered by `IngestionIdleCaller`. That the safety properties of each component hold for every value of the constants is proved, with the exceptions
section 5 names. Runner: two sessions, two attempts per stage and
per batch, and four calls let a run fail, be resumed, lose its row, and be resumed by two
at once. Analytics: two builders collide on every lock; two orders are one
below and one beyond a watermark, with a date below the first; a third order is covered by
`AnalyticsThreeOrders`. Customers do not interact, so one is enough; four
changes are a version closed twice with a change between read and load, and two orders
are one on an old version and one on a new. Reference data: one row per table and a
second store (and a wish for a second category) are enough for a bootstrap that stops between any two tables and inside
one, for two sessions that insert the same rows, and for a row that arrives late; the
watermarks over several orders are `AnalyticsBuilds`' concern, so one order does. Named
bounds in guards are `MaxCalls`, `MaxOrders` and `MaxTime`; attempts are bounded
by the code itself. `CHECK_DEADLOCK FALSE` stands only where the bounds or
finished tasks leave nothing to do; in ingestion deadlock is checked, since a
session may always call again.

**Symmetry** is used in safety runs only, over sessions, batches, runs or
builders, none of which the modules tell apart.

**Fairness.** A live process executes its next statement, and PostgreSQL serves
the waiters of a lock in a queue and fails one statement of a deadlock; so each
session's own steps are strongly fair (`SF_vars(Step(s))`; in ingestion over the joined steps
of `OrderItems`, `FairItemSpec`). A lock can be
released and taken again while one waits, which is why weak fairness would not
express the queue. Faults, crashes, new calls and ingestion's progress are never
fair. In `ScheduledPipeline`, Airflow's start of a due task is fair as well
(`Scheduled`). A call may end in a crash: `CallsEnd` and `TasksEnd` say that
nothing waits or loops for ever, not that it succeeds.

## 4. Known limits of the program that the models show but do not flag

* A process that dies after a part's commit leaves the batch STARTED and the run
  RUNNING for ever: only FAILED ones may be retried or resumed, and nothing fails
  a stale one. The repository's README names this.
* `reference_data_is_ready` compares counts. That every id an ingestion draws exists
  rests on ids being inserted from 1 in ascending order without gaps.
* A bootstrap that fails leaves its rows in the transaction of the run: they are committed when
  the stage gives up and lost when a later attempt's ingestion rolls back; either way the
  next check inserts what is missing.
* `logical_run_id` of the DAG is the literal `airflow-retailpulse-{{ ds }}` on every day
  (`retailpulse_pipeline.py:84`; the comment there calls the file a template): once the run is stored, the tasks of
  all later days are SKIPPED and green. `NextDay` is this; that such a task
  leaves the stored run alone is part of `StoredRunIsLeftAlone`.
* `config.categories` has no effect on what is generated. A session that wants more than the
  ten of `ROOT_CATEGORIES` is never ready and bootstraps in every attempt, to no harm:
  existing rows are left alone (`ON CONFLICT DO NOTHING`).
* `fail_pipeline_run` and `complete_pipeline_run` do not look at the status: with two callers of one logical run
  a late one overwrites SUCCESS (`RunnerSuccess`; `RunnerSerial` has one caller at a time and cannot show it).
* A batch retried with another `orders` or `batch_size` would mix two plans; the
  models keep the configuration constant, as the code's callers do.

## 5. What is proved

Every theorem is about all values of the constants. The runs check the same
properties on the small instances of section 3; each inductive invariant was also
checked by TLC on an instance before it was proved.

### Ingestion

`TransactionIngestionProofs` and `IngestionOutcomeProofs`: any sets of batches and
sessions, any number of orders, any batch size and any retry limit, for calls that
come on a connection in a transaction.

| theorem | property |
|---|---|
| `TypeCorrect` | `TypeOK` |
| `OrderIdsHaveNoHoles` | `NoHoles` |
| `OrdersAscend` | `CommitsAscend` |
| `OrdersLoadOnce` | `NeverLoadedTwice` |
| `PinsHaveData` | `PinnedWithData` |
| `Inductive` | the invariant `IInv` they follow from |
| `CompletedPartsAreLoaded` | `CompletedPartIsLoaded` |
| `CompletedBatchesAreWhole` | `CompletedBatchIsWhole` |
| `VerdictsComeWithCompletion` | `VerdictComesWithCompletion` |
| `CompletionIsFinal` | `CompletedIsFinal` |
| `AbandonedBatchesStay` | `AbandonedStaysStarted` |
| `ImplementsOrderLog` | `AppendsWholeParts`, the refinement of `OrderLog` |
| `OutcomeInductive` | the invariant `OutcomeInv` the last six follow from |
| `ItemsBelongToOrders` | `ItemsFollowOrders` of `OrderItems` |
| `ItemInductive` | the invariant `ItemInv` it follows from |

Assumptions: `ConfigAssumption` (positive orders, batch size and attempts) and
`NoWriteAssumption` (the marker is not a row). `RunnerCalls` is a hypothesis of each
theorem: the only caller outside the tests is
`runner.py:318`, and the SELECTs of `reference_data_is_ready` before it have begun
a transaction. The hypothesis is needed: with callers of both kinds `NoHoles` is false
(`IngestionAnyCaller`).

The ids. `MAX(order_id) + 1` is read without a lock, so a session's plan can
be stale when it loads. What saves the ids is this: when a session plans, its
start follows an id that is visible (`StartInv`, with `Reached`), and visible ids
never disappear. A stale plan therefore starts at or below the present maximum,
and loading it collides with the unique `order_id`; a plan that does load starts
exactly behind the maximum. For later parts of the same batch one needs that the
part before is loaded (`PrecedingInv`, `LoadedInv`) and for a retry that the ids
pinned by part 1 are those of orders that exist (`PinInv`, `PendingPinInv` for the
uncommitted row). `NoHoles` alone is not inductive; `IInv` is the conjunction of

* `TypeOK`, `Contiguous` (the committed ids are `1..n`),
* for each session `ClaimInv` (until part 1 is registered whoever works on a batch holds
  its row: without it, two sessions could both read "no part 1" and allocate),
  `SessionInv`, `PartInv` (which statement has what pending and whether
  the connection is open), `PendingInv` (pending ids are one part's, disjoint from
  committed ones), `StartInv`, `PrecedingInv`, `LoadedInv`, `PendingPinInv`,
* for each batch `PinInv`, `CompletedInv`, and `PinnedWithData`, `NeverLoadedTwice`.

The proof has one lemma per group of conjuncts and kind of step: a session changes only its own
batch and pending rows (`OthersStay`, `OthersKeep`), orders grow only by the
next ids (`OrdersGrow`, `Extension`), registered parts stay registered
(`RegisteredStays`), and then `...Kept` for each conjunct; `IInvStep` puts them
together and the theorems add the temporal step.

The outcome. Once part 1 is registered, every attempt plans from the start it pins
(`StartsAgree`), so the rows of all attempts agree on where a part begins; a session that gets past
part k, by loading or by skipping it, knows its own range for part k to be loaded, and behind the
last part the ranges add up to `config.orders`. Completion and verdict
wait for the caller's commit as one transaction that holds the row of the batch.

The items. `MAX(order_item_id) + 1` is read without a lock as well, after the maximum of the orders.
`ItemInv` says that committed and pending items are exactly the blocks of ids of the committed and pending
orders (an order's block begins behind the items of all orders before it), that ids pinned together
belong together (`PinnedItems`, `PendPinInv`), and that a session that can still load has
the item id at which the block of its next order begins (`ItemStartInv`). A session whose item id is stale has a
stale order id too, so that its load fails on the orders before it reaches the items. That
the items of adjacent ranges add up, and that a sum does not depend on the order in which it is taken, is
proved for all ranges by least counterexample (`SumsAgree`, `ItemsInWithout`, `ItemsSplit`). The hypothesis
`ItemCounts` says that an order has a natural number of items; the generator draws a positive one.

### Runner and schedule

`PipelineRunnerProofs`: any logical runs and processes, any numbers of parts, attempts and calls.

| theorem | property | callers |
|---|---|---|
| `RunnerTypes` | `TypeOK` | any |
| `SuccessIsBackedByRows` | `SuccessIsBacked` | any |
| `IngestionSkippedOnlyWhenDone` | `SkippedIngestionIsDone` | any |
| `AttemptsAreInOrder` | `AttemptsInOrder` | any |
| `QualityFailureEndsTheRetries` | `QualityFailureNotRetried` | one at a time |
| `RunsFollowTheLifecycle` | `RunsFollowLifecycle`, the refinement of `RunLifecycle` | one at a time |
| `SuccessIsFinalAlone` | `SuccessIsFinal` | one at a time |

The first four hold however many processes run or resume one logical run at once.
`IInv` says of each session where it is (`ControlInv`), that the rows it *sees* of its
own call, committed or pending, are in order and the current one is where the program counter
says (`RowsInv`), that the batch row has one writer (`PendingBatchInv`), and that whoever
is past ingestion, or skips it, finds it committed (`DoneInv`, `StoredInv`). Rows are lost only
all together, in ingestion's rollback, which is why what a session sees stays in order when what is stored does.

The last three have the hypothesis `OneAtATime = TRUE`, as `RunnerSerial` has. It is needed:
`RunnerTwoExecutors`, `RunnerQualityRetry` and `RunnerSuccess` are counterexamples without it. `SerialInv`
adds that the session is alone with its run (`Alone`), that the run's row is RUNNING under
the id it works for while stages are executed (`SerialRunInv`), and that an
attempt's row is committed together with the batch it has claimed
(`SerialBatchInv`): so where `fail_batch` finds nothing to fail, the rollback has taken the attempt's
row too, and `fail_stage_run` ends the retries.

`ScheduledPipelineProofs` proves of the Airflow task, for any number of workers and task
retries, `TaskTypes` (`TaskTypeOK`), `GreenTasksHaveRuns` (`GreenHasARun`),
`RetriesLeaveStoredRunsAlone` (`StoredRunIsLeftAlone`) and `ScheduledRunsFollowTheLifecycle`
(`RunsFollowLifecycle`), without a hypothesis about the callers: a call makes its task running until it ends
(`TaskOfCall`), no call is made for a task that is running, and a new day begins only when the task has
ended, so the task is what keeps a call alone.

### Analytics

`AnalyticsBuildProofs`: any number of builders, orders, marts and attempts, any dates.
`BuildTypes` (`TypeOK`), `NothingBelowWatermarksIsLost` (`WatermarksAreCovered`), `WatermarksMoveTogether` (`WatermarksAgree`),
`MartsCountWholeOrders` (`MartsHaveWholeOrders`), `WatermarksOnlyAdvance` (`WatermarksNeverRegress`),
`SuccessfulBuildIsComplete` (`BuildIsComplete`).

Whoever has locked the dimension rows is alone with facts, marts and
watermarks until its transaction ends, and the others have at most dates pending. So the watermark a build
reads from is still the committed one when it writes, and what it reads begins behind the watermark
and ends behind every order that is a fact, whichever failed attempt has
loaded it. None of the properties is inductive without what a builder holds at each step of its
attempt (`BuilderInv`).

`ReferenceDataProofs`: any finite set of sessions, any configured sizes, any number of orders.
`ReferenceTypes` (`TypeOK`), `PartsUseWholeReference` (`IngestsOnWholeReference`), `BuildsDropNoOrder`
(`NoOrderIsDropped`), `BootstrapsNeverDeadlock` (`NoCircularWait`).

What a session sees of a table is always `1..n` for some n, also after a bootstrap that
was rolled back, so counting rows is as good as looking for them (categories excepted, of which more or fewer may be
wanted than there are; ingestion does not draw from them). A
session that holds uncommitted rows of a table sees all rows of the tables before it, so it
waits only for rows greater than any it holds; a circle would have a greatest one. That
the set of sessions is finite is what makes it so (an infinite chain of waits is no circle, but has no end
either). A build covers the rows up to what it has read before it remembers how far it has read.

`CustomerDimensionProofs`: any customers, segments and cities, any number of changes and orders.
`CustomerTypes` (`TypeOK`), `VersionsChain` (`VersionsAreAChain`), `SegmentsWereTrue` (`VersionsWereTrue`), `LaterOrdersLaterVersions`
(`FactsFollowVersions`), `ThePastIsKept` (`PastIsKept`), `BuildsAreCurrent` (`BuildIsCurrent`).

Nothing in the dimension is newer than the source, and what is as new as a row that was read shows that row
(`Fits`), because the time of a change determines segment and city. So a load either finds the current version with
the row's segment and refreshes it, or finds it older than the row and so closes it and opens the next (`LoadedVersions`:
the three statements together do one or the other). `Chain`
strengthens `VersionsAreAChain` by `from <= updated` and by the k-th version starting at time k at the earliest.
The invariant holds of the committed warehouse and of the running build's; `BuildInv` relates the two.

### How the proofs go

Each has one lemma per action (or group of actions that the invariant does not tell apart), a lemma that all of
them preserve the invariant, and a temporal step. Where a set of numbers has to have a
least or greatest element, or a statement has to hold for all numbers, the proofs take the least
counterexample (`NumberSets`), since the prover cannot instantiate the induction theorems.

Every invariant that a passing run checks is stated by a theorem. Only model-checked is all
liveness (`CallsEnd` of ingestion and of the runner, `TasksEnd`, `BuildsEnd`), which rests on fairness and ENABLED and is
out of the prover's reach.

## 6. Not modelled, and why

The values of generated rows, type 1 attributes of products, stores, categories and
suppliers and the amounts in facts and marts: no control depends on them. The
quality checks for orphans, NULLs and sums, which generated data always
passes. Retry delays. Observability and inspection (`observability/`,
`ingestion_observability.py`, `inspect_batch.py`): they read committed rows and print
them, and nothing reads what they return. The helpers in `generators/` that nothing
calls. `PROJECT.json` lists each with its files.

## 7. Plan

Done: all components of section 2 with their runs; all invariants, the action properties and both
refinements are proved.

Next: what `SuccessIsFinal` and `QualityFailureNotRetried` would need of the runner to hold without the hypothesis
that a logical run is run once at a time (a lock on its row, say).
