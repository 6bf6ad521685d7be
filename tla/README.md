# A TLA+ verification of YasinPress

YasinPress fetches news feeds, normalises and filters the items, queues each
article once per destination (PWA feed, RSS feed, Eitaa channel) in a SQLite
table, and publishes the queue under an hourly limit with leases, retries and
idempotency keys. The specifications in this directory model the path from a
feed item to an acknowledged delivery: its database, its two publication
engines and the direct path beside them, the life of the processes that run
them, their jobs, schedulers and watchdogs, and the ways their steps
interleave, fail and die.

## 1. Inventory

| Component | Source (`src/yasinpress/`) | State | Operations | Hard parts |
|---|---|---|---|---|
| SQLite store | `database/sqlite.py` | tables articles, publication_queue, delivery_history, idempotency_keys | upserts (one commit each), eligibility and staleness queries | one row per key is overwritten by every writer |
| Feed ingestion | `pipeline/application.py`, `pipeline/service.py`, `processing/normalization.py` | the batch in memory | normalise, filter, `add_job`, `save_many` | many commits per batch; reads first, writes last |
| Queue processor | `publishing/queue_processor.py` | the claimed batch in memory | recover leases, select and claim (one transaction), publish and acknowledge (five commits a job) | several processes, crashes, slow cycles, lost replies |
| Queue engine | `publishing/queue.py` | the claimed job | `claim_next`, `run_once`, `mark_success`, `mark_failure`, `recover_expired_leases` | several workers, order of the commits, re-reads |
| Publication worker | `runtime_worker.py`, `runtime_scheduler.py` | tick count | recover, publish one, report | as the engine |
| Runtime | `runtime_factory.py`, `runtime.py`, `cli/main.py` | stop flag | build (migrate, check, recover jobs), tick, stop, close | processes of several commands start on one database |
| Schema migrations | `database/migrations.py` | the articles table | create, add columns, rebuild the table | many statements; failures and deaths between them |
| Scheduler, job worker, job rows | `scheduler/*.py`, `recovery.py`, `database/jobs.py` | interval task, queue, lifecycle rows | `run_due`, `run_once` with attempts, `recover_jobs` | a job lives in a row and in a queue; saves fail |
| Callback scheduler, tick watchdog, reports | `scheduler/callback_scheduler.py`, `watchdog.py`, `monitoring/*.py` | stop event, lock, last tick, failures, last report | `run`, `run_once`, `stop`, `record_*`, `status`, `dispatch` | several threads; a tick that hangs |
| Heartbeat watchdog | `scheduler/watchdog.py` | heartbeats, attempts, last recovery | `register`, `touch`, `inspect` | threads report during an inspection; bounded recovery |
| Direct publishing | `pipeline/service.py`, `publishing/orchestrator.py`, `publishing/reliability.py` | keys and history, in tables or in memory | select, publish to every destination with retries, record, mark | partial failure over destinations, lost replies |
| Feed files | `publishing/pwa.py`, `publishing/rss.py` | a file | read, merge, truncate, replace | an article published again; two processes on one file |
| Source health | `sources/manager.py` | health per source | `ingest_source`, record success or failure | a source is disabled for good |
| AI adapters | `ai/*.py` | none | call with attempts and timeout, fall back | retries within fallbacks; abandoned threads |
| Parsing, classification, duplicates, API, configuration, backup, job file, caches | the rest | none, or read by nobody | pure functions, adapters | none a model checker reaches |

The publication path shares one database and nothing else: ingestion writes
articles and queue rows; an engine claims rows, calls a publisher and writes
rows, history, keys and the delivery time of the article; the next ingestion
reads that delivery time and those keys. The application the command line
builds uses the queue processor (`runtime_factory.py`, `tick`). The queue
engine is the public API `publish_once` / `publish_pending` and
`PublicationWorker`, the direct path is `ProcessingService` without a queue;
the repository itself drives both from tests. Job rows live in the same
database, next to the publication tables and without any relation to them.

What makes each of them correct: a delivery is acknowledged only after it
happened and after its key is durable; a key never lies; nothing reaches
readers twice or in the wrong order; the hourly limits hold for what readers
saw; claims exclude each other and never strand a job; updates and retries are
not lost; a migration leaves the old table or the new one; a job row says what
happened to the job; ticks do not overlap and go on; recoveries and retries are
bounded; a feed lists the latest articles.

## 2. Modules

| Module | Models | Kind |
|---|---|---|
| `PublicationStore` | the tables, their queries and upserts, the channels, the clock | shared state |
| `FeedIngestion` | `process_items` with a queue | component |
| `PublicationSlots` | what `_select_new_articles` promises of its result | abstract specification |
| `ArticleSelection` | the loops of `_select_new_articles` | algorithm, checked against `PublicationSlots` |
| `QueueProcessor` | `PublicationQueueProcessor` | component |
| `QueueEngine` | `SQLitePublicationQueueEngine` | component |
| `RuntimeTick` | ingestion and processor in one tick, on one database | composition |
| `ProcessorPool` | several processors on a backlog | composition |
| `WorkerPool` | ingestion and several engine workers | composition |
| `RuntimeHistory`, `WorkerHistory` | `RuntimeTick` and `WorkerPool` with a history variable each | composition |
| `DeliveryContract` | at-least-once delivery with durable acknowledgement | abstract specification |
| `SchemaMigration` | `migrate`, statement by statement | component |
| `Supervision` | start-up, job scheduler, worker, job rows, stop, death; on top of `SchemaMigration` | composition |
| `RuntimeScheduling` | `RuntimeScheduler`, the tick watchdog and the hourly reports | component |
| `Heartbeats` | the heartbeat watchdog | component |
| `SourceHealth`, `FeedFile`, `Enrichment` | sources, feed files, the chain of AI adapters | components |
| `DirectPublishing` | `ProcessingService` without a queue, on top of those three | composition |
| `*Proofs` | theorems | proofs |
| `MC*` | the articles, sources and priorities of the small instances | model checking |

### Correspondence with the code: the publication path

* **One commit, one action.** `articles.save`, `add_job`, `history.add` and
  `idempotency.mark` each commit; each is an action. `BEGIN IMMEDIATE` blocks
  (lease recovery, selection with claiming, `claim_next`) are one action.
  Between two actions another process may run, the clock may advance, the
  process may die. A read that another process can make stale before it is used
  is an action too: the feed and the stored articles (`Fetch`), the keys after
  the enrichment (`Filter`), the row that `mark_success` and `mark_failure` load
  and then save (`ReadSucceeded`, `ReadFailed`).
* **Memory.** `cycle[p]`, `claim[w]`, `intake[p]` and `batch` are what a process
  holds in local variables: the time it read at the start, the rows it claimed
  (its own copies, saved back later), the article it loaded. A crash empties
  them. An exception that ends a tick has the same effect, and is the same
  action.
* **Rows.** A queue row has status, attempts, lease, next attempt and creation
  time. Priority and source are constants of the article. Zero is a NULL
  column. `delivered` is the history: the time of the success record or zero,
  because a failure record replaces it.
* **Versions.** The news timestamp stands for the version of an article, as in
  the version key. The fetcher passes only publication dates on, so a date is
  the publication date the feed prints (`NewsTime`), zero if none. No code
  bounds it from above, so feeds list dates before they come and correct them
  to earlier ones. Callers of the direct path may pass update times as well
  (`DatesOf`).
* **Publishing.** A publisher may deliver, refuse, or deliver and lose the reply
  (`Outcome`). `posts`, `lastPost`, `reposts`, `unsettled` and `written` record
  what readers saw; no guard of the code reads them.
* **History.** `early` holds the dates that were listed before they came,
  `disturbed` what went wrong with the claims so far (a row that another process
  saved, an article it redated, a lease that expired, a lost reply, a death).
  The properties that the code owes only in their absence say so by these
  variables. `NextH` is `Next` with them, and they constrain no step.
* **Selection.** `QueueProcessor` claims any batch that `FairSelection` allows.
  `ArticleSelection` runs the loops of the code and checks that they end in
  such a selection, and that there is only one when ages differ.
* **Direct path.** `batch` is the call of `process_items` in progress, with its
  phase. `Enrich`, `Visit`, `WriteFile`/`Post`/`FailToSend`, `Record`,
  `MarkVersion`, `MarkLegacy`, `FinishArticle` and `SaveItem` follow the order
  of the calls in the service, the orchestrator and the reliable publisher.
  `durable` says whether keys and history are tables or the in-memory defaults.
* **Time.** A tick of the clock is longer than the five second tolerance. `Prompt`
  says whether a cycle ends before the clock advances; it is FALSE wherever a
  property should survive slow cycles.

### Correspondence with the code: processes, jobs, schedulers

* **Migration.** Each statement of `migrate` is an action on the savepoint of
  its process (`change[p]`); `table` is what is committed. SQLite lets one
  connection write, which `writer` stands for; a commit waits for the
  savepoints that have read. A failed statement and a death roll back.
* **Jobs.** `rows` are the rows of the jobs table, `process[p]` is the memory of
  a process: the queue, the lifecycle object it executes, the rows `recover_jobs`
  has read and not yet saved. `Submit`, `Pick`, `Attempt` and `SaveResult` are
  the saves of `add_job` and `run_once`; with `StoreFails` each may raise,
  which loses what the code loses. `handled` counts completed handlers and is
  read by nothing.
* **Threads.** `thread[t]` is the point a thread has reached in `run`,
  `run_once`, the worker's tick and `dispatch`; one action for each read or
  write of shared memory. The watchdog stores its time and its counter one after
  the other, so a reader may come in between.
* **Inspection.** `inspection` is the loop of `inspect`: the names the iteration
  began with, the one whose callback runs. Threads touch and register at any
  moment; a new name makes the iteration raise.

Left out: texts, AI results, error messages, report output, and the variants
of the code for repositories without a connection, which nothing builds.
External, modelled from their use: the channels, the clock, process death, the
items a feed lists.


## 3. Runs

`tlc -config <name>.cfg <module>`, small enough to run in minutes on two cores.

| Run | Module | What it shows |
|---|---|---|
| `RuntimeCrash` | `MCRuntimeTick` | One process, one article, two dates, every outcome, death between any two commits, a clock that runs on during cycles. A succeeded job has its key (`AcknowledgedHasKey`); a key has a post (`KeyHasPost`); a marked version is never posted again (`MarkedNeverReposted`); the delivery contract is implemented (`ImplementsContract`) |
| `RuntimeFanOut` | `MCRuntimeHistory` | Two destinations, three dates that feeds may list before they come, rejected publishes, no death and no lost reply. `NoReposts`, and no destination gets an older version after a newer one, unless the newer was listed before its date (`NeverRegresses`) |
| `PoolTurns` | `MCProcessorPool` | Two processes, three articles of two sources and two priorities, two slots, backlog of two ages. `LeasesExclude`, `NoReposts`, `HourlyRate`, `SlotsWithinLimits`; together the two implement the delivery contract, and what one acknowledged stays acknowledged (`ImplementsFinalContract`) |
| `PoolRecovers` | `MCProcessorPool` | Two processes that die at any step, cycles slower than the lease. A claim ends (`ClaimsEnd`, liveness) |
| `Selection` | `MCArticleSelection` | Every queue of five articles of two sources and two priorities, queued or claimed at five ages, three slots: the selection loops end, in a fair selection, and in the only one when ages differ |
| `WorkerCrash` | `MCWorkerPool` | One engine worker that dies at any step, on a backlog of four articles of three sources, with two slots in all and one for each source. `SlotsWithinLimits`, where either limit refuses what the other allows |
| `WorkerOverlap` | `MCWorkerHistory` | Two engine workers beside an ingestion, leases that expire under a claim, recoveries, deaths, lost replies, rejected publishes, updates. A key has a post (`KeyHasPost`); claims on a row that no other process saved exclude each other (`ClaimsExclude`); a version is posted twice only if a claim on its job was disturbed (`RepostsExplained`); of a job left alone only posted versions, or older ones, are acknowledged and marked (`AcknowledgesPosted`) |
| `Supervision` | `Supervision` | A runner and a command that only starts up share a database of any older schema; both start, fail, stop and die at any step, and saves of job rows may raise. The committed schema changes once (`MigrationAtomic`); finished rows tell what happened (`RecordedTruthfully`) and change only by a start-up that read them running (`RecordsStable`); the loop starts without leftover running rows (`RecoveryComplete`); a queued job leaves its process (`QueuedJobsEnd`, liveness) |
| `Operations` | `RuntimeScheduling` | The loop and a second thread that calls `tick_once`; recovery, publisher, snapshot and sender return or raise; stop at any time, restarts. `SingleFlight`, `ReportsPaced`, `FewLateTicks`, `HangDetected`, and ticks go on (`TicksGoOn`, liveness) |
| `Heartbeats` | `Heartbeats` | Two components register, touch and fall silent while an inspection with or without a recovery callback runs. `RecoveriesRationed` in time, `RecoveriesBounded` in number, and `SilenceNoticed` (liveness) |
| `DirectPipeline` | `MCDirectPublishing` | Two articles, one with an update, one of a polled source; two AI providers; a feed file and a channel; durable or in-memory keys; every failure, lost replies, death at any step. Types, `NoReposts`, `AcknowledgedReceived`, `RecordedRate`, `FeedsLatest`, `GivenUpJustly`, and every step brings a batch nearer to its end (`BatchAdvances`) |
| `LostRetry` | `MCRuntimeTick` | a counterexample, see section 4 |

### Bounds

* One or two articles for the runtime, because articles meet only in the limits;
  three for the pool (a source that is full beside one that is not, and an urgent
  article) and five for the selection (a pass over the sources that must be
  resumed).
* Two processes or workers: the races found need a claimant and one other.
* `Hour = 2`, `Lease = 1`, `BaseBackoff = 1`, `MaxTime` 2 to 4. A lease expires,
  a retry falls due and, where `MaxTime` is 4, a delivery leaves the
  window while a later one enters it. The code's ratios differ (an hour, 60
  seconds, 60 seconds); what counts is that each expires alone.
* `MaxAttempts = 2` reaches the retry and the dead letter. `MaxItems = 1` bounds
  a batch of feed items where batches do not look at each other's items.
* `Tolerance = 0`: the five seconds of the code are less than a tick.
* `WorkerCrash` starts with all articles queued. Two of them share a source
  with `MaxSource = 1 < MaxGlobal = 2`, so the source limit bites with a slot
  free, and the other two fill the slots with no source full. Ingestion adds
  nothing to a count, and is left to `WorkerOverlap`. `MaxTime = 2 = Hour`: no
  delivery leaves the window, which `OneWorkerKeepsLimits` covers.
* `WorkerOverlap`: one article and one destination, because what the properties
  speak of happens on one row. `MaxTime = 2`, `Lease = 1`: a claim outlasts its
  lease, is recovered and competes with its successor. The constraint
  `SomeRowKept` stops where the row of the only job was saved by another process
  under a claim: `disturbed` only grows, so `ClaimsExclude`, `RepostsExplained`
  and `AcknowledgesPosted` hold of such a job from then on, and `KeyHasPost` is
  proved without the constraint. One destination leaves the exception of
  `AcknowledgesPosted` for a second one unused; with two destinations, 16 million
  states, nothing else is violated.
* What a bound hides from one run another run or a theorem covers. `PoolTurns`
  has prompt cycles and no updates, so no lease that is held expires there:
  `WorkerOverlap` and `PoolRecovers` have those leases. In `DirectPipeline` no
  record leaves the window and in `Heartbeats` `Cooldown = StaleAfter + 1` makes
  the two cases of the gap coincide: `RecordsKeepTheRate` and
  `RecoveriesAreRationed` hold for all values.
* `Supervision`: two processes of which one is a runner, two jobs, two attempts.
  A second job shows that the next fetch does not disturb the row of the first;
  the second process is the one that recovers rows of jobs that still run. One
  column, one article and one index suffice because `migrate` treats each alike;
  all older tables are initial states. `Job` bounds how often a fetch is
  submitted: ids are never used twice.
* `Operations`: `MaxTime = 3` with `ReportInterval = 2` and `StaleAfter = 1`, so
  that two intervals begin and a tick can hang past the limit. `FailureCap = 1`
  counts failures up to "some", which is all that `status` asks.
* `Heartbeats`: `MaxTime = 6`, `StaleAfter = 1`, `Cooldown = 2`,
  `MaxRecovery = 2`: time for both recoveries of a component and a third that
  must not come.
* `DirectPipeline`: one slot for two articles makes the limit bite;
  `GiveUp = 2` (three in the code) and two attempts reach the last one and the
  one before; the file starts full but for one item, so a third article pushes
  one out. `MaxTime = 2` lets an update follow its article and a batch outlast
  the tick it began in.
* Symmetry: the processes of `PoolTurns`, the workers of `WorkerOverlap`, in
  `WorkerCrash` the articles of one source and the sources of one article. Their
  properties, actions and initial states treat these alike. No run with liveness
  uses any.

`CHECK_DEADLOCK FALSE` stands in the runs of the publication path only: there
the clock is bounded, feeds need not list anything and the selection algorithm
ends. The runs of the other modules check that nothing blocks.

### Fairness

* `PoolFairness`: the clock advances and each process starts cycle after cycle
  and goes on with the one it runs. `Runtime.run_forever` (`runtime.py`) ticks
  in a loop that swallows the failure of a tick. Death is never fair and never
  excluded: `ClaimsEnd` holds although a process may die in every cycle, because
  the recovery of leases is the first step of each.
* `SelectionSpec`: the loops run on.
* `Supervision`: a process that runs goes on (`Advance`). It need never be
  started, stopped or killed, and time need not pass.
* `RuntimeScheduling`: each thread goes on once called. Calls, stop, restart and
  the clock are not fair. A tick may take any time but not for ever; one that
  does is what `HangDetected` is about, which needs no fairness.
* `Heartbeats`: the supervisor goes on inspecting and callbacks return. A
  component need not report.
* `DirectPublishing` assumes none: `BatchAdvances` says of each step that a
  well-founded measure falls.

### Mutants

A definition whose name extends another's (`InterruptedAll`, `RecordAlways`,
`InsertedTwice`, ...) and whose comment begins with "Mutant" is that
definition with a plausible bug: a dropped test, an inclusive bound made
exclusive, a step skipped. No specification uses it. Each property of a passing
run is violated when the definition is replaced by its mutant.

## 4. Disagreements with the documents

`LostRetry` ends in a counterexample. The failed publish of an update records a
failure over the success of the previous version. The retry finds the article's
key, no success record, and takes the update for delivered: it is acknowledged
and never posted. `README.md:46` says a failed destination "can be retried later
without re-publishing the successful destination".

The models show more behaviours of this kind, which no run of its own records.

Publication queue:

* a fetch of an article that is not delivered yet queues it again with no
  attempts and no backoff, over a retrying or dead row
  (`docs/runtime-contract.md:68`: "retry/backoff: bounded and persistent");
* a success record overwritten by a failed update no longer counts against the
  hour, though readers saw the post (`docs/production-test-plan.md:49`: "retries
  do not bypass the global limiter.");
* a cycle that outlasts its lease writes its row over the claim of another
  process and so releases it (`docs/runtime-contract.md:18`: "overlapping
  scheduler ticks cannot duplicate work");
* the engine compares the version with the delivery time of the article, which
  the first destination has just set; the second is acknowledged without a post
  (`README.md:46`: a "successful PWA delivery does **not** mark the RSS
  destination as delivered");
* a process that dies after a post and before the keys posts again after its
  lease (a run with `Crashes = TRUE` and `NoReposts`);
* an update dated before the delivery of the previous version is marked as
  delivered without a post (`QueueProcessor` line "`ts <= delivered[j]`");
* a date that comes later lets an older version follow a newer one: a feed
  dates an article into the future, it is posted, and the feed corrects the date.
  The correction is queued again (`pipeline/service.py:204`), is later than the
  delivery, which is all that `publishing/queue_processor.py:242` compares, and
  is posted (`RuntimeFanOut` without the exception for `early`);
* a process that dies between queueing an article and saving it leaves a job
  that the next cycle makes a dead letter at its first attempt;
* the engine counts neither the claim nor the success between two of its
  commits, so that a second worker takes one slot too many (with two workers,
  ingestion or not); after the first of them a death leaves a succeeded job
  without key;
* the engine marks the version it reads after publishing, not the one it
  published, and an ingestion that runs beside it makes its claim pending again,
  so that two workers hold one job under running leases (`WorkerOverlap` without
  the exceptions).

Jobs and start-up:

* `status` and `health` build a runtime and so recover jobs on the database of a
  live runner (`cli/main.py:159`, `recovery.py:18`): a running row becomes
  pending, and a row that finishes between the read and the save is rewritten;
* a recovered row is pending in the table and in no queue: the job is not
  executed again, though the next fetch does its work
  (`docs/production-readiness.md:13`, `docs/release-gate.md:55`). The recovery
  hook of `Runtime` is not set by `build_runtime`.

Schedulers and watchdogs:

* the time of the last report is memory: a restart, or a sender that raises after
  it delivered, reports the same hour twice
  (`docs/scheduler-watchdog-contract.md:77`: "must not publish the same hourly
  support report twice after a scheduler restart"). `ReportsPaced` counts
  confirmed reports of one process; two of them may be closer than the interval
  by the length of a tick;
* a tick that took longer than `stale_after` is recorded with the time it began,
  so the watchdog is stale right after its success; a reader between the two
  stores of a failed tick may see a healthy watchdog;
* lease recovery that always raises keeps the tick from ever publishing; a tick
  may begin once after `stop`;
* a component that registers during an inspection breaks it off with a
  RuntimeError; a touch restores no attempts, and a recovery that fails can mark
  failed a component that has just reported;
* the success of a recovery sets the heartbeat back to the time the inspection
  began, before a touch that came meanwhile
  (`docs/scheduler-watchdog-contract.md:48`, `docs/runtime-contract.md:31` ask
  for bounded and rate-limited recovery, which holds).

Direct path:

* an article with an update time of the source but none in the item is skipped
  as delivered by its legacy key; with keys left to memory every restart posts
  again, and without history there is no hourly limit;
* the limit is compared with records, one for each destination of an article, so
  two destinations use it up twice as fast; a failure replaces the record of an
  earlier success, so readers may see more than the limit;
* the newest articles take the slots of a batch, and one that keeps failing takes
  its slot again each time (`pipeline/service.py:131-135`); delivered articles
  are enriched again in every batch;
* a feed that answers with malformed content never reaches three failures in a
  row, since the fetch resets the count; a source that did is never polled again
  in the life of the process.

These are why the passing runs say what they say: `NoReposts` of the queue is
stated without crashes, `LeasesExclude` with cycles that end before the clock
advances, `HourlyRate` without updates, `NeverRegresses` of versions that were not
listed early, `ClaimsExclude` of rows that nobody else saved, `RepostsExplained` and
`AcknowledgesPosted` of jobs left alone (the latter until a second destination has
the article), `SlotsWithinLimits` of the engine with one worker, `RecordsStable`
with the start-up it names, `RecordedRate` for articles and for durable records.

## 5. Proofs

The theorems hold for every set of processes, workers, threads, components,
articles, sources and destinations and every value of the other constants that
the `ASSUME`s of the modules allow (durations and limits are naturals, a lease is
not zero), under the further assumptions of the table. TLC evaluates the `ASSUME`s
in each run. `finite` means `IsFiniteSet(Article)`, without which a number of
articles is no number; `DirectAssumption` has it for articles and sources, since
the batch of the direct path ends only if there are finitely many. `reliable`
means `~Crashes` and no `"lost_reply"` in `Outcome`: the process does not die, and
what a destination received is reported as received. Without it a version is
posted twice, by design: delivery is at least once.

| Theorem | Statement | Further assumption |
|---|---|---|
| **`RuntimeTickProofs`** | | |
| `TypeCorrect` | `Spec => []TypeOK` | none |
| `AcknowledgedIsKeyed` | `Spec => []AcknowledgedHasKey` | none: any number of processes that die, are slow, and ingest at the same time |
| `KeysVouchForPosts` | `Spec => []KeyHasPost` | none |
| `RuntimeImplementsContract` | `Spec => ImplementsContract` | one process |
| `KeysHold` | `Spec => MarkedNeverReposted` | one process |
| `RuntimePostsOnce` | `Spec => []NoReposts` | one process, reliable |
| `VersionsGoForward` | `SpecH => NeverRegresses` | one process, reliable: whatever dates feeds print |
| **`ProcessorPoolProofs`** | | |
| `PoolTypeCorrect` | `PoolSpec => []PoolTypeOK` | none |
| `ClaimsAreExclusive` | `PoolSpec => []LeasesExclude` | `Prompt` |
| `PoolKeysHold` | `PoolSpec => MarkedNeverReposted` | `Prompt` |
| `PoolPostsOnce` | `PoolSpec => []NoReposts` | `Prompt`, reliable |
| `PoolKeepsLimits` | `PoolSpec => []SlotsWithinLimits` | `Prompt`, finite |
| `PoolKeepsTheRate` | `PoolSpec => []HourlyRate` | `Prompt`, reliable, finite |
| `PoolImplementsContract` | `PoolSpec => ImplementsFinalContract` | `Prompt`: any number of processes, that die and lose replies |
| `SelectionsAreFair` | `SelectionSpec => []SelectsFairly` | finite |
| `OnlySelection` | `SelectionSpec => []SelectionDetermined` | finite |
| **`WorkerPoolProofs`** | | |
| `WorkerTypeCorrect` | `Spec => []TypeOK` | none |
| `WorkerKeysArePosted` | `Spec => []KeyHasPost` | none: workers and ingesters overlap and die as they like |
| `ClaimsAreExclusive` | `SpecH => []ClaimsExclude` | none: beside any number of ingesters, with expiry, death and slow claims |
| `WorkersPostOnce` | `SpecH => []RepostsExplained` | none |
| `OneWorkerKeepsLimits` | `Spec => []SlotsWithinLimits` | one worker, finite |
| **`DirectPublishingProofs`** | | |
| `DirectTypeCorrect` | `Spec => []TypeOK` | none |
| `SourcesAreGivenUpJustly` | `Spec => []GivenUpJustly` | none |
| `ChannelsPostOnce` | `Spec => []NoReposts` | none: a version is settled once its key is marked |
| `AcknowledgedIsReceived` | `Spec => []AcknowledgedReceived` | none |
| `FeedsListTheLatest` | `Spec => []FeedsLatest` | none |
| `RecordsKeepTheRate` | `Spec => []RecordedRate` | none |
| `BatchesAdvance` | `Spec => BatchAdvances` | none |
| **`SupervisionProofs`** | | |
| `TypeCorrect` | `Spec => []TypeOK` | none |
| `MigrationsAreAtomic` | `Spec => MigrationAtomic` | none: any older table, any number of processes that start, fail and die |
| `NobodyStartsIncomplete` | `Spec => []StartedComplete` | none |
| `BacklogIsBounded` | `Spec => []BacklogBounded` | none |
| `RecordsAreTruthful` | `Spec => []RecordedTruthfully` | none |
| `RecordsAreStable` | `Spec => RecordsStable` | none |
| `RecoveryIsComplete` | `Spec => RecoveryComplete` | one of the processes runs jobs |
| **`RuntimeSchedulingProofs`** | | |
| `TypeCorrect` | `Spec => []TypeOK` | none |
| `TicksAreExclusive`, `ShutdownIsPrompt`, `HangsAreDetected` | `Spec => []SingleFlight`, `[]FewLateTicks`, `[]HangDetected` | none |
| `TickTimeGoesForward` | `Spec => TickTimeAdvances` | none |
| `ReportsArePaced` | `Spec => []ReportsPaced` | none |
| **`HeartbeatsProofs`** | | |
| `TypeCorrect` | `Spec => []TypeOK` | none |
| `RecoveriesAreBounded`, `FailuresAreFinal` | `Spec => []RecoveriesBounded`, `[]FailedSpent` | none |
| `RecoveriesAreRationed` | `Spec => []RecoveriesRationed` | none |

`Prompt` of the pool: a cycle ends before the clock advances, which is the code's
hope that a lease outlasts the publishing done under it; nothing in the code
renews a lease. Without it the properties of the pool are false, and section 4
shows how. Theorems about `SpecH` name in the property itself what the code does
not promise.

### The publication queue

`QueueProcessorProofs` proves that each step of a cycle preserves the invariants of
the processor, in a form that both compositions cite, since no step of one
process touches the cycle of another.

**Types** need `WorkingHeld`: a cycle that works on a job holds a row of it, else
the row saved at the end might be no row. `CycleInv` adds it to the types.

**Keys.** Neither key property is inductive alone: a cycle that is about to save
its job as succeeded must have marked the key, and one that is about to mark it
must have posted, now or in an earlier attempt. `KeyProgress` says so for every
step between; `KeysInv` is the conjunction.

**Exclusion.** `Holds` of the pool says that a held row whose lease runs is the row
in the table: it is being processed, with the same lease, by nobody else. Recovery
leaves such a row alone; selection takes eligible rows only, which are not being
processed; and the save of a job touches the one row its cycle holds.
`Prompt` is what makes the held leases run.

**Reposts.** `UnmarkedSends`: the version that a cycle is about to send has no key.
It was so when the cycle loaded the article, and stays so because nobody else
works on that job (`Apart`, which the pool has from `Holds` and the runtime from
being one process). That is all `MarkedNeverReposted` needs, through deaths and
lost replies. For `NoReposts`, `PostsMarked` adds that a posted version has its key or is
on its way from `record` to `markVersion` in some cycle, which a death or a lost
reply would break.

**Selection.** The theorems about slots rest on the predicate `FairSelection`; that
the loops of `_select_new_articles` compute it is `SelectionsAreFair`. `LoopInv`
holds between any two turns of the loops. The levels come in descending order
(`Descending`); the sources still in the passes, and those whose turn is to come, are
listed once and in the order in which they were met (`Listed`). The selection is
within both limits (`WithinLimits`) and takes the oldest of each source and level
first (`OldestTaken`). An article of a visited level that is not selected has its
source at the limit (`Settled`), or all slots are filled, or its source is still in
the passes (`Waiting`). No source has more turns than another that could go on,
except for one turn in which it comes first (`Balanced`); that this survives a pass
needs the number of the pass, which all sources that had their turn have used and
the others not yet (`Rounds`). The loops end only with all slots filled or all levels
visited (`Finished`). `FairWhenDone` reads the predicate off these.

`OnlySelection` says that the predicate leaves no choice if no two articles have
the same age. Suppose two fair selections differ, and take a most urgent
article in which they do (`MostUrgent`, by the number of articles more urgent than
it, which is finite). As the selections agree on all that is more urgent, the
one that misses it has filled all slots, with articles that may precede it, and its
source has fewer turns there (`PassedOver`). So the other selection misses one of
those, for which the same holds the other way round, and the turns contradict each
other.

**Slots.** `LimitsInv` of the pool: the articles `Consumed` at this time, delivered in
the hour or claimed by a running lease, fit the limits (`Fits`), and what counts
against a source is stored (`RecordedStored`). With `Holds`, `Consumed` is all
that `SlotsWithinLimits` adds up. Time only makes it smaller and recovery does not
make it larger. The step that matters is the selection: `FairFits` shows that
the union with a fair selection fits. The predicate bounds each article by what
its source has of articles at least as urgent, so the bound on the whole source
comes from its least urgent selected article (`LeastUrgent`, which well-founded
induction on the priorities of a finite set gives).

**Rate.** Readers count posts, the code counts delivery times. `PostedInv` says
that the last post of a job is either recorded, in a succeeded row with a delivery
time no earlier, or in the hands of a cycle that `Accounts` for it. Then whatever
readers saw in the hour is among what `SlotsWithinLimits` bounds.

**Order.** `Timed` says that a version dated later than the clock, or one that was
posted or read by a cycle later than the start of that cycle, is `early`. `Ordered`
ties posts to what the code compares: a posted version that is not early is no newer
than the recorded delivery of its job, unless the record is absent or still to be
written; a posted job has its key or is about to get it; and a cycle sends either
the first version of a job without key, or one newer than the recorded delivery.
Hence a version that is sent is newer than all that were posted before and were
not early.

**Contract.** `Dated` (all versions are dates of feeds) and `HeldClaimed` (the
held jobs are being processed) are inductive with the invariants above.
`CycleDelivers` then shows, for whatever composes the cycles, that a step of one
maps to a step of `DeliveryContract` or changes none of its three variables, and
that it takes no acknowledgement back: only ingestion does. For the runtime of
one process the jobs it holds are claimed because nothing else runs; for the pool
`Holds` says so, and since nothing is queued there, it implements the contract
without `Reopen` (`FinalSpec`). With slow cycles both are false for several
processes: one whose lease ran out while it was publishing posts a job that
another acknowledged meanwhile.

### The queue engine

**Keys and types.** `PoolInv` says with the types what a claim `Knows` at each of its
steps (a worker past the publish has posted, one that marks the version has
marked the job), that everything queued is `Listed`, and that counted articles are
stored. It needs no assumption on the order of steps.

**Exclusion.** A worker has `Kept` its claim as long as no other process saved the
row of the job and the row was not taken back after its lease. Then the row has
the status and the lease that the step of the claim implies (`Owned`): it is not
eligible, so nobody else claims the job (`Exclusive`). Each step of another
process that could break this must change the row of an open claim, and so adds to
`disturbed` (`Bystanders`); a selection and a recovery of expired leases cannot
change a row that is kept. A lease that still runs has not been recovered, which
turns `Kept` into `ClaimsExclude`.

**Reposts.** `Current`: unless another process redated it, the article a worker
loaded is still the one in the table, so the version it checked against the keys
is the one it posts and marks. Of a job left alone every posted version has its key
or is between the publish and the key (`Answered`), and a version about to be
sent has none (`Unmarked`). The second holds because a job with a post on its way
to the key has one worker (`Exclusive`).

**Slots.** For one worker, the articles `Reserved` fit the limits. A claim is the only
step that adds to them, and only after it found free slots. The slots are counted
again in each claim, so a death between acknowledgement and history, which takes a
delivered article out of both counts, can only lower the number. With two workers
the count is stale when it is used and the property is false.

### The direct path

`DirectInv` has the types, and `BatchFits`: destinations and AI providers are asked
only while there are any left, and attempts stay within the policy.

**Reposts.** `PostsInv`: a posted version that is settled has its key, and a batch that
sends was visited when the key was not there.

**Feeds.** `FilesInv` strengthens the property by `IsInjective(written[d])`: no article
is listed twice. Inserting into a truncated list and truncating gives then the
same as truncating the full one (`InsertLatest`), be the article in the visible
part, beyond it or new. With duplicates in the file it would be false:
`FeedAssumption` says that a file found at start has none, as the publisher
leaves them.

**Acknowledgement.** `ReceivedInv` follows the result of a publish through the steps
that record, mark and save it. What a destination has it keeps (`ReceivedKept`),
a feed file in the list of all that was written to it.

**Rate.** `RateInv` bounds the articles recorded in the hour together with those that
are chosen and not yet done. Choosing fills what is free when the slots are
counted; a step of the batch moves articles from the second group to the first.

**Progress.** `BatchAdvances` is the variant of the batch as an action property: within
one instant each step makes `Remainder` smaller in lexicographic order. The proof
has a lemma for each step with the first component that decreases, and needs
finite sets for those components to be numbers.

### Supervision, scheduling, heartbeats

**Migration.** `SchemaInv` says for each savepoint which of its two tables holds
the articles, and that indexes and triggers are on that table or in the list
taken from it. A connection that has written nothing still sees the committed
table, because no other may commit while it reads. The commit then publishes a
complete table with the same rows and objects.

**Jobs.** `ProcessInv` (a process holds one job or none, and works only on a
complete schema) and `RecordInv` (its counters are those of a row) are inductive
with `SchemaInv`. `AtMostOne` turns the bound on the queue into a
cardinality. `TruthInv` adds what the rows say: a job in somebody's hands has
neither ended nor is it absent, it has completed exactly when its process is past
it, nobody else has it, and a finished row tells what happened. A start-up keeps only
rows it saw running (`SeenRunning`), and saving those is the one step that
takes a finished row back: the exception `RecordsStable` names. `RecoverInv` says
that when a process enters its loop it has seen every row that ran, which needs
that no other process saves a running row meanwhile: one process runs jobs.

**Scheduler.** Single flight is inductive with the types. `RecordedEarlier` orders
the times: what the watchdog remembers is not later than the start of the tick in
progress, since the lock is held while both are set. That gives detection of
hangs and a last tick that never goes back. `LateOnce` says that a thread which
began a tick after the stop is not about to acquire again. `PaceInv` counts
reports: n of them put the last n - 1 intervals after the start of the process,
and a report that a thread is about to send stays due until it is sent
(`SendsWhenDue`), since no other tick runs and the tick began in the present life
of the process (`BegunInLife`).

**Heartbeats.** `Counted` ties the calls since the last success to the attempts of
the heartbeat, and says that a heartbeat that replaced the one an inspection still
holds has no attempts. `Targeted` says when a recovery is in progress.
`RationInv` counts in time: n calls to the recovery of a component put the last of
them, or the sign of life since its success, at least n - 1 times the shorter of
cooldown and silence after the start. While a recovery runs, its time is remembered
(`Remembered`), also when a registration or a touch replaces the heartbeat.

### Model-checked only

* Liveness (`TicksGoOn`, `ClaimsEnd`, `QueuedJobsEnd`, `SelectionEnds`,
  `SilenceNoticed`), which the proof system does not reach. For the direct path
  `BatchAdvances` is the part of the argument that is proved.
* `AcknowledgesPosted`. The idempotency test takes a delivery time for the
  delivery of a version, and that this is right for a job left alone needs the
  dates of what a batch has read and not yet saved.
* `RetriedIsPosted`, which the code violates.

## 6. Not modelled, and the plan

Not modelled because nothing of it changes state that another part reads, or
because it is pure text processing: classification, priority scoring,
similarity of texts, the API, configuration, backup, HTTP and XML. Caches,
plugins and the concurrency helper are used by nothing in the runtime, as are
`SourceManager` (modelled because the direct path is documented with it) and the
fallback and safe AI adapters, which the factory does not wire. The priority of
an existing row, which the upsert does not update, is a constant; the levels `high` and `medium` that ingestion looks for are never
returned by `processing/priority.py`, so urgent and important articles queue as
normal. `JsonJobStore`
rewrites its file in place; nothing builds it.

Of the modelled parts, left out: two processes that write one feed file (one
item is lost), feed files that cannot be read (they restart empty) and the
temporary files a crash leaves; the threads of AI calls that timed out, which run
on; an answer of the provider that is only whitespace; RSS that does not parse.

Planned, in this order:

1. `RuntimeTick` with two processes on a smaller instance: an article copy saved
   back after an ingestion of the same article.
2. `FeedFile` with two writers, and its read as a step of its own.
3. `JsonJobStore` with a death in the middle of its write.

Every invariant and every action property of the passing runs but
`AcknowledgesPosted` is a theorem. What the proofs leave open are that property, the
progress properties, and the claims of the pool without `Prompt`, which the code
does not enforce.
