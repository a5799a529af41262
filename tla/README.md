# A TLA+ development for Mimir

This directory models parts of [Mimir](../src) in TLA+, checks the models with
TLC on small instances and proves many of their properties with TLAPS for every
instance. `PROJECT.json` lists the components, runs, mutants, findings, hazards
and theorems and maps every definition to the lines it models.

## The system

A Mimir cell in the ingest-storage architecture writes samples to Kafka
(distributor), serves recent data from memory (ingester), builds blocks from
Kafka (block-builder), compacts and serves them from object storage (compactor,
store-gateway), and queries both (query-frontend, query-scheduler, querier). The
ruler and the alertmanager sit on top. Three parts are modelled, those that
decide which data counts as stored and which blocks may be deleted:

1. the **block-builder-scheduler** with its block-builders, which decides which
   records of the Kafka log are stored and commits their offsets;
2. the **compactor-scheduler**, which leases compaction jobs to workers and keeps
   its state in bbolt;
3. the **compactor**, which plans the compaction of a tenant's blocks, runs it
   and marks blocks for deletion.

The second hands its jobs to the third. The models meet at the executor: the
`JobTracker` model has the life of a job and of the worker that runs it, the
`BucketCompactor` model has what the work does to the bucket.

## 1. Block-builder-scheduler

Per partition the scheduler keeps, for each Kafka cluster, the range being
filled, the *planned* offset (end of the last job in the queue) and the
*committed* offset (end of the last job of which it and every job before it are
complete). On every tick it reads the end offsets; when a time bucket rolls over
it cuts a job. Pending jobs enter the job queue, subject to a limit per
partition. Workers poll for jobs. An assignment gets a fresh *epoch*; (job ID,
epoch) is the key under which the worker reports. A lease that is not renewed
expires and the job goes back to the front of the list. Committed offsets are
flushed to each cluster in turn.

After a restart the scheduler loads the commits, listens for the *observation
period* to the workers' reports, puts them in an order consistent in every
cluster, imports the contiguous prefix, sets the epoch above everything heard,
and cuts jobs from the planned offset to the end of the log.

| module | models |
|---|---|
| `JobQueue` | `scheduler/jobs.go`: each method is an operator from queue to queue |
| `JobQueueProtocol` | the queue under every order of calls, with the keys workers hold |
| `PartitionState` | `scheduler/partition_state.go`: each method is an operator |
| `ObservationOrdering` | `scheduler/observation_ordering.go`, one step per cluster visited |
| `OffsetScanner` | `scheduler/offset_scanner.go` and `replayOffsetsAtStartup` |
| `BlockBuilderScheduler` | `scheduler/scheduler.go`, `schedulerpb/client.go`, the job loop of `blockbuilder.go`, Kafka: the composition |
| `AtLeastOnce` | what all of it promises: an abstract specification |
| `MCSchedulerParts`, `MCSchedulerShapes`, `MCScheduler` | instances for TLC |
| `JobQueueProofs`, `ObservationOrderingProofs` | theorems |

In `BlockBuilderScheduler` an action is a handler run under
`BlockBuilderScheduler.mu`. The two handlers that loop over jobs,
`finalizeObservations` and `enqueuePendingJobs`, take one step per iteration;
`phase = "recovering"` and `mu = "enqueue"` keep every other handler out
meanwhile, except `clearExpiredLeases`, which takes only the queue's mutex. The
run loop's tick does expiry, schedule update and flush one after the other; the
model leaves them independent, since each of them may fail or find nothing to do.
A worker's client has one `UpdateJob` in flight at a time (`sendUpdates` is
sequential); calls in flight die with the scheduler process. A panic is a
process exit.

Abstractions. Time: a bucket rolls over, a lease expires, an observation period
ends when an action says so. A record is its offset; a block is the set of
offsets it was built from, uploaded in one step when the job completes (the
worker reports completion only after all uploads). Which offsets the startup
scan finds is, in the composition, any chain of offset vectors from the resume
offsets to the end of the log; `OffsetScanner` has the scan itself, over logs
whose timestamps are in any order, with the time buckets and `MaxScanAge`.
`LookbackOnNoCommit` reaches the start of the log.

Assumptions of every run of the composition:

* `ObserveAll`: the observation period (1 min, against updates every few
  seconds) is long enough for every live worker to be heard;
* `StartupProbeMayFail = FALSE`: the startup probe of a partition succeeds;
* one scheduler process is alive at a time (the documentation requires it).

Outside the runs, these instances show what the assumptions are for. All use
`MCScheduler` with one partition, two workers, two faults, a limit of two jobs
and `HasCommit = TRUE`:

* a startup probe that fails (`StartupProbeMayFail = TRUE`, one cluster, two
  records): `Contiguous` is violated, the partition goes on from the end of the
  log and not from its commit (`scheduler.go:418`). Since every run excludes it,
  no property of a run covers that hazard;
* a claim that is not heard (`ObserveAll = FALSE`, one cluster, two records):
  `AssignedKeyIsNew` is violated, the same worker gets a key again ("This should
  never happen", `schedulerpb/client.go:183`);
* two clusters of one record each: `UpdatesNeverPartlyBehind` is violated. A
  spurious lease expiry, a flush that lands in one cluster and a restart take a
  live worker's update into the panic of `updateJob` that "should not happen"
  (`scheduler.go:803`). No run checks this property; the panic itself is a fault
  of the model, and what survives it is checked in the runs.

## 2. Compactor-scheduler

A tenant has a `JobTracker`: at most one *plan* job, whose result is the list of
compaction jobs to run next, the compaction jobs waiting and leased, and those
completed while the plan job was leased, retained so that a plan computed from an
older listing does not bring their blocks back. Each operation commits a bbolt
transaction before it changes the memory. The `Rotator` shares leases out among the tenants
that have work, with one rotation and cursor per lane (plan, compaction), and
applies what an operation found out (*hints*) later, under its write lock. The
tenant discoverer adds and drops tenants; the buckets of tenants are spread over
bbolt files (*shards*) and moved at startup when the number of shards changes.

| module | models |
|---|---|
| `JobTracker` | `scheduler/job_tracker.go`, `job.go`, the tenant's bucket, and the workers of `executor.go` |
| `Lists` | `container/list` as the tracker uses it |
| `CompactionClaims` | what the tracker promises: an abstract specification |
| `Rotator` | `scheduler/rotator.go`, `tenant_discovery.go`, the life of the process in `scheduler.go` |
| `ShardMigration` | `scheduler/persistence_bbolt.go` |
| `TenantStore` | what the shards promise: an abstract specification |
| `MCJobTracker`, `MCRotator`, `MCShards` | instances for TLC |
| `ListProofs`, `JobTrackerStepProofs`, `JobTrackerPlanProofs`, `JobTrackerProofs`, `ShardMigrationProofs` | theorems |

**JobTracker.** An operation runs under the tracker's mutex: one step. A crash
just after the commit is the step followed by `Restart`, with the reply lost.
Time is two-valued: `fresh` holds the leases younger than the lease duration, and
`Tick` lets it pass. The random epoch of a new job is a number not used before.
A worker ends a job with any status the executor has: COMPLETE, also when it
marked only some or none of the sources (nothing to plan, an empty result, an
error mitigated by no-compact marks or a repair), ABANDON, REASSIGN, or nothing
when it crashes. `marked` holds the blocks that a later listing leaves out, for
whatever reason; `acked` remembers which of them were marked when the completion
of their job was acknowledged. A plan is computed from the listing of one moment
and travels as a message, so completions may overtake it.

**Rotator.** A tracker is the number of its waiting and leased jobs per lane,
which is all the rotator sees. A tracker operation is one step under the read
lock; `LeaseJob` walks the rotation and `Maintenance` the tenants over several
steps with the read lock held; hints are applied in a step that waits for the
readers.

**ShardMigration.** Every bbolt transaction and every file created or removed is
a step, and the process may end after any of them; the next start may have any
number of shards and any allow list. The hash is any assignment a consistent
hash allows. A bucket is the number of its writes. A start that has the number of shards
a cut-short migration was leaving runs no migration (`prepare`): tenants already
copied stay in two shards. `strayed` is a history variable that remembers them.
Left out: directory syncs and the cleanup of keys that cannot be decoded.

## 3. Compactor

A compactor instance syncs the metas of a tenant's blocks, finds the duplicates
(blocks whose sources and shards others cover), marks them for deletion, groups
the rest into split and merge jobs, and runs the jobs: compact, upload the
results, mark the sources for deletion.

| module | models |
|---|---|
| `SplitMergePlanner` | `split_merge_grouper.go`: the jobs of a plan |
| `DeduplicateFilter` | `shard_aware_deduplicate_filter.go` |
| `BucketCompactor` | the loop of `bucket_compactor.go` by one or more compactors over one bucket |
| `MCBucketCompactor` | instances for TLC |
| `BucketCompactorProofs` | theorem |

A series of a source block is its hash, and a block's data is its set of
(source, hash): a split into n shards sends a series to shard `hash % n`. An
iteration may end by an error or a crash after any step. A job that fails with a
known error is mitigated as the code does it: `MarkNoCompact` marks its blocks as
no-compact, `Repair` replaces one by a repaired copy; the iteration goes on. A
block marked for deletion leaves the bucket at once, as every sync ignores it;
running jobs can still read it (the deletion delay). Compactors disagree on who
owns a job when the ring is changing: any compactor of `ring` may run any job.

Assumptions: a compactor runs one job at a time (`compaction-concurrency` 1, the
default), and blocks have samples, so that no plan and no result is empty. The
TSDB compaction itself is external: its result holds what its sources held.

## Runs

"States" are distinct states after symmetry.

| run | instance | states | shows |
|---|---|---|---|
| `scheduler_parts` | queue: 2 jobs, 2 workers, epochs to 4; ordering: all inputs of 3 jobs, 3 clusters, 2 start offsets; scan: all logs of up to 3 records, 1 or 2 clusters, times to 9, buckets of 4 | 401,187 | list and map of the queue agree, keys are unique, stale keys never complete; the sort is right, ends, and fails only on cycles; the jobs cut at startup cover the backlog the scan reaches, one bucket each |
| `scheduler` | 1 partition, 2 faults, limit 2, in three shapes: 2 workers, 1 cluster, 2 records; 1 worker, 2 clusters, 2 records; 1 worker, 1 cluster, 3 records | 564,698 | commits only over built records, queue = plan, jobs tile the log, no panic of the planning handlers, new keys are new, a key stands for the offsets its holder was given |
| `scheduler_liveness` | 2 partitions, 1 cluster, 2 workers, 2 records in all, 1 fault, limit 1, no commit yet, fairness | 51,094 | every record is committed in the end; the composition implements `AtLeastOnce` |
| `job_tracker` | 2 blocks, 2 job IDs, 2 workers, `MaxLeases` 2, 4 generations, 2 tasks and messages at a time, 1 fault | 712,439 | lists, memory and bucket agree; the scan for expired leases misses none; no block that was marked at an acknowledged completion is in a job again; jobs share no block; a current key names the job it was given for; the tracker implements `CompactionClaims` |
| `rotator` | 2 tenants, 2 requests at a time, 1 compaction job a tenant, 1 event | 594,329 | rotations are well formed and up to date, no walk skips a tenant, "not found" is never a start or a stop, rotator, discoverer and database know the same tenants, nothing is written after the close |
| `rotator_liveness` | 2 tenants with a job each, 1 request at a time, 1 event, fairness | 20,290 | every job that waits is leased |
| `shard_migration` | 2 tenants, up to 3 shards, 2 writes, 5 starts | 1,220,787 | no start is refused, a migration never removes the last bucket of a tenant; but for strayed tenants there is one bucket, at home, and the shards implement `TenantStore` |
| `compaction` | 1 compactor with 3 sources and 1 fault or 2 and 2, or 2 compactors with 2 sources; 2 shards | 1,142,981 | no series is lost, the jobs of a plan are independent, a bucket with nothing left to do holds every series once (blocks with a no-compact mark aside), and one compactor makes a bounded number of blocks |

### Bounds

* Scheduler. `MaxOffset` records per partition and cluster and `MaxRecords` in
  all; `MaxFaults` faults of any kind: scheduler crash or panic, worker crash,
  failed job, forgotten completed job, lost `AssignJob` answer, lease expiry under
  a live worker. The epoch needs no bound of its own: only faults restart or
  reassign. Two records make two jobs that can complete out of order, be cut as
  one or two, and be separated by a crash; a third is needed for two cuts with
  the same start other than the commit. Two faults are a crash plus one
  disturbance of what the restarted scheduler hears. The shapes split the sizes
  that would be too many at once: `MCSchedulerShapes` holds three instances of
  the specification, and a behaviour is one of them throughout. The third shape
  has two of its three records in the log before the first start.
* Ordering and scan. Three jobs over three clusters are the smallest input whose
  cycle goes through three clusters. Times to 9 with buckets of 4 make three
  buckets, so two cuts in a row, a record after the scan's end time (8), and
  records too old for a scan that goes back 7; the logs start at offset 1, so a
  resume offset of 0 lies before them.
* Job tracker. Two blocks in two jobs conflict or do not; two workers make a
  stale and a current key for one ID; four generations are two plans and their
  jobs, with one ID used again; a fault is a restart, a lost or repeated message,
  or a repeated lease, which neither the first plan job, of an empty tracker, nor
  the last generation's jobs have (`RepeatedBetween`). Without that bound the run
  has 834,657 states and no error.
* Rotator. Two requests, a maintenance pass and a discovery pass meet at the
  locks. An event is a job added, a failure, a tenant that comes or goes, a job
  given back, or a restart.
* Shards. Three shards allow a scale-up followed by a scale-down to a third
  number; five starts are a migration cut short, its repetition cut short, and a
  change of direction.
* Compaction. Blocks of windows 0-2, 2-4 and 3-6 with ranges 2 and 4 merge at
  both levels, and the last one crosses a boundary. A split cut short in both of
  its results and retried needs two faults. Three sources with two faults were
  checked once (2,592,905 states, 139 s, no error).

The refinement of `AtLeastOnce` is part of `scheduler_liveness`, which has one
fault and one cluster. It was also checked with two faults on each of the shapes
of `scheduler` (316,302, 32,914 and 184,214 states), without error.

### Fairness

`EverythingCommitted` is checked under weak fairness of the scheduler's steps
(its tickers keep firing and the Kafka clusters answer), of polling (some worker
polls and gets its answer), of consumption (a worker that has a job finishes
it), of the delivery of a call in flight, and of the expiry of a lease whose
worker does not know the job. Sending an update that is news to the scheduler
has strong fairness: `sendUpdates` goes through all jobs of the client on every
tick, so none is passed over forever, but the action is disabled while another
call of the worker is in flight.

`WorkIsLeased` and `EveryTenantServed` are checked under weak fairness of the
steps that serve a request, of the maintenance pass, and of a start or stop that
has begun. Workers keep asking for each lane (strong fairness, since a request
slot may be taken). Who waits for the write lock gets it (strong fairness): Go's
`RWMutex` holds new readers back. Faults have no fairness and are finitely many.

## Findings

Four runs expect a violation, each of something the code or its documentation
says of it (`findings` in `PROJECT.json` quotes the lines).

* `first_job_skipped`: an empty planned offset accepts any range. Before the
  first commit, with a limit above 1, the first job's worker fails, the second job
  completes and the scheduler restarts: the second job is the only observation,
  and it is committed over the first one's records. With the default limit of 1
  this cannot happen (`scheduler_liveness` has no commit yet and that limit).
* `rotation_starvation`: a tenant whose lane becomes empty leaves the rotation and
  comes back at its end. Two tenants whose jobs are given back again and again
  are always between the cursor and its wrap-around, so a third one with work is
  never reached. `WorkIsLeased` holds while jobs are given back finitely often.
* `shard_count_change`: two splits of a block into different numbers of shards
  are both cut short; the filter adds up their shards, takes the source for a
  duplicate and it is marked for deletion. This is the only run with two shard
  counts; `compaction` and the theorem have one.
* `shard_rollback`: a migration from two shards to one is cut short after the
  copy. A start with two shards again sees nothing to migrate, recovers the
  tenant from shard 1 and writes there. The next migration to one shard finds two
  buckets that differ ("all sources should be equivalent"), takes the stale one
  in shard 0 for placed and deletes the other. Only going back from a migration
  to fewer shards does this: one to more shards has created files, and the
  next start sees their number. That no start is refused and that the last
  bucket of a tenant stays holds all the same; one bucket at home and the durable
  store hold for the tenants that did not stray.

## Proofs

All theorems are proved for every value of the constants, bounds included, from
the named assumptions of the modules: `NoWorker` is no worker (`ConstantsOK`);
there are at least two clusters (`OrderingConstants`; the ordering is only used
then); the plan job's ID is not a group key (`ReservedId`); there is a shard and
`none` is not a number (`ShardConstants`); each range divides the next, shard
counts and hashes are natural numbers (`CompactorConstants`). Each proof has an
inductive invariant and one lemma per action.

**`JobQueueProofs`**: `TypeOK`, `ListMatchesJobs`, `KeysUnique` and
`StaleKeyNeverCompletes`. The list and the keys are not inductive alone. `IInv`
joins them with `HolderIsLatest` (all keys lie below the epoch counter, and the
holder has the highest of its job) and `RecoveryInv`: while the queue recovers the
list is empty, as an import never touches it, and no key handed out has lost its
job, so a claim that is accepted is the newest one of its job.

**`ObservationOrderingProofs`**: `OrderedRight`, `CycleIffCyclic`, and that the
panic of `emitCandidate` is not reached. `OInv` says that each cluster's list
holds its jobs once and sorted, that the cursor separates the emitted ones from
the others, that no job precedes an emitted one without being emitted before it,
and that a pass that has emitted nothing found nothing to emit in the clusters it
visited. A stuck pass then gives a set of jobs each of which has a predecessor in
the set, which is a cycle; the converse takes a least element of an order.

**`JobTrackerStepProofs`, `JobTrackerPlanProofs`, `JobTrackerProofs`** (with
`ListProofs`, facts about lists): the six invariants of the run and the refinement
of `CompactionClaims`. `IInv` says what the fields of the memory say of each
other, that the disk is the memory, that a key held by a worker or in a message
is not ahead of the job under its ID and that a current one stands for the same
blocks (`TasksOK`, `NetOK`), and that acknowledged blocks are marked. `MessageOK`
has the crux of `NoRecompaction`: a plan under the key of the leased plan job
names no acknowledged block that is not retained. When the plan was computed its
listing had no marked block, and every completion since was retained.

**`ShardMigrationProofs`**: `NeverRefused`, `LastBucketStays`, `OneBucketAtHome`
and the refinement of `TenantStore`, rollbacks included. `IInv` says for each
point of the migration where the copies of a bucket can be and that those of
tenants that did not stray agree (`CopiesAgree`), so that the next migration may
start from any of them.

**`BucketCompactorProofs`**: `NoDataLost`, under the hypothesis `FixedShardCount`
(the tenant's shard count does not change), without which it is false. A block
about to be marked for deletion has, for each of its series, a block that holds
it and comes after it in the filter's order (`Handover`); a block that goes hands
over to its own successor, so it does not matter who marks what, and when, or how
old the metas were. Any number of compactors, errors, no-compact marks and repairs
is covered.

Only model-checked:

* the composition `BlockBuilderScheduler` and its refinement of `AtLeastOnce`:
  its inductive invariant spans the queue, the plan, the clients, the calls in
  flight and the recovery;
* the startup scan, the rotator (its walk counts with a recursive operator),
  `PlanSound`, `IdleMeansOnce` and `WorkBounded` (they count what recursive or
  cardinality-based definitions produce over whole plans);
* liveness and `Terminates`: fairness is beyond the prover.

## Not modelled

`PROJECT.json` lists every part with its reason. By what they are:

* in the block-builder: the TSDB builder (Prometheus code), the fetch loop of a
  partition section, the merge of clusters by timestamp, records that arrive
  while the startup scan runs, two scheduler processes alive at once;
* in the compactor: jobs that one instance runs concurrently, empty plans and
  results, the choice of tenants by the service, the cleaner, block upload;
* parts with state worth a model that have none here: query-scheduler and request
  queue, HA tracker, ingester (TSDB states, circuit breaker), ingest-storage
  reader and offset watcher, lazy index headers, usage tracker;
* parts without state that TLC reaches: the PromQL engine, query middleware, wire
  formats, API wiring, tools, metrics and logs.
