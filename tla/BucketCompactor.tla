--------------------------- MODULE BucketCompactor ---------------------------
(***************************************************************************)
(* The compaction loop of compactor instances over one tenant's bucket     *)
(* (pkg/compactor/bucket_compactor.go): sync the metas and find the        *)
(* duplicates, mark the duplicates for deletion, plan, and run the jobs:   *)
(* compact, upload the results, mark the sources for deletion.  An         *)
(* iteration may end by an error or a crash after any of these steps; some *)
(* errors of a job are mitigated, by marking blocks as no-compact or by    *)
(* repairing one, and the iteration goes on.                               *)
(*                                                                         *)
(* A series of a source block is its hash: a split into n shards sends it  *)
(* to shard hash % n.  The data of a block is its set of <<source, hash>>. *)
(* A block that is marked for deletion leaves the bucket at once: syncs    *)
(* ignore it, and running jobs can still read it (the deletion delay).     *)
(* A compactor runs one job at a time (compaction-concurrency, by default  *)
(* 1), and blocks have samples, so no plan and no result is empty.         *)
(***************************************************************************)
EXTENDS DeduplicateFilter

CONSTANTS
    Compactors,
    Windows,       \* the <<min, max>> of the blocks that ingesters ship
    Hashes,
    ShardCounts,   \* the values CompactorSplitAndMergeShards takes
    Early, Late,   \* time.Now while the blocks are recent, and when they are not
    MaxSources,    \* bound: blocks shipped
    MaxFaults      \* bound: errors, crashes and oversized results; the bound of a behaviour is any smaller one

ASSUME CompactorConstants ==
    /\ \A i, j \in DOMAIN Ranges : i < j => Ranges[i] < Ranges[j] /\ Ranges[j] % Ranges[i] = 0
    /\ ShardCounts \subseteq Nat /\ ShardCounts # {} /\ Hashes \subseteq Nat
    /\ \A w \in Windows : 0 <= w[1] /\ w[1] < w[2]

VARIABLES
    bucket,       \* blocks with a meta.json and no deletion mark
    noCompact,    \* blocks with a no-compact mark
    shipped,      \* <<source, hash>> of all blocks that were shipped
    nextID,       \* ULIDs are handed out in order
    now, faults,
    ring,         \* the compactors that share the tenant's jobs
    pc,           \* per compactor: idle, gc, jobs, upload or delete
    metas,        \* metaSyncer.blocks
    duplicateIDs, \* of the filter, not yet marked
    jobs,         \* not yet started
    uploads,      \* results of the running job, not yet uploaded
    deletes       \* sources of the running job, not yet marked

compactor == <<pc, metas, duplicateIDs, jobs, uploads, deletes>>
vars == <<bucket, noCompact, shipped, nextID, now, faults, ring, compactor>>

sources == {d[1] : d \in shipped}

Init ==
    /\ bucket = {} /\ noCompact = {} /\ shipped = {} /\ nextID = 1
    /\ ring \in (SUBSET Compactors) \ {{}}
    /\ now \in {Early, Late}
    /\ faults \in 0..MaxFaults
    /\ pc = [k \in Compactors |-> "idle"]
    /\ metas = [k \in Compactors |-> {}]
    /\ duplicateIDs = [k \in Compactors |-> {}]
    /\ jobs = [k \in Compactors |-> {}]
    /\ uploads = [k \in Compactors |-> {}]
    /\ deletes = [k \in Compactors |-> {}]

------------------------------------------------------------------------------
\* An ingester ships a block (external).
Ship(w, hashes) ==
    /\ Cardinality(sources) < MaxSources
    /\ bucket' = bucket \cup {[id |-> nextID, min |-> w[1], max |-> w[2], shard |-> NoShard, level |-> 1,
                               sources |-> {nextID}, data |-> {nextID} \X hashes]}
    /\ shipped' = shipped \cup {nextID} \X hashes
    /\ nextID' = nextID + 1
    /\ UNCHANGED <<noCompact, now, faults, ring, compactor>>

TimePasses ==
    /\ now = Early /\ now' = Late
    /\ UNCHANGED <<bucket, noCompact, shipped, nextID, faults, ring, compactor>>

\* SyncMetas, with the filters: one finds the duplicates and takes them out, then
\* one takes out the blocks with a no-compact mark.
SyncMetas(k) ==
    /\ pc[k] = "idle"
    /\ \E found \in {mustBeDuplicate(bucket) \cup s : s \in SUBSET (mayBeDuplicate(bucket) \ mustBeDuplicate(bucket))} :
         /\ duplicateIDs' = [duplicateIDs EXCEPT ![k] = found]
         /\ metas' = [metas EXCEPT ![k] = bucket \ (found \cup noCompact)]
    /\ pc' = [pc EXCEPT ![k] = "gc"]
    /\ UNCHANGED <<bucket, noCompact, shipped, nextID, now, faults, ring, jobs, uploads, deletes>>

\* garbageCollectBlocks marks one duplicate.
GarbageCollect(k) ==
    /\ pc[k] = "gc"
    /\ \E b \in duplicateIDs[k] :
         /\ bucket' = bucket \ {b}
         /\ duplicateIDs' = [duplicateIDs EXCEPT ![k] = @ \ {b}]
    /\ UNCHANGED <<noCompact, shipped, nextID, now, faults, ring, pc, metas, jobs, uploads, deletes>>

\* Groups: a job keeps the shard count that the tenant's limits have now.
Groups(k) ==
    /\ pc[k] = "gc" /\ duplicateIDs[k] = {}
    /\ \E n \in ShardCounts :
         jobs' = [jobs EXCEPT ![k] = {[job |-> j, shards |-> n] : j \in planCompaction(metas[k], n, now)}]
    /\ metas' = [metas EXCEPT ![k] = {}]
    /\ pc' = [pc EXCEPT ![k] = "jobs"]
    /\ UNCHANGED <<bucket, noCompact, shipped, nextID, now, faults, ring, duplicateIDs, uploads, deletes>>

\* The job is another instance's by now.
NotOwned(k) ==
    /\ pc[k] = "jobs" /\ Cardinality(ring) > 1
    /\ \E j \in jobs[k] : jobs' = [jobs EXCEPT ![k] = @ \ {j}]
    /\ UNCHANGED <<bucket, noCompact, shipped, nextID, now, faults, ring, pc, metas, duplicateIDs, uploads, deletes>>

\* CompactWithSplitting and Compact (external): one block per shard that has data,
\* of the time range and the sources of all its inputs.
result(j, shard, id, data) ==
    [id |-> id, min |-> minTime(j), max |-> maxTime(j), shard |-> shard, level |-> maxCompactionLevel(j) + 1,
     sources |-> UNION {b.sources : b \in j.blocks}, data |-> data]
results(j, n) ==
    LET data == UNION {b.data : b \in j.blocks}
        Of(i) == {d \in data : d[2] % n = i}
    IN  IF j.stage = "merge" THEN {result(j, j.shard, nextID, data)}
        ELSE {result(j, <<i, n>>, nextID + i, Of(i)) : i \in {i \in 0..(n - 1) : Of(i) # {}}}

\* runCompactionJob up to the first upload.
Compact(k) ==
    /\ pc[k] = "jobs"
    /\ \E j \in jobs[k] :
         /\ jobs' = [jobs EXCEPT ![k] = @ \ {j}]
         /\ uploads' = [uploads EXCEPT ![k] = results(j.job, j.shards)]
         /\ deletes' = [deletes EXCEPT ![k] = j.job.blocks]
         /\ nextID' = nextID + (IF j.job.stage = "merge" THEN 1 ELSE j.shards)
    /\ pc' = [pc EXCEPT ![k] = "upload"]
    /\ UNCHANGED <<bucket, noCompact, shipped, now, faults, ring, metas, duplicateIDs>>

\* handleKnownCompactionErrors: an unhealthy block, or all blocks of a job whose
\* result does not fit the index format, are marked (as many as can be: the error of
\* a mark is a Stop), and the next job is run.
MarkNoCompact(k) ==
    /\ pc[k] = "jobs"
    /\ faults < MaxFaults /\ faults' = faults + 1
    /\ \E j \in jobs[k] :
         /\ jobs' = [jobs EXCEPT ![k] = @ \ {j}]
         /\ \E bs \in (SUBSET j.job.blocks) \ {{}} : noCompact' = noCompact \cup bs
    /\ UNCHANGED <<bucket, shipped, nextID, now, ring, pc, metas, duplicateIDs, uploads, deletes>>

\* repairIssue347: a block of the job is downloaded and rewritten under a new ID,
\* uploaded, and the broken one marked for deletion.
Repair(k) ==
    /\ pc[k] = "jobs"
    /\ faults < MaxFaults /\ faults' = faults + 1
    /\ \E j \in jobs[k] : \E b \in j.job.blocks :
         /\ jobs' = [jobs EXCEPT ![k] = @ \ {j}]
         /\ uploads' = [uploads EXCEPT ![k] = {[b EXCEPT !.id = nextID]}]
         /\ deletes' = [deletes EXCEPT ![k] = {b}]
    /\ nextID' = nextID + 1
    /\ pc' = [pc EXCEPT ![k] = "upload"]
    /\ UNCHANGED <<bucket, noCompact, shipped, now, ring, metas, duplicateIDs>>

\* An oversized result is marked as no-compact once it is uploaded.
UploadBlock(k) ==
    /\ pc[k] = "upload"
    /\ \E b \in uploads[k] :
         /\ bucket' = bucket \cup {b}
         /\ uploads' = [uploads EXCEPT ![k] = @ \ {b}]
         /\ \/ UNCHANGED <<noCompact, faults>>
            \/ faults < MaxFaults /\ faults' = faults + 1 /\ noCompact' = noCompact \cup {b}
    /\ pc' = [pc EXCEPT ![k] = IF uploads'[k] = {} THEN "delete" ELSE @]
    /\ UNCHANGED <<shipped, nextID, now, ring, metas, duplicateIDs, jobs, deletes>>

DeleteBlock(k) ==
    /\ pc[k] = "delete"
    /\ \E b \in deletes[k] :
         /\ bucket' = bucket \ {b}
         /\ deletes' = [deletes EXCEPT ![k] = @ \ {b}]
    /\ pc' = [pc EXCEPT ![k] = IF deletes'[k] = {} THEN "jobs" ELSE @]
    /\ UNCHANGED <<noCompact, shipped, nextID, now, faults, ring, metas, duplicateIDs, jobs, uploads>>

\* The iteration is over; a new one starts at once or at the next tick.
Iterate(k) ==
    /\ pc[k] = "jobs" /\ jobs[k] = {}
    /\ pc' = [pc EXCEPT ![k] = "idle"]
    /\ UNCHANGED <<bucket, noCompact, shipped, nextID, now, faults, ring, metas, duplicateIDs, jobs, uploads, deletes>>

\* An error of a step, or a crash.
Stop(k) ==
    /\ pc[k] # "idle"
    /\ faults < MaxFaults /\ faults' = faults + 1
    /\ pc' = [pc EXCEPT ![k] = "idle"]
    /\ metas' = [metas EXCEPT ![k] = {}]
    /\ duplicateIDs' = [duplicateIDs EXCEPT ![k] = {}]
    /\ jobs' = [jobs EXCEPT ![k] = {}]
    /\ uploads' = [uploads EXCEPT ![k] = {}]
    /\ deletes' = [deletes EXCEPT ![k] = {}]
    /\ UNCHANGED <<bucket, noCompact, shipped, nextID, now, ring>>

Step(k) ==
    \/ SyncMetas(k) \/ GarbageCollect(k) \/ Groups(k)
    \/ Compact(k) \/ UploadBlock(k) \/ DeleteBlock(k) \/ Iterate(k)
Compaction ==
    \/ TimePasses
    \/ \E k \in ring : Step(k) \/ NotOwned(k) \/ MarkNoCompact(k) \/ Repair(k) \/ Stop(k)
Next ==
    \/ \E w \in Windows, hashes \in (SUBSET Hashes) \ {{}} : Ship(w, hashes)
    \/ Compaction

Spec == Init /\ [][Next]_vars
------------------------------------------------------------------------------
\* The state is well typed, and no two blocks have an ID.
allBlocks == bucket \cup UNION {metas[k] \cup uploads[k] \cup deletes[k] : k \in Compactors}
TypeOK ==
    /\ \A b \in allBlocks :
         /\ b.id < nextID /\ b.min < b.max
         /\ b.sources \subseteq sources /\ b.data \subseteq shipped
         /\ b.shard # NoShard => b.shard[1] < b.shard[2]
    /\ \A b, c \in allBlocks : b.id = c.id => b = c
    /\ \A k \in Compactors : pc[k] \in {"idle", "gc", "jobs", "upload", "delete"}

Holders(d) == {b \in bucket : d \in b.data}

\* No series of a block that was shipped ever leaves the bucket: the results of a
\* job are there before its sources go, and a duplicate is held by what remains.
NoDataLost == \A d \in shipped : Holders(d) # {}

\* "returns a list of compaction jobs that can be run concurrently"
\* (split_merge_grouper.go:112): the jobs of a plan have no block in common, and
\* no merge runs next to a split of the same time.
\* They fit a range: the check of SplitAndMergePlanner.Plan never fails.
PlanSound ==
    \A k \in Compactors : \A i \in jobs[k] :
      /\ \A j \in jobs[k] : i # j => /\ i.job.blocks \cap j.job.blocks = {}
                                     /\ overlaps(i.job, j.job) => i.job.stage = j.job.stage
      /\ \A b, c \in i.job.blocks : c.max <= getRangeStart(b, Ranges[Len(Ranges)]) + Ranges[Len(Ranges)]

\* When there is nothing left to compact or to clean, nothing is held twice, but for
\* what a block with a no-compact mark holds beside one other.
Idle == /\ mayBeDuplicate(bucket) = {}
        /\ \A n \in ShardCounts : planCompaction(bucket \ noCompact, n, Late) = {}
IdleMeansOnce == Idle => \A d \in shipped : Cardinality(Holders(d) \ noCompact) <= 1

\* Compaction comes to an end: a compactor splits a source once, and merges the
\* results of a shard into one, so that it makes no more blocks than that but for
\* those of a job that was stopped.
WorkBounded ==
    Cardinality(ring) = 1 =>
      LET n == Max(ShardCounts) s == Cardinality(sources)
      IN  nextID - 1 <= s + n * s + n * Max({s - 1, 0}) + n * faults
==============================================================================
