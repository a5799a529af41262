---------------------------- MODULE PartitionState ----------------------------
(***************************************************************************)
(* What the block-builder-scheduler knows about one partition              *)
(* (pkg/blockbuilder/scheduler/partition_state.go): per Kafka cluster the  *)
(* range being filled, the planned and the committed offset, and for the   *)
(* partition the jobs waiting to be enqueued (pending) and the jobs        *)
(* enqueued and not yet behind the commit (jobs, the code's plannedJobs    *)
(* and plannedJobsMap).  Each method is an operator from the old state to  *)
(* the new one.                                                            *)
(*                                                                         *)
(* A job spec names its partition and a range [start, end) for each        *)
(* cluster that had new data.  Time is abstracted: whether a bucket has    *)
(* rolled over is an input.                                                *)
(***************************************************************************)
EXTENDS Integers, Sequences, FiniteSetsExt

CONSTANT Clusters

offsetEmpty == -1

\* JobSpec and OffsetRange; Ranges() hides the single-cluster encoding.
JobSpec(p, ranges) == [partition |-> p, ranges |-> ranges]

\* jobIDForSpec: the start offsets only.  Two specs that end at different
\* offsets share an ID.
jobIDForSpec(spec) ==
    [partition |-> spec.partition,
     starts |-> [c \in DOMAIN spec.ranges |-> spec.ranges[c].start]]

newPartitionState ==
    LET empty == [c \in Clusters |-> offsetEmpty]
    IN  [start |-> empty, end |-> empty, committed |-> empty, planned |-> empty,
         pending |-> <<>>, jobs |-> <<>>]

-------------------------------------------------------------------------------
\* advancingOffset
beyondOffsetRange(off, r) == off # offsetEmpty /\ r.end <= off
validNextOffsetRange(off, r) == off = r.start \/ off = offsetEmpty
advance(off, r) == IF beyondOffsetRange(off, r) THEN off ELSE r.end

advanceAll(offs, ranges) ==
    [c \in Clusters |-> IF c \in DOMAIN ranges THEN advance(offs[c], ranges[c]) ELSE offs[c]]

\* committedBeyondSpec and plannedBeyondSpec, by the offsets they are given.
classifyBeyondSpec(offs, spec) ==
    LET beyond == {c \in DOMAIN spec.ranges : beyondOffsetRange(offs[c], spec.ranges[c])}
    IN  IF beyond = {} THEN "none" ELSE IF beyond = DOMAIN spec.ranges THEN "all" ELSE "some"

plannedValidNextSpec(ps, spec) ==
    \A c \in DOMAIN spec.ranges : validNextOffsetRange(ps.planned[c], spec.ranges[c])

-------------------------------------------------------------------------------
\* initCommit, for every cluster that has a commit.
initCommit(ps, commits) == [ps EXCEPT !.committed = commits, !.planned = commits]

\* addPlannedJob panics when the job ends behind a planned offset.
addPlannedJobPanics(ps, spec) == classifyBeyondSpec(ps.planned, spec) # "none"
addPlannedJob(ps, id, spec) ==
    [ps EXCEPT !.jobs = Append(@, [id |-> id, spec |-> spec, complete |-> FALSE]),
               !.planned = advanceAll(@, spec.ranges)]

\* Mutant: the job is found and its flag is not set.
markCompleteNot(jobs, id) == jobs

\* completeJob: mark the job, then drop the completed jobs at the front of the
\* list and advance the committed offsets over them.  advance never moves back,
\* so advancing over several jobs is taking the largest end.
markComplete(jobs, id) ==
    [i \in DOMAIN jobs |-> IF jobs[i].id = id THEN [jobs[i] EXCEPT !.complete = TRUE] ELSE jobs[i]]
completedFront(jobs) ==
    Max({n \in 0..Len(jobs) : \A i \in 1..n : jobs[i].complete})
advanceOver(offs, jobs) ==
    [c \in Clusters |->
       Max({offs[c]} \cup {jobs[i].spec.ranges[c].end :
                             i \in {j \in DOMAIN jobs : c \in DOMAIN jobs[j].spec.ranges}})]
\* Mutant: the job's own range is committed although jobs before it are open.
completeJobAnyOrder(ps, id) ==
    LET jobs == markComplete(ps.jobs, id)
        Open(j) == ~j.complete
        Done(j) == j.complete
    IN  [ps EXCEPT !.jobs = SelectSeq(jobs, Open),
                   !.committed = advanceOver(@, SelectSeq(jobs, Done))]
completeJob(ps, id) ==
    LET jobs == markComplete(ps.jobs, id)
        n == completedFront(jobs)
    IN  [ps EXCEPT !.jobs = SubSeq(jobs, n + 1, Len(jobs)),
                   !.committed = advanceOver(@, SubSeq(jobs, 1, n))]

-------------------------------------------------------------------------------
\* updateEndOffset, for the clusters whose probe succeeded.  The first offset
\* observed also seeds the start of the first job.
updateEndOffset(ps, ends) ==
    [ps EXCEPT !.end = [c \in Clusters |-> IF c \in DOMAIN ends THEN ends[c] ELSE @[c]],
               !.start = [c \in Clusters |->
                            IF c \in DOMAIN ends /\ @[c] = offsetEmpty THEN ends[c] ELSE @[c]]]

\* Mutant: a cluster without new data gets an empty range.
newDataClustersAll(ps) ==
    {c \in Clusters : ps.start[c] # offsetEmpty}

\* updateTime when the bucket has rolled over, and addPendingJob of its result:
\* one job bundles every sampled cluster with new data.
newDataClusters(ps) ==
    {c \in Clusters : ps.start[c] # offsetEmpty /\ ps.start[c] < ps.end[c]}
updateTime(ps, p) ==
    LET ranges == [c \in newDataClusters(ps) |-> [start |-> ps.start[c], end |-> ps.end[c]]]
    IN  [ps EXCEPT !.start = [c \in Clusters |-> IF @[c] = offsetEmpty THEN @[c] ELSE ps.end[c]],
                   !.pending = IF DOMAIN ranges = {} THEN @ ELSE Append(@, JobSpec(p, ranges))]

\* replayOffsetsAtStartup: cuts is the rising sequence of offset vectors, from
\* the resume offsets on, at which the probed offsets cross a job boundary.  A
\* job is cut between each two of them and the last bucket stays open.
cutRanges(from, to) ==
    [c \in {c \in Clusters : from[c] < to[c]} |-> [start |-> from[c], end |-> to[c]]]
replayOffsetsAtStartup(ps, p, cuts, ends) ==
    [ps EXCEPT !.pending = [i \in 1..(Len(cuts) - 1) |-> JobSpec(p, cutRanges(cuts[i], cuts[i + 1]))],
               !.start = cuts[Len(cuts)],
               !.end = ends]
===============================================================================
