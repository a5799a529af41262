---------------------------- MODULE OffsetScanner ----------------------------
(***************************************************************************)
(* How the restarted block-builder-scheduler cuts jobs from the backlog of *)
(* one partition: probeSingleClusterOffsets asks Kafka, at times a quarter *)
(* of a job apart and going back from now, for the first offset at or      *)
(* after each time (pkg/blockbuilder/scheduler/offset_scanner.go), and     *)
(* replayOffsetsAtStartup replays what it found into the partition state   *)
(* (partition_state.go).  The composition takes the result to be any chain *)
(* of cuts (BlockBuilderScheduler!Cuts); here is where the cuts come from. *)
(*                                                                         *)
(* A log is its first offset and the timestamps of its records, in any     *)
(* order; Kafka finds the first record at or after a time.  Records that   *)
(* arrive during the scan are left out: they come after all the offsets    *)
(* the scan keeps.  The resume offset is at most the end of the log.       *)
(***************************************************************************)
EXTENDS PartitionState, SequencesExt

CONSTANTS
    JobSize, EndTime, MaxScanAge,
    LogStart,     \* first offset of a log, after retention
    MaxRecords    \* bound: records in all logs

VARIABLES
    configured, \* the Kafka clusters of the scheduler
    present,    \* those of them where the partition has offsets
    log,        \* per cluster: [start, times]
    resume,     \* per cluster: partitionOffsets.resume
    probed,     \* perCluster: the result of the scan, <<offset, time>> pairs
    ps,         \* the partitionState
    jobBucket,  \* its jobBucket, -1 before the first updateTime
    cursors,    \* per cluster: next pair to replay
    boundary,   \* start of the bucket being filled; unused if one is configured
    failures,   \* updateTime calls that returned an error
    pc          \* probe, replay or done

vars == <<configured, present, log, resume, probed, ps, jobBucket, cursors, boundary, failures, pc>>

endOf(c) == log[c].start + Len(log[c].times)
timeOf(c, o) == log[c].times[o - log[c].start + 1]
Bucket(t) == (t \div JobSize) * JobSize

\* All logs of these lengths.
Logs(lengths) ==
    LET Of(n) == [start : {LogStart}, times : [1..n -> 0..(EndTime + 1)]]
    IN  FoldSet(LAMBDA c, ls : {l @@ (c :> x) : l \in ls, x \in Of(lengths[c])}, {<<>>}, Clusters)

Init ==
    /\ log \in UNION {Logs(lengths) : lengths \in {l \in [Clusters -> 0..MaxRecords] :
                                                    MapThenSumSet(LAMBDA c : l[c], Clusters) <= MaxRecords}}
    /\ resume \in [Clusters -> 0..(MaxRecords + LogStart)]
    /\ \A c \in Clusters : resume[c] <= endOf(c)
    /\ configured \in (SUBSET Clusters) \ {{}}
    /\ present \in SUBSET configured
    /\ \A c \in Clusters \ present : log[c].times = <<>> /\ resume[c] = 0
    /\ probed = [c \in Clusters |-> <<>>]
    /\ ps = newPartitionState
    /\ jobBucket = -1
    /\ cursors = [c \in Clusters |-> 1]
    /\ boundary = 0
    /\ failures = 0
    /\ pc = "probe"

-------------------------------------------------------------------------------
\* scanProbeTimes, as a set: the scan visits it downwards.
scanProbeTimes ==
    {t \in 0..EndTime : (EndTime - t) % (JobSize \div 4) = 0 /\ EndTime - MaxScanAge < t}

\* offsetAfterTime: the end offset, with its own timestamp -1, if there is no
\* such record; it is then registered at EndTime.
AtOrAfter(c, t) == {o \in log[c].start..(endOf(c) - 1) : timeOf(c, o) >= t}
offsetAfterTime(c, t) ==
    IF AtOrAfter(c, t) = {} THEN [offset |-> endOf(c), time |-> EndTime]
    ELSE LET o == Min(AtOrAfter(c, t)) IN [offset |-> o, time |-> timeOf(c, o)]

\* The scan stops at the first probe that reaches the resume offset; of several
\* probes with the same offset the first, hence latest, is kept.  An offset
\* before the resume offset is raised to it.
found(c, t) == LET at == offsetAfterTime(c, t)
               IN  [at EXCEPT !.offset = Max({@, resume[c]})]
visited(c) ==
    LET hits == {t \in scanProbeTimes : found(c, t).offset = resume[c]}
    IN  {t \in scanProbeTimes : \A u \in hits : u <= t}
probeSingleClusterOffsets(c) ==
    LET probes == {[at |-> t, pair |-> found(c, t)] : t \in visited(c)}
        Kept(p) == \A q \in probes : q.at > p.at => q.pair.offset # p.pair.offset
        sentinels == {p.pair : p \in {p \in probes : Kept(p)}}
    IN  IF resume[c] >= endOf(c) \/ log[c].start >= endOf(c)
        THEN <<[offset |-> endOf(c), time |-> EndTime]>>
        ELSE SetToSortSeq(sentinels, LAMBDA a, b : a.offset < b.offset)

firstTime == Min({probed'[c][1].time : c \in {c \in Clusters : probed'[c] # <<>>}})
probeInitialPartitionOffsets ==
    /\ pc = "probe"
    /\ probed' = [c \in Clusters |-> IF c \in present THEN probeSingleClusterOffsets(c) ELSE <<>>]
    /\ pc' = IF \A c \in Clusters : probed'[c] = <<>> THEN "done" ELSE "replay"
    /\ boundary' = IF pc' = "replay" THEN Bucket(firstTime) ELSE boundary
    /\ UNCHANGED <<configured, present, log, resume, ps, jobBucket, cursors, failures>>

-------------------------------------------------------------------------------
\* updateTime at time t: the first call sets the bucket, a call in the same
\* bucket does nothing, a later bucket cuts a job and an earlier one is an error.
updateTimeAt(state, t) ==
    IF jobBucket # -1 /\ Bucket(t) > jobBucket THEN updateTime(state, "p") ELSE state
BucketAfter(t) == Max({jobBucket, Bucket(t)})
FailuresAfter(t) == IF Bucket(t) < jobBucket THEN failures + 1 ELSE failures

\* One offset of the single-cluster path.
replayOffset ==
    /\ pc = "replay" /\ Cardinality(configured) = 1
    /\ \E c \in configured :
         LET pair == probed[c][cursors[c]]
         IN  /\ ps' = updateTimeAt(updateEndOffset(ps, [d \in configured |-> pair.offset]), pair.time)
             /\ jobBucket' = BucketAfter(pair.time)
             /\ failures' = FailuresAfter(pair.time)
             /\ cursors' = [cursors EXCEPT ![c] = @ + 1]
             /\ pc' = IF cursors'[c] > Len(probed[c]) THEN "done" ELSE "replay"
    /\ UNCHANGED <<configured, present, log, resume, probed, boundary>>

\* One boundary of the walk over several clusters: close the bucket before it,
\* take the offsets before the next boundary, and let the first offset at or
\* after that be the end of the bucket.
cursorAt(c, next) ==
    Max({n \in cursors[c]..(Len(probed[c]) + 1) : \A i \in cursors[c]..(n - 1) : probed[c][i].time < next})
\* Mutant: the bucket ends at the last offset before the boundary.
endsAtLastBefore(next) ==
    [c \in {c \in Clusters : probed[c] # <<>>} |->
       probed[c][Max({cursorAt(c, next) - 1, 1})].offset]
endsAt(next) ==
    [c \in {c \in Clusters : probed[c] # <<>>} |->
       probed[c][Min({cursorAt(c, next), Len(probed[c])})].offset]
\* Mutant: only the end of the bucket is recorded.
seedAtEnd(state, next) == updateEndOffset(state, endsAt(next))
\* updateEndOffset of the first pair replayed seeds the start; the last one stays.
seed(state, next) ==
    LET fresh == {c \in Clusters : probed[c] # <<>> /\ cursors[c] = 1}
    IN  updateEndOffset(updateEndOffset(state, [c \in fresh |-> probed[c][1].offset]), endsAt(next))
replayBoundary ==
    LET next == boundary + JobSize
    IN  /\ pc = "replay" /\ Cardinality(configured) > 1
        /\ ps' = seed(updateTimeAt(ps, boundary), next)
        /\ jobBucket' = BucketAfter(boundary)
        /\ failures' = FailuresAfter(boundary)
        /\ cursors' = [c \in Clusters |-> cursorAt(c, next)]
        /\ pc' = IF \A c \in Clusters : cursors'[c] > Len(probed[c]) THEN "done" ELSE "replay"
        /\ boundary' = next
        /\ UNCHANGED <<configured, present, log, resume, probed>>

Done == pc = "done" /\ UNCHANGED vars

Next == probeInitialPartitionOffsets \/ replayOffset \/ replayBoundary \/ Done
Spec == Init /\ [][Next]_vars
-------------------------------------------------------------------------------
\* The jobs cut at startup and the bucket left open cover, without overlap, all
\* records of every cluster from the resume offset to the last offset found,
\* provided the record to resume at is not older than the oldest probe ("probe
\* did not reach commit offset due to limited scan age", offset_scanner.go:117).
\* The offsets kept are distinct, ascending and never before the resume offset.
cutEnds(c) == {ps.pending[i].ranges[c].end : i \in {i \in DOMAIN ps.pending : c \in DOMAIN ps.pending[i].ranges}}
firstRecord(c) == Max({resume[c], log[c].start})
withinScan(c) == firstRecord(c) = endOf(c) \/ timeOf(c, firstRecord(c)) >= Min(scanProbeTimes)
CoversBacklog ==
    /\ \A c \in Clusters : \A i \in DOMAIN probed[c] :
         /\ probed[c][i].offset \in resume[c]..endOf(c)
         /\ i > 1 => probed[c][i - 1].offset < probed[c][i].offset
    /\ pc = "done" => \A c \in present :
         /\ withinScan(c) => probed[c] # <<>> /\ probed[c][1].offset = firstRecord(c)
         /\ probed[c] # <<>> =>
              /\ \A i \in DOMAIN ps.pending : c \in DOMAIN ps.pending[i].ranges =>
                   ps.pending[i].ranges[c].start =
                     Max({probed[c][1].offset} \cup {e \in cutEnds(c) : e < ps.pending[i].ranges[c].end})
              /\ ps.start[c] = Max({probed[c][1].offset} \cup cutEnds(c))
              /\ ps.end[c] = Last(probed[c]).offset

\* "cutting a job at every jobSize boundary" (partition_state.go:130): all
\* offsets found inside one job, whatever their cluster, are of one bucket.
\* Records may carry timestamps in any order, but the times of the offsets the
\* scan keeps rise with the offsets, so updateTime never sees time go backwards
\* and no offset is dropped with an error (partition_state.go:92).
OneBucketPerJob ==
    /\ \A i \in DOMAIN ps.pending :
         Cardinality(UNION {{Bucket(probed[c][n].time) : n \in
           {n \in DOMAIN probed[c] : /\ ps.pending[i].ranges[c].start <= probed[c][n].offset
                                     /\ probed[c][n].offset < ps.pending[i].ranges[c].end}}
           : c \in DOMAIN ps.pending[i].ranges}) <= 1
    /\ failures = 0
===============================================================================
