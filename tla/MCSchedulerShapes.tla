--------------------------- MODULE MCSchedulerShapes ---------------------------
(* The block-builder-scheduler in three shapes, one per behaviour: two workers *)
(* on one Kafka cluster, one worker on two clusters (two records each), and    *)
(* one worker on one cluster with three records, two of them in the log before *)
(* the first start.                                                            *)
EXTENDS TLC

CONSTANTS NoWorker, NoJob, Partitions, MaxFaults, MaxJobsPerPartition,
          HasCommit, ObserveAll, StartupProbeMayFail,
          OneWorker, TwoWorkers, OneCluster, TwoClusters   \* singletons and pairs

VARIABLES shape, logEnd, kcommit, phase, mu, ps, queue, obs, todo, gap,
          client, current, built, updates, faults

Crowd == INSTANCE BlockBuilderScheduler
           WITH Workers <- TwoWorkers, Clusters <- OneCluster, MaxOffset <- 2, MaxRecords <- 2
Spread == INSTANCE BlockBuilderScheduler
           WITH Workers <- OneWorker, Clusters <- TwoClusters, MaxOffset <- 2, MaxRecords <- 2
Long == INSTANCE BlockBuilderScheduler
           WITH Workers <- OneWorker, Clusters <- OneCluster, MaxOffset <- 3, MaxRecords <- 3

PerShape(crowd, spread, long) ==
    CASE shape = "crowd" -> crowd [] shape = "spread" -> spread [] shape = "long" -> long

ShapesSpec ==
    /\ \/ shape = "crowd" /\ Crowd!Init
       \/ shape = "spread" /\ Spread!Init
       \/ shape = "long" /\ Long!FirstStart(2)
    /\ [][/\ UNCHANGED shape
          /\ \/ shape = "crowd" /\ Crowd!Next
             \/ shape = "spread" /\ Spread!Next
             \/ shape = "long" /\ Long!Next]_<<shape, Crowd!vars>>

Symmetry == Permutations(TwoWorkers)
--------------------------------------------------------------------------------
(* The properties of BlockBuilderScheduler, in the shape that runs. *)

\* The state of the scheduler, of Kafka and of the workers is well formed.
TypeOK == PerShape(Crowd!TypeOK, Spread!TypeOK, Long!TypeOK)
\* No commit, in Kafka or in the scheduler's memory, passes a record whose samples
\* are not in an uploaded block (updateJob, flushOffsetsToKafka).
CommittedIsBuilt ==
    PerShape(Crowd!CommittedIsBuilt, Spread!CommittedIsBuilt, Long!CommittedIsBuilt)
\* The job queue and the plans of the partitions are the same jobs.
QueueMatchesPlan ==
    PerShape(Crowd!QueueMatchesPlan, Spread!QueueMatchesPlan, Long!QueueMatchesPlan)
\* Planned jobs, pending jobs and the open bucket tile the log from the commit on.
Contiguous == PerShape(Crowd!Contiguous, Spread!Contiguous, Long!Contiguous)
\* A job that waits to be assigned is not behind the commit.
WaitingJobsAhead ==
    PerShape(Crowd!WaitingJobsAhead, Spread!WaitingJobsAhead, Long!WaitingJobsAhead)
\* The key of the next assignment is new to every worker that could get it.
AssignedKeyIsNew ==
    PerShape(Crowd!AssignedKeyIsNew, Spread!AssignedKeyIsNew, Long!AssignedKeyIsNew)
\* A worker that can complete a job was given the offsets that will be committed.
HolderHasSpec == PerShape(Crowd!HolderHasSpec, Spread!HolderHasSpec, Long!HolderHasSpec)
================================================================================
