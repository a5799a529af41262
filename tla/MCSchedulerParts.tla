-------------------------- MODULE MCSchedulerParts --------------------------
(* The self-contained parts of the block-builder-scheduler, one per behaviour: *)
(* the job queue with two jobs and two workers, the ordering of three observed *)
(* jobs over three clusters, and the scan of all logs of up to three records   *)
(* in one or two clusters.                                                     *)
EXTENDS JobQueueProtocol, ObservationOrdering

CONSTANTS Clusters, JobSize, EndTime, MaxScanAge, LogStart, MaxRecords

VARIABLES part,
          configured, present, log, resume, probed, ps, jobBucket, cursors, boundary, failures, pc

Scanner == INSTANCE OffsetScanner

scannerVars == <<configured, present, log, resume, probed, ps, jobBucket, cursors, boundary, failures, pc>>

\* The parts that do not run: an ordering that is done, and no scan.
OrderingRests ==
    /\ starts = [j \in Jobs |-> [c \in {0} |-> 0]]
    /\ entries = [c \in clusterIDs |-> IF c = 0 THEN [j \in Jobs |-> j] ELSE <<>>]
    /\ next = [c \in clusterIDs |-> IF c = 0 THEN NumJobs + 1 ELSE 1]
    /\ ordered = [j \in Jobs |-> j] /\ cluster = 0 /\ emitted = FALSE /\ result = "ordered"
NoScanner == /\ configured = 0 /\ present = 0 /\ log = 0 /\ resume = 0 /\ probed = 0 /\ ps = 0
             /\ jobBucket = 0 /\ cursors = 0 /\ boundary = 0 /\ failures = 0 /\ pc = "none"

\* Jobs are named in any order: one naming for each set of jobs loses nothing.
OneNaming ==
    LET rank(j) == MapThenSumSet(LAMBDA c : (starts[j][c] + 1) * (MaxStart + 2)^c, DOMAIN starts[j])
    IN  \A i \in 1..(NumJobs - 1) : rank(i) <= rank(i + 1)

PartsInit ==
    /\ Init
    /\ \/ part = "queue" /\ OrderingRests /\ NoScanner
       \/ part = "ordering" /\ OrderInit /\ OneNaming /\ NoScanner
       \/ part = "scanner" /\ OrderingRests /\ Scanner!Init

QueueStep == part = "queue" /\ Next /\ UNCHANGED <<part, orderVars, scannerVars>>
OrderingStep == part = "ordering" /\ OrderNext /\ UNCHANGED <<part, vars, scannerVars>>
ScannerStep == part = "scanner" /\ Scanner!Next /\ UNCHANGED <<part, vars, orderVars>>

PartsSpec ==
    /\ PartsInit
    /\ [][QueueStep \/ OrderingStep \/ ScannerStep]_<<part, vars, orderVars, scannerVars>>
    /\ WF_orderVars(OrderingStep)

------------------------------------------------------------------------------
\* The properties of the startup scan and its replay (OffsetScanner).
\* CoversBacklog: the jobs cut at startup cover the backlog that the scan reaches.
CoversBacklog == part = "scanner" => Scanner!CoversBacklog
\* OneBucketPerJob: a job cut at startup mixes no two time buckets, and time never goes
\* backwards in the replay.
OneBucketPerJob == part = "scanner" => Scanner!OneBucketPerJob
==============================================================================
