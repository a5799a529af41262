------------------------ MODULE BlockBuilderScheduler ------------------------
(***************************************************************************)
(* The block-builder-scheduler, the block-builders that work for it and    *)
(* the Kafka clusters they read (pkg/blockbuilder).                        *)
(*                                                                         *)
(* The scheduler keeps all its state in memory.  It cuts each partition's  *)
(* log into jobs, hands them to block-builders and, as they complete,      *)
(* advances the offsets it commits to Kafka.  After a restart it starts    *)
(* from the commits and from what the block-builders tell it in the        *)
(* observation period.  Every handler runs under the scheduler's mutex.    *)
(* The two handlers that loop over jobs, finalizeObservations and          *)
(* enqueuePendingJobs, take one step per job; no other handler runs while  *)
(* they hold the mutex (variables todo and mu).                            *)
(*                                                                         *)
(* Modelled elsewhere: the job queue (JobQueue), the state of a partition  *)
(* (PartitionState), the order observations are imported in               *)
(* (ObservationOrdering).  Left out: metrics, the HTTP and gRPC encoding,  *)
(* time (buckets roll over and leases expire when an action says so).      *)
(***************************************************************************)
EXTENDS JobQueue, PartitionState

CONSTANTS
    Partitions, Workers,
    NoJob,                \* a worker that is not consuming
    MaxOffset,            \* bound: records per partition and cluster
    MaxRecords,           \* bound: records in all
    MaxFaults,            \* bound: faults of all kinds in a behaviour
    MaxJobsPerPartition,  \* the config option; 0 is no limit
    HasCommit,            \* the consumer group has committed offset 0 before
    ObserveAll,           \* observation mode hears of every job a live worker has
    StartupProbeMayFail   \* populateInitialJobs may skip a partition

ASSUME SchedulerConstantsOK ==
    /\ MaxOffset \in Nat /\ MaxRecords \in Nat /\ MaxFaults \in Nat /\ MaxJobsPerPartition \in Nat
    /\ HasCommit \in BOOLEAN /\ ObserveAll \in BOOLEAN /\ StartupProbeMayFail \in BOOLEAN
    /\ NoWorker \notin Workers

VARIABLES
    logEnd,     \* Kafka: end offset of every partition in every cluster
    kcommit,    \* Kafka: committed offset of the consumer group, -1 if none
    built,      \* object storage: offsets whose samples are in an uploaded block
    phase,      \* scheduler: down, observing, recovering or running
    mu,         \* scheduler: who holds the mutex between steps, free or enqueue
    ps,         \* scheduler: partitionStates
    queue,      \* scheduler: jobs
    obs,        \* scheduler: observations, job ID -> [id, epoch, spec, worker, complete]
    todo,       \* scheduler: observations finalizeObservations still has to visit
    gap,        \* scheduler: partitions where it found a gap
    client,     \* worker: schedulerClient.jobs, key -> [spec, complete]
    current,    \* worker: key of the job it is consuming
    updates,    \* UpdateJob calls in flight
    faults      \* number of faults so far

kafka == <<logEnd, kcommit>>
scheduler == <<phase, mu, ps, queue, obs, todo, gap>>
workers == <<client, current, built>>
vars == <<kafka, scheduler, workers, updates, faults>>

Key(id, epoch) == [id |-> id, epoch |-> epoch]
InitialCommit == IF HasCommit THEN 0 ELSE offsetEmpty
EmptyMap == [x \in {} |-> x]
Fault == faults < MaxFaults /\ faults' = faults + 1

\* The first start, with n records in each log.
FirstStart(n) ==
    /\ logEnd = [p \in Partitions |-> [c \in Clusters |-> n]]
    /\ kcommit = [p \in Partitions |-> [c \in Clusters |-> InitialCommit]]
    /\ built = [p \in Partitions |-> [c \in Clusters |-> {}]]
    /\ phase = "down" /\ mu = "free"
    /\ ps = [p \in Partitions |-> newPartitionState]
    /\ queue = EmptyQueue
    /\ obs = EmptyMap /\ todo = {} /\ gap = {}
    /\ client = [w \in Workers |-> EmptyMap]
    /\ current = [w \in Workers |-> NoJob]
    /\ updates = {}
    /\ faults = 0
Init == FirstStart(0)

-------------------------------------------------------------------------------
(* Kafka *)

Produce(p, c) ==
    /\ logEnd[p][c] < MaxOffset
    /\ MapThenSumSet(LAMBDA at : logEnd[at[1]][at[2]], Partitions \X Clusters) < MaxRecords
    /\ logEnd' = [logEnd EXCEPT ![p][c] = @ + 1]
    /\ UNCHANGED <<kcommit, scheduler, workers, updates, faults>>

-------------------------------------------------------------------------------
(* Scheduler: start, observation mode, recovery *)

\* What a process exit leaves behind; calls in flight die with the process.
Down ==
    /\ phase' = "down" /\ mu' = "free"
    /\ ps' = [p \in Partitions |-> newPartitionState]
    /\ queue' = EmptyQueue
    /\ obs' = EmptyMap /\ todo' = {} /\ gap' = {}
    /\ updates' = {}

\* A crash, a restart for an upgrade, or running returning an error.
CrashScheduler ==
    /\ phase # "down"
    /\ Fault
    /\ Down
    /\ UNCHANGED <<kafka, workers>>

\* A panic in a handler ends the process; the next start is another try.
Panic ==
    /\ Fault
    /\ Down

\* running up to the observation wait: loadInitialCommittedOffsets.
loadInitialCommittedOffsets ==
    /\ phase = "down"
    /\ phase' = "observing"
    /\ ps' = [p \in Partitions |-> initCommit(newPartitionState, kcommit[p])]
    /\ UNCHANGED <<kafka, mu, queue, obs, todo, gap, workers, updates, faults>>

\* The observations of partition p can be put in the order of their offsets:
\* no set of them is cyclic across clusters.
Precedes(o1, o2) ==
    \E c \in DOMAIN o1.spec.ranges \cap DOMAIN o2.spec.ranges :
      o1.spec.ranges[c].start < o2.spec.ranges[c].start
Orderable(os) ==
    \A some \in (SUBSET os) \ {{}} : \E o \in some : \A other \in some : ~Precedes(other, o)

\* The keys that live workers or calls in flight still carry.
KnownKeys ==
    (UNION {DOMAIN client[w] : w \in Workers}) \cup {Key(u.id, u.epoch) : u \in updates}

\* completeObservationMode takes the mutex and finalizeObservations collects
\* the observations of every partition it can put in order.  With ObserveAll
\* the wait was long enough for each of them to be heard.
completeObservationMode ==
    /\ phase = "observing"
    /\ ObserveAll => \A k \in KnownKeys : k.id \in DOMAIN obs /\ k.epoch <= obs[k.id].epoch
    /\ phase' = "recovering"
    /\ LET All(p) == {obs[id] : id \in {id \in DOMAIN obs : id.partition = p}}
       IN  todo' = UNION {IF Orderable(All(p)) THEN All(p) ELSE {} : p \in Partitions}
    /\ UNCHANGED <<kafka, mu, ps, queue, obs, gap, workers, updates, faults>>

\* Mutant: an observation need not continue the plan.
gapAtAnyNext(o) ==
    \/ o.spec.partition \in gap
    \/ classifyBeyondSpec(ps[o.spec.partition].planned, o.spec) = "some"
    \/ /\ classifyBeyondSpec(ps[o.spec.partition].planned, o.spec) = "none"
       /\ ~o.complete /\ ImportRefused(queue, o.id, o.epoch, o.worker)

\* The body of finalizeObservations' loop, for an observation that no other one
\* left precedes.
gapAt(o) ==
    \/ o.spec.partition \in gap
    \/ classifyBeyondSpec(ps[o.spec.partition].planned, o.spec) = "some"
    \/ /\ classifyBeyondSpec(ps[o.spec.partition].planned, o.spec) = "none"
       /\ \/ ~plannedValidNextSpec(ps[o.spec.partition], o.spec)
          \/ ~o.complete /\ ImportRefused(queue, o.id, o.epoch, o.worker)
importObservation(o) ==
    LET p == o.spec.partition
    IN  /\ phase = "recovering"
        /\ \A other \in todo : other.spec.partition = p => ~Precedes(other, o)
        /\ todo' = todo \ {o}
        /\ gap' = IF gapAt(o) THEN gap \cup {p} ELSE gap
        /\ IF gapAt(o) \/ classifyBeyondSpec(ps[p].planned, o.spec) = "all"
           THEN UNCHANGED <<ps, queue>>
           ELSE LET planned == addPlannedJob(ps[p], o.id, o.spec)
                IN  IF o.complete
                    THEN /\ ps' = [ps EXCEPT ![p] = completeJob(planned, o.id)]
                         /\ UNCHANGED queue
                    ELSE /\ ps' = [ps EXCEPT ![p] = planned]
                         /\ queue' = ImportJob(queue, o.id, o.epoch, o.worker, o.spec)
        /\ UNCHANGED <<kafka, phase, mu, obs, workers, updates, faults>>

\* Mutant: resume from the commit although later jobs were recovered.
resumeOffsetsCommitted(p) ==
    [c \in Clusters |-> LET committed == ps[p].committed[c]
                            resume == IF committed = offsetEmpty THEN 0 ELSE committed
                        IN  IF resume < logEnd[p][c] THEN resume ELSE logEnd[p][c]]

\* The rest of completeObservationMode: setEpoch, initConsumptionOffsets and
\* populateInitialJobs.  A partition resumes from its planned offset, or from
\* the start of the log (the log is younger than LookbackOnNoCommit).
resumeOffsets(p) ==
    [c \in Clusters |-> LET planned == ps[p].planned[c]
                            resume == IF planned = offsetEmpty THEN 0 ELSE planned
                        IN  IF resume < logEnd[p][c] THEN resume ELSE logEnd[p][c]]
AtMost(v, u) == \A c \in Clusters : v[c] <= u[c]
\* Every way the probed offsets of p can fall into job buckets: a chain of
\* offset vectors, as a sequence.
Cuts(p) ==
    LET from == resumeOffsets(p)
        vectors == {v \in [Clusters -> 0..MaxOffset] : AtMost(from, v) /\ AtMost(v, logEnd[p])}
        chains == {vs \in SUBSET vectors :
                     from \in vs /\ \A u, v \in vs : AtMost(u, v) \/ AtMost(v, u)}
    IN  {[i \in 1..Cardinality(vs) |->
            CHOOSE v \in vs : Cardinality({u \in vs : AtMost(u, v)}) = i] : vs \in chains}
\* Mutant: the counter restarts at the highest epoch in use.
epochAfterReused(observed) == Max({1} \cup {observed[id].epoch : id \in DOMAIN observed})
epochAfter(observed) == Max({0} \cup {observed[id].epoch : id \in DOMAIN observed}) + 1
populateInitialJobs ==
    /\ phase = "recovering" /\ todo = {}
    /\ phase' = "running"
    /\ queue' = SetEpoch(queue, epochAfter(obs))
    /\ \E skipped \in SUBSET Partitions, cuts \in [Partitions -> UNION {Cuts(p) : p \in Partitions}] :
         /\ skipped = {} \/ StartupProbeMayFail
         /\ \A p \in Partitions : cuts[p] \in Cuts(p)
         /\ ps' = [p \in Partitions |->
                     IF p \in skipped THEN ps[p]
                     ELSE replayOffsetsAtStartup(ps[p], p, cuts[p], logEnd[p])]
    /\ obs' = EmptyMap /\ gap' = {}
    /\ UNCHANGED <<kafka, mu, todo, workers, updates, faults>>

-------------------------------------------------------------------------------
(* Scheduler: normal operation *)

\* updateSchedule: the end offsets of the clusters that answered, then the time
\* bucket of the partitions; those in rolled have entered a new one.
updateSchedule(answered, rolled) ==
    /\ phase = "running" /\ mu = "free"
    /\ ps' = [p \in Partitions |->
                LET seen == updateEndOffset(ps[p], [c \in answered |-> logEnd[p][c]])
                IN  IF p \in rolled THEN updateTime(seen, p) ELSE seen]
    /\ UNCHANGED <<kafka, phase, mu, queue, obs, todo, gap, workers, updates, faults>>

\* limitPerPartitionJobCreationPolicy
canCreateJob(q, spec) ==
    \/ MaxJobsPerPartition = 0
    \/ Cardinality({id \in DOMAIN q.jobs : q.jobs[id].spec.partition = spec.partition})
         < MaxJobsPerPartition

\* One turn of enqueuePendingJobs' inner loop; it goes on, holding the mutex,
\* until every partition is out of pending jobs or refused one.
canEnqueue(state, q) ==
    /\ state.pending # <<>>
    /\ LET spec == Head(state.pending)
       IN  classifyBeyondSpec(state.committed, spec) = "none" =>
             CanAdd(q, jobIDForSpec(spec), canCreateJob(q, spec))
enqueuePanics(p) ==
    LET spec == Head(ps[p].pending)
        beyond == classifyBeyondSpec(ps[p].committed, spec)
    IN  beyond = "some" \/ (beyond = "none" /\ addPlannedJobPanics(ps[p], spec))
enqueuePendingJobs(p) ==
    LET spec == Head(ps[p].pending)
        id == jobIDForSpec(spec)
        beyond == classifyBeyondSpec(ps[p].committed, spec)
        popped == [ps[p] EXCEPT !.pending = Tail(@)]
    IN  /\ phase = "running"
        /\ canEnqueue(ps[p], queue)
        /\ IF enqueuePanics(p)
           THEN Panic
           ELSE /\ queue' = IF beyond = "all" THEN queue ELSE Add(queue, id, spec)
                /\ ps' = [ps EXCEPT ![p] = IF beyond = "all" THEN popped
                                           ELSE addPlannedJob(popped, id, spec)]
                /\ mu' = IF \E r \in Partitions : canEnqueue(ps'[r], queue')
                         THEN "enqueue" ELSE "free"
                /\ UNCHANGED <<phase, obs, todo, gap, updates, faults>>
        /\ UNCHANGED <<kafka, workers>>

clearExpiredLeases(expired) ==
    /\ phase = "running"
    /\ \/ /\ \A i \in DOMAIN expired :
               LET j == queue.jobs[expired[i]]
               IN  Key(expired[i], j.epoch) \notin DOMAIN client[j.assignee]
          /\ UNCHANGED faults
       \/ /\ \E i \in DOMAIN expired :
               LET j == queue.jobs[expired[i]]
               IN  Key(expired[i], j.epoch) \in DOMAIN client[j.assignee]
          /\ Fault
    /\ queue' = ClearExpiredLeases(queue, expired)
    /\ UNCHANGED <<kafka, phase, mu, ps, obs, todo, gap, workers, updates>>

\* Mutant: the planned offsets are flushed.
flushPlannedOffsets(c) ==
    /\ phase = "running" /\ mu = "free"
    /\ kcommit' = [p \in Partitions |->
                     IF ps[p].planned[c] = offsetEmpty THEN kcommit[p]
                     ELSE [kcommit[p] EXCEPT ![c] = ps[p].planned[c]]]
    /\ UNCHANGED <<logEnd, scheduler, workers, updates, faults>>

\* flushOffsetsToKafka, one cluster: its commit may fail while another's lands.
flushOffsetsToKafka(c) ==
    /\ phase = "running" /\ mu = "free"
    /\ kcommit' = [p \in Partitions |->
                     IF ps[p].committed[c] = offsetEmpty THEN kcommit[p]
                     ELSE [kcommit[p] EXCEPT ![c] = ps[p].committed[c]]]
    /\ UNCHANGED <<logEnd, scheduler, workers, updates, faults>>

\* AssignJob and, unless the answer is lost, the rest of the client's GetJob.
\* The handler can outlive the client's 15s timeout, so a lost answer may be to
\* a call the worker has given up on.  A job behind the commit is dropped.
assignBeyond ==
    LET spec == queue.jobs[Assigned(queue)].spec
    IN  classifyBeyondSpec(ps[spec.partition].committed, spec)
assignJob(w) ==
    LET id == Assigned(queue)
        spec == queue.jobs[id].spec
        k == Key(id, queue.epoch)
    IN  /\ phase = "running" /\ mu = "free"
        /\ CanAssign(queue)
        /\ IF assignBeyond = "none"
           THEN /\ queue' = Assign(queue, w)
                /\ \/ /\ current[w] = NoJob
                      /\ client' = [client EXCEPT ![w] = Put(@, k, [spec |-> spec, complete |-> FALSE])]
                      /\ current' = [current EXCEPT ![w] = k]
                      /\ UNCHANGED faults
                   \/ /\ Fault
                      /\ UNCHANGED <<client, current>>
                /\ UNCHANGED <<phase, mu, ps, obs, todo, gap, updates>>
           ELSE /\ IF assignBeyond = "some" THEN Panic
                   ELSE /\ queue' = RemoveJob(Assign(queue, w), id)
                        /\ UNCHANGED <<phase, mu, ps, obs, todo, gap, updates, faults>>
                /\ UNCHANGED <<client, current>>
        /\ UNCHANGED <<kafka, built>>

\* UpdateJob in observation mode: updateObservation.
updateObservation(u) ==
    /\ phase = "observing"
    /\ obs' = IF u.id \in DOMAIN obs /\ u.epoch < obs[u.id].epoch THEN obs ELSE Put(obs, u.id, u)
    /\ updates' = updates \ {u}
    /\ UNCHANGED <<kafka, phase, mu, ps, queue, todo, gap, workers, faults>>

\* UpdateJob in normal operation: updateJob.  A renewed lease is not visible.
updatePanics(u) ==
    ~u.complete /\ classifyBeyondSpec(ps[u.spec.partition].committed, u.spec) = "some"
updateJob(u) ==
    LET p == u.spec.partition
        held == HeldBy(queue, u.id, u.epoch, u.worker)
    IN  /\ phase = "running" /\ mu = "free"
        /\ IF updatePanics(u)
           THEN Panic
           ELSE /\ queue' = IF u.complete /\ held THEN CompleteJob(queue, u.id) ELSE queue
                /\ ps' = IF u.complete /\ held THEN [ps EXCEPT ![p] = completeJob(@, u.id)] ELSE ps
                /\ updates' = updates \ {u}
                /\ UNCHANGED <<phase, mu, obs, todo, gap, faults>>
        /\ UNCHANGED <<kafka, workers>>

-------------------------------------------------------------------------------
(* Block-builder *)

\* consumeJob succeeds: every block is uploaded, then the job is complete.
CompleteConsumedJob(w) ==
    LET k == current[w]
        spec == client[w][k].spec
    IN  /\ k # NoJob
        /\ built' = [built EXCEPT ![spec.partition] = [c \in Clusters |->
                       IF c \in DOMAIN spec.ranges
                       THEN @[c] \cup spec.ranges[c].start..(spec.ranges[c].end - 1) ELSE @[c]]]
        /\ client' = [client EXCEPT ![w][k].complete = TRUE]
        /\ current' = [current EXCEPT ![w] = NoJob]
        /\ UNCHANGED <<kafka, scheduler, updates, faults>>

\* consumeJob fails: the client forgets the job.
FailJob(w) ==
    /\ current[w] # NoJob
    /\ Fault
    /\ client' = [client EXCEPT ![w] = Drop(@, current[w])]
    /\ current' = [current EXCEPT ![w] = NoJob]
    /\ UNCHANGED <<kafka, scheduler, built, updates>>

CrashWorker(w) ==
    /\ client[w] # EmptyMap
    /\ Fault
    /\ client' = [client EXCEPT ![w] = EmptyMap]
    /\ current' = [current EXCEPT ![w] = NoJob]
    /\ UNCHANGED <<kafka, scheduler, built, updates>>

\* Run: sendUpdates, one call of its loop at a time, and forgetOldJobs.
sendUpdates(w, k) ==
    LET u == [id |-> k.id, epoch |-> k.epoch, worker |-> w,
              spec |-> client[w][k].spec, complete |-> client[w][k].complete]
    IN  /\ phase # "down"
        /\ \A sent \in updates : sent.worker # w
        /\ updates' = updates \cup {u}
        /\ UNCHANGED <<kafka, scheduler, workers, faults>>
forgetOldJobs(w, k) ==
    /\ client[w][k].complete
    /\ Fault
    /\ client' = [client EXCEPT ![w] = Drop(@, k)]
    /\ UNCHANGED <<kafka, scheduler, built, current, updates>>

-------------------------------------------------------------------------------
Next ==
    \/ \E p \in Partitions, c \in Clusters : Produce(p, c)
    \/ CrashScheduler
    \/ loadInitialCommittedOffsets
    \/ completeObservationMode
    \/ \E o \in todo : importObservation(o)
    \/ populateInitialJobs
    \/ \E answered \in SUBSET Clusters, rolled \in SUBSET Partitions : updateSchedule(answered, rolled)
    \/ \E p \in Partitions : enqueuePendingJobs(p)
    \/ \E expired \in ExpiryOrders(queue) : clearExpiredLeases(expired)
    \/ \E c \in Clusters : flushOffsetsToKafka(c)
    \/ \E w \in Workers : assignJob(w)
    \/ \E u \in updates : updateObservation(u) \/ updateJob(u)
    \/ \E w \in Workers : CompleteConsumedJob(w) \/ FailJob(w) \/ CrashWorker(w)
    \/ \E w \in Workers : \E k \in DOMAIN client[w] : sendUpdates(w, k) \/ forgetOldJobs(w, k)

Spec == Init /\ [][Next]_vars
-------------------------------------------------------------------------------
(* Types *)

Offset == 0..MaxOffset
ValidSpec(spec) ==
    /\ spec.partition \in Partitions
    /\ DOMAIN spec.ranges \in (SUBSET Clusters) \ {{}}
    /\ \A c \in DOMAIN spec.ranges :
         spec.ranges[c] \in [start : Offset, end : Offset] /\ spec.ranges[c].start < spec.ranges[c].end
TypeOK ==
    /\ logEnd \in [Partitions -> [Clusters -> Offset]]
    /\ kcommit \in [Partitions -> [Clusters -> -1..MaxOffset]]
    /\ built \in [Partitions -> [Clusters -> SUBSET Offset]]
    /\ phase \in {"down", "observing", "recovering", "running"}
    /\ mu \in {"free", "enqueue"}
    /\ \A p \in Partitions :
         /\ {ps[p].start, ps[p].end, ps[p].committed, ps[p].planned} \subseteq [Clusters -> -1..MaxOffset]
         /\ \A i \in DOMAIN ps[p].pending : ValidSpec(ps[p].pending[i])
         /\ \A i \in DOMAIN ps[p].jobs :
              /\ ValidSpec(ps[p].jobs[i].spec)
              /\ ps[p].jobs[i].id = jobIDForSpec(ps[p].jobs[i].spec)
    /\ queue.epoch \in Nat
    /\ \A id \in DOMAIN queue.jobs :
         /\ ValidSpec(queue.jobs[id].spec) /\ id = jobIDForSpec(queue.jobs[id].spec)
         /\ queue.jobs[id].assignee \in Workers \cup {NoWorker}
    /\ \A u \in updates \cup todo :
         u.worker \in Workers /\ u.epoch \in 1..(u.epoch + 1) /\ ValidSpec(u.spec) /\ u.id = jobIDForSpec(u.spec)
    /\ gap \subseteq Partitions
    /\ \A w \in Workers :
         /\ current[w] \in DOMAIN client[w] \cup {NoJob}
         /\ \A k \in DOMAIN client[w] :
              ValidSpec(client[w][k].spec) /\ k.id = jobIDForSpec(client[w][k].spec) /\ k.epoch > 0
    /\ faults \in 0..MaxFaults

-------------------------------------------------------------------------------
(* Properties *)

\* Neither Kafka nor the scheduler ever holds a commit past a record whose
\* samples are not in an uploaded block.
CommittedIsBuilt ==
    \A p \in Partitions, c \in Clusters :
      0..(Max({kcommit[p][c], ps[p].committed[c]}) - 1) \subseteq built[p][c]

\* The job queue and the planned jobs of the partitions are the same jobs, so a
\* completion that the queue accepts is found in the plan (updateJob calls one
\* after the other and ignores a job that the plan does not have).
QueueMatchesPlan ==
    phase \in {"recovering", "running"} =>
      /\ \A id \in DOMAIN queue.jobs :
           \E i \in DOMAIN ps[id.partition].jobs :
             LET j == ps[id.partition].jobs[i]
             IN  j.id = id /\ j.spec = queue.jobs[id].spec /\ ~j.complete
      /\ \A p \in Partitions : \A i \in DOMAIN ps[p].jobs :
           /\ ~ps[p].jobs[i].complete => ps[p].jobs[i].id \in DOMAIN queue.jobs
           /\ \A j \in DOMAIN ps[p].jobs : ps[p].jobs[i].id = ps[p].jobs[j].id => i = j

\* In every cluster the planned jobs, then the pending jobs, then the open
\* bucket tile the log from the committed offset on.
frontier(base, specs, c) ==
    Max({base} \cup {specs[i].ranges[c].end : i \in {j \in DOMAIN specs : c \in DOMAIN specs[j].ranges}})
Contiguous ==
    phase = "running" =>
      \A p \in Partitions, c \in Clusters :
        LET state == ps[p]
            plan == [i \in DOMAIN state.jobs |-> state.jobs[i].spec]
            specs == plan \o state.pending
            base == Max({0, state.committed[c]})
        IN  /\ \A i \in DOMAIN specs :
                 c \in DOMAIN specs[i].ranges =>
                   specs[i].ranges[c].start = frontier(base, SubSeq(specs, 1, i - 1), c)
            /\ state.planned[c] # offsetEmpty => state.planned[c] = frontier(base, plan, c)
            /\ state.start[c] # offsetEmpty => state.start[c] = frontier(base, specs, c)

\* A worker that can complete a job was given the same offsets that the
\* scheduler will commit for it.
HolderHasSpec ==
    \A w \in Workers : \A k \in DOMAIN client[w] :
      HeldBy(queue, k.id, k.epoch, w) => client[w][k].spec = queue.jobs[k.id].spec

\* The key of the next assignment is new to every worker that could get it
\* ("This should never happen", schedulerpb/client.go:183).
AssignedKeyIsNew ==
    phase = "running" /\ CanAssign(queue) =>
      \A w \in Workers : current[w] = NoJob => Key(Assigned(queue), queue.epoch) \notin DOMAIN client[w]

\* The jobs that wait to be enqueued or assigned are wholly ahead of the commit
\* and of the plan, so neither enqueuePendingJobs nor addPlannedJob nor assignJob
\* panics or drops a job ("This should not happen", scheduler.go:370, 736,
\* partition_state.go:237).
WaitingJobsAhead ==
    phase = "running" =>
      /\ \A p \in Partitions : canEnqueue(ps[p], queue) => ~enqueuePanics(p)
      /\ \A id \in DOMAIN queue.jobs :
           classifyBeyondSpec(ps[id.partition].committed, queue.jobs[id].spec) = "none"

\* No worker's update makes updateJob panic: "Behind the committed offset on a
\* subset of clusters - should not happen" (scheduler.go:803).
UpdatesNeverPartlyBehind ==
    phase = "running" => \A u \in updates : ~updatePanics(u)

\* The system implements the at-least-once contract (module AtLeastOnce).
Contract == INSTANCE AtLeastOnce
ImplementsAtLeastOnce == Contract!Spec

\* Every record is committed to Kafka in the end.
EverythingCommitted ==
    \A p \in Partitions, c \in Clusters, o \in 1..MaxOffset :
      logEnd[p][c] >= o ~> kcommit[p][c] >= o

-------------------------------------------------------------------------------
(* Fairness: the tickers of the scheduler and of the clients keep firing, the  *)
(* Kafka clusters answer, a worker that polls gets an answer and a worker that *)
(* consumes finishes.                                                          *)

\* An update that tells the scheduler something it does not know.  sendUpdates
\* goes through all jobs of the client, so none of these is passed over forever.
unheard(k) == ~(k.id \in DOMAIN obs /\ k.epoch <= obs[k.id].epoch)
sendNews ==
    \E w \in Workers : \E k \in DOMAIN client[w] :
      /\ \/ phase = "observing" /\ unheard(k)
         \/ phase = "running" /\ client[w][k].complete /\ HeldBy(queue, k.id, k.epoch, w)
      /\ sendUpdates(w, k)
Fairness ==
    /\ WF_vars(loadInitialCommittedOffsets)
    /\ WF_vars(completeObservationMode)
    /\ WF_vars(\E o \in todo : importObservation(o))
    /\ WF_vars(populateInitialJobs)
    /\ WF_vars(updateSchedule(Clusters, Partitions))
    /\ \A p \in Partitions : WF_vars(enqueuePendingJobs(p))
    /\ WF_vars(\E expired \in ExpiryOrders(queue) : clearExpiredLeases(expired) /\ UNCHANGED faults)
    /\ \A c \in Clusters : WF_vars(flushOffsetsToKafka(c))
    /\ WF_vars(\E w \in Workers : assignJob(w) /\ UNCHANGED faults)
    /\ \A w \in Workers : WF_vars(CompleteConsumedJob(w))
    /\ \A w \in Workers : WF_vars(\E u \in updates : u.worker = w /\ (updateObservation(u) \/ updateJob(u)))
    /\ SF_vars(sendNews)
FairSpec == Spec /\ Fairness
===============================================================================
