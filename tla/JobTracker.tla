------------------------------ MODULE JobTracker ------------------------------
(***************************************************************************)
(* One tenant's JobTracker of the compactor-scheduler                      *)
(* (pkg/compactor/scheduler/job_tracker.go), its bbolt bucket, and the     *)
(* compactor workers it leases jobs to (pkg/compactor/executor.go).        *)
(*                                                                         *)
(* A tracker has at most one plan job, whose result is the list of         *)
(* compaction jobs to run next.  Every operation runs under the tracker's  *)
(* mutex and commits one bbolt transaction before it changes the memory,   *)
(* so it is one step here; a crash just after the commit is the step, then *)
(* Restart, with the reply lost.  An operation whose transaction fails     *)
(* changes nothing and is left out.                                        *)
(*                                                                         *)
(* Time is two-valued: the job IDs in `fresh' are those whose lease was    *)
(* taken or renewed within the lease duration; Tick lets the duration      *)
(* pass.  The random epoch of a new job is a number never used before,     *)
(* and each lease adds one to its second part.  Whether a planning window  *)
(* is due is left open, so completePlanTime is not kept.  Left out:        *)
(* metrics, block sizes.                                                   *)
(***************************************************************************)
EXTENDS Lists

CONSTANTS
    Blocks,      \* blocks of the tenant in object storage
    JobIds,      \* group keys a compaction job can have
    Workers,     \* compactor workers
    MaxLeases,   \* compactor-scheduler.max-leases, 0 for no limit
    MaxGen,      \* bound: generations of new jobs
    MaxWork,     \* bound: tasks and messages at a time
    MaxFaults    \* bound: restarts, lost and repeated messages, repeated leases

VARIABLES
    jobs,        \* incompleteJobs (NoJob for an ID that is not there)
    pending,     \* per lane, IDs in the order they are leased
    active,      \* leased IDs, oldest lease first
    fresh,       \* leased IDs whose statusTime is recent
    retained,    \* completeCompactionJobs
    isPlanJobLeased,
    disk,        \* the tenant's bucket
    diskFresh,   \* IDs whose statusTime in the bucket is recent
    gen,         \* generations of epochs handed out
    task,        \* per worker, the job it runs
    net,         \* final statuses and plans on their way to the scheduler
    marked,      \* blocks in storage marked for deletion or as no-compact
    acked,       \* history: blocks marked when their completion was acknowledged
    faults

memory == <<jobs, pending, active, fresh, retained, isPlanJobLeased>>
vars == <<memory, disk, diskFresh, gen, task, net, marked, acked, faults>>

planJobId == "p"
Ids == JobIds \cup {planJobId}
Lanes == {"plan", "compaction"}

NoJob == [status |-> "none", blocks |-> {}, order |-> 0, numLeases |-> 0, epoch |-> <<0, 0>>]
Idle == [id |-> "none", epoch |-> <<0, 0>>, blocks |-> {}]

\* A group key is longer than the reserved plan job ID; "none" is nobody's.
ASSUME ReservedId == planJobId \notin JobIds /\ Idle.id \notin JobIds
ASSUME Limits == MaxLeases \in Nat /\ MaxGen \in Nat
                    /\ MaxWork \in Nat /\ MaxFaults \in Nat

----------------------------------------------------------------------------
(* Jobs (job.go) *)

\* Mutant: the epoch of a new job starts from zero.
NewTrackedJobFromZero(blocks, order) ==
    [status |-> "available", blocks |-> blocks, order |-> order, numLeases |-> 0,
     epoch |-> <<0, 0>>]
NewTrackedJob(blocks, order) ==
    [status |-> "available", blocks |-> blocks, order |-> order, numLeases |-> 0,
     epoch |-> <<gen + 1, 0>>]

MarkLeased(j) ==
    [j EXCEPT !.status = "leased", !.numLeases = @ + 1, !.epoch = <<@[1], @[2] + 1>>]
MarkComplete(j) == [j EXCEPT !.status = "complete"]
ClearLease(j) == [j EXCEPT !.status = "available"]
DecrementLeaseCount(j) == [j EXCEPT !.numLeases = IF @ > 0 THEN @ - 1 ELSE 0]

canRetry(id) == id = planJobId \/ MaxLeases = 0 \/ jobs[id].numLeases < MaxLeases

LaneForJob(id) == IF id = planJobId THEN "plan" ELSE "compaction"

Leased(id) == jobs[id].status = "leased"
Pending(id) == jobs[id].status = "available"

----------------------------------------------------------------------------
(* The bucket (persistence_bbolt.go) *)

\* WriteAndDeleteJobs: one transaction, the writes before the deletes.
WriteAndDelete(writes, deletes) ==
    [id \in Ids |-> IF id \in deletes THEN NoJob
                    ELSE IF id \in DOMAIN writes THEN writes[id] ELSE disk[id]]
WriteJob(id, j) == [disk EXCEPT ![id] = j]
DeleteJob(id) == [disk EXCEPT ![id] = NoJob]

RetainedIds == {id \in JobIds : retained[id] # NoJob}
NothingRetained == [id \in JobIds |-> NoJob]

----------------------------------------------------------------------------
(* Operations of the tracker *)

\* A key is current while the job is incomplete and its epoch the same.
Current(id, epoch) == jobs[id].status # "none" /\ jobs[id].epoch = epoch

Init ==
    /\ jobs = [id \in Ids |-> NoJob]
    /\ pending = [l \in Lanes |-> <<>>]
    /\ active = <<>>
    /\ fresh = {}
    /\ retained = NothingRetained
    /\ isPlanJobLeased = FALSE
    /\ disk = [id \in Ids |-> NoJob]
    /\ diskFresh = {}
    /\ gen = 0
    /\ task = [w \in Workers |-> Idle]
    /\ net = {}
    /\ marked = {}
    /\ acked = {}
    /\ faults = 0

\* LeaseJob: the front of the lane is leased to the worker.  The reply may
\* be lost on its way.
Lease(w, l) ==
    /\ task[w] = Idle
    /\ Cardinality({v \in Workers : task[v] # Idle}) + Cardinality(net) < MaxWork
    /\ pending[l] # <<>>
    /\ \E id \in Ids :
         /\ id = Head(pending[l])
         /\ LET jj == MarkLeased(jobs[id])
                repeated == IF jobs[id].epoch[2] = 0 THEN 0 ELSE 1
            IN  /\ disk' = WriteJob(id, jj)
                /\ jobs' = [jobs EXCEPT ![id] = jj]
                /\ \/ /\ task' = [task EXCEPT ![w] = [id |-> id, epoch |-> jj.epoch,
                                                      blocks |-> jj.blocks]]
                      /\ faults' = faults + repeated
                   \/ /\ task' = task
                      /\ faults' = faults + repeated + 1
                /\ faults' <= MaxFaults
         /\ fresh' = fresh \cup {id}
         /\ diskFresh' = diskFresh \cup {id}
         /\ active' = Append(active, id)
         /\ isPlanJobLeased' = (isPlanJobLeased \/ id = planJobId)
    /\ pending' = [pending EXCEPT ![l] = Tail(@)]
    /\ UNCHANGED <<retained, gen, net, marked, acked>>

\* A job leaves the list it is in.  Mutant: it is taken to be active.
UnlinkActive(id) ==
    /\ active' = Keep(active, Ids \ {id})
    /\ UNCHANGED pending
Unlink(id) ==
    IF Leased(id)
    THEN active' = Keep(active, Ids \ {id}) /\ UNCHANGED pending
    ELSE pending' = [pending EXCEPT ![LaneForJob(id)] = Keep(@, Ids \ {id})] /\ UNCHANGED active

\* Remove: a job is completed or abandoned, by its key; an expired lease's
\* key is still honoured while the job waits to be leased again.
RemoveJob(id, epoch, complete) ==
    /\ Current(id, epoch)
    /\ IF isPlanJobLeased /\ id = planJobId
       THEN /\ disk' = WriteAndDelete(<<>>, RetainedIds \cup {id})
            /\ retained' = NothingRetained
            /\ isPlanJobLeased' = FALSE
       ELSE IF isPlanJobLeased /\ complete
       THEN /\ disk' = WriteJob(id, MarkComplete(jobs[id]))
            /\ retained' = [retained EXCEPT ![id] = MarkComplete(jobs[id])]
            /\ UNCHANGED isPlanJobLeased
       ELSE /\ disk' = DeleteJob(id)
            /\ UNCHANGED <<retained, isPlanJobLeased>>
    /\ jobs' = [jobs EXCEPT ![id] = NoJob]
    /\ Unlink(id)
    /\ fresh' = fresh \ {id}
    /\ diskFresh' = diskFresh \ {id}
    /\ acked' = IF complete THEN acked \cup (jobs[id].blocks \cap marked) ELSE acked
    /\ UNCHANGED gen

\* CancelLease: the worker gives the job back; an interrupted worker's
\* lease does not count against the job.
CancelLease(id, epoch, interrupted) ==
    /\ Current(id, epoch) /\ Leased(id)
    /\ IF interrupted \/ canRetry(id)
       THEN LET c == ClearLease(jobs[id])
                jj == IF interrupted THEN DecrementLeaseCount(c) ELSE c
            IN  /\ disk' = WriteAndDelete([i \in {id} |-> jj],
                                          IF id = planJobId THEN RetainedIds ELSE {})
                /\ jobs' = [jobs EXCEPT ![id] = jj]
                /\ pending' = [pending EXCEPT ![LaneForJob(id)] = <<id>> \o @]
       ELSE /\ disk' = DeleteJob(id)
            /\ jobs' = [jobs EXCEPT ![id] = NoJob]
            /\ UNCHANGED pending
    /\ active' = Keep(active, Ids \ {id})
    /\ fresh' = fresh \ {id}
    /\ diskFresh' = diskFresh \ {id}
    /\ isPlanJobLeased' = (isPlanJobLeased /\ id # planJobId)
    /\ retained' = IF id = planJobId THEN NothingRetained ELSE retained
    /\ UNCHANGED <<gen, acked>>

\* OfferCompactionJobs: the result of planning replaces all pending jobs,
\* except that a job is refused when it is leased or shares a block with a
\* leased job or with one completed since the plan job was leased.
\* Mutants: the completed, or the leased, jobs do not count as conflicts;
\* conflicts are not looked for; the jobs written are deleted too.
ConflictsLeasedOnly == UNION {jobs[id].blocks : id \in {i \in JobIds : Leased(i)}}
ConflictsRetainedOnly == UNION {retained[id].blocks : id \in JobIds}
AcceptableUnleased(j) == ~Leased(j.id)
ReplacedAll(ids) == RetainedIds \cup {id \in Ids : Pending(id)}
Conflicts ==
    (UNION {retained[id].blocks : id \in JobIds})
        \cup (UNION {jobs[id].blocks : id \in {i \in JobIds : Leased(i)}})
Acceptable(j) == ~Leased(j.id) /\ j.blocks \cap Conflicts = {}
Replaced(ids) == (RetainedIds \cup {id \in Ids : Pending(id)}) \ ids
OfferCompactionJobs(offer, epoch) ==
    /\ Current(planJobId, epoch) /\ Leased(planJobId)
    /\ LET accepted == {n \in DOMAIN offer : Acceptable(offer[n])}
           ids == {offer[n].id : n \in accepted}
           new == [id \in ids |-> LET n == CHOOSE k \in accepted : offer[k].id = id
                                  IN  NewTrackedJob(offer[n].blocks, n)]
       IN  /\ disk' = WriteAndDelete([id \in ids \cup {planJobId} |->
                                        IF id \in ids THEN new[id] ELSE MarkComplete(jobs[id])],
                                     Replaced(ids))
           /\ jobs' = [id \in Ids |-> IF id \in ids THEN new[id]
                                      ELSE IF id = planJobId \/ Pending(id) THEN NoJob
                                      ELSE jobs[id]]
           /\ pending' = [l \in Lanes |->
                            IF l = "plan" THEN <<>>
                            ELSE LET s == Keep(offer, {offer[n] : n \in accepted})
                                 IN  [n \in 1..Len(s) |-> s[n].id]]
    /\ active' = Keep(active, JobIds)
    /\ fresh' = fresh \ {planJobId}
    /\ diskFresh' = diskFresh \ {planJobId}
    /\ isPlanJobLeased' = FALSE
    /\ retained' = NothingRetained
    /\ gen' = gen + 1
    /\ UNCHANGED acked

\* Maintenance: the leases that have run out, up to the first in `active'
\* that has not, are taken back or dropped; a plan job is added when there
\* is none and its window is due.
Expired == {active[n] : n \in {k \in DOMAIN active : \A m \in 1..k : active[m] \notin fresh}}
Maintenance(expire, plan) ==
    LET expired == IF expire THEN Expired \cap Ids ELSE {}
        revived == {id \in expired : canRetry(id)}
        added == IF plan /\ jobs[planJobId].status = "none" THEN {planJobId} ELSE {}
        front(l) == Reversed(Keep(active, {id \in revived : LaneForJob(id) = l}))
        new(id) == IF id \in added THEN NewTrackedJob({}, 0) ELSE ClearLease(jobs[id])
    IN  /\ expired \cup added # {}
        /\ added # {} => gen + 2 <= MaxGen
        /\ disk' = WriteAndDelete([id \in revived \cup added |-> new(id)],
                                  (expired \ revived)
                                    \cup (IF planJobId \in revived THEN RetainedIds ELSE {}))
        /\ jobs' = [id \in Ids |-> IF id \in revived \cup added THEN new(id)
                                   ELSE IF id \in expired THEN NoJob ELSE jobs[id]]
        /\ pending' = [l \in Lanes |->
                         (IF l = "plan" /\ added # {} THEN <<planJobId>> ELSE <<>>)
                            \o front(l) \o pending[l]]
        /\ active' = Keep(active, Ids \ expired)
        /\ diskFresh' = diskFresh \ expired
        /\ isPlanJobLeased' = (isPlanJobLeased /\ planJobId \notin revived)
        /\ retained' = IF planJobId \in revived THEN NothingRetained ELSE retained
        /\ gen' = IF added # {} THEN gen + 1 ELSE gen
        /\ UNCHANGED <<fresh, task, net, marked, acked, faults>>

\* The scheduler restarts: recoverFrom rebuilds the memory from the bucket.
\* Renewals were not written.  Equal orders and times sort either way.
Restart ==
    LET leased == {id \in Ids : disk[id].status = "leased"}
        waiting(l) == {id \in Ids : disk[id].status = "available" /\ LaneForJob(id) = l}
        byOrder(s) == \A m, n \in DOMAIN s : m < n => disk[s[m]].order <= disk[s[n]].order
        byTime(s) == \A m, n \in DOMAIN s : m < n => (s[m] \in diskFresh => s[n] \in diskFresh)
    IN  /\ faults < MaxFaults
        /\ faults' = faults + 1
        /\ jobs' = [id \in Ids |-> IF disk[id].status = "complete" THEN NoJob ELSE disk[id]]
        /\ retained' = [id \in JobIds |-> IF disk[id].status = "complete" THEN disk[id] ELSE NoJob]
        /\ \E s \in Orders(leased) : byTime(s) /\ active' = s
        /\ \E s \in Orders(waiting("plan")), t \in Orders(waiting("compaction")) :
             byOrder(t) /\ pending' = [l \in Lanes |-> IF l = "plan" THEN s ELSE t]
        /\ fresh' = diskFresh
        /\ isPlanJobLeased' = (disk[planJobId].status = "leased")
        /\ UNCHANGED <<disk, diskFresh, gen, task, net, marked, acked>>

\* A lease duration passes.
Tick ==
    /\ fresh \cup diskFresh # {}
    /\ fresh' = {}
    /\ diskFresh' = {}
    /\ UNCHANGED <<jobs, pending, active, retained, isPlanJobLeased, disk, gen, task, net,
                   marked, acked, faults>>

----------------------------------------------------------------------------
(* Compactor workers (executor.go) *)

\* What a worker sends; `blocks', what it worked on, is history and not sent.
Status(type, w) == [type |-> type, id |-> task[w].id, epoch |-> task[w].epoch,
                    blocks |-> task[w].blocks, jobs |-> <<>>]

\* A worker ends its task by sending `m'; from then on it is free.
Send(w, m) ==
    /\ net' = net \cup {m}
    /\ task' = [task EXCEPT ![w] = Idle]
    /\ UNCHANGED <<memory, disk, diskFresh, gen, acked, faults>>

\* Mutant: a renewed job keeps its place.
RenewLeaseInPlace(id) == fresh' = fresh \cup {id} /\ UNCHANGED active
RenewLease(id) == fresh' = fresh \cup {id} /\ active' = Append(Keep(active, Ids \ {id}), id)

\* startJobStatusUpdater and RenewLease: a renewal that finds no lease
\* stops the work.
Heartbeat(w) ==
    /\ task[w] # Idle
    /\ LET id == task[w].id
       IN  IF Current(id, task[w].epoch) /\ Leased(id)
           THEN RenewLease(id) /\ UNCHANGED task
           ELSE /\ task' = [task EXCEPT ![w] = Idle]
                /\ UNCHANGED <<fresh, active>>
    /\ UNCHANGED <<jobs, pending, retained, isPlanJobLeased, disk, diskFresh, gen, net,
                   marked, acked, faults>>

\* executeCompactionJob succeeds: the result is uploaded and the source
\* blocks are marked for deletion before the status is sent.
Compact(w) ==
    /\ task[w].id \in JobIds
    /\ marked' = marked \cup task[w].blocks
    /\ Send(w, Status("COMPLETE", w))

\* It reports COMPLETE with some or none of the blocks marked: nothing to
\* plan; an empty result, which marks the empty sources as far as it can; a
\* known error mitigated by marking blocks no-compact or repairing one.
CompactMitigated(w) ==
    /\ task[w].id \in JobIds
    /\ \E part \in SUBSET task[w].blocks : marked' = marked \cup part
    /\ Send(w, Status("COMPLETE", w))

\* It fails, maybe with some of the source blocks marked already.
CompactFails(w) ==
    /\ task[w].id \in JobIds
    /\ \E part \in SUBSET task[w].blocks : marked' = marked \cup part
    /\ \E type \in {"REASSIGN", "INTERRUPTED_REASSIGN"} : Send(w, Status(type, w))

\* It finds an invalid spec, or a block's meta or file missing or corrupt.
CompactAbandons(w) ==
    /\ task[w].id \in JobIds
    /\ UNCHANGED marked
    /\ Send(w, Status("ABANDON", w))

\* executePlanningJob lists the blocks without a mark, marks the duplicates
\* among them for deletion, and groups some of the others into jobs that
\* share no block and have distinct keys.
Plans(view) ==
    {p \in UNION {[1..n -> [id : JobIds, blocks : (SUBSET view) \ {{}}]] :
                    n \in 0..Cardinality(JobIds)} :
       \A m, n \in DOMAIN p : m # n => p[m].id # p[n].id /\ p[m].blocks \cap p[n].blocks = {}}
Plan(w) ==
    /\ task[w].id = planJobId
    /\ \E duplicates \in SUBSET Blocks : marked' = marked \cup duplicates
    /\ \E p \in Plans(Blocks \ marked') : Send(w, [Status("PLANNED", w) EXCEPT !.jobs = p])

PlanFails(w) ==
    /\ task[w].id = planJobId
    /\ \E duplicates \in SUBSET Blocks : marked' = marked \cup duplicates
    /\ \E type \in {"REASSIGN", "INTERRUPTED_REASSIGN", "ABANDON"} : Send(w, Status(type, w))

\* The scheduler's handler of a message (UpdatePlanJob, UpdateCompactionJob,
\* PlannedJobs).  The client repeats a request whose reply it did not get.
Handle(m) ==
    \/ m.type \in {"COMPLETE", "ABANDON"} /\ RemoveJob(m.id, m.epoch, m.type = "COMPLETE")
    \/ /\ m.type \in {"REASSIGN", "INTERRUPTED_REASSIGN"}
       /\ CancelLease(m.id, m.epoch, m.type = "INTERRUPTED_REASSIGN")
    \/ m.type = "PLANNED" /\ OfferCompactionJobs(m.jobs, m.epoch)
Stale(m) ==
    ~(Current(m.id, m.epoch) /\ (m.type \in {"COMPLETE", "ABANDON"} \/ Leased(m.id)))
Receive(m) ==
    /\ \/ Handle(m)
       \/ Stale(m) /\ UNCHANGED <<memory, disk, diskFresh, gen, acked>>
    /\ \/ net' = net \ {m} /\ UNCHANGED faults
       \/ net' = net /\ faults < MaxFaults /\ faults' = faults + 1
    /\ UNCHANGED <<task, marked>>

\* A worker crashes, or a message is given up.
Lose ==
    /\ faults < MaxFaults
    /\ faults' = faults + 1
    /\ \/ \E w \in Workers : /\ task[w] # Idle
                             /\ task' = [task EXCEPT ![w] = Idle]
                             /\ UNCHANGED net
       \/ \E m \in net : net' = net \ {m} /\ UNCHANGED task
    /\ UNCHANGED <<memory, disk, diskFresh, gen, marked, acked>>

Next ==
    \/ \E w \in Workers, l \in Lanes : Lease(w, l)
    \/ \E w \in Workers :
         \/ Heartbeat(w) \/ Plan(w) \/ PlanFails(w)
         \/ Compact(w) \/ CompactMitigated(w) \/ CompactFails(w) \/ CompactAbandons(w)
    \/ \E m \in net : Receive(m)
    \/ \E expire, plan \in BOOLEAN : Maintenance(expire, plan)
    \/ Restart \/ Tick \/ Lose

Spec == Init /\ [][Next]_vars

----------------------------------------------------------------------------
(* What must hold *)

Job == [status : {"none", "available", "leased", "complete"}, blocks : SUBSET Blocks,
        order : Nat, numLeases : Nat, epoch : Nat \X Nat]

\* The variables have their types.
TypeOK ==
    /\ jobs \in [Ids -> Job]
    /\ retained \in [JobIds -> Job]
    /\ disk \in [Ids -> Job]
    /\ isPlanJobLeased \in BOOLEAN
    /\ gen \in Nat
    /\ \A w \in Workers :
         task[w] = Idle \/ task[w] \in [id : Ids, epoch : Nat \X Nat, blocks : SUBSET Blocks]
    /\ marked \subseteq Blocks
    /\ acked \subseteq Blocks

\* The lists the memory keeps agree with the map of incomplete jobs: every
\* job is in the list its status says, once.
ListsMatchJobs ==
    /\ pending \in [Lanes -> Seq(Ids)] /\ active \in Seq(Ids)
    /\ \A l \in Lanes : /\ Range(pending[l]) = {id \in Ids : Pending(id) /\ LaneForJob(id) = l}
                        /\ IsInjective(pending[l])
    /\ Range(active) = {id \in Ids : Leased(id)}
    /\ IsInjective(active)
    /\ fresh \subseteq Range(active)

\* Jobs are active in the order their leases run out, renewals and restarts
\* included: Maintenance stops at the first lease that has not run out.
OldestLeaseFirst ==
    \A m, n \in DOMAIN active : m < n /\ active[m] \in fresh => active[n] \in fresh

\* What a restart reads back is what the memory held, save for the renewals.
DiskMatchesMemory ==
    /\ \A id \in JobIds : disk[id] = IF jobs[id].status # "none" THEN jobs[id] ELSE retained[id]
    /\ IF jobs[planJobId].status # "none" THEN disk[planJobId] = jobs[planJobId]
       ELSE disk[planJobId].status \in {"none", "complete"}

\* A block that was marked when the completion of its job was acknowledged
\* is in no job of the tracker, whatever plan was computed from an older
\* listing of the bucket.  (A completion that marked nothing leaves its
\* blocks to the next plan.)
NoRecompaction == \A id \in JobIds : jobs[id].blocks \cap acked = {}

\* Two jobs of the tracker, waiting or leased, share no block.
JobsShareNoBlock ==
    \A i, k \in JobIds : i # k => jobs[i].blocks \cap jobs[k].blocks = {}

\* A key names one job for ever: while the key of a worker, or of a status
\* on its way, is current, the job under its ID is the one it was leased, so
\* a late or repeated status never ends the job that took the ID over.
KeyNamesItsJob ==
    \A k \in net \cup {task[w] : w \in {v \in Workers : task[v] # Idle}} :
        Current(k.id, k.epoch) => jobs[k.id].blocks = k.blocks

\* The tracker implements CompactionClaims: the claims are the leases in the
\* bucket, so a restart of the scheduler neither drops nor doubles one.
Claims == INSTANCE CompactionClaims WITH
            claimed <- [id \in JobIds |-> IF disk[id].status = "leased" THEN disk[id].blocks ELSE {}],
            compacted <- acked
ImplementsClaims == Claims!Spec
==============================================================================
