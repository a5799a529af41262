------------------------- MODULE JobTrackerStepProofs -------------------------
(***************************************************************************)
(* The inductive invariant of JobTracker, apart from the lists, and what   *)
(* the operations on one job, a lease, a completion, an abandonment or a   *)
(* cancelled lease, do to it.  JobTrackerPlanProofs has the operations on  *)
(* several, and JobTrackerProofs puts them together.                       *)
(***************************************************************************)
EXTENDS JobTracker, TLAPS

----------------------------------------------------------------------------
(* The inductive invariant *)

CoreTypes ==
    /\ jobs \in [Ids -> Job]
    /\ retained \in [JobIds -> Job]
    /\ disk \in [Ids -> Job]
    /\ isPlanJobLeased \in BOOLEAN
    /\ gen \in Nat
    /\ acked \subseteq Blocks

\* What the fields of the memory say of each other.  A job and a retained
\* job never have the same ID, so what is retained is not overwritten.
Shape ==
    /\ \A id \in Ids : /\ jobs[id].status # "complete"
                       /\ jobs[id].status = "none" => jobs[id] = NoJob
                       /\ jobs[id].status # "none" => 1 <= jobs[id].epoch[1] /\ jobs[id].epoch[1] <= gen
                       /\ disk[id].status = "none" => disk[id] = NoJob
    /\ \A id \in JobIds : /\ retained[id] = NoJob \/ retained[id].status = "complete"
                          /\ jobs[id].status # "none" => retained[id] = NoJob
    /\ isPlanJobLeased <=> Leased(planJobId)

Core == CoreTypes /\ Shape /\ DiskMatchesMemory /\ NoRecompaction /\ JobsShareNoBlock

\* A key handed out is not ahead of the job that has its ID now.
KeyOK(id, epoch) ==
    /\ id \in Ids
    /\ epoch \in Nat \X Nat
    /\ 1 <= epoch[1] /\ epoch[1] <= gen
    /\ epoch[1] = jobs[id].epoch[1] => epoch[2] <= jobs[id].epoch[2]

InRetained(b) == \E id \in JobIds : b \in retained[id].blocks

\* A worker that holds a current key works on the blocks of the job.
TaskOK(t) ==
    /\ KeyOK(t.id, t.epoch)
    /\ t.blocks \subseteq Blocks
    /\ Current(t.id, t.epoch) => jobs[t.id].blocks = t.blocks
TasksOK == \A w \in Workers : task[w] # Idle => TaskOK(task[w])

Offered == [id : JobIds, blocks : SUBSET Blocks]

\* So does a message; and a plan under the key of the leased plan job names
\* no acknowledged block that is not retained.
MessageOK(m) ==
    /\ KeyOK(m.id, m.epoch)
    /\ Current(m.id, m.epoch) => jobs[m.id].blocks = m.blocks
    /\ m.type = "COMPLETE" => m.id \in JobIds
    /\ m.type = "PLANNED" =>
         /\ m.id = planJobId
         /\ m.jobs \in Seq(Offered)
         /\ \A n \in DOMAIN m.jobs : /\ n \in Nat /\ m.jobs[n].id \in JobIds
                                     /\ m.jobs[n].blocks \subseteq Blocks
         /\ \A k, n \in DOMAIN m.jobs :
              k # n => m.jobs[k].id # m.jobs[n].id /\ m.jobs[k].blocks \cap m.jobs[n].blocks = {}
         /\ Current(planJobId, m.epoch) /\ Leased(planJobId) =>
              \A n \in DOMAIN m.jobs : \A b \in m.jobs[n].blocks : b \in acked => InRetained(b)
NetOK == \A m \in net : MessageOK(m)

IInv ==
    /\ Core
    /\ task = [w \in Workers |-> task[w]]
    /\ TasksOK
    /\ NetOK
    /\ marked \subseteq Blocks
    /\ acked \subseteq marked
----------------------------------------------------------------------------
(* What an operation of the scheduler does to the keys handed out *)

JobStep(id) ==
    \/ jobs'[id] = NoJob
    \/ /\ jobs'[id].blocks = jobs[id].blocks
       /\ \/ jobs'[id].epoch = jobs[id].epoch
          \/ jobs'[id].epoch = <<jobs[id].epoch[1], jobs[id].epoch[2] + 1>>
    \/ gen' = gen + 1 /\ jobs'[id].epoch = <<gen + 1, 0>>

PlanStep ==
    Leased(planJobId)' /\ jobs'[planJobId].epoch = jobs[planJobId].epoch =>
      /\ Leased(planJobId)
      /\ \A b \in acked' : b \in acked \/ InRetained(b)'
      /\ \A b \in Blocks : InRetained(b) => InRetained(b)'

\* What the claim of a job is: its blocks, while it is leased.
Held(id) == IF Leased(id) THEN jobs[id].blocks ELSE {}

\* The step as CompactionClaims sees it: a claim, a release, the end of a
\* claimed job, the end of one that is not claimed any more.
ClaimStep ==
    \/ /\ acked' = acked
       /\ \E id \in JobIds : /\ Held(id) = {} /\ Held(id)' \subseteq Blocks \ acked
                             /\ \A k \in JobIds : k # id => /\ Held(k)' = Held(k)
                                                           /\ Held(k) \cap Held(id)' = {}
    \/ acked' = acked /\ \A id \in JobIds : Held(id)' = Held(id) \/ Held(id)' = {}
    \/ \E id \in JobIds : /\ \E bs \in SUBSET Held(id) : acked' = acked \cup bs
                          /\ Held(id)' = {}
                          /\ \A k \in JobIds : k # id => Held(k)' = Held(k)
    \/ /\ \A id \in JobIds : Held(id)' = Held(id)
       /\ \E bs \in SUBSET (Blocks \ acked) : /\ acked' = acked \cup bs
                                              /\ \A id \in JobIds : bs \cap Held(id) = {}

SchedulerStep ==
    /\ Core'
    /\ gen' \in {gen, gen + 1}
    /\ \A id \in Ids : JobStep(id)
    /\ PlanStep
    /\ ClaimStep

\* A key that is current after an operation of the scheduler was current
\* before, for a job of the same blocks.
LEMMA OldKeys ==
    ASSUME Core, SchedulerStep, NEW id, NEW epoch, KeyOK(id, epoch)
    PROVE  /\ KeyOK(id, epoch)'
           /\ Current(id, epoch)' => /\ Current(id, epoch)
                                     /\ jobs'[id].blocks = jobs[id].blocks
                                     /\ jobs'[id].epoch = jobs[id].epoch
<1>1. id \in Ids /\ epoch \in Nat \X Nat /\ 1 <= epoch[1] /\ epoch[1] <= gen
  BY DEF KeyOK
<1>2. /\ jobs[id] \in Job /\ jobs'[id] \in Job /\ gen \in Nat /\ gen' \in Nat
      /\ jobs[id].epoch \in Nat \X Nat /\ jobs'[id].epoch \in Nat \X Nat
  BY <1>1 DEF Core, CoreTypes, SchedulerStep, Job
<1>3. gen <= gen'
  BY <1>2 DEF SchedulerStep
<1>4. jobs[id].status = "none" => jobs[id].epoch = <<0, 0>>
  BY <1>1 DEF Core, Shape, NoJob
<1>5. JobStep(id)
  BY <1>1 DEF SchedulerStep
<1>6. CASE jobs'[id] = NoJob
  <2>1. jobs'[id].epoch[1] = 0 /\ jobs'[id].status = "none"
    BY <1>6 DEF NoJob
  <2> QED
    BY <1>1, <1>2, <1>3, <2>1 DEF KeyOK, Current
<1>7. CASE /\ jobs'[id].blocks = jobs[id].blocks
           /\ jobs'[id].epoch = jobs[id].epoch
  BY <1>1, <1>2, <1>3, <1>4, <1>7 DEF KeyOK, Current
<1>8. CASE /\ jobs'[id].blocks = jobs[id].blocks
           /\ jobs'[id].epoch = <<jobs[id].epoch[1], jobs[id].epoch[2] + 1>>
  <2>1. jobs'[id].epoch[1] = jobs[id].epoch[1] /\ jobs'[id].epoch[2] = jobs[id].epoch[2] + 1
    BY <1>8
  <2>2. epoch # jobs'[id].epoch
    BY <1>1, <1>2, <2>1 DEF KeyOK
  <2>3. KeyOK(id, epoch)'
    BY <1>1, <1>2, <1>3, <2>1 DEF KeyOK
  <2> QED
    BY <2>2, <2>3 DEF Current
<1>9. CASE gen' = gen + 1 /\ jobs'[id].epoch = <<gen + 1, 0>>
  <2>1. jobs'[id].epoch[1] = gen + 1
    BY <1>9
  <2>2. epoch # jobs'[id].epoch
    BY <1>1, <1>2, <2>1
  <2>3. KeyOK(id, epoch)'
    BY <1>1, <1>2, <1>3, <2>1 DEF KeyOK
  <2> QED
    BY <2>2, <2>3 DEF Current
<1> QED
  BY <1>5, <1>6, <1>7, <1>8, <1>9 DEF JobStep

\* An operation of the scheduler on the messages and tasks that stay.
LEMMA StepMessage ==
    ASSUME IInv, SchedulerStep, NEW m, MessageOK(m)
    PROVE  MessageOK(m)'
<1>1. KeyOK(m.id, m.epoch) /\ Core
  BY DEF IInv, MessageOK
<1>2. /\ KeyOK(m.id, m.epoch)'
      /\ Current(m.id, m.epoch)' => /\ Current(m.id, m.epoch)
                                    /\ jobs'[m.id].blocks = jobs[m.id].blocks
                                    /\ jobs'[m.id].epoch = jobs[m.id].epoch
  BY <1>1, OldKeys
<1>3. /\ Current(m.id, m.epoch)' => jobs'[m.id].blocks = m.blocks
      /\ m.type = "COMPLETE" => m.id \in JobIds
  BY <1>2 DEF MessageOK
<1>4. ASSUME m.type = "PLANNED", Current(planJobId, m.epoch)', Leased(planJobId)',
             NEW n \in DOMAIN m.jobs, NEW b \in m.jobs[n].blocks, b \in acked'
      PROVE  InRetained(b)'
  <2>1. m.id = planJobId /\ b \in Blocks
    BY <1>4 DEF MessageOK
  <2>2. Current(planJobId, m.epoch) /\ jobs'[planJobId].epoch = jobs[planJobId].epoch
    BY <1>2, <1>4, <2>1
  <2>3. /\ Leased(planJobId)
        /\ b \in acked \/ InRetained(b)'
        /\ InRetained(b) => InRetained(b)'
    BY <1>4, <2>1, <2>2 DEF SchedulerStep, PlanStep
  <2>4. b \in acked => InRetained(b)
    BY <1>4, <2>2, <2>3 DEF MessageOK
  <2> QED
    BY <2>3, <2>4
<1> QED
  BY <1>2, <1>3, <1>4 DEF MessageOK

LEMMA StepTasks ==
    ASSUME IInv, SchedulerStep, NEW t, TaskOK(t)
    PROVE  TaskOK(t)'
<1>1. KeyOK(t.id, t.epoch) /\ Core
  BY DEF IInv, TaskOK
<1>2. /\ KeyOK(t.id, t.epoch)'
      /\ Current(t.id, t.epoch)' => /\ Current(t.id, t.epoch)
                                    /\ jobs'[t.id].blocks = jobs[t.id].blocks
  BY <1>1, OldKeys
<1> QED
  BY <1>2 DEF TaskOK

----------------------------------------------------------------------------
(* The operations of the scheduler *)

LEMMA JobOps ==
    ASSUME NEW j \in Job
    PROVE  /\ MarkLeased(j) \in Job /\ MarkLeased(j).status = "leased"
           /\ MarkLeased(j).blocks = j.blocks
           /\ MarkLeased(j).epoch = <<j.epoch[1], j.epoch[2] + 1>>
           /\ MarkComplete(j) \in Job /\ MarkComplete(j).status = "complete"
           /\ MarkComplete(j).blocks = j.blocks
           /\ ClearLease(j) \in Job /\ ClearLease(j).status = "available"
           /\ ClearLease(j).blocks = j.blocks /\ ClearLease(j).epoch = j.epoch
           /\ DecrementLeaseCount(j) \in Job /\ DecrementLeaseCount(j).status = j.status
           /\ DecrementLeaseCount(j).blocks = j.blocks /\ DecrementLeaseCount(j).epoch = j.epoch
<1>1. /\ MarkLeased(j) \in Job /\ MarkLeased(j).status = "leased"
      /\ MarkLeased(j).blocks = j.blocks
      /\ MarkLeased(j).epoch = <<j.epoch[1], j.epoch[2] + 1>>
  <2>1. j.numLeases + 1 \in Nat /\ <<j.epoch[1], j.epoch[2] + 1>> \in Nat \X Nat
    BY DEF Job
  <2>2. \A n \in Nat, e \in Nat \X Nat :
          LET k == [j EXCEPT !.status = "leased", !.numLeases = n, !.epoch = e]
          IN  k \in Job /\ k.status = "leased" /\ k.blocks = j.blocks /\ k.epoch = e
    BY Zenon DEF Job
  <2> QED
    BY <2>1, <2>2, Zenon DEF MarkLeased
<1>2. /\ MarkComplete(j) \in Job /\ MarkComplete(j).status = "complete"
      /\ MarkComplete(j).blocks = j.blocks
  BY DEF Job, MarkComplete
<1>3. /\ ClearLease(j) \in Job /\ ClearLease(j).status = "available"
      /\ ClearLease(j).blocks = j.blocks /\ ClearLease(j).epoch = j.epoch
  BY DEF Job, ClearLease
<1>4. /\ DecrementLeaseCount(j) \in Job /\ DecrementLeaseCount(j).status = j.status
      /\ DecrementLeaseCount(j).blocks = j.blocks /\ DecrementLeaseCount(j).epoch = j.epoch
  BY DEF Job, DecrementLeaseCount
<1> QED
  BY <1>1, <1>2, <1>3, <1>4

LEMMA NoJobFacts ==
    /\ NoJob \in Job /\ NoJob.status = "none" /\ NoJob.blocks = {} /\ NoJob.epoch = <<0, 0>>
    /\ planJobId \in Ids /\ planJobId \notin JobIds /\ JobIds \subseteq Ids
  BY ReservedId DEF NoJob, Job, Ids

LEMMA NewJobFacts ==
    ASSUME gen \in Nat, NEW blocks \in SUBSET Blocks, NEW order \in Nat
    PROVE  /\ NewTrackedJob(blocks, order) \in Job
           /\ NewTrackedJob(blocks, order).status = "available"
           /\ NewTrackedJob(blocks, order).blocks = blocks
           /\ NewTrackedJob(blocks, order).epoch = <<gen + 1, 0>>
  BY DEF NewTrackedJob, Job

\* Jobs that only lose blocks stay disjoint, from each other and from what
\* was acknowledged before.
LEMMA Shrink ==
    ASSUME Core, \A id \in JobIds : jobs'[id].blocks \subseteq jobs[id].blocks,
           \A id \in JobIds, b \in acked' : b \in acked \/ b \notin jobs'[id].blocks
    PROVE  NoRecompaction' /\ JobsShareNoBlock'
<1>1. NoRecompaction'
  BY DEF Core, NoRecompaction
<1>2. JobsShareNoBlock'
  BY DEF Core, JobsShareNoBlock
<1> QED
  BY <1>1, <1>2

LEMMA LeaseStep ==
    ASSUME IInv, ListsMatchJobs, NEW w \in Workers, NEW l \in Lanes, Lease(w, l)
    PROVE  IInv' /\ ClaimStep
<1>1. PICK id \in Ids :
        /\ id = Head(pending[l])
        /\ disk' = WriteJob(id, MarkLeased(jobs[id]))
        /\ jobs' = [jobs EXCEPT ![id] = MarkLeased(jobs[id])]
        /\ \/ task' = [task EXCEPT ![w] = [id |-> id, epoch |-> MarkLeased(jobs[id]).epoch,
                                          blocks |-> MarkLeased(jobs[id]).blocks]]
           \/ task' = task
        /\ isPlanJobLeased' = (isPlanJobLeased \/ id = planJobId)
  BY Zenon DEF Lease
<1> DEFINE jj == MarkLeased(jobs[id])
<1>2. /\ pending[l] # <<>>
      /\ retained' = retained /\ gen' = gen /\ net' = net /\ marked' = marked /\ acked' = acked
  BY DEF Lease
<1>3. Pending(id)
  <2>1. pending[l] \in Seq(Ids) /\ Range(pending[l]) = {i \in Ids : Pending(i) /\ LaneForJob(i) = l}
    BY DEF ListsMatchJobs
  <2>2. Head(pending[l]) = pending[l][1] /\ 1 \in DOMAIN pending[l]
    BY <1>2, <2>1
  <2> QED
    BY <1>1, <2>1, <2>2 DEF Range
<1>4. Core
  BY DEF IInv
<1>5. /\ jobs \in [Ids -> Job] /\ disk \in [Ids -> Job] /\ retained \in [JobIds -> Job]
      /\ jobs[id] \in Job /\ gen \in Nat
  BY <1>1, <1>4 DEF Core, CoreTypes
<1>6. /\ jj \in Job /\ jj.status = "leased" /\ jj.blocks = jobs[id].blocks
      /\ jj.epoch = <<jobs[id].epoch[1], jobs[id].epoch[2] + 1>>
  BY <1>5, JobOps
<1> HIDE DEF jj
<1>7. /\ jobs' = [jobs EXCEPT ![id] = jj] /\ disk' = [disk EXCEPT ![id] = jj]
      /\ jobs[id].status = "available"
  BY <1>1, <1>3 DEF jj, WriteJob, Pending
<1>8. CoreTypes'
  <2>1. isPlanJobLeased' \in BOOLEAN
    BY <1>1
  <2>2. jobs' \in [Ids -> Job] /\ disk' \in [Ids -> Job]
    BY <1>5, <1>6, <1>7
  <2> QED
    BY <1>2, <1>4, <2>1, <2>2 DEF Core, CoreTypes
<1>9. Shape'
  <2>1. jj.epoch[1] = jobs[id].epoch[1]
    BY <1>6
  <2>2. \A i \in Ids : /\ jobs'[i].status # "complete"
                       /\ jobs'[i].status = "none" => jobs'[i] = NoJob
                       /\ jobs'[i].status # "none" => 1 <= jobs'[i].epoch[1] /\ jobs'[i].epoch[1] <= gen'
                       /\ disk'[i].status = "none" => disk'[i] = NoJob
    BY <1>2, <1>4, <1>5, <1>6, <1>7, <2>1 DEF Core, Shape
  <2>3. isPlanJobLeased' <=> jobs'[planJobId].status = "leased"
    BY <1>1, <1>4, <1>5, <1>6, <1>7, NoJobFacts, Zenon DEF Core, CoreTypes, Shape, Leased
  <2>4. \A i \in JobIds : /\ retained'[i] = NoJob \/ retained'[i].status = "complete"
                          /\ jobs'[i].status # "none" => retained'[i] = NoJob
    BY <1>2, <1>4, <1>5, <1>7, NoJobFacts DEF Core, Shape
  <2> QED
    BY <2>2, <2>3, <2>4 DEF Shape, Leased
<1>10. DiskMatchesMemory'
  <2>1. disk'[id] = jj /\ jobs'[id] = jj /\ jj.status # "none"
    BY <1>5, <1>6, <1>7
  <2>2. \A i \in Ids : i # id => disk'[i] = disk[i] /\ jobs'[i] = jobs[i]
    BY <1>5, <1>7
  <2> QED
    BY <1>2, <1>4, <2>1, <2>2, NoJobFacts DEF Core, DiskMatchesMemory
<1>11. NoRecompaction' /\ JobsShareNoBlock'
  BY <1>2, <1>4, <1>5, <1>6, <1>7, NoJobFacts, Shrink
<1>12. \A i \in Ids : JobStep(i)
  BY <1>5, <1>6, <1>7 DEF JobStep
<1>13. PlanStep
  <2>1. jj.epoch # jobs[id].epoch
    BY <1>5, <1>6 DEF Job
  <2> QED
    BY <1>2, <1>5, <1>7, <2>1, NoJobFacts DEF PlanStep, Leased, InRetained
<1>14. ClaimStep
  <2>1. \A i \in Ids : i # id => Held(i)' = Held(i)
    BY <1>5, <1>7 DEF Held, Leased
  <2>2. Held(id) = {} /\ Held(id)' = jobs[id].blocks
    BY <1>5, <1>6, <1>7 DEF Held, Leased
  <2>3. CASE id \in JobIds
    <3>1. jobs[id].blocks \subseteq Blocks \ acked
      BY <1>4, <1>5, <2>3 DEF Core, NoRecompaction, Job
    <3>2. \A k \in JobIds : k # id => jobs[k].blocks \cap jobs[id].blocks = {}
      BY <1>4, <2>3 DEF Core, JobsShareNoBlock
    <3>3. \A k \in JobIds : k # id => Held(k)' = Held(k) /\ Held(k) \cap Held(id)' = {}
      BY <2>1, <2>2, <3>2, NoJobFacts DEF Held
    <3> QED
      BY <1>2, <2>2, <2>3, <3>1, <3>3 DEF ClaimStep
  <2>4. CASE id \notin JobIds
    BY <1>2, <2>1, <2>4, NoJobFacts DEF ClaimStep
  <2> QED
    BY <2>3, <2>4
<1>15. SchedulerStep
  BY <1>2, <1>8, <1>9, <1>10, <1>11, <1>12, <1>13, <1>14 DEF SchedulerStep, Core
<1>16. NetOK'
  BY <1>2, <1>15, StepMessage DEF IInv, NetOK
<1>17. TasksOK'
  <2> SUFFICES ASSUME NEW v \in Workers, NEW t, t = task'[v], t # Idle
               PROVE  TaskOK(t)'
    BY DEF TasksOK
  <2>1. CASE t = task[v]
    BY <1>15, <2>1, StepTasks DEF IInv, TasksOK
  <2>2. CASE t # task[v]
    <3>1. t = [id |-> id, epoch |-> jj.epoch, blocks |-> jj.blocks]
      BY <1>1, <2>2 DEF IInv, jj
    <3>2. t.id = id /\ t.epoch = jj.epoch /\ t.blocks = jj.blocks
      BY <3>1
    <3>3. jobs'[id] = jj
      BY <1>5, <1>7
    <3>4. jj.epoch \in Nat \X Nat /\ jj.blocks \subseteq Blocks
      BY <1>6 DEF Job
    <3>5. 1 <= jj.epoch[1] /\ jj.epoch[1] <= gen'
      BY <1>6, <1>9, <3>3 DEF Shape
    <3> QED
      BY <3>2, <3>3, <3>4, <3>5 DEF TaskOK, KeyOK, Current
  <2> QED
    BY <2>1, <2>2
<1>18. task' = [v \in Workers |-> task'[v]]
  BY <1>1 DEF IInv
<1> QED
  BY <1>2, <1>15, <1>16, <1>17, <1>18, <1>14 DEF IInv, SchedulerStep
LEMMA RemoveStep ==
    ASSUME Core, NEW id \in Ids, NEW epoch, NEW complete \in BOOLEAN, complete => id \in JobIds,
           RemoveJob(id, epoch, complete)
    PROVE  SchedulerStep /\ acked' \subseteq acked \cup marked
<1>1. /\ jobs' = [jobs EXCEPT ![id] = NoJob] /\ gen' = gen
      /\ acked' = (IF complete THEN acked \cup (jobs[id].blocks \cap marked) ELSE acked)
      /\ jobs[id].status # "none"
  BY DEF RemoveJob, Current
<1>2. /\ jobs \in [Ids -> Job] /\ disk \in [Ids -> Job] /\ retained \in [JobIds -> Job]
      /\ gen \in Nat /\ acked \subseteq Blocks
      /\ jobs[id].blocks \subseteq Blocks
  BY DEF Core, CoreTypes, Job
<1>3. jobs'[id] = NoJob /\ \A i \in Ids : i # id => jobs'[i] = jobs[i]
  BY <1>1, <1>2
<1>4. jobs' \in [Ids -> Job] /\ acked' \subseteq Blocks
  BY <1>1, <1>2, NoJobFacts
<1>5. NoRecompaction' /\ JobsShareNoBlock'
  <2>1. \A i \in JobIds : jobs'[i].blocks \subseteq jobs[i].blocks
    BY <1>3, NoJobFacts
  <2>2. ASSUME NEW i \in JobIds, NEW b \in acked', b \notin acked
        PROVE  b \notin jobs'[i].blocks
    BY <1>1, <1>3, <2>2, NoJobFacts DEF Core, JobsShareNoBlock
  <2> QED
    BY <2>1, <2>2, Shrink
<1>6. \A i \in Ids : JobStep(i)
  BY <1>3 DEF JobStep
<1>7. ClaimStep
  <2>1. \A k \in JobIds : k # id => Held(k)' = Held(k)
    BY <1>3, NoJobFacts DEF Held, Leased
  <2>2. Held(id)' = {}
    BY <1>3, NoJobFacts DEF Held, Leased
  <2>3. CASE complete /\ Leased(id)
    <3>1. /\ \E bs \in SUBSET Held(id) : acked' = acked \cup bs
          /\ id \in JobIds
      BY <1>1, <2>3 DEF Held
    <3> QED
      BY <2>1, <2>2, <3>1 DEF ClaimStep
  <2>4. CASE complete /\ ~Leased(id)
    <3> DEFINE bs == jobs[id].blocks \cap marked
    <3>1. Held(id) = {} /\ acked' = acked \cup bs /\ id \in JobIds
      BY <1>1, <2>4 DEF Held
    <3>2. bs \in SUBSET (Blocks \ acked)
      BY <1>2, <3>1 DEF Core, NoRecompaction
    <3>3. \A k \in JobIds : bs \cap Held(k) = {}
      BY <3>1 DEF Core, JobsShareNoBlock, Held
    <3>4. \A k \in JobIds : Held(k)' = Held(k)
      BY <2>1, <2>2, <3>1
    <3> QED
      BY <3>1, <3>2, <3>3, <3>4 DEF ClaimStep
  <2>5. CASE ~complete
    BY <1>1, <2>1, <2>2, <2>5 DEF ClaimStep
  <2> QED
    BY <2>3, <2>4, <2>5
<1>8. CASE isPlanJobLeased /\ id = planJobId
  <2>1. /\ disk' = WriteAndDelete(<<>>, RetainedIds \cup {id})
        /\ retained' = NothingRetained /\ isPlanJobLeased' = FALSE
    BY <1>8 DEF RemoveJob
  <2>2. \A i \in Ids : disk'[i] = IF i \in RetainedIds \cup {id} THEN NoJob ELSE disk[i]
    BY <2>1 DEF WriteAndDelete
  <2>3. disk' \in [Ids -> Job] /\ retained' \in [JobIds -> Job]
    BY <1>2, <2>1, NoJobFacts DEF WriteAndDelete, NothingRetained
  <2>4. \A i \in JobIds : retained'[i] = NoJob
    BY <2>1 DEF NothingRetained
  <2>5. Shape'
    <3>1. \A i \in Ids : disk'[i].status = "none" => disk'[i] = NoJob
      BY <2>2 DEF Core, Shape
    <3>2. ~Leased(planJobId)'
      BY <1>3, <1>8, NoJobFacts DEF Leased
    <3>3. \A i \in Ids : /\ jobs'[i].status # "complete"
                         /\ jobs'[i].status = "none" => jobs'[i] = NoJob
                         /\ jobs'[i].status # "none" => 1 <= jobs'[i].epoch[1] /\ jobs'[i].epoch[1] <= gen'
      BY <1>1, <1>3, NoJobFacts DEF Core, Shape
    <3> QED
      BY <2>1, <2>4, <3>1, <3>2, <3>3 DEF Shape
  <2>6. DiskMatchesMemory'
    <3>1. ASSUME NEW i \in JobIds
          PROVE  disk'[i] = IF jobs'[i].status # "none" THEN jobs'[i] ELSE retained'[i]
      <4>1. jobs'[i] = jobs[i] /\ i # id
        BY <1>3, <1>8, NoJobFacts
      <4>2. jobs[i].status # "none" => i \notin RetainedIds
        BY DEF Core, Shape, RetainedIds
      <4>3. i \notin RetainedIds => retained[i] = NoJob
        BY DEF RetainedIds
      <4> QED
        BY <2>2, <2>4, <4>1, <4>2, <4>3, NoJobFacts DEF Core, DiskMatchesMemory
    <3>2. jobs'[planJobId].status = "none" /\ disk'[planJobId].status = "none"
      BY <1>3, <1>8, <2>2, NoJobFacts
    <3> QED
      BY <3>1, <3>2 DEF DiskMatchesMemory
  <2>7. PlanStep
    BY <1>3, <1>8, NoJobFacts DEF PlanStep, Leased
  <2> QED
    BY <1>1, <1>2, <1>4, <1>5, <1>6, <1>7, <2>1, <2>3, <2>5, <2>6, <2>7, Zenon DEF SchedulerStep, Core, CoreTypes
<1>9. CASE isPlanJobLeased /\ id # planJobId /\ complete
  <2> DEFINE jj == MarkComplete(jobs[id])
  <2>1. /\ disk' = [disk EXCEPT ![id] = jj] /\ retained' = [retained EXCEPT ![id] = jj]
        /\ isPlanJobLeased' = isPlanJobLeased
    BY <1>9 DEF RemoveJob, WriteJob
  <2>2. jj \in Job /\ jj.status = "complete" /\ jj.blocks = jobs[id].blocks /\ id \in JobIds
    BY <1>2, <1>9, JobOps
  <2> HIDE DEF jj
  <2>3. disk' \in [Ids -> Job] /\ retained' \in [JobIds -> Job]
    BY <1>2, <2>1, <2>2
  <2>4. /\ disk'[id] = jj /\ retained'[id] = jj
        /\ \A i \in Ids : i # id => disk'[i] = disk[i]
        /\ \A i \in JobIds : i # id => retained'[i] = retained[i]
    BY <1>2, <2>1, <2>2
  <2>5. retained[id] = NoJob
    BY <1>1, <2>2 DEF Core, Shape
  <2>6. jobs'[planJobId] = jobs[planJobId]
    BY <1>3, <1>9, NoJobFacts
  <2>7. Shape'
    <3>1. \A i \in Ids : disk'[i].status = "none" => disk'[i] = NoJob
      BY <2>2, <2>4 DEF Core, Shape
    <3>2. \A i \in JobIds : /\ retained'[i] = NoJob \/ retained'[i].status = "complete"
                            /\ jobs'[i].status # "none" => retained'[i] = NoJob
      BY <1>3, <2>2, <2>4, NoJobFacts DEF Core, Shape
    <3>3. isPlanJobLeased' <=> Leased(planJobId)'
      BY <2>1, <2>6 DEF Core, Shape, Leased
    <3> QED
      BY <1>1, <1>3, <3>1, <3>2, <3>3, NoJobFacts DEF Core, Shape
  <2>8. DiskMatchesMemory'
    BY <1>3, <1>9, <2>4, <2>6, NoJobFacts DEF Core, DiskMatchesMemory
  <2>9. PlanStep
    <3>1. \A b \in acked' : b \in acked \/ InRetained(b)'
      BY <1>1, <2>2, <2>4 DEF InRetained
    <3>2. \A b : InRetained(b) => InRetained(b)'
      BY <2>4, <2>5, NoJobFacts DEF InRetained
    <3> QED
      BY <2>6, <3>1, <3>2 DEF PlanStep, Leased
  <2>10. isPlanJobLeased' \in BOOLEAN
    BY <2>1 DEF Core, CoreTypes
  <2> QED
    BY <1>1, <1>2, <1>4, <1>5, <1>6, <1>7, <2>3, <2>7, <2>8, <2>9, <2>10 DEF SchedulerStep, Core, CoreTypes
<1>10. CASE ~(isPlanJobLeased /\ id = planJobId) /\ ~(isPlanJobLeased /\ complete)
  <2>1. /\ disk' = [disk EXCEPT ![id] = NoJob] /\ retained' = retained
        /\ isPlanJobLeased' = isPlanJobLeased
    BY <1>10 DEF RemoveJob, DeleteJob
  <2>2. disk' \in [Ids -> Job] /\ disk'[id] = NoJob /\ \A i \in Ids : i # id => disk'[i] = disk[i]
    BY <1>2, <2>1, NoJobFacts
  <2>3. id \in JobIds => retained[id] = NoJob
    BY <1>1 DEF Core, Shape
  <2>4. Leased(planJobId)' <=> Leased(planJobId)
    BY <1>3, <1>10, NoJobFacts DEF Core, Shape, Leased
  <2>5. Shape'
    <3>1. \A i \in Ids : disk'[i].status = "none" => disk'[i] = NoJob
      BY <2>2 DEF Core, Shape
    <3>2. isPlanJobLeased' <=> Leased(planJobId)'
      BY <2>1, <2>4 DEF Core, Shape
    <3> QED
      BY <1>1, <1>3, <2>1, <3>1, <3>2, NoJobFacts DEF Core, Shape
  <2>6. DiskMatchesMemory'
    BY <1>3, <2>1, <2>2, <2>3, NoJobFacts DEF Core, DiskMatchesMemory
  <2>7. PlanStep
    <3>1. Leased(planJobId) => acked' = acked
      BY <1>1, <1>10 DEF Core, Shape
    <3> QED
      BY <2>1, <2>4, <3>1 DEF PlanStep, InRetained
  <2>8. isPlanJobLeased' \in BOOLEAN
    BY <2>1 DEF Core, CoreTypes
  <2> QED
    BY <1>1, <1>2, <1>4, <1>5, <1>6, <1>7, <2>1, <2>2, <2>5, <2>6, <2>7, <2>8 DEF SchedulerStep, Core, CoreTypes
<1> QED
  BY <1>1, <1>8, <1>9, <1>10
LEMMA CancelStep ==
    ASSUME Core, NEW id \in Ids, NEW epoch, NEW interrupted \in BOOLEAN,
           CancelLease(id, epoch, interrupted)
    PROVE  SchedulerStep /\ acked' = acked
<1>1. /\ gen' = gen /\ acked' = acked /\ jobs[id].status = "leased"
      /\ isPlanJobLeased' = (isPlanJobLeased /\ id # planJobId)
      /\ retained' = IF id = planJobId THEN NothingRetained ELSE retained
  BY DEF CancelLease, Leased
<1>2. /\ jobs \in [Ids -> Job] /\ disk \in [Ids -> Job] /\ retained \in [JobIds -> Job]
      /\ gen \in Nat /\ acked \subseteq Blocks /\ jobs[id] \in Job
  BY DEF Core, CoreTypes
<1>3. /\ retained' \in [JobIds -> Job]
      /\ id = planJobId => \A i \in JobIds : retained'[i] = NoJob
      /\ id # planJobId => retained' = retained
  BY <1>1, <1>2, NoJobFacts DEF NothingRetained
<1>4. isPlanJobLeased' \in BOOLEAN
  BY <1>1
<1>5. PICK jj \in Job :
        /\ jobs' = [jobs EXCEPT ![id] = jj]
        /\ \/ jj.status = "available" /\ jj.blocks = jobs[id].blocks /\ jj.epoch = jobs[id].epoch
           \/ jj = NoJob /\ id # planJobId
        /\ disk'[id] = jj
        /\ \A i \in Ids : i # id => disk'[i] = IF id = planJobId /\ i \in RetainedIds THEN NoJob ELSE disk[i]
        /\ disk' \in [Ids -> Job]
  <2>1. CASE interrupted \/ canRetry(id)
    <3> DEFINE c == ClearLease(jobs[id])
               k == IF interrupted THEN DecrementLeaseCount(c) ELSE c
    <3>1. /\ disk' = WriteAndDelete([i \in {id} |-> k], IF id = planJobId THEN RetainedIds ELSE {})
          /\ jobs' = [jobs EXCEPT ![id] = k]
      BY <2>1 DEF CancelLease
    <3>2. c \in Job /\ c.status = "available" /\ c.blocks = jobs[id].blocks /\ c.epoch = jobs[id].epoch
      BY <1>2, JobOps
    <3>3. k \in Job /\ k.status = "available" /\ k.blocks = jobs[id].blocks /\ k.epoch = jobs[id].epoch
      BY <3>2, JobOps
    <3> HIDE DEF k
    <3>4. id = planJobId => id \notin RetainedIds
      BY NoJobFacts DEF RetainedIds
    <3>5. /\ disk'[id] = k
          /\ \A i \in Ids : i # id => disk'[i] = IF id = planJobId /\ i \in RetainedIds THEN NoJob ELSE disk[i]
          /\ disk' \in [Ids -> Job]
      BY <1>2, <3>1, <3>3, <3>4, NoJobFacts DEF WriteAndDelete
    <3> QED
      BY <3>1, <3>3, <3>5, Zenon
  <2>2. CASE ~(interrupted \/ canRetry(id))
    <3>1. disk' = DeleteJob(id) /\ jobs' = [jobs EXCEPT ![id] = NoJob] /\ id # planJobId
      BY <2>2 DEF CancelLease, canRetry
    <3>2. disk'[id] = NoJob /\ (\A i \in Ids : i # id => disk'[i] = disk[i]) /\ disk' \in [Ids -> Job]
      BY <1>2, <3>1, NoJobFacts DEF DeleteJob
    <3> QED
      BY <3>1, <3>2, NoJobFacts, Zenon
  <2> QED
    BY <2>1, <2>2
<1>6. /\ jobs' \in [Ids -> Job] /\ jobs'[id] = jj
      /\ \A i \in Ids : i # id => jobs'[i] = jobs[i]
      /\ jj.blocks \subseteq jobs[id].blocks
      /\ jj.status = "none" => jj = NoJob
      /\ jj.status \in {"none", "available"}
  BY <1>2, <1>5, NoJobFacts
<1>7. NoRecompaction' /\ JobsShareNoBlock'
  BY <1>1, <1>6, NoJobFacts, Shrink
<1>8. \A i \in Ids : JobStep(i)
  BY <1>5, <1>6 DEF JobStep
<1>9. Leased(planJobId)' <=> Leased(planJobId) /\ id # planJobId
  BY <1>6, NoJobFacts DEF Leased
<1>10. Shape'
  <2>1. \A i \in Ids : disk'[i].status = "none" => disk'[i] = NoJob
    BY <1>5, <1>6 DEF Core, Shape
  <2>2. isPlanJobLeased' <=> Leased(planJobId)'
    BY <1>1, <1>9, Zenon DEF Core, Shape
  <2>3. \A i \in Ids : /\ jobs'[i].status # "complete"
                       /\ jobs'[i].status = "none" => jobs'[i] = NoJob
                       /\ jobs'[i].status # "none" => 1 <= jobs'[i].epoch[1] /\ jobs'[i].epoch[1] <= gen'
    BY <1>1, <1>5, <1>6, NoJobFacts DEF Core, Shape
  <2>4. \A i \in JobIds : /\ retained'[i] = NoJob \/ retained'[i].status = "complete"
                          /\ jobs'[i].status # "none" => retained'[i] = NoJob
    BY <1>1, <1>3, <1>6, NoJobFacts DEF Core, Shape
  <2> QED
    BY <2>1, <2>2, <2>3, <2>4 DEF Shape
<1>11. DiskMatchesMemory'
  <2>1. ASSUME NEW i \in JobIds
        PROVE  disk'[i] = IF jobs'[i].status # "none" THEN jobs'[i] ELSE retained'[i]
    <3>1. CASE i = id
      BY <1>1, <1>3, <1>5, <1>6, <3>1, NoJobFacts DEF Core, Shape
    <3>2. CASE i # id
      <4>1. jobs[i].status # "none" => i \notin RetainedIds
        BY DEF Core, Shape, RetainedIds
      <4>2. i \notin RetainedIds => retained[i] = NoJob
        BY DEF RetainedIds
      <4> QED
        BY <1>3, <1>5, <1>6, <3>2, <4>1, <4>2, NoJobFacts DEF Core, DiskMatchesMemory
    <3> QED
      BY <3>1, <3>2
  <2>2. planJobId # id => disk'[planJobId] = disk[planJobId] /\ jobs'[planJobId] = jobs[planJobId]
    BY <1>5, <1>6, NoJobFacts
  <2> QED
    BY <1>5, <1>6, <2>1, <2>2 DEF Core, DiskMatchesMemory
<1>12. PlanStep
  BY <1>1, <1>3, <1>9 DEF PlanStep, InRetained
<1>13. ClaimStep
  <2>1. \A k \in JobIds : k # id => Held(k)' = Held(k)
    BY <1>6, NoJobFacts DEF Held, Leased
  <2>2. Held(id)' = {}
    BY <1>6 DEF Held, Leased
  <2> QED
    BY <1>1, <2>1, <2>2 DEF ClaimStep
<1> QED
  BY <1>1, <1>2, <1>3, <1>4, <1>5, <1>6, <1>7, <1>8, <1>10, <1>11, <1>12, <1>13 DEF SchedulerStep, Core, CoreTypes
================================================================================
