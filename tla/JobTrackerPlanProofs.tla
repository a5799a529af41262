------------------------- MODULE JobTrackerPlanProofs -------------------------
(***************************************************************************)
(* JobTrackerStepProofs continued: the offer of a plan, the maintenance    *)
(* and the restart of the scheduler, the workers and the network.          *)
(***************************************************************************)
EXTENDS JobTrackerStepProofs

LEMMA OfferStep ==
    ASSUME Core, NEW offer, NEW epoch, OfferCompactionJobs(offer, epoch),
           \A n \in DOMAIN offer : n \in Nat /\ offer[n].id \in JobIds /\ offer[n].blocks \subseteq Blocks,
           \A k, n \in DOMAIN offer :
             k # n => offer[k].id # offer[n].id /\ offer[k].blocks \cap offer[n].blocks = {},
           \A n \in DOMAIN offer : \A b \in offer[n].blocks : b \in acked => InRetained(b)
    PROVE  SchedulerStep /\ acked' = acked
<1> DEFINE accepted == {n \in DOMAIN offer : Acceptable(offer[n])}
           ids == {offer[n].id : n \in accepted}
           at(id) == CHOOSE k \in accepted : offer[k].id = id
           new(id) == NewTrackedJob(offer[at(id)].blocks, at(id))
<1>1. /\ disk' = WriteAndDelete([id \in ids \cup {planJobId} |->
                                   IF id \in ids THEN [i \in ids |-> new(i)][id] ELSE MarkComplete(jobs[id])],
                                Replaced(ids))
      /\ jobs' = [id \in Ids |-> IF id \in ids THEN [i \in ids |-> new(i)][id]
                                 ELSE IF id = planJobId \/ Pending(id) THEN NoJob ELSE jobs[id]]
      /\ isPlanJobLeased' = FALSE /\ retained' = NothingRetained /\ gen' = gen + 1 /\ acked' = acked
      /\ Leased(planJobId)
  BY DEF OfferCompactionJobs
<1>2. /\ jobs \in [Ids -> Job] /\ disk \in [Ids -> Job] /\ retained \in [JobIds -> Job]
      /\ gen \in Nat /\ acked \subseteq Blocks
  BY DEF Core, CoreTypes
<1>3. \A id \in ids : /\ at(id) \in DOMAIN offer /\ offer[at(id)].id = id /\ id \in JobIds
                       /\ Acceptable(offer[at(id)])
  <2> SUFFICES ASSUME NEW id \in ids
               PROVE  /\ at(id) \in DOMAIN offer /\ offer[at(id)].id = id /\ id \in JobIds
                      /\ Acceptable(offer[at(id)])
    OBVIOUS
  <2>1. PICK k \in accepted : offer[k].id = id
    OBVIOUS
  <2>2. at(id) \in accepted /\ offer[at(id)].id = id
    BY <2>1
  <2> QED
    BY <2>1, <2>2
<1> HIDE DEF at, ids, accepted
<1>4. \A id \in ids : /\ new(id) \in Job /\ new(id).status = "available"
                      /\ new(id).blocks = offer[at(id)].blocks
                      /\ new(id).epoch = <<gen + 1, 0>>
  <2> SUFFICES ASSUME NEW id \in ids
               PROVE  /\ new(id) \in Job /\ new(id).status = "available"
                      /\ new(id).blocks = offer[at(id)].blocks
                      /\ new(id).epoch = <<gen + 1, 0>>
    BY Zenon
  <2>1. offer[at(id)].blocks \in SUBSET Blocks /\ at(id) \in Nat
    BY <1>3
  <2> QED
    BY <1>2, <2>1, NewJobFacts, Zenon
<1> HIDE DEF new
<1>5. \A id \in ids : ~Leased(id) /\ new(id).blocks \cap Conflicts = {}
  <2> SUFFICES ASSUME NEW id \in ids PROVE ~Leased(id) /\ new(id).blocks \cap Conflicts = {}
    OBVIOUS
  <2>1. Acceptable(offer[at(id)])
    BY <1>3
  <2> QED
    BY <1>3, <1>4, <2>1 DEF Acceptable
<1>6. \A id \in Ids : jobs'[id] = IF id \in ids THEN new(id)
                                   ELSE IF id = planJobId \/ Pending(id) THEN NoJob ELSE jobs[id]
  BY <1>1
<1>7. jobs' \in [Ids -> Job]
  BY <1>1, <1>2, <1>4, NoJobFacts
<1>8. planJobId \notin ids /\ planJobId \notin Replaced(ids)
  BY <1>1, <1>3, NoJobFacts DEF Replaced, RetainedIds, Pending, Leased
<1>9. \A id \in JobIds : disk'[id] = IF id \in ids THEN new(id)
                                      ELSE IF id \in Replaced(ids) THEN NoJob ELSE disk[id]
  <2>1. \A id \in ids : id \notin Replaced(ids)
    BY DEF Replaced
  <2> QED
    BY <1>1, <2>1, NoJobFacts DEF WriteAndDelete
<1>10. disk'[planJobId] = MarkComplete(jobs[planJobId])
  BY <1>1, <1>8, NoJobFacts DEF WriteAndDelete
<1>11. MarkComplete(jobs[planJobId]) \in Job /\ MarkComplete(jobs[planJobId]).status = "complete"
  BY <1>2, NoJobFacts, JobOps
<1>12. disk' \in [Ids -> Job]
  <2>1. \A id \in Ids : disk'[id] \in Job
    <3>1. ASSUME NEW id \in JobIds PROVE disk'[id] \in Job
      <4>1. disk[id] \in Job
        BY <1>2, NoJobFacts
      <4>2. id \in ids => disk'[id] = new(id)
        BY <1>9
      <4>3. id \notin ids => disk'[id] = NoJob \/ disk'[id] = disk[id]
        BY <1>9
      <4> QED
        BY <1>4, <4>1, <4>2, <4>3, NoJobFacts
    <3> QED
      BY <1>10, <1>11, <3>1 DEF Ids
  <2>2. disk' = [id \in Ids |-> disk'[id]]
    BY <1>1 DEF WriteAndDelete
  <2> QED
    BY <2>1, <2>2
<1>13. (\A id \in JobIds : retained'[id] = NoJob) /\ retained' \in [JobIds -> Job]
  BY <1>1, NoJobFacts DEF NothingRetained
<1>14. Shape'
  <2>1. \A i \in Ids : disk'[i].status = "none" => disk'[i] = NoJob
    BY <1>4, <1>9, <1>10, <1>11, NoJobFacts DEF Core, Shape, Ids
  <2>2. ASSUME NEW i \in Ids
        PROVE  /\ jobs'[i].status # "complete"
               /\ jobs'[i].status = "none" => jobs'[i] = NoJob
               /\ jobs'[i].status # "none" => 1 <= jobs'[i].epoch[1] /\ jobs'[i].epoch[1] <= gen'
    <3>1. CASE i \in ids
      <4>1. new(i).epoch[1] = gen + 1
        BY <1>4, <3>1
      <4> QED
        BY <1>1, <1>2, <1>4, <1>6, <3>1, <4>1
    <3>2. CASE i \notin ids /\ (i = planJobId \/ Pending(i))
      BY <1>6, <3>2, NoJobFacts
    <3>3. CASE i \notin ids /\ ~(i = planJobId \/ Pending(i))
      <4>1. jobs'[i] = jobs[i]
        BY <1>6, <3>3
      <4>2. jobs[i].epoch[1] \in Nat
        BY <1>2 DEF Job
      <4> QED
        BY <1>1, <1>2, <4>1, <4>2 DEF Core, Shape
    <3> QED
      BY <3>1, <3>2, <3>3
  <2>3. ~Leased(planJobId)' /\ ~isPlanJobLeased'
    BY <1>1, <1>6, <1>8, NoJobFacts DEF Leased
  <2> QED
    BY <1>13, <2>1, <2>2, <2>3 DEF Shape
<1>15. DiskMatchesMemory'
  <2>1. ASSUME NEW i \in JobIds
        PROVE  disk'[i] = IF jobs'[i].status # "none" THEN jobs'[i] ELSE retained'[i]
    <3>1. CASE i \in ids
      BY <1>4, <1>6, <1>9, <3>1, NoJobFacts
    <3>2. CASE i \notin ids /\ Pending(i)
      BY <1>6, <1>9, <1>13, <3>2, NoJobFacts DEF Replaced
    <3>3. CASE i \notin ids /\ ~Pending(i)
      <4>1. jobs'[i] = jobs[i]
        BY <1>6, <3>3, NoJobFacts
      <4>2. i \in Replaced(ids) <=> i \in RetainedIds
        BY <3>3, NoJobFacts DEF Replaced
      <4>3. jobs[i].status # "none" => i \notin RetainedIds
        BY DEF Core, Shape, RetainedIds
      <4>4. i \notin RetainedIds => retained[i] = NoJob
        BY DEF RetainedIds
      <4> QED
        BY <1>9, <1>13, <3>3, <4>1, <4>2, <4>3, <4>4, NoJobFacts DEF Core, DiskMatchesMemory
    <3> QED
      BY <3>1, <3>2, <3>3
  <2>2. jobs'[planJobId].status = "none" /\ disk'[planJobId].status = "complete"
    BY <1>6, <1>8, <1>10, <1>11, NoJobFacts
  <2> QED
    BY <2>1, <2>2 DEF DiskMatchesMemory
<1>16. NoRecompaction'
  <2>1. ASSUME NEW i \in JobIds, NEW b \in jobs'[i].blocks
        PROVE  b \notin acked
    <3>1. CASE i \in ids
      <4>1. b \in offer[at(i)].blocks /\ at(i) \in DOMAIN offer /\ b \notin Conflicts
        BY <1>3, <1>4, <1>5, <1>6, <2>1, <3>1, NoJobFacts
      <4>2. ~InRetained(b)
        BY <4>1 DEF Conflicts, InRetained
      <4> QED
        BY <4>1, <4>2
    <3>2. CASE i \notin ids
      BY <1>6, <2>1, <3>2, NoJobFacts DEF Core, NoRecompaction
    <3> QED
      BY <3>1, <3>2
  <2> QED
    BY <1>1, <2>1 DEF NoRecompaction
<1>17. JobsShareNoBlock'
  <2>1. ASSUME NEW i \in ids, NEW k \in ids, i # k
        PROVE  new(i).blocks \cap new(k).blocks = {}
    BY <1>3, <1>4, <2>1
  <2>2. ASSUME NEW i \in ids, NEW k \in JobIds, k \notin ids
        PROVE  new(i).blocks \cap jobs'[k].blocks = {}
    <3>1. CASE Leased(k)
      <4>1. jobs[k].blocks \subseteq Conflicts
        BY <3>1 DEF Conflicts
      <4> QED
        BY <1>5, <1>6, <2>2, <3>1, <4>1, NoJobFacts DEF Leased, Pending
    <3>2. CASE ~Leased(k)
      <4>1. jobs[k].status = "none" \/ Pending(k)
        BY <1>2, <3>2, NoJobFacts DEF Core, Shape, Leased, Pending, Job
      <4>2. jobs'[k] = NoJob
        BY <1>6, <2>2, <4>1, NoJobFacts DEF Core, Shape
      <4> QED
        BY <4>2, NoJobFacts
    <3> QED
      BY <3>1, <3>2
  <2>3. ASSUME NEW i \in JobIds, NEW k \in JobIds, i # k, i \notin ids, k \notin ids
        PROVE  jobs'[i].blocks \cap jobs'[k].blocks = {}
    BY <1>6, <2>3, NoJobFacts DEF Core, JobsShareNoBlock
  <2>4. \A i \in ids : i \in JobIds /\ jobs'[i] = new(i)
    BY <1>3, <1>6, NoJobFacts
  <2> QED
    BY <2>1, <2>2, <2>3, <2>4 DEF JobsShareNoBlock
<1>18. \A i \in Ids : JobStep(i)
  BY <1>1, <1>4, <1>6 DEF JobStep
<1>19. PlanStep
  BY <1>6, <1>8, NoJobFacts DEF PlanStep, Leased
<1>20. CoreTypes'
  <2>1. isPlanJobLeased' \in BOOLEAN
    BY <1>1, Zenon
  <2>2. gen' \in Nat /\ acked' \subseteq Blocks
    BY <1>1, <1>2
  <2> QED
    BY <1>7, <1>12, <1>13, <2>1, <2>2 DEF CoreTypes
<1>21. ClaimStep
  <2>1. ASSUME NEW k \in JobIds PROVE Held(k)' = Held(k)
    <3>1. CASE k \in ids
      BY <1>4, <1>5, <1>6, <3>1, NoJobFacts DEF Held, Leased
    <3>2. CASE k \notin ids /\ Pending(k)
      BY <1>6, <3>2, NoJobFacts DEF Held, Leased, Pending
    <3>3. CASE k \notin ids /\ ~Pending(k)
      BY <1>6, <3>3, NoJobFacts DEF Held, Leased
    <3> QED
      BY <3>1, <3>2, <3>3
  <2> QED
    BY <1>1, <2>1 DEF ClaimStep
<1> QED
  BY <1>1, <1>14, <1>15, <1>16, <1>17, <1>18, <1>19, <1>20, <1>21 DEF SchedulerStep, Core
LEMMA MaintenanceStep ==
    ASSUME Core, ListsMatchJobs, NEW expire \in BOOLEAN, NEW plan \in BOOLEAN, Maintenance(expire, plan)
    PROVE  SchedulerStep
<1> DEFINE expired == IF expire THEN Expired \cap Ids ELSE {}
           revived == {id \in expired : canRetry(id)}
           added == IF plan /\ jobs[planJobId].status = "none" THEN {planJobId} ELSE {}
           new(id) == IF id \in added THEN NewTrackedJob({}, 0) ELSE ClearLease(jobs[id])
           forgotten == IF planJobId \in revived THEN RetainedIds ELSE {}
<1>1. /\ disk' = WriteAndDelete([id \in revived \cup added |-> new(id)], (expired \ revived) \cup forgotten)
      /\ jobs' = [id \in Ids |-> IF id \in revived \cup added THEN new(id)
                                 ELSE IF id \in expired THEN NoJob ELSE jobs[id]]
      /\ isPlanJobLeased' = (isPlanJobLeased /\ planJobId \notin revived)
      /\ retained' = (IF planJobId \in revived THEN NothingRetained ELSE retained)
      /\ gen' = (IF added # {} THEN gen + 1 ELSE gen)
      /\ acked' = acked
  BY DEF Maintenance
<1>2. /\ jobs \in [Ids -> Job] /\ disk \in [Ids -> Job] /\ retained \in [JobIds -> Job]
      /\ gen \in Nat /\ acked \subseteq Blocks
  BY DEF Core, CoreTypes
<1>3. \A id \in expired : id \in Ids /\ Leased(id)
  <2>1. Range(active) = {id \in Ids : Leased(id)}
    BY DEF ListsMatchJobs
  <2>2. \A id \in expired : id \in Range(active)
    BY DEF Expired, Range
  <2> QED
    BY <2>1, <2>2
<1>4. /\ \A id \in added : id = planJobId /\ jobs[id].status = "none"
      /\ planJobId \in expired => planJobId \in revived
      /\ \A id \in revived : id \in expired
  BY DEF canRetry
<1>5. /\ \A id \in revived : id \notin added
      /\ added \subseteq Ids
  BY <1>3, <1>4, NoJobFacts DEF Leased
<1> HIDE DEF expired, revived, added
<1>6. \A id \in revived : /\ new(id) \in Job /\ new(id).status = "available"
                          /\ new(id).blocks = jobs[id].blocks /\ new(id).epoch = jobs[id].epoch
  BY <1>2, <1>3, <1>4, <1>5, JobOps
<1>7. \A id \in added : /\ new(id) \in Job /\ new(id).status = "available"
                        /\ new(id).blocks = {} /\ new(id).epoch = <<gen + 1, 0>>
                        /\ gen' = gen + 1
  BY <1>1, <1>2, NewJobFacts
<1> HIDE DEF new
<1>8. \A id \in Ids : /\ id \in revived \cup added => jobs'[id] = new(id)
                      /\ id \in expired \ revived => jobs'[id] = NoJob
                      /\ id \notin expired \cup added => jobs'[id] = jobs[id]
  BY <1>1, <1>3, <1>4
<1>9. jobs' \in [Ids -> Job]
  <2>1. \A id \in Ids : jobs'[id] \in Job
    BY <1>2, <1>6, <1>7, <1>8, NoJobFacts
  <2> QED
    BY <1>1, <2>1
<1>10. \A id \in forgotten : id \in JobIds /\ id \notin expired \cup added
  BY <1>3, <1>4, NoJobFacts DEF RetainedIds, Core, Shape, Leased
<1>11. \A id \in Ids : /\ id \in revived \cup added => disk'[id] = new(id)
                       /\ id \in expired \ revived => disk'[id] = NoJob
                       /\ id \in forgotten => disk'[id] = NoJob
                       /\ id \notin expired \cup added \cup forgotten => disk'[id] = disk[id]
  BY <1>1, <1>4, <1>5, <1>10, SMTT(30) DEF WriteAndDelete
<1>12. disk' \in [Ids -> Job]
  <2>1. \A id \in Ids : disk'[id] \in Job
    BY <1>2, <1>6, <1>7, <1>11, NoJobFacts
  <2>2. disk' = [id \in Ids |-> disk'[id]]
    BY <1>1 DEF WriteAndDelete
  <2> QED
    BY <2>1, <2>2
<1>13. /\ planJobId \in revived => \A id \in JobIds : retained'[id] = NoJob
       /\ planJobId \notin revived => retained' = retained
       /\ retained' \in [JobIds -> Job]
  BY <1>1, <1>2, NoJobFacts DEF NothingRetained
<1>14. Leased(planJobId)' <=> Leased(planJobId) /\ planJobId \notin revived
  <2>1. CASE planJobId \in revived
    BY <1>6, <1>8, <2>1, NoJobFacts DEF Leased
  <2>2. CASE planJobId \in added
    BY <1>4, <1>5, <1>7, <1>8, <2>2, NoJobFacts DEF Leased
  <2>3. CASE planJobId \notin revived /\ planJobId \notin added
    BY <1>4, <1>8, <2>3, NoJobFacts DEF Leased
  <2> QED
    BY <2>1, <2>2, <2>3
<1>15. CoreTypes'
  <2>1. isPlanJobLeased' \in BOOLEAN
    BY <1>1
  <2>2. gen' \in Nat /\ acked' \subseteq Blocks
    BY <1>1, <1>2
  <2> QED
    BY <1>9, <1>12, <1>13, <2>1, <2>2 DEF CoreTypes
<1>16. Shape'
  <2>1. \A i \in Ids : disk'[i].status = "none" => disk'[i] = NoJob
    BY <1>6, <1>7, <1>11, NoJobFacts DEF Core, Shape
  <2>2. isPlanJobLeased' <=> Leased(planJobId)'
    BY <1>1, <1>14, Zenon DEF Core, Shape
  <2>3. ASSUME NEW i \in Ids
        PROVE  /\ jobs'[i].status # "complete"
               /\ jobs'[i].status = "none" => jobs'[i] = NoJob
               /\ jobs'[i].status # "none" => 1 <= jobs'[i].epoch[1] /\ jobs'[i].epoch[1] <= gen'
    <3>1. jobs[i].epoch[1] \in Nat /\ gen' \in Nat /\ gen <= gen'
      BY <1>1, <1>2 DEF Job
    <3>2. CASE i \in added
      <4>1. new(i).epoch[1] = gen + 1
        BY <1>7, <3>2
      <4> QED
        BY <1>2, <1>7, <1>8, <3>2, <4>1
    <3>3. CASE i \in revived
      <4>1. 1 <= jobs[i].epoch[1] /\ jobs[i].epoch[1] <= gen
        BY <1>3, <1>4, <3>3 DEF Core, Shape, Leased
      <4> QED
        BY <1>2, <1>6, <1>8, <3>1, <3>3, <4>1
    <3>4. CASE i \in expired \ revived
      BY <1>8, <3>4, NoJobFacts
    <3>5. CASE i \notin expired \cup added
      <4>1. jobs'[i] = jobs[i]
        BY <1>8, <3>5
      <4> QED
        BY <1>2, <3>1, <4>1 DEF Core, Shape
    <3> QED
      BY <3>2, <3>3, <3>4, <3>5
  <2>4. ASSUME NEW i \in JobIds
        PROVE  /\ retained'[i] = NoJob \/ retained'[i].status = "complete"
               /\ jobs'[i].status # "none" => retained'[i] = NoJob
    <3>1. jobs'[i].status # "none" => jobs[i].status # "none"
      BY <1>3, <1>4, <1>8, NoJobFacts DEF Leased
    <3> QED
      BY <1>13, <3>1 DEF Core, Shape
  <2> QED
    BY <2>1, <2>2, <2>3, <2>4 DEF Shape
<1>17. DiskMatchesMemory'
  <2>1. ASSUME NEW i \in JobIds
        PROVE  disk'[i] = IF jobs'[i].status # "none" THEN jobs'[i] ELSE retained'[i]
    <3>1. i \notin added /\ i \in Ids
      BY <1>4, NoJobFacts
    <3>2. CASE i \in revived
      BY <1>6, <1>8, <1>11, <3>1, <3>2
    <3>3. CASE i \in expired \ revived
      <4>1. retained[i] = NoJob
        BY <1>3, <3>3 DEF Core, Shape, Leased
      <4> QED
        BY <1>8, <1>11, <1>13, <3>1, <3>3, <4>1, NoJobFacts
    <3>4. CASE i \notin expired
      <4>1. jobs'[i] = jobs[i]
        BY <1>8, <3>1, <3>4
      <4>2. jobs[i].status # "none" => i \notin RetainedIds
        BY DEF Core, Shape, RetainedIds
      <4>3. i \notin RetainedIds => retained[i] = NoJob
        BY DEF RetainedIds
      <4>4. CASE i \in forgotten
        BY <1>11, <1>13, <3>1, <4>1, <4>2, <4>4
      <4>5. CASE i \notin forgotten
        <5>1. disk'[i] = disk[i]
          BY <1>11, <3>1, <3>4, <4>5
        <5> QED
          BY <1>13, <4>1, <4>2, <4>3, <4>5, <5>1 DEF Core, DiskMatchesMemory
      <4> QED
        BY <4>4, <4>5
    <3> QED
      BY <1>4, <3>2, <3>3, <3>4
  <2>2. IF jobs'[planJobId].status # "none" THEN disk'[planJobId] = jobs'[planJobId]
        ELSE disk'[planJobId].status \in {"none", "complete"}
    <3>1. CASE planJobId \in revived \cup added
      BY <1>6, <1>7, <1>8, <1>11, <3>1, NoJobFacts
    <3>2. CASE planJobId \notin revived \cup added
      <4>1. planJobId \notin expired /\ planJobId \notin forgotten
        BY <1>4, <1>10, <3>2, NoJobFacts
      <4> QED
        BY <1>8, <1>11, <3>2, <4>1, NoJobFacts DEF Core, DiskMatchesMemory
    <3> QED
      BY <3>1, <3>2
  <2> QED
    BY <2>1, <2>2 DEF DiskMatchesMemory
<1>18. NoRecompaction' /\ JobsShareNoBlock'
  <2>1. \A i \in JobIds : i \in Ids /\ i \notin added
    BY <1>4, NoJobFacts
  <2>2. \A i \in JobIds : jobs'[i].blocks \subseteq jobs[i].blocks
    BY <1>6, <1>8, <2>1, NoJobFacts
  <2> QED
    BY <1>1, <2>2, Shrink
<1>19. \A i \in Ids : JobStep(i)
  BY <1>6, <1>7, <1>8 DEF JobStep
<1>20. PlanStep
  BY <1>1, <1>13, <1>14 DEF PlanStep, InRetained
<1>21. ClaimStep
  <2>1. ASSUME NEW k \in JobIds PROVE Held(k)' = Held(k) \/ Held(k)' = {}
    <3>1. k \in Ids /\ k \notin added
      BY <1>4, NoJobFacts
    <3>2. CASE k \in revived
      BY <1>6, <1>8, <3>1, <3>2 DEF Held, Leased
    <3>3. CASE k \in expired \ revived
      BY <1>8, <3>1, <3>3, NoJobFacts DEF Held, Leased
    <3>4. CASE k \notin expired
      BY <1>8, <3>1, <3>4 DEF Held, Leased
    <3> QED
      BY <3>2, <3>3, <3>4
  <2> QED
    BY <1>1, <2>1 DEF ClaimStep
<1> QED
  BY <1>1, <1>2, <1>15, <1>16, <1>17, <1>18, <1>19, <1>20, <1>21 DEF SchedulerStep, Core
----------------------------------------------------------------------------
(* Steps that leave what the scheduler knows as it is *)

\* Recovering from the bucket gives back the jobs and what was retained.
LEMMA RestartCore ==
    ASSUME Core, Restart
    PROVE  jobs' = jobs /\ retained' = retained /\ isPlanJobLeased' = isPlanJobLeased
<1>1. /\ jobs' = [id \in Ids |-> IF disk[id].status = "complete" THEN NoJob ELSE disk[id]]
      /\ retained' = [id \in JobIds |-> IF disk[id].status = "complete" THEN disk[id] ELSE NoJob]
      /\ isPlanJobLeased' = (disk[planJobId].status = "leased")
  BY DEF Restart
<1>2. jobs \in [Ids -> Job] /\ retained \in [JobIds -> Job] /\ isPlanJobLeased \in BOOLEAN
  BY DEF Core, CoreTypes
<1>3. ASSUME NEW id \in JobIds
      PROVE  jobs'[id] = jobs[id] /\ retained'[id] = retained[id]
  <2>1. id \in Ids
    BY NoJobFacts
  <2>2. CASE jobs[id].status # "none"
    BY <1>1, <2>1, <2>2 DEF Core, Shape, DiskMatchesMemory
  <2>3. CASE jobs[id].status = "none"
    <3>1. disk[id] = retained[id] /\ jobs[id] = NoJob
      BY <2>1, <2>3 DEF Core, Shape, DiskMatchesMemory
    <3>2. CASE retained[id] = NoJob
      BY <1>1, <2>1, <3>1, <3>2, NoJobFacts
    <3>3. CASE retained[id].status = "complete"
      BY <1>1, <2>1, <3>1, <3>3
    <3> QED
      BY <3>2, <3>3 DEF Core, Shape
  <2> QED
    BY <2>2, <2>3
<1>4. jobs'[planJobId] = jobs[planJobId]
  <2>1. CASE jobs[planJobId].status # "none"
    BY <1>1, <2>1, NoJobFacts DEF Core, Shape, DiskMatchesMemory
  <2>2. CASE jobs[planJobId].status = "none"
    <3>1. disk[planJobId].status \in {"none", "complete"} /\ jobs[planJobId] = NoJob
      BY <2>2, NoJobFacts DEF Core, Shape, DiskMatchesMemory
    <3>2. disk[planJobId].status = "none" => disk[planJobId] = NoJob
      BY NoJobFacts DEF Core, Shape
    <3> QED
      BY <1>1, <3>1, <3>2, NoJobFacts
  <2> QED
    BY <2>1, <2>2
<1>5. \A id \in Ids : jobs'[id] = jobs[id]
  BY <1>3, <1>4 DEF Ids
<1>6. jobs' = jobs
  BY <1>1, <1>2, <1>5
<1>7. retained' = retained
  BY <1>1, <1>2, <1>3, Zenon
<1>8. disk[planJobId].status = "leased" <=> Leased(planJobId)
  <2>1. CASE jobs[planJobId].status # "none"
    BY <2>1 DEF Core, DiskMatchesMemory, Leased
  <2>2. CASE jobs[planJobId].status = "none"
    BY <2>2 DEF Core, DiskMatchesMemory, Leased
  <2> QED
    BY <2>1, <2>2
<1>9. isPlanJobLeased' = isPlanJobLeased
  BY <1>1, <1>2, <1>8 DEF Core, Shape
<1> QED
  BY <1>6, <1>7, <1>9

SameCore ==
    /\ jobs' = jobs /\ retained' = retained /\ isPlanJobLeased' = isPlanJobLeased
    /\ disk' = disk /\ gen' = gen /\ acked' = acked

\* A worker or the network: tasks end, messages are lost, one is sent.
LEMMA WorkerStep ==
    ASSUME IInv, SameCore, marked \subseteq marked', marked' \subseteq Blocks,
           task' = [w \in Workers |-> task'[w]],
           \A w \in Workers : task'[w] = task[w] \/ task'[w] = Idle,
           \A m \in net' : m \in net \/ MessageOK(m)'
    PROVE  IInv' /\ ClaimStep
<1>1. Core'
  BY DEF IInv, SameCore, Core, CoreTypes, Shape, DiskMatchesMemory, NoRecompaction,
         JobsShareNoBlock, Leased
<1>2. \A id, epoch : /\ KeyOK(id, epoch) => KeyOK(id, epoch)'
                     /\ Current(id, epoch)' <=> Current(id, epoch)
  BY DEF SameCore, KeyOK, Current
<1>3. TasksOK'
  <2>1. \A t : TaskOK(t) => TaskOK(t)'
    BY <1>2 DEF SameCore, TaskOK
  <2> QED
    BY <2>1 DEF IInv, TasksOK
<1>4. NetOK'
  <2>1. ASSUME NEW m, MessageOK(m) PROVE MessageOK(m)'
    <3>1. \A b : InRetained(b)' <=> InRetained(b)
      BY DEF SameCore, InRetained
    <3>2. Leased(planJobId)' <=> Leased(planJobId)
      BY DEF SameCore, Leased
    <3> QED
      BY <1>2, <2>1, <3>1, <3>2 DEF SameCore, MessageOK
  <2> QED
    BY <2>1 DEF IInv, NetOK
<1>5. ClaimStep
  BY DEF SameCore, ClaimStep, Held, Leased
<1> QED
  BY <1>1, <1>3, <1>4, <1>5 DEF IInv, SameCore
LEMMA SendStep ==
    ASSUME IInv, NEW w \in Workers, task[w] # Idle, NEW m, Send(w, m),
           marked \subseteq marked', marked' \subseteq Blocks, MessageOK(m)'
    PROVE  IInv' /\ ClaimStep
<1>1. /\ net' = net \cup {m} /\ task' = [task EXCEPT ![w] = Idle]
      /\ SameCore
  BY DEF Send, memory, SameCore
<1>2. /\ task' = [v \in Workers |-> task'[v]]
      /\ \A v \in Workers : task'[v] = task[v] \/ task'[v] = Idle
  BY <1>1 DEF IInv
<1> QED
  BY <1>1, <1>2, WorkerStep

\* What a worker sends when it ends its task.
LEMMA WorkersStep ==
    ASSUME IInv, NEW w \in Workers,
           \/ Compact(w) \/ CompactMitigated(w) \/ CompactFails(w) \/ CompactAbandons(w)
           \/ Plan(w) \/ PlanFails(w)
    PROVE  IInv' /\ ClaimStep
<1>1. task[w] # Idle
  BY ReservedId DEF Compact, CompactMitigated, CompactFails, CompactAbandons, Plan, PlanFails, Idle, planJobId
<1>2. TaskOK(task[w]) /\ marked \subseteq Blocks /\ acked \subseteq marked
  BY <1>1 DEF IInv, TasksOK
<1>3. ASSUME NEW type, NEW m, m = Status(type, w), Send(w, m)
      PROVE  /\ m.type = type /\ m.id = task[w].id
             /\ KeyOK(m.id, m.epoch)'
             /\ Current(m.id, m.epoch)' => jobs'[m.id].blocks = m.blocks
  <2>1. m.type = type /\ m.id = task[w].id /\ m.epoch = task[w].epoch /\ m.blocks = task[w].blocks
    BY <1>3 DEF Status
  <2>2. jobs' = jobs /\ gen' = gen
    BY <1>3 DEF Send, memory
  <2> QED
    BY <1>2, <2>1, <2>2 DEF TaskOK, KeyOK, Current
<1>4. ASSUME NEW type, type = "COMPLETE" => task[w].id \in JobIds, type # "PLANNED",
             NEW m, m = Status(type, w), Send(w, m),
             marked \subseteq marked', marked' \subseteq Blocks
      PROVE  IInv' /\ ClaimStep
  <2>1. MessageOK(m)'
    BY <1>3, <1>4 DEF MessageOK
  <2> QED
    BY <1>1, <1>4, <2>1, SendStep
<1>5. CASE Compact(w) \/ CompactMitigated(w)
  <2>1. Send(w, Status("COMPLETE", w)) /\ task[w].id \in JobIds
    BY <1>5 DEF Compact, CompactMitigated
  <2>2. marked \subseteq marked' /\ marked' \subseteq Blocks
    BY <1>2, <1>5 DEF Compact, CompactMitigated, TaskOK
  <2>3. PICK m : m = Status("COMPLETE", w)
    OBVIOUS
  <2> QED
    BY <1>4, <2>1, <2>2, <2>3
<1>6. CASE CompactFails(w)
  <2>1. PICK type \in {"REASSIGN", "INTERRUPTED_REASSIGN"} : Send(w, Status(type, w))
    BY <1>6 DEF CompactFails
  <2>2. marked \subseteq marked' /\ marked' \subseteq Blocks
    BY <1>2, <1>6 DEF CompactFails, TaskOK
  <2>3. PICK m : m = Status(type, w)
    OBVIOUS
  <2> QED
    BY <1>4, <2>1, <2>2, <2>3
<1>7. CASE CompactAbandons(w)
  <2>1. Send(w, Status("ABANDON", w)) /\ marked' = marked
    BY <1>7 DEF CompactAbandons
  <2>2. PICK m : m = Status("ABANDON", w)
    OBVIOUS
  <2> QED
    BY <1>2, <1>4, <2>1, <2>2
<1>8. CASE PlanFails(w)
  <2>1. PICK type \in {"REASSIGN", "INTERRUPTED_REASSIGN", "ABANDON"} : Send(w, Status(type, w))
    BY <1>8 DEF PlanFails
  <2>2. marked \subseteq marked' /\ marked' \subseteq Blocks
    BY <1>2, <1>8 DEF PlanFails
  <2>3. PICK m : m = Status(type, w)
    OBVIOUS
  <2> QED
    BY <1>2, <1>4, <2>1, <2>2, <2>3
<1>9. CASE Plan(w)
  <2>0. PICK view : view = Blocks \ marked'
    OBVIOUS
  <2>1. PICK p \in Plans(view) : Send(w, [Status("PLANNED", w) EXCEPT !.jobs = p])
    BY <1>9, <2>0 DEF Plan
  <2>2. task[w].id = planJobId /\ marked \subseteq marked' /\ marked' \subseteq Blocks
    BY <1>2, <1>9 DEF Plan
  <2>3. PICK m : m = [Status("PLANNED", w) EXCEPT !.jobs = p]
    BY Zenon
  <2>4. /\ m.type = "PLANNED" /\ m.id = planJobId /\ m.epoch = task[w].epoch /\ m.jobs = p
        /\ m.blocks = task[w].blocks
    BY <2>2, <2>3 DEF Status
  <2>5. /\ \A n \in DOMAIN p : /\ n \in Nat /\ p[n].id \in JobIds
                               /\ p[n].blocks \subseteq view
        /\ \A k, n \in DOMAIN p : k # n => p[k].id # p[n].id /\ p[k].blocks \cap p[n].blocks = {}
        /\ p \in Seq(Offered)
    <3>1. PICK N : p \in [1..N -> [id : JobIds, blocks : (SUBSET view) \ {{}}]] /\ N \in Nat
      BY <2>1 DEF Plans
    <3>2. DOMAIN p = 1..N /\ \A n \in 1..N : p[n] \in [id : JobIds, blocks : (SUBSET view) \ {{}}]
      BY <3>1
    <3>3. \A n \in DOMAIN p : /\ n \in Nat /\ p[n].id \in JobIds
                               /\ p[n].blocks \subseteq view
      BY <3>1, <3>2
    <3>4. p \in Seq(Offered)
      <4>1. \A n \in 1..N : p[n] \in Offered
        BY <2>0, <3>2 DEF Offered
      <4> QED
        BY <3>1, <4>1
    <3> QED
      BY <2>1, <3>3, <3>4 DEF Plans
  <2>6. KeyOK(m.id, m.epoch)' /\ (Current(m.id, m.epoch)' => jobs'[m.id].blocks = m.blocks)
    <3>1. jobs' = jobs /\ gen' = gen
      BY <2>1 DEF Send, memory
    <3> QED
      BY <1>2, <2>2, <2>4, <3>1 DEF TaskOK, KeyOK, Current
  <2>7. acked' = acked
    BY <2>1 DEF Send
  <2>8. MessageOK(m)'
    BY <1>2, <2>0, <2>2, <2>4, <2>5, <2>6, <2>7, ReservedId DEF MessageOK
  <2> QED
    BY <1>1, <1>2, <2>1, <2>2, <2>3, <2>8, SendStep
<1> QED
  BY <1>5, <1>6, <1>7, <1>8, <1>9

LEMMA ReceiveStep ==
    ASSUME IInv, NEW m \in net, Receive(m)
    PROVE  IInv' /\ ClaimStep
<1>1. net' \subseteq net /\ task' = task /\ marked' = marked /\ MessageOK(m) /\ Core
  BY DEF Receive, IInv, NetOK
<1>2. m.id \in Ids
  BY <1>1 DEF MessageOK, KeyOK
<1>3. CASE Handle(m)
  <2>1. SchedulerStep /\ acked' \subseteq marked
    <3>1. CASE m.type \in {"COMPLETE", "ABANDON"} /\ RemoveJob(m.id, m.epoch, m.type = "COMPLETE")
      <4>1. PICK complete \in BOOLEAN : complete <=> m.type = "COMPLETE"
        BY Zenon
      <4>2. RemoveJob(m.id, m.epoch, complete)
        BY <3>1, <4>1
      <4>3. complete => m.id \in JobIds
        BY <1>1, <4>1 DEF MessageOK
      <4>4. SchedulerStep /\ acked' \subseteq acked \cup marked
        BY <1>1, <1>2, <4>2, <4>3, RemoveStep
      <4> QED
        BY <4>4 DEF IInv
    <3>2. CASE /\ m.type \in {"REASSIGN", "INTERRUPTED_REASSIGN"}
               /\ CancelLease(m.id, m.epoch, m.type = "INTERRUPTED_REASSIGN")
      <4>1. PICK interrupted \in BOOLEAN : interrupted <=> m.type = "INTERRUPTED_REASSIGN"
        BY Zenon
      <4>2. CancelLease(m.id, m.epoch, interrupted)
        BY <3>2, <4>1
      <4>3. SchedulerStep /\ acked' = acked
        BY <1>1, <1>2, <4>2, CancelStep
      <4> QED
        BY <4>3 DEF IInv
    <3>3. CASE m.type = "PLANNED" /\ OfferCompactionJobs(m.jobs, m.epoch)
      <4>1. Current(planJobId, m.epoch) /\ Leased(planJobId)
        BY <3>3, Zenon DEF OfferCompactionJobs
      <4>2. SchedulerStep /\ acked' = acked
        BY <1>1, <3>3, <4>1, OfferStep DEF MessageOK
      <4> QED
        BY <4>2 DEF IInv
    <3> QED
      BY <1>3, <3>1, <3>2, <3>3 DEF Handle
  <2>2. NetOK'
    BY <1>1, <2>1, StepMessage DEF IInv, NetOK
  <2>3. TasksOK'
    BY <1>1, <2>1, StepTasks DEF IInv, TasksOK
  <2> QED
    BY <1>1, <2>1, <2>2, <2>3 DEF IInv, SchedulerStep
<1>4. CASE ~Handle(m)
  <2>1. SameCore
    BY <1>4 DEF Receive, SameCore, memory
  <2> QED
    BY <1>1, <2>1, WorkerStep DEF IInv
<1> QED
  BY <1>3, <1>4
================================================================================
