---------------------------- MODULE JobQueueProofs ----------------------------
(***************************************************************************)
(* Proofs that the job queue keeps its list and its map in agreement and   *)
(* that an assignment key identifies one worker, for any number of jobs,   *)
(* workers and epochs.                                                     *)
(***************************************************************************)
EXTENDS JobQueueProtocol, TLAPS

\* While the queue recovers, nothing is unassigned and no key has lost its job.
RecoveryInv ==
    recovering => /\ queue.unassigned = <<>>
                  /\ \A k \in held : k.id \in DOMAIN queue.jobs

IInv ==
    /\ TypeOK
    /\ ListMatchesJobs
    /\ RecoveryInv
    /\ KeysUnique
    /\ HolderIsLatest

LEMMA InitIInv == Init => IInv
<1> SUFFICES ASSUME Init PROVE IInv
  OBVIOUS
<1>1. /\ queue.epoch = 0
      /\ queue.unassigned = <<>>
      /\ queue.jobs = [id \in {} |-> id]
      /\ DOMAIN queue.jobs = {}
  BY DEF Init, EmptyQueue
<1>2. TypeOK
  BY <1>1 DEF Init, EmptyQueue, TypeOK
<1>3. ListMatchesJobs /\ RecoveryInv /\ KeysUnique /\ HolderIsLatest
  BY <1>1 DEF Init, ListMatchesJobs, RecoveryInv, KeysUnique, HolderIsLatest, Leased
<1> QED
  BY <1>2, <1>3 DEF IInv

LEMMA ImportIInv ==
    ASSUME IInv, NEW k \in Key, NEW spec \in Specs, importJob(k, spec)
    PROVE  IInv'
<1> DEFINE jobs == queue.jobs
           refused == ImportRefused(queue, k.id, k.epoch, k.worker)
           kept == k.id \in DOMAIN jobs /\ k.epoch <= jobs[k.id].epoch
<1>1. /\ queue'.epoch \in Nat
      /\ queue'.epoch >= queue.epoch
      /\ queue'.epoch > k.epoch
      /\ queue'.unassigned = <<>>
      /\ queue.unassigned = <<>>
      /\ queue'.jobs = IF kept THEN jobs
                       ELSE Put(jobs, k.id, [epoch |-> k.epoch, assignee |-> k.worker, spec |-> spec])
      /\ queue' = [epoch |-> queue'.epoch, jobs |-> queue'.jobs, unassigned |-> queue'.unassigned]
  <2>1. queue \in [epoch : Nat, jobs : [DOMAIN jobs -> Job], unassigned : Seq(JobIDs)]
    BY DEF IInv, TypeOK
  <2>2. queue.unassigned = <<>>
    BY DEF IInv, RecoveryInv, importJob
  <2>3. /\ queue'.epoch = IF k.epoch + 1 > queue.epoch THEN k.epoch + 1 ELSE queue.epoch
        /\ queue'.unassigned = queue.unassigned
        /\ queue'.jobs = IF kept THEN jobs
                         ELSE Put(jobs, k.id, [epoch |-> k.epoch, assignee |-> k.worker, spec |-> spec])
        /\ queue' = [epoch |-> queue'.epoch, jobs |-> queue'.jobs, unassigned |-> queue'.unassigned]
    BY <2>1, Zenon DEF importJob, ImportJob
  <2>4. k.epoch \in Nat /\ queue.epoch \in Nat
    BY <2>1 DEF Key
  <2> QED
    BY <2>2, <2>3, <2>4
<1>2. /\ DOMAIN queue'.jobs = DOMAIN jobs \cup {k.id}
      /\ queue'.jobs \in [DOMAIN queue'.jobs -> Job]
      /\ DOMAIN queue'.jobs \subseteq JobIDs
  BY <1>1 DEF IInv, TypeOK, Key, Job, Put
<1>3. held' = (IF refused THEN held ELSE held \cup {k}) /\ recovering /\ recovering' /\ completed' = completed
  BY DEF importJob
<1>4. TypeOK'
  BY <1>1, <1>2, <1>3 DEF IInv, TypeOK
<1>5. \A id \in DOMAIN jobs : jobs[id].assignee # NoWorker
  BY <1>1 DEF IInv, ListMatchesJobs
<1>6. \A id \in DOMAIN queue'.jobs : queue'.jobs[id].assignee # NoWorker
  BY <1>1, <1>2, <1>5, ConstantsOK DEF Put, Key
<1>7. ListMatchesJobs'
  BY <1>1, <1>6 DEF ListMatchesJobs
<1>8. RecoveryInv'
  BY <1>1, <1>2, <1>3 DEF RecoveryInv, IInv
<1>9. \A l \in held : l.id = k.id => /\ k.id \in DOMAIN jobs
                                    /\ l.epoch <= jobs[k.id].epoch
                                    /\ [id |-> k.id, epoch |-> jobs[k.id].epoch, worker |-> jobs[k.id].assignee] \in held
  BY <1>3, <1>5 DEF IInv, RecoveryInv, HolderIsLatest, Leased
<1>10. ASSUME kept, ~refused
       PROVE  k \in held
  <2>1. k.epoch = jobs[k.id].epoch /\ jobs[k.id].assignee = k.worker
    BY <1>10 DEF ImportRefused, IInv, TypeOK, Job, Key
  <2>2. k = [id |-> k.id, epoch |-> jobs[k.id].epoch, worker |-> jobs[k.id].assignee]
    BY <2>1 DEF Key
  <2> QED
    BY <1>5, <1>10, <2>2 DEF IInv, HolderIsLatest, Leased
<1>11. ASSUME ~kept
       PROVE  /\ ~refused
              /\ \A l \in held : l.id = k.id => l.epoch < k.epoch
  BY <1>9, <1>11 DEF ImportRefused, IInv, TypeOK, Job, Key
<1>12. KeysUnique'
  BY <1>3, <1>10, <1>11 DEF KeysUnique, IInv, TypeOK, Key
<1>13. HolderIsLatest'
  <2>1. \A l \in held' : l.epoch < queue'.epoch
    BY <1>1, <1>3 DEF IInv, TypeOK, HolderIsLatest, Key
  <2>2. ASSUME NEW id \in Leased(queue')
        PROVE  /\ [id |-> id, epoch |-> queue'.jobs[id].epoch, worker |-> queue'.jobs[id].assignee] \in held'
               /\ \A l \in held' : l.id = id => l.epoch <= queue'.jobs[id].epoch
    <3>1. CASE kept
      <4>1. queue'.jobs = jobs /\ held' = held
        BY <1>1, <1>3, <1>10, <3>1
      <4> QED
        BY <4>1 DEF IInv, HolderIsLatest, Leased
    <3>2. CASE ~kept /\ id # k.id
      BY <1>1, <1>3, <1>11, <3>2, SMTT(30) DEF IInv, HolderIsLatest, Leased, Put
    <3>3. CASE ~kept /\ id = k.id
      <4>1. queue'.jobs[id].epoch = k.epoch /\ queue'.jobs[id].assignee = k.worker
        BY <1>1, <3>3 DEF Put
      <4>2. k = [id |-> k.id, epoch |-> k.epoch, worker |-> k.worker]
        BY DEF Key
      <4> QED
        BY <1>3, <1>11, <3>3, <4>1, <4>2 DEF IInv, TypeOK, Key
    <3> QED
      BY <3>1, <3>2, <3>3
  <2> QED
    BY <2>1, <2>2 DEF HolderIsLatest
<1> QED
  BY <1>4, <1>7, <1>8, <1>12, <1>13 DEF IInv

LEMMA SetEpochIInv ==
    ASSUME IInv, NEW e \in 1..MaxEpoch, setEpoch(e)
    PROVE  IInv'
<1>1. /\ queue'.epoch = e
      /\ queue'.unassigned = queue.unassigned
      /\ queue'.jobs = queue.jobs
      /\ queue' = [epoch |-> e, jobs |-> queue.jobs, unassigned |-> queue.unassigned]
  BY DEF IInv, TypeOK, setEpoch, SetEpoch
<1>2. e >= queue.epoch /\ e \in Nat /\ queue.epoch \in Nat
  BY DEF IInv, TypeOK, setEpoch
<1>3. recovering' = FALSE /\ held' = held /\ completed' = completed
  BY DEF setEpoch
<1>4. TypeOK'
  BY <1>1, <1>2, <1>3, Zenon DEF IInv, TypeOK
<1>5. ListMatchesJobs' /\ RecoveryInv' /\ KeysUnique'
  BY <1>1, <1>3 DEF IInv, ListMatchesJobs, RecoveryInv, KeysUnique
<1>6. HolderIsLatest'
  BY <1>1, <1>2, <1>3 DEF IInv, TypeOK, Key, HolderIsLatest, Leased
<1> QED
  BY <1>4, <1>5, <1>6 DEF IInv

LEMMA AddIInv ==
    ASSUME IInv, NEW id \in JobIDs, NEW spec \in Specs, add(id, spec)
    PROVE  IInv'
<1> DEFINE jobs == queue.jobs
           list == queue.unassigned
           job == [epoch |-> 0, assignee |-> NoWorker, spec |-> spec]
<1>1. /\ queue'.epoch = queue.epoch
      /\ queue'.unassigned = Append(list, id)
      /\ queue'.jobs = Put(jobs, id, job)
      /\ queue' = [epoch |-> queue'.epoch, jobs |-> queue'.jobs, unassigned |-> queue'.unassigned]
  BY Zenon DEF IInv, TypeOK, add, Add
<1>2. id \notin DOMAIN jobs /\ recovering' = FALSE /\ held' = held /\ completed' = completed
  BY DEF add, CanAdd
<1>3. /\ DOMAIN queue'.jobs = DOMAIN jobs \cup {id}
      /\ queue'.jobs[id] = job
      /\ \A x \in DOMAIN jobs : queue'.jobs[x] = jobs[x]
  BY <1>1, <1>2 DEF Put
<1>4. list \in Seq(JobIDs) /\ queue'.unassigned \in Seq(JobIDs)
  BY <1>1 DEF IInv, TypeOK
<1>5. TypeOK'
  <2>1. queue'.jobs \in [DOMAIN queue'.jobs -> Job]
    BY <1>1, <1>3 DEF IInv, TypeOK, Job, Put
  <2> QED
    BY <1>1, <1>2, <1>3, <1>4, <2>1, Zenon DEF IInv, TypeOK
<1>6. /\ DOMAIN queue'.unassigned = 1..(Len(list) + 1)
      /\ DOMAIN list = 1..Len(list)
      /\ Len(list) \in Nat
      /\ queue'.unassigned[Len(list) + 1] = id
      /\ \A i \in 1..Len(list) : queue'.unassigned[i] = list[i]
  BY <1>1, <1>4
<1>7. ListMatchesJobs'
  <2>1. ASSUME NEW i \in DOMAIN queue'.unassigned
        PROVE  /\ queue'.unassigned[i] \in DOMAIN queue'.jobs
               /\ queue'.jobs[queue'.unassigned[i]].assignee = NoWorker
               /\ \A j \in DOMAIN queue'.unassigned :
                    queue'.unassigned[i] = queue'.unassigned[j] => i = j
    <3>1. CASE i = Len(list) + 1
      BY <1>2, <1>3, <1>6, <3>1 DEF IInv, ListMatchesJobs
    <3>2. CASE i \in 1..Len(list)
      <4>1. /\ queue'.unassigned[i] = list[i]
            /\ list[i] \in DOMAIN jobs
            /\ jobs[list[i]].assignee = NoWorker
            /\ \A j \in 1..Len(list) : list[i] = list[j] => i = j
        BY <1>6, <3>2 DEF IInv, ListMatchesJobs
      <4>2. /\ queue'.unassigned[i] \in DOMAIN queue'.jobs
            /\ queue'.jobs[queue'.unassigned[i]].assignee = NoWorker
        BY <1>3, <4>1
      <4>3. ASSUME NEW j \in DOMAIN queue'.unassigned, queue'.unassigned[i] = queue'.unassigned[j]
            PROVE  i = j
        <5>1. CASE j = Len(list) + 1
          BY <1>2, <1>6, <4>1, <4>3, <5>1
        <5>2. CASE j \in 1..Len(list)
          BY <1>6, <4>1, <4>3, <5>2
        <5> QED
          BY <1>6, <5>1, <5>2
      <4> QED
        BY <4>2, <4>3
    <3> QED
      BY <1>6, <3>1, <3>2
  <2>2. ASSUME NEW x \in DOMAIN queue'.jobs, queue'.jobs[x].assignee = NoWorker
        PROVE  \E i \in DOMAIN queue'.unassigned : queue'.unassigned[i] = x
    BY <1>3, <1>6, <2>2, SMTT(30) DEF IInv, ListMatchesJobs
  <2> QED
    BY <2>1, <2>2 DEF ListMatchesJobs
<1>8. RecoveryInv' /\ KeysUnique'
  BY <1>2 DEF IInv, RecoveryInv, KeysUnique
<1>9. HolderIsLatest'
  BY <1>1, <1>2, <1>3 DEF IInv, HolderIsLatest, Leased
<1> QED
  BY <1>5, <1>7, <1>8, <1>9 DEF IInv

LEMMA AssignIInv ==
    ASSUME IInv, NEW w \in Workers, assign(w)
    PROVE  IInv'
<1> DEFINE jobs == queue.jobs
           list == queue.unassigned
           id == Head(list)
           key == [id |-> id, epoch |-> queue.epoch, worker |-> w]
<1>1. /\ queue'.epoch = queue.epoch + 1
      /\ queue'.unassigned = Tail(list)
      /\ queue'.jobs = [jobs EXCEPT ![id] = [epoch |-> queue.epoch, assignee |-> w, spec |-> @.spec]]
      /\ queue' = [epoch |-> queue'.epoch, jobs |-> queue'.jobs, unassigned |-> queue'.unassigned]
  BY DEF IInv, TypeOK, assign, Assign, Assigned
<1>2. recovering' = FALSE /\ held' = held \cup {key} /\ completed' = completed /\ list # <<>>
  BY DEF assign, CanAssign, Assigned
<1>3. /\ list \in Seq(JobIDs)
      /\ Len(list) \in Nat \ {0}
      /\ DOMAIN list = 1..Len(list)
      /\ id = list[1]
      /\ id \in DOMAIN jobs
      /\ id \in JobIDs
      /\ queue.epoch \in Nat
      /\ jobs \in [DOMAIN jobs -> Job]
  <2>1. list \in Seq(JobIDs) /\ Len(list) \in Nat \ {0} /\ DOMAIN list = 1..Len(list) /\ id = list[1]
    BY <1>2 DEF IInv, TypeOK
  <2> QED
    BY <2>1 DEF IInv, TypeOK, ListMatchesJobs
<1>4. /\ queue'.unassigned \in Seq(JobIDs)
      /\ DOMAIN queue'.unassigned = 1..(Len(list) - 1)
      /\ \A i \in 1..(Len(list) - 1) : queue'.unassigned[i] = list[i + 1]
  BY <1>1, <1>2, <1>3
<1>5. /\ DOMAIN queue'.jobs = DOMAIN jobs
      /\ queue'.jobs \in [DOMAIN jobs -> Job]
      /\ queue'.jobs[id].epoch = queue.epoch
      /\ queue'.jobs[id].assignee = w
      /\ \A x \in DOMAIN jobs : x # id => queue'.jobs[x] = jobs[x]
  BY <1>1, <1>3 DEF Job
<1>6. TypeOK'
  <2>1. key \in Key
    BY <1>3 DEF Key
  <2>2. held' \subseteq Key /\ completed' \subseteq held'
    BY <1>2, <2>1 DEF IInv, TypeOK
  <2>3. queue' \in [epoch : Nat, jobs : [DOMAIN queue'.jobs -> Job], unassigned : Seq(JobIDs)]
    <3>1. queue'.epoch \in Nat /\ queue'.unassigned \in Seq(JobIDs) /\ queue'.jobs \in [DOMAIN queue'.jobs -> Job]
      BY <1>1, <1>3, <1>4, <1>5
    <3> QED
      BY <1>1, <3>1
  <2> QED
    BY <1>2, <1>5, <2>2, <2>3, Zenon DEF IInv, TypeOK
<1>7. ListMatchesJobs'
  <2>1. ASSUME NEW i \in DOMAIN queue'.unassigned
        PROVE  /\ queue'.unassigned[i] \in DOMAIN queue'.jobs
               /\ queue'.jobs[queue'.unassigned[i]].assignee = NoWorker
               /\ \A j \in DOMAIN queue'.unassigned :
                    queue'.unassigned[i] = queue'.unassigned[j] => i = j
    <3>1. i + 1 \in 2..Len(list) /\ queue'.unassigned[i] = list[i + 1]
      BY <1>3, <1>4, SMTT(30)
    <3>2. /\ list[i + 1] \in DOMAIN jobs
          /\ jobs[list[i + 1]].assignee = NoWorker
          /\ \A j \in DOMAIN list : list[i + 1] = list[j] => i + 1 = j
      BY <1>3, <3>1 DEF IInv, ListMatchesJobs
    <3>3. list[i + 1] # id
      BY <1>3, <3>1, <3>2
    <3>4. \A j \in DOMAIN queue'.unassigned : queue'.unassigned[j] = list[j + 1] /\ j + 1 \in DOMAIN list
      BY <1>3, <1>4
    <3> QED
      BY <1>4, <1>5, <3>1, <3>2, <3>3, <3>4
  <2>2. ASSUME NEW x \in DOMAIN queue'.jobs, queue'.jobs[x].assignee = NoWorker
        PROVE  \E i \in DOMAIN queue'.unassigned : queue'.unassigned[i] = x
    <3>1. x # id /\ jobs[x].assignee = NoWorker
      BY <1>5, <2>2, ConstantsOK
    <3>2. PICK i \in DOMAIN list : list[i] = x
      BY <1>5, <2>2, <3>1 DEF IInv, ListMatchesJobs
    <3>3. i - 1 \in 1..(Len(list) - 1)
      BY <1>3, <3>1, <3>2
    <3> QED
      BY <1>3, <1>4, <3>2, <3>3
  <2> QED
    BY <2>1, <2>2 DEF ListMatchesJobs
<1>8. RecoveryInv'
  BY <1>2 DEF RecoveryInv
<1>9. \A k \in held : k.epoch < queue.epoch /\ k.epoch \in Nat
  BY DEF IInv, TypeOK, Key, HolderIsLatest
<1>10. KeysUnique'
  BY <1>2, <1>3, <1>9 DEF IInv, KeysUnique
<1>11. HolderIsLatest'
  <2>1. \A k \in held' : k.epoch < queue'.epoch
    BY <1>1, <1>2, <1>3, <1>9
  <2>2. ASSUME NEW x \in Leased(queue')
        PROVE  /\ [id |-> x, epoch |-> queue'.jobs[x].epoch, worker |-> queue'.jobs[x].assignee] \in held'
               /\ \A k \in held' : k.id = x => k.epoch <= queue'.jobs[x].epoch
    <3>1. CASE x = id
      BY <1>2, <1>3, <1>5, <1>9, <3>1
    <3>2. CASE x # id
      BY <1>2, <1>3, <1>5, <3>2 DEF IInv, HolderIsLatest, Leased
    <3> QED
      BY <3>1, <3>2
  <2> QED
    BY <2>1, <2>2 DEF HolderIsLatest
<1> QED
  BY <1>6, <1>7, <1>8, <1>10, <1>11 DEF IInv

LEMMA CompleteIInv ==
    ASSUME IInv, NEW k \in held, completeJob(k)
    PROVE  IInv'
<1> DEFINE jobs == queue.jobs
<1>1. /\ queue'.epoch = queue.epoch
      /\ queue'.unassigned = queue.unassigned
      /\ queue'.jobs = Drop(jobs, k.id)
      /\ queue' = [epoch |-> queue'.epoch, jobs |-> queue'.jobs, unassigned |-> queue'.unassigned]
  BY DEF IInv, TypeOK, completeJob, CompleteJob
<1>2. /\ recovering' = FALSE /\ held' = held /\ completed' = completed \cup {k}
      /\ k.id \in DOMAIN jobs /\ jobs[k.id].assignee = k.worker /\ k \in Key
  BY DEF completeJob, HeldBy, IInv, TypeOK
<1>3. /\ DOMAIN queue'.jobs = DOMAIN jobs \ {k.id}
      /\ \A x \in DOMAIN jobs \ {k.id} : queue'.jobs[x] = jobs[x]
      /\ jobs[k.id].assignee # NoWorker
  BY <1>1, <1>2, ConstantsOK DEF Drop, Key
<1>4. TypeOK'
  <2>1. queue'.jobs \in [DOMAIN queue'.jobs -> Job]
    BY <1>1, <1>3 DEF IInv, TypeOK, Drop
  <2> QED
    BY <1>1, <1>2, <1>3, <2>1, Zenon DEF IInv, TypeOK
<1>5. ListMatchesJobs'
  BY <1>1, <1>3 DEF IInv, ListMatchesJobs
<1>6. RecoveryInv' /\ KeysUnique'
  BY <1>2 DEF IInv, RecoveryInv, KeysUnique
<1>7. HolderIsLatest'
  BY <1>1, <1>2, <1>3 DEF IInv, HolderIsLatest, Leased
<1> QED
  BY <1>4, <1>5, <1>6, <1>7 DEF IInv

LEMMA ClearExpiredIInv ==
    ASSUME IInv, NEW expired \in ExpiryOrders(queue), clearExpiredLeases(expired)
    PROVE  IInv'
<1> DEFINE jobs == queue.jobs
           list == queue.unassigned
           gone == {expired[i] : i \in DOMAIN expired}
<1>1. PICK n \in 1..Cardinality(Leased(queue)) :
         /\ expired \in [1..n -> Leased(queue)]
         /\ \A i, j \in 1..n : expired[i] = expired[j] => i = j
  BY DEF ExpiryOrders
<1>2. /\ queue'.epoch = queue.epoch
      /\ queue'.unassigned = expired \o list
      /\ queue'.jobs = [id \in DOMAIN jobs |->
                          IF \E i \in DOMAIN expired : expired[i] = id
                          THEN [jobs[id] EXCEPT !.assignee = NoWorker] ELSE jobs[id]]
      /\ queue' = [epoch |-> queue'.epoch, jobs |-> queue'.jobs, unassigned |-> queue'.unassigned]
  BY Zenon DEF IInv, TypeOK, clearExpiredLeases, ClearExpiredLeases
<1>3. recovering' = FALSE /\ held' = held /\ completed' = completed
  BY DEF clearExpiredLeases
<1>4. /\ DOMAIN queue'.jobs = DOMAIN jobs
      /\ queue'.jobs \in [DOMAIN jobs -> Job]
      /\ \A x \in gone : x \in DOMAIN jobs /\ jobs[x].assignee # NoWorker /\ queue'.jobs[x].assignee = NoWorker
      /\ \A x \in DOMAIN jobs \ gone : queue'.jobs[x] = jobs[x]
  <2>1. gone \subseteq Leased(queue)
    BY <1>1
  <2>2. \A id \in DOMAIN jobs : (\E i \in DOMAIN expired : expired[i] = id) <=> id \in gone
    OBVIOUS
  <2>3. jobs \in [DOMAIN jobs -> Job]
    BY DEF IInv, TypeOK
  <2> HIDE DEF gone
  <2>4. queue'.jobs = [id \in DOMAIN jobs |->
                         IF id \in gone THEN [jobs[id] EXCEPT !.assignee = NoWorker] ELSE jobs[id]]
    BY <1>2, <2>2
  <2>5. \A x \in DOMAIN jobs :
          /\ [jobs[x] EXCEPT !.assignee = NoWorker] \in Job
          /\ [jobs[x] EXCEPT !.assignee = NoWorker].assignee = NoWorker
    BY <2>3 DEF Job
  <2>6. queue'.jobs \in [DOMAIN jobs -> Job]
    BY <2>3, <2>4, <2>5, Zenon
  <2> QED
    BY <2>1, <2>4, <2>5, <2>6 DEF Leased
<1>5. /\ n \in Nat
      /\ DOMAIN expired = 1..n
      /\ expired \in Seq(JobIDs)
      /\ Len(expired) = n
  <2>1. n \in Nat /\ Leased(queue) \subseteq JobIDs
    BY <1>1 DEF IInv, TypeOK, Leased
  <2> QED
    BY <1>1, <2>1
<1>6. /\ list \in Seq(JobIDs)
      /\ Len(list) \in Nat
      /\ DOMAIN list = 1..Len(list)
      /\ queue'.unassigned \in Seq(JobIDs)
      /\ DOMAIN queue'.unassigned = 1..(n + Len(list))
      /\ \A i \in 1..(n + Len(list)) :
           queue'.unassigned[i] = IF i <= n THEN expired[i] ELSE list[i - n]
  BY <1>2, <1>5 DEF IInv, TypeOK
<1>7. TypeOK'
  BY <1>2, <1>3, <1>4, <1>6, Zenon DEF IInv, TypeOK
<1>8. ListMatchesJobs'
  <2>1. \A x : x \in gone <=> \E i \in 1..n : expired[i] = x
    BY <1>5
  <2> HIDE DEF gone
  <2>2. \A i \in 1..Len(list) :
          /\ list[i] \in DOMAIN jobs \ gone
          /\ jobs[list[i]].assignee = NoWorker
          /\ \A j \in 1..Len(list) : list[i] = list[j] => i = j
    BY <1>4, <1>6, Zenon DEF IInv, ListMatchesJobs
  <2>3. \A i \in 1..(n + Len(list)) : i > n => i - n \in 1..Len(list)
    BY <1>5, <1>6
  <2>4. ASSUME NEW i \in DOMAIN queue'.unassigned
        PROVE  /\ queue'.unassigned[i] \in DOMAIN queue'.jobs
               /\ queue'.jobs[queue'.unassigned[i]].assignee = NoWorker
    <3>0. i \in 1..(n + Len(list)) /\ i \in Nat /\ n \in Nat
      BY <1>5, <1>6
    <3>1. CASE i <= n
      <4>1. queue'.unassigned[i] = expired[i] /\ expired[i] \in gone
        BY <1>6, <2>1, <3>1, <3>0
      <4> QED
        BY <1>4, <4>1
    <3>2. CASE ~(i <= n)
      <4>1. queue'.unassigned[i] = list[i - n] /\ i - n \in 1..Len(list)
        BY <1>6, <2>3, <3>2, <3>0
      <4> QED
        BY <1>4, <2>2, <4>1
    <3> QED
      BY <3>1, <3>2, <3>0
  <2>5. ASSUME NEW i \in DOMAIN queue'.unassigned, NEW j \in DOMAIN queue'.unassigned,
               queue'.unassigned[i] = queue'.unassigned[j]
        PROVE  i = j
    <3>0. i \in 1..(n + Len(list)) /\ i \in Nat /\ j \in 1..(n + Len(list)) /\ j \in Nat /\ n \in Nat
      BY <1>5, <1>6
    <3>1. CASE i <= n /\ j <= n
      BY <1>1, <1>5, <1>6, <2>5, <3>1, <3>0
    <3>2. CASE ~(i <= n) /\ ~(j <= n)
      <4>a. queue'.unassigned[i] = list[i - n] /\ queue'.unassigned[j] = list[j - n]
        BY <1>6, <3>2, <3>0, Zenon
      <4>b. i - n \in 1..Len(list) /\ j - n \in 1..Len(list)
        BY <2>3, <3>2, <3>0
      <4>1. list[i - n] = list[j - n] /\ i - n \in 1..Len(list) /\ j - n \in 1..Len(list)
        BY <2>5, <4>a, <4>b, Zenon
      <4>2. i - n = j - n
        BY <2>2, <4>1
      <4> QED
        BY <1>5, <1>6, <4>2, <3>0
    <3>3. CASE i <= n /\ ~(j <= n)
      <4>1. expired[i] \in gone /\ list[j - n] \notin gone
        BY <2>1, <2>2, <2>3, <3>3, <3>0
      <4> QED
        BY <1>6, <2>5, <3>3, <4>1, <3>0
    <3>4. CASE ~(i <= n) /\ j <= n
      <4>1. expired[j] \in gone /\ list[i - n] \notin gone
        BY <2>1, <2>2, <2>3, <3>4, <3>0
      <4> QED
        BY <1>6, <2>5, <3>4, <4>1, <3>0
    <3> QED
      BY <3>1, <3>2, <3>3, <3>4, <3>0
  <2>6. ASSUME NEW x \in DOMAIN queue'.jobs, queue'.jobs[x].assignee = NoWorker
        PROVE  \E i \in DOMAIN queue'.unassigned : queue'.unassigned[i] = x
    <3>1. CASE x \in gone
      <4>1. PICK i \in 1..n : expired[i] = x
        BY <2>1, <3>1
      <4>2. i \in DOMAIN queue'.unassigned /\ queue'.unassigned[i] = x
        BY <1>5, <1>6, <4>1
      <4> QED
        BY <4>2
    <3>2. CASE x \notin gone
      <4>1. PICK i \in DOMAIN list : list[i] = x
        BY <1>4, <2>6, <3>2 DEF IInv, ListMatchesJobs
      <4>2. n + i \in DOMAIN queue'.unassigned /\ queue'.unassigned[n + i] = x
        BY <1>5, <1>6, <4>1, SMTT(30)
      <4> QED
        BY <4>2
    <3> QED
      BY <3>1, <3>2
  <2> QED
    BY <2>4, <2>5, <2>6 DEF ListMatchesJobs
<1>9. RecoveryInv' /\ KeysUnique'
  BY <1>3 DEF IInv, RecoveryInv, KeysUnique
<1>10. HolderIsLatest'
  BY <1>2, <1>3, <1>4 DEF IInv, HolderIsLatest, Leased
<1> QED
  BY <1>7, <1>8, <1>9, <1>10 DEF IInv

\* What removing the first occurrence of e does to a list that holds e once.
LEMMA RemoveFromProperties ==
    ASSUME NEW S, NEW s \in Seq(S), NEW m \in DOMAIN s,
           \A i, j \in DOMAIN s : s[i] = s[j] => i = j
    PROVE  /\ RemoveFrom(s, s[m]) \in Seq(S)
           /\ DOMAIN RemoveFrom(s, s[m]) = 1..(Len(s) - 1)
           /\ \A n \in 1..(Len(s) - 1) : RemoveFrom(s, s[m])[n] = IF n < m THEN s[n] ELSE s[n + 1]
<1> DEFINE first == CHOOSE i \in DOMAIN s : s[i] = s[m] /\ \A j \in 1..(i - 1) : s[j] # s[m]
<1>1. DOMAIN s = 1..Len(s) /\ Len(s) \in Nat
  OBVIOUS
<1>2. s[m] = s[m] /\ \A j \in 1..(m - 1) : s[j] # s[m]
  BY <1>1
<1>3. first = m
  BY <1>2
<1>4. RemoveFrom(s, s[m]) = [n \in 1..(Len(s) - 1) |-> IF n < m THEN s[n] ELSE s[n + 1]]
  BY <1>3 DEF RemoveFrom
<1>5. \A n \in 1..(Len(s) - 1) : s[n] \in S /\ s[n + 1] \in S
  BY <1>1
<1>6. Len(s) - 1 \in Nat
  BY <1>1
<1> QED
  BY <1>4, <1>5, <1>6

LEMMA RemoveIInv ==
    ASSUME IInv, NEW id \in DOMAIN queue.jobs, removeJob(id)
    PROVE  IInv'
<1> DEFINE jobs == queue.jobs
           list == queue.unassigned
           list2 == queue'.unassigned
<1>1. /\ queue'.epoch = queue.epoch
      /\ list2 = IF jobs[id].assignee = NoWorker THEN RemoveFrom(list, id) ELSE list
      /\ queue'.jobs = Drop(jobs, id)
      /\ queue' = [epoch |-> queue'.epoch, jobs |-> queue'.jobs, unassigned |-> list2]
  BY Zenon DEF IInv, TypeOK, removeJob, RemoveJob
<1>2. recovering' = FALSE /\ held' = held /\ completed' = completed
  BY DEF removeJob
<1>3. /\ DOMAIN queue'.jobs = DOMAIN jobs \ {id}
      /\ \A x \in DOMAIN jobs \ {id} : queue'.jobs[x] = jobs[x]
  BY <1>1 DEF Drop
<1>4. queue'.jobs \in [DOMAIN queue'.jobs -> Job]
  BY <1>1, <1>3 DEF IInv, TypeOK, Drop
<1>5. list \in Seq(JobIDs) /\ DOMAIN list = 1..Len(list) /\ Len(list) \in Nat
  BY DEF IInv, TypeOK
<1>6. \A i, j \in DOMAIN list : list[i] = list[j] => i = j
  BY DEF IInv, ListMatchesJobs
<1>7. \A i \in DOMAIN list : list[i] \in DOMAIN jobs /\ jobs[list[i]].assignee = NoWorker
  BY DEF IInv, ListMatchesJobs
<1>8. list2 \in Seq(JobIDs) /\ ListMatchesJobs'
  <2>1. CASE jobs[id].assignee # NoWorker
    <3>1. list2 = list
      BY <1>1, <2>1
    <3> QED
      BY <1>3, <1>5, <2>1, <3>1 DEF IInv, ListMatchesJobs
  <2>2. CASE jobs[id].assignee = NoWorker
    <3>1. PICK m \in DOMAIN list : list[m] = id
      BY <2>2 DEF IInv, ListMatchesJobs
    <3>2. /\ list2 \in Seq(JobIDs)
          /\ DOMAIN list2 = 1..(Len(list) - 1)
          /\ \A n \in 1..(Len(list) - 1) : list2[n] = IF n < m THEN list[n] ELSE list[n + 1]
      <4>1. list2 = RemoveFrom(list, list[m])
        BY <1>1, <2>2, <3>1
      <4>2. /\ RemoveFrom(list, list[m]) \in Seq(JobIDs)
            /\ DOMAIN RemoveFrom(list, list[m]) = 1..(Len(list) - 1)
            /\ \A n \in 1..(Len(list) - 1) :
                 RemoveFrom(list, list[m])[n] = IF n < m THEN list[n] ELSE list[n + 1]
        <5> HIDE DEF list
        <5> QED
          BY <1>5, <1>6, RemoveFromProperties
      <4> QED
        BY <4>1, <4>2
    <3> DEFINE at(n) == IF n < m THEN n ELSE n + 1
    <3>3. \A n \in DOMAIN list2 : /\ at(n) \in DOMAIN list
                                  /\ at(n) # m
                                  /\ list2[n] = list[at(n)]
      BY <1>5, <3>1, <3>2, SMTT(30)
    <3>4. \A i, j \in DOMAIN list2 : at(i) = at(j) => i = j
      BY <1>5, <3>1, <3>2
    <3>5. \A x \in DOMAIN list : x # m => \E n \in DOMAIN list2 : at(n) = x
      <4> SUFFICES ASSUME NEW x \in DOMAIN list, x # m
                   PROVE  \E n \in DOMAIN list2 : at(n) = x
        OBVIOUS
      <4>1. CASE x < m
        BY <1>5, <3>1, <3>2, <4>1
      <4>2. CASE x > m
        <5>1. x - 1 \in DOMAIN list2 /\ at(x - 1) = x
          BY <1>5, <3>1, <3>2, <4>2
        <5> QED
          BY <5>1
      <4> QED
        BY <1>5, <3>1, <4>1, <4>2
    <3> HIDE DEF at
    <3>6. ASSUME NEW i \in DOMAIN list2
          PROVE  /\ list2[i] \in DOMAIN queue'.jobs
                 /\ queue'.jobs[list2[i]].assignee = NoWorker
                 /\ \A j \in DOMAIN list2 : list2[i] = list2[j] => i = j
      <4>1. list2[i] # id
        BY <1>6, <3>1, <3>3
      <4>2. list2[i] \in DOMAIN jobs /\ jobs[list2[i]].assignee = NoWorker
        BY <1>7, <3>3
      <4>3. \A j \in DOMAIN list2 : list2[i] = list2[j] => i = j
        BY <1>6, <3>3, <3>4
      <4> QED
        BY <1>3, <4>1, <4>2, <4>3
    <3>7. ASSUME NEW x \in DOMAIN queue'.jobs, queue'.jobs[x].assignee = NoWorker
          PROVE  \E i \in DOMAIN list2 : list2[i] = x
      <4>1. PICK p \in DOMAIN list : list[p] = x
        BY <1>3, <3>7 DEF IInv, ListMatchesJobs
      <4>2. p # m
        BY <1>3, <3>1, <3>7, <4>1
      <4> QED
        BY <3>3, <3>5, <4>1, <4>2
    <3> QED
      BY <3>2, <3>6, <3>7 DEF ListMatchesJobs
  <2> QED
    BY <2>1, <2>2
<1>9. TypeOK'
  BY <1>1, <1>2, <1>3, <1>4, <1>8, Zenon DEF IInv, TypeOK
<1>10. RecoveryInv' /\ KeysUnique'
  BY <1>2 DEF IInv, RecoveryInv, KeysUnique
<1>11. HolderIsLatest'
  BY <1>1, <1>2, <1>3 DEF IInv, HolderIsLatest, Leased
<1> QED
  BY <1>8, <1>9, <1>10, <1>11 DEF IInv

-------------------------------------------------------------------------------
LEMMA NextIInv == IInv /\ [Next]_vars => IInv'
<1> SUFFICES ASSUME IInv, [Next]_vars PROVE IInv'
  OBVIOUS
<1>1. ASSUME NEW id \in JobIDs, NEW e \in 1..MaxEpoch, NEW w \in Workers, NEW spec \in Specs,
             importJob([id |-> id, epoch |-> e, worker |-> w], spec)
      PROVE  IInv'
  <2>1. [id |-> id, epoch |-> e, worker |-> w] \in Key
    BY DEF Key
  <2> QED
    BY <1>1, <2>1, ImportIInv
<1>2. ASSUME NEW e \in 1..MaxEpoch, setEpoch(e) PROVE IInv'
  BY <1>2, SetEpochIInv
<1>3. ASSUME NEW id \in JobIDs, NEW spec \in Specs, add(id, spec) PROVE IInv'
  BY <1>3, AddIInv
<1>4. ASSUME NEW w \in Workers, assign(w) PROVE IInv'
  BY <1>4, AssignIInv
<1>5. ASSUME NEW k \in held, completeJob(k) PROVE IInv'
  BY <1>5, CompleteIInv
<1>6. ASSUME NEW expired \in ExpiryOrders(queue), clearExpiredLeases(expired) PROVE IInv'
  BY <1>6, ClearExpiredIInv
<1>7. ASSUME NEW id \in DOMAIN queue.jobs, removeJob(id) PROVE IInv'
  BY <1>7, RemoveIInv
<1>8. CASE UNCHANGED vars
  BY <1>8 DEF vars, IInv, TypeOK, ListMatchesJobs, RecoveryInv, KeysUnique, HolderIsLatest, Leased
<1> QED
  BY <1>1, <1>2, <1>3, <1>4, <1>5, <1>6, <1>7, <1>8, Zenon DEF Next

\* The type invariant of the queue, for any jobs, workers and epochs.
THEOREM QueueTypeCorrect == Spec => []TypeOK
<1>1. IInv => TypeOK
  BY DEF IInv
<1> QED
  BY <1>1, InitIInv, NextIInv, PTL DEF Spec

\* The unassigned list and the job map never disagree (assign, completeJob,
\* clearExpiredLeases, removeJob).
THEOREM QueueListMatches == Spec => []ListMatchesJobs
<1>1. IInv => ListMatchesJobs
  BY DEF IInv
<1> QED
  BY <1>1, InitIInv, NextIInv, PTL DEF Spec

\* An assignment key names one worker, and the leased key is the latest one.
THEOREM QueueKeysUnique == Spec => [](KeysUnique /\ HolderIsLatest)
<1>1. IInv => KeysUnique /\ HolderIsLatest
  BY DEF IInv
<1> QED
  BY <1>1, InitIInv, NextIInv, PTL DEF Spec

\* completeJob accepts a completion only from the latest holder of the job.
THEOREM QueueStaleKeys == Spec => StaleKeyNeverCompletes
<1> DEFINE Step == \A k \in completed' \ completed : \A l \in held : l.id = k.id => l.epoch <= k.epoch
<1>1. IInv /\ [Next]_vars => [Step]_vars
  <2> SUFFICES ASSUME IInv, Next, NEW k \in completed' \ completed, NEW l \in held, l.id = k.id
               PROVE  l.epoch <= k.epoch
    OBVIOUS
  <2>1. k \in held /\ completeJob(k)
    BY ZenonT(60) DEF Next, importJob, setEpoch, add, assign, completeJob, clearExpiredLeases, removeJob
  <2>2. k.id \in Leased(queue) /\ queue.jobs[k.id].epoch = k.epoch
    BY <2>1, ConstantsOK DEF completeJob, HeldBy, Leased, IInv, TypeOK, Key
  <2> QED
    BY <2>2, Zenon DEF IInv, HolderIsLatest
<1> QED
  BY <1>1, InitIInv, NextIInv, PTL DEF Spec, StaleKeyNeverCompletes
===============================================================================
