------------------------------- MODULE JobQueue -------------------------------
(***************************************************************************)
(* The in-memory job queue of the block-builder-scheduler                  *)
(* (pkg/blockbuilder/scheduler/jobs.go).                                   *)
(*                                                                         *)
(* A queue is a record: the next assignment epoch, the map from job ID to  *)
(* job and the list of unassigned job IDs.  Each method of jobQueue is an  *)
(* operator from the old queue to the new one, together with a predicate   *)
(* that says when the method returns no error; every method runs under the *)
(* queue's own mutex, so it is one step.                                   *)
(*                                                                         *)
(* Left out: leaseExpiry (which leases have run out is an input of         *)
(* ClearExpiredLeases), failCount (only logged), metrics.                  *)
(***************************************************************************)
EXTENDS Naturals, Sequences, FiniteSets

CONSTANT NoWorker   \* the assignee "" of an unassigned job

\* newJobQueue: a job is [epoch, assignee, spec]; its key is <<ID, epoch>>.
EmptyQueue == [epoch |-> 0, jobs |-> [id \in {} |-> id], unassigned |-> <<>>]

Put(f, k, v) == [x \in DOMAIN f \cup {k} |-> IF x = k THEN v ELSE f[x]]
Drop(f, k) == [x \in DOMAIN f \ {k} |-> f[x]]

\* The sequence s without the first occurrence of e.
RemoveFrom(s, e) ==
    IF \E i \in DOMAIN s : s[i] = e
    THEN LET k == CHOOSE i \in DOMAIN s : s[i] = e /\ \A j \in 1..(i - 1) : s[j] # e
         IN  [n \in 1..(Len(s) - 1) |-> IF n < k THEN s[n] ELSE s[n + 1]]
    ELSE s

\* assign: the front of the unassigned list gets the next epoch.
CanAssign(q) == q.unassigned # <<>>
Assigned(q) == Head(q.unassigned)
\* Mutant: the epoch counter is not advanced.
AssignSameEpoch(q, w) ==
    [epoch |-> q.epoch,
     jobs |-> [q.jobs EXCEPT ![Assigned(q)] =
                [epoch |-> q.epoch, assignee |-> w, spec |-> @.spec]],
     unassigned |-> Tail(q.unassigned)]
Assign(q, w) ==
    [epoch |-> q.epoch + 1,
     jobs |-> [q.jobs EXCEPT ![Assigned(q)] =
                [epoch |-> q.epoch, assignee |-> w, spec |-> @.spec]],
     unassigned |-> Tail(q.unassigned)]

\* importJob: the epoch moves past the key's even when the job is refused.
ImportRefused(q, id, e, w) ==
    /\ id \in DOMAIN q.jobs
    /\ \/ e < q.jobs[id].epoch
       \/ e = q.jobs[id].epoch /\ q.jobs[id].assignee # w
ImportJob(q, id, e, w, spec) ==
    [q EXCEPT
       !.epoch = IF e + 1 > @ THEN e + 1 ELSE @,
       !.jobs = IF id \in DOMAIN @ /\ e <= @[id].epoch THEN @
                ELSE Put(@, id, [epoch |-> e, assignee |-> w, spec |-> spec])]

\* add: a new job is unassigned, at the back, with epoch 0; whether the
\* creation policy allows it is the caller's condition.
CanAdd(q, id, allowed) == id \notin DOMAIN q.jobs /\ allowed
Add(q, id, spec) ==
    [q EXCEPT !.jobs = Put(@, id, [epoch |-> 0, assignee |-> NoWorker, spec |-> spec]),
              !.unassigned = Append(@, id)]

\* Mutant: the epoch is not compared.
HeldByAnyEpoch(q, id, e, w) ==
    id \in DOMAIN q.jobs /\ q.jobs[id].assignee = w

\* renewLease and completeJob accept a key only from its current holder.
HeldBy(q, id, e, w) ==
    id \in DOMAIN q.jobs /\ q.jobs[id].epoch = e /\ q.jobs[id].assignee = w
CompleteJob(q, id) == [q EXCEPT !.jobs = Drop(@, id)]

\* clearExpiredLeases: the expired jobs, in the order the map iteration met
\* them, are pushed one by one to the front of the list.
Leased(q) == {id \in DOMAIN q.jobs : q.jobs[id].assignee # NoWorker}
ExpiryOrders(q) ==
    UNION {{s \in [1..n -> Leased(q)] : \A i, j \in 1..n : s[i] = s[j] => i = j}
           : n \in 1..Cardinality(Leased(q))}
\* Mutant: the assignee is cleared and the job not put on the list.
ClearExpiredLeasesNoPush(q, expired) ==
    [q EXCEPT !.jobs = [id \in DOMAIN @ |->
                          IF \E i \in DOMAIN expired : expired[i] = id
                          THEN [@[id] EXCEPT !.assignee = NoWorker] ELSE @[id]]]
ClearExpiredLeases(q, expired) ==
    [q EXCEPT !.jobs = [id \in DOMAIN @ |->
                          IF \E i \in DOMAIN expired : expired[i] = id
                          THEN [@[id] EXCEPT !.assignee = NoWorker] ELSE @[id]],
              !.unassigned = expired \o @]

\* Mutant: the list is left alone.
RemoveJobMapOnly(q, id) == [q EXCEPT !.jobs = Drop(@, id)]

\* removeJob: from the map, and from the list if the job is unassigned.
RemoveJob(q, id) ==
    [q EXCEPT !.jobs = Drop(@, id),
              !.unassigned = IF q.jobs[id].assignee = NoWorker
                             THEN RemoveFrom(@, id) ELSE @]

SetEpoch(q, e) == [q EXCEPT !.epoch = e]
===============================================================================
