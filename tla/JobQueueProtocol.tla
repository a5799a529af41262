--------------------------- MODULE JobQueueProtocol ---------------------------
(***************************************************************************)
(* The job queue under every order of calls the scheduler can make: claims *)
(* are imported while it recovers, then setEpoch ends the recovery and     *)
(* jobs are added, assigned, expired, removed and completed.  Workers keep *)
(* the keys they were given for as long as they like and may present any   *)
(* of them again.                                                          *)
(***************************************************************************)
EXTENDS JobQueue

CONSTANTS JobIDs, Workers, Specs,
          MaxEpoch      \* bound on the epoch counter

ASSUME ConstantsOK == NoWorker \notin Workers /\ MaxEpoch \in Nat

VARIABLES queue,        \* the jobQueue
          recovering,   \* finalizeObservations has not called setEpoch yet
          held,         \* keys handed to workers: [id, epoch, worker]
          completed     \* keys whose completion the queue accepted

vars == <<queue, recovering, held, completed>>

Job == [epoch : Nat, assignee : Workers \cup {NoWorker}, spec : Specs]
Key == [id : JobIDs, epoch : Nat, worker : Workers]

TypeOK ==
    /\ queue \in [epoch : Nat, jobs : [DOMAIN queue.jobs -> Job], unassigned : Seq(JobIDs)]
    /\ DOMAIN queue.jobs \subseteq JobIDs
    /\ recovering \in BOOLEAN
    /\ held \subseteq Key
    /\ completed \subseteq held

Init ==
    /\ queue = EmptyQueue
    /\ recovering = TRUE
    /\ held = {}
    /\ completed = {}

-------------------------------------------------------------------------------
\* A claim observed at startup; a refused one still moves the epoch.
importJob(k, spec) ==
    /\ recovering
    /\ k.epoch < MaxEpoch
    /\ queue' = ImportJob(queue, k.id, k.epoch, k.worker, spec)
    /\ held' = IF ImportRefused(queue, k.id, k.epoch, k.worker) THEN held ELSE held \cup {k}
    /\ UNCHANGED <<recovering, completed>>

\* finalizeObservations ends with setEpoch(maxEpoch + 1), where maxEpoch also
\* counts claims that were not imported.
setEpoch(e) ==
    /\ recovering
    /\ e > 0 /\ e >= queue.epoch
    /\ queue' = SetEpoch(queue, e)
    /\ recovering' = FALSE
    /\ UNCHANGED <<held, completed>>

add(id, spec) ==
    /\ ~recovering
    /\ CanAdd(queue, id, TRUE)
    /\ queue' = Add(queue, id, spec)
    /\ UNCHANGED <<recovering, held, completed>>

assign(w) ==
    /\ ~recovering
    /\ CanAssign(queue)
    /\ queue.epoch < MaxEpoch
    /\ queue' = Assign(queue, w)
    /\ held' = held \cup {[id |-> Assigned(queue), epoch |-> queue.epoch, worker |-> w]}
    /\ UNCHANGED <<recovering, completed>>

completeJob(k) ==
    /\ ~recovering
    /\ HeldBy(queue, k.id, k.epoch, k.worker)
    /\ queue' = CompleteJob(queue, k.id)
    /\ completed' = completed \cup {k}
    /\ UNCHANGED <<recovering, held>>

clearExpiredLeases(expired) ==
    /\ ~recovering
    /\ queue' = ClearExpiredLeases(queue, expired)
    /\ UNCHANGED <<recovering, held, completed>>

removeJob(id) ==
    /\ ~recovering
    /\ queue' = RemoveJob(queue, id)
    /\ UNCHANGED <<recovering, held, completed>>

Next ==
    \/ \E id \in JobIDs, e \in 1..MaxEpoch, w \in Workers, spec \in Specs :
         importJob([id |-> id, epoch |-> e, worker |-> w], spec)
    \/ \E e \in 1..MaxEpoch : setEpoch(e)
    \/ \E id \in JobIDs, spec \in Specs : add(id, spec)
    \/ \E w \in Workers : assign(w)
    \/ \E k \in held : completeJob(k)
    \/ \E expired \in ExpiryOrders(queue) : clearExpiredLeases(expired)
    \/ \E id \in DOMAIN queue.jobs : removeJob(id)

Spec == Init /\ [][Next]_vars
-------------------------------------------------------------------------------
\* The unassigned list and the job map agree: the list holds every job without
\* an assignee exactly once and nothing else.  assign dereferences the front of
\* the list, completeJob and removeJob delete from the map, and only the
\* assignee says whether the list must be touched (jobs.go:66, 222, 269).
ListMatchesJobs ==
    /\ \A i \in DOMAIN queue.unassigned :
         /\ queue.unassigned[i] \in DOMAIN queue.jobs
         /\ queue.jobs[queue.unassigned[i]].assignee = NoWorker
         /\ \A j \in DOMAIN queue.unassigned :
              queue.unassigned[i] = queue.unassigned[j] => i = j
    /\ \A id \in DOMAIN queue.jobs :
         queue.jobs[id].assignee = NoWorker =>
           \E i \in DOMAIN queue.unassigned : queue.unassigned[i] = id

\* "The assignment epoch. This is used to break ties when multiple workers have
\* knowledge of the same job" (jobs.go:323): one key never names two workers.
KeysUnique ==
    \A k, l \in held : k.id = l.id /\ k.epoch = l.epoch => k.worker = l.worker

\* An assigned job is always leased to the worker whose key has the highest
\* epoch of all keys ever given out for that job, and the epoch counter is
\* above every key, so the next assignment outranks all of them.
HolderIsLatest ==
    /\ \A k \in held : k.epoch < queue.epoch
    /\ \A id \in Leased(queue) :
         /\ [id |-> id, epoch |-> queue.jobs[id].epoch, worker |-> queue.jobs[id].assignee] \in held
         /\ \A k \in held : k.id = id => k.epoch <= queue.jobs[id].epoch

\* A worker that lost its lease cannot complete the job under the one who got
\* it next, however late its update arrives (completeJob, jobs.go:211-220).
StaleKeyNeverCompletes ==
    [][\A k \in completed' \ completed :
         \A l \in held : l.id = k.id => l.epoch <= k.epoch]_vars

===============================================================================
