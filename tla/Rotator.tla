-------------------------------- MODULE Rotator --------------------------------
(***************************************************************************)
(* The compactor-scheduler above its job trackers: the Rotator that shares *)
(* leases out among tenants (pkg/compactor/scheduler/rotator.go), the      *)
(* tenant discoverer (tenant_discovery.go) and the life of the process     *)
(* (scheduler.go).                                                         *)
(*                                                                         *)
(* A tracker is known here by how many of its jobs wait and are leased in  *)
(* each lane, which is all the rotator sees of it; JobTracker has the      *)
(* rest, and that a restart recovers both numbers.  A tracker operation    *)
(* runs under the read lock and the tracker's mutex: one step.  LeaseJob   *)
(* and Maintenance hold the read lock over several steps.  What an         *)
(* operation found out is applied later, under the write lock: one step,   *)
(* which waits for the readers.                                            *)
(***************************************************************************)
EXTENDS Naturals, Sequences, FiniteSets, SequencesExt

CONSTANTS
    Tenants,
    Calls,          \* requests being served at a time
    MaxJobs,        \* bound: compaction jobs of a tenant
    MaxEvents,      \* bound: jobs added, failures, tenants changed, restarts
    FreeReassign,   \* whether jobs given back are left out of that bound
    nil

VARIABLES
    phase,       \* of the process; running is (phase = "running")
    trackers,    \* tenants in tenantStateMap
    rot,         \* per lane, the rotation's list and cursor
    waiting,     \* per tenant and lane, jobs pending
    leased,      \* per tenant and lane, jobs active
    stored,      \* tenants that have a bucket in the database
    known,       \* knownTenants
    call,        \* per request, where it is
    maint,       \* the Maintenance pass
    disc,        \* the discoverTenants pass
    events

vars == <<phase, trackers, rot, waiting, leased, stored, known, call, maint, disc, events>>

Lanes == {"plan", "compaction"}
NoJobs == [l \in Lanes |-> 0]
Room(l) == IF l = "plan" THEN 1 ELSE MaxJobs

ASSUME RotatorConstants == nil \notin Tenants /\ MaxJobs \in Nat /\ MaxEvents \in Nat

Idle == [pc |-> "idle", tenant |-> nil, lanes |-> <<>>, elem |-> nil, left |-> 0,
         seen |-> {}, hints |-> <<>>, lost |-> FALSE]
Resting == [pc |-> "idle", todo |-> {}, hints |-> <<>>]

\* The read lock is held by a walk and by a Maintenance pass.
NoReaders == maint.pc # "scan" /\ \A c \in Calls : call[c].pc # "walk"

Spend == events < MaxEvents /\ events' = events + 1

----------------------------------------------------------------------------
(* A lane's rotation *)

\* Next: the element after t, or the front.
After(r, t) ==
    LET n == CHOOSE k \in DOMAIN r.list : r.list[k] = t
    IN  IF n = Len(r.list) THEN r.list[1] ELSE r.list[n + 1]

addToRotation(r, t) ==
    [list |-> Append(r.list, t), cursor |-> IF r.cursor = nil THEN t ELSE r.cursor]

advanceCursor(r) == [r EXCEPT !.cursor = After(r, @)]

\* Mutant: the cursor is not moved off the element.
removeUnderCursor(r, t) == [r EXCEPT !.list = Remove(@, t)]
removeFromRotation(r, t) ==
    LET moved == IF r.cursor = t THEN advanceCursor(r) ELSE r
    IN  [list |-> Remove(r.list, t), cursor |-> IF moved.cursor = t THEN nil ELSE moved.cursor]

\* The write-locked end of an operation: its hints, checked again.
\* Mutant: they are not.
ApplyHintUnchecked(rs, h) ==
    LET in == h.tenant \in ToSet(rs[h.lane].list)
    IN  CASE h.tenant \notin trackers -> rs
          [] h.tenant \in trackers /\ h.add /\ ~in -> [rs EXCEPT ![h.lane] = addToRotation(@, h.tenant)]
          [] h.tenant \in trackers /\ ~h.add /\ in ->
               [rs EXCEPT ![h.lane] = removeFromRotation(@, h.tenant)]
          [] OTHER -> rs
ApplyHint(rs, h) ==
    LET in == h.tenant \in ToSet(rs[h.lane].list)
        some == waiting[h.tenant][h.lane] > 0
    IN  CASE h.tenant \in trackers /\ h.add /\ ~in /\ some ->
               [rs EXCEPT ![h.lane] = addToRotation(@, h.tenant)]
          [] h.tenant \in trackers /\ ~h.add /\ in /\ ~some ->
               [rs EXCEPT ![h.lane] = removeFromRotation(@, h.tenant)]
          [] OTHER -> rs
ApplyHints(hints) == rot' = FoldLeft(ApplyHint, rot, hints)

\* A tenant enters the rotation of every lane it has work in, and leaves all.
Entered(rs, t) ==
    [l \in Lanes |-> IF waiting[t][l] > 0 THEN addToRotation(rs[l], t) ELSE rs[l]]
AddTenant(t) ==
    IF t \in trackers THEN UNCHANGED <<trackers, rot>>
    ELSE trackers' = trackers \cup {t} /\ rot' = Entered(rot, t)
EmptyRotation == [l \in Lanes |-> [list |-> <<>>, cursor |-> nil]]

----------------------------------------------------------------------------
(* LeaseJob *)

LaneRequests == {<<"plan">>, <<"compaction">>, <<"plan", "compaction">>, <<"compaction", "plan">>}

LeaseJob(c, lanes) ==
    /\ call[c] = Idle
    /\ call' = [call EXCEPT ![c] = [Idle EXCEPT !.pc = "walk", !.lanes = lanes]]
    /\ UNCHANGED <<phase, trackers, rot, waiting, leased, stored, known, maint, disc, events>>

\* The walk enters the next lane at its cursor, which moves on by one.
EnterLane(c) ==
    /\ call[c].pc = "walk" /\ call[c].left = 0
    /\ IF call[c].lanes = <<>>
       THEN call' = [call EXCEPT ![c] = Idle] /\ UNCHANGED rot
       ELSE LET l == Head(call[c].lanes)
                r == rot[l]
            IN  IF r.list = <<>>
                THEN call' = [call EXCEPT ![c].lanes = Tail(@)] /\ UNCHANGED rot
                ELSE /\ rot' = [rot EXCEPT ![l] = advanceCursor(r)]
                     /\ call' = [call EXCEPT ![c].elem = r.cursor, ![c].left = Len(r.list)]
    /\ UNCHANGED <<phase, trackers, waiting, leased, stored, known, maint, disc, events>>

\* The tenant is tried and has nothing.  Mutant: the walk goes on from the
\* shared cursor.
NextElemShared(c) ==
    LET l == Head(call[c].lanes)
    IN  /\ rot' = [rot EXCEPT ![l] = advanceCursor(@)]
        /\ call' = [call EXCEPT ![c] =
                      IF @.left = 1 THEN [Idle EXCEPT !.pc = "walk", !.lanes = Tail(call[c].lanes)]
                      ELSE [@ EXCEPT !.elem = rot[l].cursor, !.left = @ - 1,
                                     !.seen = @ \cup {call[c].elem}]]
NextElem(c) ==
    /\ call' = [call EXCEPT ![c] =
                  IF @.left = 1 THEN [Idle EXCEPT !.pc = "walk", !.lanes = Tail(call[c].lanes)]
                  ELSE [@ EXCEPT !.elem = After(rot[Head(call[c].lanes)], @), !.left = @ - 1,
                                 !.seen = @ \cup {call[c].elem}]]
    /\ UNCHANGED rot
TryTenant(c) ==
    /\ call[c].pc = "walk" /\ call[c].left > 0
    /\ waiting[call[c].elem][Head(call[c].lanes)] = 0
    /\ NextElem(c)
    /\ UNCHANGED <<phase, trackers, waiting, leased, stored, known, maint, disc, events>>

\* The tenant has a job; when it was the last, the tenant will leave the
\* rotation.
LeaseTenant(c) ==
    /\ call[c].pc = "walk" /\ call[c].left > 0
    /\ LET t == call[c].elem
           l == Head(call[c].lanes)
       IN  /\ waiting[t][l] > 0
           /\ waiting' = [waiting EXCEPT ![t][l] = @ - 1]
           /\ leased' = [leased EXCEPT ![t][l] = @ + 1]
           /\ call' = [call EXCEPT ![c] =
                         IF waiting[t][l] > 1 THEN Idle
                         ELSE [Idle EXCEPT !.pc = "hint",
                                           !.hints = <<[tenant |-> t, lane |-> l, add |-> FALSE]>>]]
    /\ UNCHANGED <<phase, trackers, rot, stored, known, maint, disc, events>>

\* The lease cannot be written, and the request fails.
LeaseFails(c) ==
    /\ call[c].pc = "walk" /\ call[c].left > 0
    /\ waiting[call[c].elem][Head(call[c].lanes)] > 0
    /\ Spend
    /\ call' = [call EXCEPT ![c] = Idle]
    /\ UNCHANGED <<phase, trackers, rot, waiting, leased, stored, known, maint, disc>>

----------------------------------------------------------------------------
(* Updates of a lease and results of planning *)

\* Mutant: the first check of running is left out.
UpdateUnchecked(c, t) ==
    /\ call[c] = Idle
    /\ call' = [call EXCEPT ![c] = [Idle EXCEPT !.pc = "update", !.tenant = t]]
    /\ UNCHANGED <<phase, trackers, rot, waiting, leased, stored, known, maint, disc, events>>
Update(c, t) ==
    /\ phase = "running"
    /\ call[c] = Idle
    /\ call' = [call EXCEPT ![c] = [Idle EXCEPT !.pc = "update", !.tenant = t]]
    /\ UNCHANGED <<phase, trackers, rot, waiting, leased, stored, known, maint, disc, events>>

\* Hints of an operation on tenant t: the lanes that came to have work or
\* ran out of it.  Mutant: only the ones that ran out.
TransitionsRemoveOnly(t, before, after) ==
    LET changed == {l \in Lanes : before[l] > 0 /\ after[l] = 0}
    IN  {[n \in DOMAIN s |-> [tenant |-> t, lane |-> s[n], add |-> FALSE]] : s \in SetToSeqs(changed)}
Transitions(t, before, after) ==
    LET changed == {l \in Lanes : (before[l] = 0) # (after[l] = 0)}
    IN  {[n \in DOMAIN s |-> [tenant |-> t, lane |-> s[n], add |-> after[s[n]] > 0]] :
           s \in SetToSeqs(changed)}

\* A found lease ends the request, after the hints if there are any.
Found(c, w, a) ==
    LET t == call[c].tenant
    IN  /\ waiting' = [waiting EXCEPT ![t] = w]
        /\ leased' = [leased EXCEPT ![t] = a]
        /\ \E hints \in Transitions(t, waiting[t], w) :
             call' = [call EXCEPT ![c] =
                        IF hints = <<>> THEN Idle ELSE [Idle EXCEPT !.pc = "hint", !.hints = hints]]
        /\ UNCHANGED <<phase, trackers, rot, stored, known, maint, disc>>

Serving(c) == call[c].pc = "update" /\ call[c].tenant \in trackers

RenewJobLease(c) ==
    /\ Serving(c)
    /\ \E l \in Lanes : leased[call[c].tenant][l] > 0
    /\ call' = [call EXCEPT ![c] = Idle]
    /\ UNCHANGED <<phase, trackers, rot, waiting, leased, stored, known, maint, disc, events>>

\* The job goes back to its lane, or is dropped at its lease limit.
\* Mutant: it stays in the list of active jobs as well.
CancelKeepsActive(c, l) ==
    /\ Serving(c)
    /\ leased[call[c].tenant][l] > 0
    /\ Found(c, [waiting[call[c].tenant] EXCEPT ![l] = @ + 1], leased[call[c].tenant])
    /\ Spend
CancelJobLease(c, l) ==
    /\ Serving(c)
    /\ LET t == call[c].tenant
       IN  /\ leased[t][l] > 0
           /\ \/ /\ Found(c, [waiting[t] EXCEPT ![l] = @ + 1], [leased[t] EXCEPT ![l] = @ - 1])
                 /\ IF FreeReassign THEN UNCHANGED events ELSE Spend
              \/ /\ l # "plan"
                 /\ Found(c, waiting[t], [leased[t] EXCEPT ![l] = @ - 1])
                 /\ UNCHANGED events

\* A leased job ends; so does one whose lease ran out, while it waits.
RemoveJob(c, l) ==
    /\ Serving(c)
    /\ LET t == call[c].tenant
       IN  \/ leased[t][l] > 0 /\ Found(c, waiting[t], [leased[t] EXCEPT ![l] = @ - 1])
           \/ waiting[t][l] > 0 /\ Found(c, [waiting[t] EXCEPT ![l] = @ - 1], leased[t])
    /\ UNCHANGED events

\* The plan job's result replaces the jobs that wait.
OfferCompactionJobs(c) ==
    /\ Serving(c)
    /\ LET t == call[c].tenant
       IN  /\ leased[t]["plan"] > 0
           /\ \E n \in 0..(MaxJobs - leased[t]["compaction"]) :
                /\ Found(c, [l \in Lanes |-> IF l = "plan" THEN 0 ELSE n],
                            [leased[t] EXCEPT !["plan"] = 0])
                /\ IF n > waiting[t]["compaction"] THEN Spend ELSE UNCHANGED events

\* The write fails, and the request with it.
UpdateFails(c) ==
    /\ Serving(c)
    /\ Spend
    /\ call' = [call EXCEPT ![c] = Idle]
    /\ UNCHANGED <<phase, trackers, rot, waiting, leased, stored, known, maint, disc>>

\* The lease, or the tenant, is not there.
NotFound(c) ==
    /\ call[c].pc = "update"
    /\ LET t == call[c].tenant
       IN  call' = [call EXCEPT ![c] = [Idle EXCEPT !.pc = "answer",
                      !.lost = t \in stored \ trackers /\ disc.tenant # t]]
    /\ UNCHANGED <<phase, trackers, rot, waiting, leased, stored, known, maint, disc, events>>

\* errLeaseNotFound when running, errNotRunning when not.
Answer(c) ==
    /\ call[c].pc = "answer"
    /\ call' = [call EXCEPT ![c] = Idle]
    /\ UNCHANGED <<phase, trackers, rot, waiting, leased, stored, known, maint, disc, events>>

\* The write-locked part of a request.
Hint(c) ==
    /\ call[c].pc = "hint"
    /\ NoReaders
    /\ ApplyHints(call[c].hints)
    /\ call' = [call EXCEPT ![c] = Idle]
    /\ UNCHANGED <<phase, trackers, waiting, leased, stored, known, maint, disc, events>>

----------------------------------------------------------------------------
(* Maintenance *)

StartMaintenance ==
    /\ phase \in {"recovered", "running"}
    /\ maint = Resting
    /\ maint' = [Resting EXCEPT !.pc = "scan", !.todo = trackers]
    /\ UNCHANGED <<phase, trackers, rot, waiting, leased, stored, known, call, disc, events>>

\* A tracker's leases that ran out are taken back or dropped, and a plan job
\* is added when there is none; or its write fails.
Maintenance(t) ==
    /\ maint.pc = "scan" /\ t \in maint.todo
    /\ \E revived, dropped \in 0..MaxJobs, plan \in {"none", "revived", "added"} :
         LET w == [waiting[t] EXCEPT !["plan"] = IF plan = "none" THEN @ ELSE 1,
                                     !["compaction"] = @ + revived]
             a == [leased[t] EXCEPT !["plan"] = IF plan = "revived" THEN 0 ELSE @,
                                    !["compaction"] = @ - revived - dropped]
         IN  /\ revived + dropped <= leased[t]["compaction"]
             /\ plan = "revived" => leased[t]["plan"] = 1
             /\ plan = "added" => leased[t]["plan"] = 0 /\ waiting[t]["plan"] = 0
             /\ waiting' = [waiting EXCEPT ![t] = w]
             /\ leased' = [leased EXCEPT ![t] = a]
             /\ IF w = waiting[t] THEN UNCHANGED events ELSE Spend
             /\ \E hints \in Transitions(t, waiting[t], w) :
                  maint' = [maint EXCEPT !.todo = @ \ {t}, !.hints = @ \o hints]
    /\ UNCHANGED <<phase, trackers, rot, stored, known, call, disc>>

\* The pass has seen every tracker.
EndScan ==
    /\ maint.pc = "scan" /\ maint.todo = {}
    /\ maint' = IF maint.hints = <<>> THEN Resting ELSE [maint EXCEPT !.pc = "hint"]
    /\ UNCHANGED <<phase, trackers, rot, waiting, leased, stored, known, call, disc, events>>

\* The service is being stopped: the pass gives up where it is.
CancelScan ==
    /\ maint.pc = "scan" /\ phase = "stopping"
    /\ maint' = Resting
    /\ UNCHANGED <<phase, trackers, rot, waiting, leased, stored, known, call, disc, events>>

MaintenanceHints ==
    /\ maint.pc = "hint"
    /\ NoReaders
    /\ ApplyHints(maint.hints)
    /\ maint' = Resting
    /\ UNCHANGED <<phase, trackers, waiting, leased, stored, known, call, disc, events>>

----------------------------------------------------------------------------
(* Tenant discovery *)

NotDiscovering == [pc |-> "idle", tenant |-> nil, todo |-> {}]

StartDiscovery ==
    /\ phase \in {"recovered", "running"}
    /\ disc.pc = "idle"
    /\ Spend
    /\ disc' = [pc |-> "loop", tenant |-> nil, todo |-> Tenants]
    /\ UNCHANGED <<phase, trackers, rot, waiting, leased, stored, known, call, maint>>

\* A tenant that is not known has blocks.
Discover(t) ==
    /\ disc.pc = "loop" /\ t \in disc.todo
    /\ t \notin known
    /\ NoReaders
    /\ stored' = stored \cup {t}
    /\ AddTenant(t)
    /\ known' = known \cup {t}
    /\ disc' = [disc EXCEPT !.todo = @ \ {t}]
    /\ UNCHANGED <<phase, waiting, leased, call, maint, events>>

\* A known tenant has no more blocks: it leaves the rotator, and then its
\* bucket is dropped.
RemoveTenant(t) ==
    /\ disc.pc = "loop" /\ t \in disc.todo
    /\ t \in known
    /\ NoReaders
    /\ IF t \in trackers
       THEN /\ trackers' = trackers \ {t}
            /\ rot' = [l \in Lanes |-> IF t \in ToSet(rot[l].list)
                                       THEN removeFromRotation(rot[l], t) ELSE rot[l]]
            /\ disc' = [pc |-> "drop", tenant |-> t, todo |-> disc.todo \ {t}]
       ELSE /\ disc' = [disc EXCEPT !.todo = @ \ {t}]
            /\ UNCHANGED <<trackers, rot>>
    /\ UNCHANGED <<phase, waiting, leased, stored, known, call, maint, events>>

Drop ==
    /\ disc.pc = "drop"
    /\ stored' = stored \ {disc.tenant}
    /\ known' = known \ {disc.tenant}
    /\ waiting' = [waiting EXCEPT ![disc.tenant] = NoJobs]
    /\ leased' = [leased EXCEPT ![disc.tenant] = NoJobs]
    /\ disc' = [disc EXCEPT !.pc = "loop", !.tenant = nil]
    /\ UNCHANGED <<phase, trackers, rot, call, maint, events>>

\* Mutant: the tenant is not put back.
DropFailsForgets ==
    /\ disc.pc = "drop"
    /\ disc' = [disc EXCEPT !.pc = "loop", !.tenant = nil]
    /\ UNCHANGED <<phase, trackers, rot, waiting, leased, stored, known, call, maint, events>>
DropFails ==
    /\ disc.pc = "drop"
    /\ NoReaders
    /\ AddTenant(disc.tenant)
    /\ disc' = [disc EXCEPT !.pc = "loop", !.tenant = nil]
    /\ UNCHANGED <<phase, waiting, leased, stored, known, call, maint, events>>

EndDiscovery ==
    /\ disc.pc = "loop"
    /\ disc' = NotDiscovering
    /\ UNCHANGED <<phase, trackers, rot, waiting, leased, stored, known, call, maint, events>>

----------------------------------------------------------------------------
(* The life of the process *)

\* The process starts, maybe after a crash of the last one, with nothing in
\* memory.
Memoryless ==
    /\ trackers' = {}
    /\ rot' = EmptyRotation
    /\ known' = {}
    /\ call' = [c \in Calls |-> Idle]
    /\ maint' = Resting
    /\ disc' = NotDiscovering

Restart ==
    /\ phase' = "starting"
    /\ IF phase = "closed" THEN UNCHANGED events ELSE Spend
    /\ Memoryless
    /\ UNCHANGED <<waiting, leased, stored>>

\* The trackers are recovered from the database, in any order.
RecoverFrom ==
    /\ phase = "starting"
    /\ NoReaders
    /\ \E s \in SetToSeqs(stored) : rot' = FoldLeft(Entered, rot, s)
    /\ trackers' = stored
    /\ known' = stored
    /\ phase' = "recovered"
    /\ UNCHANGED <<waiting, leased, stored, call, maint, disc, events>>

Run ==
    /\ phase = "recovered"
    /\ phase' = "running"
    /\ UNCHANGED <<trackers, rot, waiting, leased, stored, known, call, maint, disc, events>>

\* stop: running is cleared first.
Stop ==
    /\ phase = "running"
    /\ Spend
    /\ phase' = "stopping"
    /\ UNCHANGED <<trackers, rot, waiting, leased, stored, known, call, maint, disc>>

\* When Maintenance and discovery have stopped, the rotator is emptied.
\* Mutant: it is not.
KeepTenants ==
    /\ phase = "stopping"
    /\ maint = Resting /\ disc.pc = "idle"
    /\ phase' = "cleared"
    /\ UNCHANGED <<trackers, rot, waiting, leased, stored, known, call, maint, disc, events>>
PrepareForShutdown ==
    /\ phase = "stopping"
    /\ maint = Resting /\ disc.pc = "idle"
    /\ NoReaders
    /\ phase' = "cleared"
    /\ trackers' = {}
    /\ rot' = EmptyRotation
    /\ UNCHANGED <<waiting, leased, stored, known, call, maint, disc, events>>

Close ==
    /\ phase = "cleared"
    /\ phase' = "closed"
    /\ UNCHANGED <<trackers, rot, waiting, leased, stored, known, call, maint, disc, events>>

Init ==
    /\ phase = "starting"
    /\ trackers = {}
    /\ rot = EmptyRotation
    /\ stored \in SUBSET Tenants
    /\ waiting \in [Tenants -> [Lanes -> 0..MaxJobs]]
    /\ leased \in [Tenants -> [Lanes -> 0..MaxJobs]]
    /\ \A t \in Tenants, l \in Lanes :
         waiting[t][l] + leased[t][l] <= IF t \in stored THEN Room(l) ELSE 0
    /\ known = {}
    /\ call = [c \in Calls |-> Idle]
    /\ maint = Resting
    /\ disc = NotDiscovering
    /\ events = 0

Request(c) ==
    \/ \E lanes \in LaneRequests : LeaseJob(c, lanes)
    \/ \E t \in Tenants : Update(c, t)

Serve(c) ==
    \/ EnterLane(c) \/ TryTenant(c) \/ LeaseTenant(c) \/ LeaseFails(c)
    \/ RenewJobLease(c) \/ OfferCompactionJobs(c) \/ UpdateFails(c) \/ NotFound(c)
    \/ \E l \in Lanes : CancelJobLease(c, l) \/ RemoveJob(c, l)
    \/ Answer(c) \/ Hint(c)

MaintenancePass ==
    StartMaintenance \/ (\E t \in Tenants : Maintenance(t)) \/ EndScan \/ CancelScan \/ MaintenanceHints

Discovery ==
    \/ StartDiscovery \/ EndDiscovery \/ Drop \/ DropFails
    \/ \E t \in Tenants : Discover(t) \/ RemoveTenant(t)

Life == Restart \/ RecoverFrom \/ Run \/ Stop \/ PrepareForShutdown \/ Close

Next == (\E c \in Calls : Request(c) \/ Serve(c)) \/ MaintenancePass \/ Discovery \/ Life

Spec == Init /\ [][Next]_vars

\* Requests, passes and a stop or start of the process come to their end, and
\* workers keep asking for jobs of each lane.  Who waits for the write lock
\* gets it: Go's RWMutex holds new readers back.
Writer == RecoverFrom \/ PrepareForShutdown \/ MaintenanceHints
Fairness ==
    /\ \A c \in Calls : WF_vars(Serve(c)) /\ SF_vars(Hint(c))
    /\ \A l \in Lanes : SF_vars(\E c \in Calls : LeaseJob(c, <<l>>))
    /\ WF_vars(MaintenancePass)
    /\ WF_vars(EndDiscovery \/ Drop \/ DropFails)
    /\ SF_vars(Writer)
    /\ WF_vars(Run \/ Close \/ (phase = "closed" /\ Restart))
FairSpec == Spec /\ Fairness

----------------------------------------------------------------------------
(* What must hold *)

\* The variables have their types, and no lane has more jobs than there can be.
TypeOK ==
    /\ phase \in {"starting", "recovered", "running", "stopping", "cleared", "closed"}
    /\ trackers \subseteq Tenants /\ stored \subseteq Tenants /\ known \subseteq Tenants
    /\ \A l \in Lanes : rot[l].list \in Seq(Tenants) /\ rot[l].cursor \in Tenants \cup {nil}
    /\ \A t \in Tenants, l \in Lanes : /\ waiting[t][l] \in Nat /\ leased[t][l] \in Nat
                                       /\ waiting[t][l] + leased[t][l] <= Room(l)

\* The cursor is nil exactly when the rotation is empty, and else points into
\* it; a tenant is in a rotation once, and only while the rotator has it.
RotationWellFormed ==
    \A l \in Lanes :
      LET r == rot[l]
      IN  /\ IF r.list = <<>> THEN r.cursor = nil ELSE r.cursor \in ToSet(r.list)
          /\ Len(r.list) = Cardinality(ToSet(r.list))
          /\ ToSet(r.list) \subseteq trackers

\* No hint is lost or applied when it is out of date: a tenant is in a lane's
\* rotation exactly when it has work there, unless somebody is about to
\* correct it (or Maintenance was cut short by a stop).
OnItsWay(t, l, add) ==
    \E hints \in {call[c].hints : c \in Calls} \cup {maint.hints} :
      \E n \in DOMAIN hints : hints[n] = [tenant |-> t, lane |-> l, add |-> add]
RotationHasWork ==
    phase \in {"recovered", "running"} =>
      \A t \in trackers, l \in Lanes :
        /\ waiting[t][l] > 0 /\ t \notin ToSet(rot[l].list) => OnItsWay(t, l, TRUE)
        /\ waiting[t][l] = 0 /\ t \in ToSet(rot[l].list) => OnItsWay(t, l, FALSE)

\* A request leaves no tenant of the lane untried, however many requests move
\* the lane's cursor meanwhile.
RECURSIVE Upcoming(_, _, _)
Upcoming(r, t, n) == IF n = 0 THEN {} ELSE {t} \cup Upcoming(r, After(r, t), n - 1)
NoTenantSkipped ==
    \A c \in Calls :
      call[c].pc = "walk" /\ call[c].left > 0 =>
        LET r == rot[Head(call[c].lanes)]
        IN  ToSet(r.list) \subseteq call[c].seen \cup Upcoming(r, call[c].elem, call[c].left)

\* A worker is told that its lease is not found only for a tenant that was
\* really taken away: never because the state was not loaded yet or was
\* cleared for shutdown.
NotFoundIsReal == \A c \in Calls : call[c].pc = "answer" /\ call[c].lost => phase # "running"

\* The rotator and the discoverer know the same tenants, and they are the ones
\* in the database, while no tenant is being removed.
KnownTenantsAgree ==
    phase \in {"recovered", "running", "stopping"} /\ disc.pc # "drop" =>
      trackers = known /\ known = stored

\* Nothing is persisted once the database is closed.
ClosedIsQuiet == [][phase = "closed" => UNCHANGED <<waiting, leased, stored>>]_vars

\* Work that waits is leased, or its tenant or process goes away: no tenant
\* with work is left outside the rotation for good.
WorkIsLeased ==
    \A t \in Tenants, l \in Lanes : waiting[t][l] > 0 ~> waiting[t][l] = 0

\* The round-robin the documentation promises: a tenant that has work in a
\* lane gets its turn, even when the others are given new work for ever.
EveryTenantServed ==
    \A t \in Tenants, l \in Lanes :
      waiting[t][l] > 0
        ~> \/ waiting[t][l] = 0
           \/ \E c \in Calls : call[c].pc = "walk" /\ call[c].left > 0 /\ call[c].elem = t
================================================================================
