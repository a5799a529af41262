------------------------------ MODULE TenantStore ------------------------------
(***************************************************************************)
(* What the job persistence of the compactor-scheduler promises: a durable *)
(* state per tenant.  While the scheduler is up, it changes when an        *)
(* allowed tenant is created, one of its jobs is written or it is dropped. *)
(* Between two times of being up nothing is lost but the tenants that a    *)
(* new allow list leaves out, and those are all gone when the scheduler is *)
(* up again.  The promise ends for tenants that the store abandons, when a *)
(* start does not finish what an earlier one began.                        *)
(***************************************************************************)
EXTENDS Naturals

CONSTANTS Tenants, none

VARIABLES
    state,     \* per tenant, the writes it has had; none when it has no bucket
    allowed,   \* tenants allowed
    up,        \* whether the scheduler is up
    abandoned  \* tenants for which nothing is promised any more

Init == state = [t \in Tenants |-> none] /\ allowed = Tenants /\ up = FALSE /\ abandoned = {}

Create(t) ==
    /\ up /\ t \in allowed \ abandoned /\ state[t] = none
    /\ state' = [state EXCEPT ![t] = 0]
    /\ UNCHANGED <<allowed, up, abandoned>>
Write(t) ==
    /\ up /\ state[t] # none
    /\ state' = [state EXCEPT ![t] = @ + 1]
    /\ UNCHANGED <<allowed, up, abandoned>>
Drop(t) ==
    /\ up /\ state[t] # none
    /\ state' = [state EXCEPT ![t] = none]
    /\ UNCHANGED <<allowed, up, abandoned>>

Configure(T) ==
    /\ ~up /\ allowed' \in SUBSET Tenants
    /\ abandoned' = abandoned \cup T
    /\ state' = [t \in Tenants |-> IF t \in T THEN none ELSE state[t]]
    /\ UNCHANGED up
Expel(T) ==
    /\ ~up /\ T \cap allowed = {}
    /\ state' = [t \in Tenants |-> IF t \in T THEN none ELSE state[t]]
    /\ UNCHANGED <<allowed, up, abandoned>>
Open ==
    /\ ~up /\ up' = TRUE
    /\ \A t \in Tenants \ allowed : state[t] = none
    /\ UNCHANGED <<state, allowed, abandoned>>
Close == up /\ up' = FALSE /\ UNCHANGED <<state, allowed, abandoned>>

Next ==
    \/ \E t \in Tenants : Create(t) \/ Write(t) \/ Drop(t)
    \/ \E T \in SUBSET Tenants : Configure(T) \/ Expel(T)
    \/ Open
    \/ Close

Spec == Init /\ [][Next]_<<state, allowed, up, abandoned>>
================================================================================
