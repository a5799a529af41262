--------------------------- MODULE CompactionClaims ---------------------------
(***************************************************************************)
(* What the compactor-scheduler promises of one tenant's blocks, whatever  *)
(* plans, leases, epochs and restarts it takes: a compaction job claims    *)
(* blocks that nobody else claims and that are not known to be compacted   *)
(* away, and a block becomes so at most once.                              *)
(***************************************************************************)
CONSTANTS Blocks, JobIds

VARIABLES claimed, compacted

cvars == <<claimed, compacted>>

Free == Blocks \ (compacted \cup UNION {claimed[id] : id \in JobIds})

Init ==
    /\ claimed = [id \in JobIds |-> {}]
    /\ compacted = {}

Claim(id) ==
    /\ claimed[id] = {}
    /\ \E bs \in SUBSET Free : claimed' = [claimed EXCEPT ![id] = bs]
    /\ UNCHANGED compacted

\* Claims are given back, or run out, together.
Release(ids) ==
    /\ claimed' = [id \in JobIds |-> IF id \in ids THEN {} ELSE claimed[id]]
    /\ UNCHANGED compacted

\* A claim ends with all, some or none of its blocks compacted away.
Finish(id) ==
    /\ \E bs \in SUBSET claimed[id] : compacted' = compacted \cup bs
    /\ claimed' = [claimed EXCEPT ![id] = {}]

\* A claim that ran out is finished after all, before its blocks are
\* claimed again.
FinishLate ==
    /\ \E bs \in SUBSET Free : compacted' = compacted \cup bs
    /\ UNCHANGED claimed

Next ==
    \/ \E id \in JobIds : Claim(id) \/ Finish(id)
    \/ \E ids \in SUBSET JobIds : Release(ids)
    \/ FinishLate

Spec == Init /\ [][Next]_cvars
===============================================================================
