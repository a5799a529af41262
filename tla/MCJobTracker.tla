----------------------------- MODULE MCJobTracker -----------------------------
EXTENDS JobTracker, TLC

Symmetry == Permutations(Blocks) \cup Permutations(JobIds) \cup Permutations(Workers)

\* Bound: leases are repeated between the first plan job, of an empty tracker, and
\* the jobs of the last generation.
RepeatedBetween ==
    \A id \in Ids : jobs'[id].epoch[1] \in {1, MaxGen} => jobs'[id].epoch[2] <= 1
MCSpec == Init /\ [][Next /\ RepeatedBetween]_vars
===============================================================================
