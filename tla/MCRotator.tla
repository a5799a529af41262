------------------------------- MODULE MCRotator -------------------------------
EXTENDS Rotator, TLC

Symmetry == Permutations(Tenants) \cup Permutations(Calls)

\* The tenants have been discovered and have compaction jobs only.
Compacting ==
    /\ Init
    /\ stored = Tenants
    /\ \A t \in Tenants : waiting[t]["plan"] = 0 /\ leased[t]["plan"] = 0

\* Each has one job.
OneJobEach ==
    /\ Compacting
    /\ \A t \in Tenants : waiting[t]["compaction"] + leased[t]["compaction"] = 1
OneJobSpec == OneJobEach /\ [][Next]_vars /\ Fairness

\* One tenant has two jobs waiting, the others one each.
OneHasTwoJobs ==
    /\ Compacting
    /\ LET busy == CHOOSE t \in Tenants : TRUE
       IN  \A t \in Tenants : /\ waiting[t]["compaction"] = IF t = busy THEN 2 ELSE 1
                              /\ leased[t]["compaction"] = 0
OneHasTwoSpec == OneHasTwoJobs /\ [][Next]_vars /\ Fairness
================================================================================
