----------------------------- MODULE MCScheduler -----------------------------
EXTENDS BlockBuilderScheduler, TLC

Symmetry == Permutations(Workers) \cup Permutations(Clusters) \cup Permutations(Partitions)
===============================================================================
