------------------------------- MODULE MCShards -------------------------------
EXTENDS ShardMigration, TLC

Symmetry == Permutations(Tenants)
================================================================================
