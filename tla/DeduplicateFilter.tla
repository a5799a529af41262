-------------------------- MODULE DeduplicateFilter --------------------------
(***************************************************************************)
(* ShardAwareDeduplicateFilter (pkg/compactor/                             *)
(* shard_aware_deduplicate_filter.go): which blocks of a tenant are held   *)
(* in full by other blocks, judged by the source blocks they were made of  *)
(* and by their shards, never by their data.                               *)
(***************************************************************************)
EXTENDS Integers, FiniteSets, SplitMergePlanner

\* Fewer sources first, then by ID.
before(a, b) ==
    LET n == Cardinality(a.sources) m == Cardinality(b.sources)
    IN  n < m \/ (n = m /\ a.id < b.id)

isIncludedIn(b, other) ==
    (b.shard = NoShard \/ b.shard = other.shard) /\ b.sources \subseteq other.sources

\* addSuccessorIfPossible, over all blocks in order: a block becomes a successor of
\* the largest blocks it includes.
includers(b, blocks) == {s \in blocks : before(b, s) /\ isIncludedIn(b, s)}
successors(b, blocks) ==
    {s \in includers(b, blocks) : ~\E t \in includers(b, blocks) : before(t, s) /\ isIncludedIn(t, s)}

\* The shard count is that of the successor that the map yields first.
\* Mutant: any sharded successor will do.
isFullyIncludedAny(b, first, succ) == succ # {}
isFullyIncluded(b, first, succ) ==
    /\ succ # {}
    /\ \/ b.shard # NoShard
       \/ \E s \in succ : s.shard = NoShard
       \/ Cardinality({s.shard[1] : s \in succ}) = first.shard[2]

\* findDuplicates: the sets of duplicates it may return.
mayBeDuplicate(blocks) ==
    {b \in blocks : \E first \in successors(b, blocks) : isFullyIncluded(b, first, successors(b, blocks))}
mustBeDuplicate(blocks) ==
    {b \in mayBeDuplicate(blocks) :
       \A first \in successors(b, blocks) : isFullyIncluded(b, first, successors(b, blocks))}
==============================================================================
