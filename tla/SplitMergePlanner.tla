-------------------------- MODULE SplitMergePlanner --------------------------
(***************************************************************************)
(* The planning of the split-and-merge compactor (pkg/compactor/           *)
(* split_merge_grouper.go, split_merge_job.go): blocks are grouped by      *)
(* aligned time ranges, from the smallest range to the largest; the blocks *)
(* of the smallest range that carry no shard are split first, then blocks  *)
(* of the same shard are merged.                                           *)
(*                                                                         *)
(* A block is [id, min, max, shard, level, sources, data] with a shard     *)
(* <<index, count>>, or NoShard.  Blocks of different external labels or   *)
(* resolutions are planned apart; the module plans those of one label set. *)
(* The hash of a block's ID is the ID.                                     *)
(***************************************************************************)
EXTENDS Integers, Sequences, FiniteSetsExt

CONSTANTS
    Ranges,        \* the block ranges, ascending
    SplitGroups    \* CompactorSplitGroups

NoShard == <<>>

getRangeStart(b, tr) == tr * (b.min \div tr)

\* Blocks that start in a range and reach beyond it belong to no group.
groupBlocksByRange(blocks, tr) ==
    {g \in {[start |-> s, end |-> s + tr,
             blocks |-> {b \in blocks : getRangeStart(b, tr) = s /\ b.max <= s + tr}] :
              s \in {getRangeStart(b, tr) : b \in blocks}} : g.blocks # {}}

\* Mutant: blocks that were split are split again.
getNonShardedBlocksAll(g) == g.blocks
getNonShardedBlocks(g) == {b \in g.blocks : b.shard = NoShard}

groupCount == Max({1, SplitGroups})
planSplitting(g) ==
    {[stage |-> "split", shard |-> <<i, groupCount>>, start |-> g.start, end |-> g.end,
      blocks |-> {b \in getNonShardedBlocks(g) : b.id % groupCount = i}] :
        i \in {b.id % groupCount : b \in getNonShardedBlocks(g)}}

\* Mutant: two blocks are not worth a merge.
planMergingThree(g) ==
    {j \in {[stage |-> "merge", shard |-> s, start |-> g.start, end |-> g.end,
             blocks |-> {b \in g.blocks : b.shard = s}] : s \in {b.shard : b \in g.blocks}} :
       Cardinality(j.blocks) > 2}
planMerging(g) ==
    {j \in {[stage |-> "merge", shard |-> s, start |-> g.start, end |-> g.end,
             blocks |-> {b \in g.blocks : b.shard = s}] : s \in {b.shard : b \in g.blocks}} :
       Cardinality(j.blocks) >= 2}

planCompactionByRange(blocks, tr, shardCount) ==
    UNION {IF shardCount > 0 /\ tr = Ranges[1] /\ planSplitting(g) # {}
           THEN planSplitting(g) ELSE planMerging(g) : g \in groupBlocksByRange(blocks, tr)}

overlaps(i, j) == i.start < j.end /\ j.start < i.end
\* Mutant: jobs of different stages never conflict.
conflictsSameStage(i, j) == overlaps(i, j) /\ i.stage = j.stage /\ i.shard = j.shard
conflicts(i, j) == overlaps(i, j) /\ (i.stage # j.stage \/ i.shard = j.shard)

\* A job of the last range that would compact recent blocks too early.
minTime(j) == Min({b.min : b \in j.blocks})
maxTime(j) == Max({b.max : b \in j.blocks})
maxCompactionLevel(j) == Max({b.level : b \in j.blocks})
premature(j, blocks, now) ==
    /\ j.end > Max({b.max : b \in blocks})
    /\ j.end + (j.end - j.start) > now
    /\ maxCompactionLevel(j) # 1
    /\ maxTime(j) - minTime(j) # j.end - j.start

\* Ranges are planned upwards; a job is kept if no job planned before it conflicts.
\* Two jobs of one range never do: they differ in range, or in shard.
candidates(blocks, shardCount) ==
    UNION {planCompactionByRange(blocks, Ranges[i], shardCount) : i \in DOMAIN Ranges}
planned(blocks, shardCount) ==
    LET upTo[n \in 0..Len(Ranges)] ==
          IF n = 0 THEN {}
          ELSE LET before == upTo[n - 1]
               IN  before \cup {j \in planCompactionByRange(blocks, Ranges[n], shardCount) :
                                 \A k \in before : ~conflicts(j, k)}
    IN  upTo[Len(Ranges)]
planCompaction(blocks, shardCount, now) ==
    {j \in candidates(blocks, shardCount) : j \in planned(blocks, shardCount) /\ ~premature(j, blocks, now)}
==============================================================================
