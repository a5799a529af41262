------------------------ MODULE BucketCompactorProofs ------------------------
(***************************************************************************)
(* Compaction loses no series, for any number of compactors, blocks,       *)
(* series, errors, repairs and crashes, as long as the tenant's shard count*)
(* stays the same (MCShardCountChange shows what happens when it does      *)
(* not).  The argument: a block that is about to be marked for deletion    *)
(* has, for each of its series, a block that holds it and comes after it   *)
(* in the order of the filter (before); a block that goes hands over to    *)
(* its own successor, so it does not matter who marks what, and when.      *)
(***************************************************************************)
EXTENDS BucketCompactor, FiniteSetTheorems, TLAPS

\* The tenant's shard count does not change.
FixedShardCount == \A m, n \in ShardCounts : m = n

InShard(h, s) == s = NoShard \/ h % s[2] = s[1]
ShardOK(s) == s = NoShard \/ (s[2] \in ShardCounts /\ s[1] \in 0..(s[2] - 1))

\* A block holds exactly the series that its sources and its shard promise.
Good(b) ==
    /\ b.id \in Nat /\ b.id < nextID
    /\ b.sources \subseteq 0..(nextID - 1)
    /\ ShardOK(b.shard)
    /\ b.data = {d \in shipped : d[1] \in b.sources /\ InShard(d[2], b.shard)}

\* A job splits blocks without a shard, or merges blocks of one shard.
JobOK(j) ==
    /\ j.shards \in ShardCounts
    /\ j.job.stage \in {"split", "merge"}
    /\ \A b \in j.job.blocks : Good(b)
    /\ j.job.blocks # {}
    /\ j.job.stage = "split" => j.shards > 0 /\ \A b \in j.job.blocks : b.shard = NoShard
    /\ j.job.stage = "merge" => \A b \in j.job.blocks : b.shard = j.job.shard

\* Every series of b is also in a block of S that comes after b.
HeldAfter(b, S) == \A d \in b.data : \E c \in S : before(b, c) /\ d \in c.data

Types ==
    /\ shipped \subseteq Nat \X Nat /\ nextID \in Nat
    /\ \A d \in shipped : d[1] < nextID
    /\ pc = [k \in Compactors |-> pc[k]]
    /\ metas = [k \in Compactors |-> metas[k]]
    /\ duplicateIDs = [k \in Compactors |-> duplicateIDs[k]]
    /\ jobs = [k \in Compactors |-> jobs[k]]
    /\ uploads = [k \in Compactors |-> uploads[k]]
    /\ deletes = [k \in Compactors |-> deletes[k]]
    /\ ring \subseteq Compactors

Blocks ==
    /\ \A b \in bucket : Good(b)
    /\ \A k \in Compactors :
         /\ \A b \in metas[k] \cup duplicateIDs[k] \cup uploads[k] \cup deletes[k] : Good(b)
         /\ \A j \in jobs[k] : JobOK(j)

Handover ==
    \A k \in Compactors :
      /\ \A b \in duplicateIDs[k] : HeldAfter(b, bucket)
      /\ \A b \in deletes[k] : HeldAfter(b, bucket \cup uploads[k])
      /\ pc[k] = "delete" => uploads[k] = {}

IInv == Types /\ Blocks /\ Handover /\ NoDataLost

------------------------------------------------------------------------------
LEMMA FiniteSources ==
    ASSUME nextID \in Nat, NEW b, Good(b)
    PROVE  IsFiniteSet(b.sources) /\ Cardinality(b.sources) \in Nat
<1>1. IsFiniteSet(0..(nextID - 1))
  BY FS_Interval
<1>2. b.sources \subseteq 0..(nextID - 1)
  BY DEF Good
<1> QED
  BY <1>1, <1>2, FS_Subset, FS_CardinalityType

LEMMA BeforeIrreflexive ==
    ASSUME nextID \in Nat, NEW b, Good(b)
    PROVE  ~before(b, b)
BY FiniteSources DEF before, Good

LEMMA BeforeTransitive ==
    ASSUME nextID \in Nat, NEW a, NEW b, NEW c, Good(a), Good(b), Good(c), before(a, b), before(b, c)
    PROVE  before(a, c)
<1>1. Cardinality(a.sources) \in Nat /\ Cardinality(b.sources) \in Nat /\ Cardinality(c.sources) \in Nat
  BY FiniteSources
<1>2. a.id \in Nat /\ b.id \in Nat /\ c.id \in Nat
  BY DEF Good
<1> QED
  BY <1>1, <1>2 DEF before

\* A block with all sources of b and a later ID comes after b.
LEMMA LaterIncluder ==
    ASSUME nextID \in Nat, NEW b, Good(b), NEW c, c.id \in Nat, b.id < c.id,
           IsFiniteSet(c.sources), b.sources \subseteq c.sources
    PROVE  before(b, c)
<1>1. Cardinality(b.sources) \in Nat /\ Cardinality(c.sources) \in Nat
  BY FiniteSources, FS_CardinalityType
<1>2. Cardinality(b.sources) <= Cardinality(c.sources)
  BY FS_Subset
<1> QED
  BY <1>1, <1>2 DEF before

\* A block x that goes hands over its series to a block that comes after it.
LEMMA RemoveKeeps ==
    ASSUME nextID \in Nat, NEW x, Good(x), HeldAfter(x, bucket),
           \A b \in bucket : Good(b),
           NEW U, NEW b, Good(b), HeldAfter(b, bucket \cup U)
    PROVE  HeldAfter(b, (bucket \ {x}) \cup U)
<1> SUFFICES ASSUME NEW d \in b.data
             PROVE  \E c \in (bucket \ {x}) \cup U : before(b, c) /\ d \in c.data
  BY DEF HeldAfter
<1>1. PICK c \in bucket \cup U : before(b, c) /\ d \in c.data
  BY DEF HeldAfter
<1>2. CASE c # x \/ c \in U
  BY <1>1, <1>2
<1>3. CASE c = x
  <2>1. PICK e \in bucket : before(x, e) /\ d \in e.data
    BY <1>1, <1>3 DEF HeldAfter
  <2>2. e # x
    BY <2>1, BeforeIrreflexive
  <2>3. before(b, e)
    BY <1>1, <1>3, <2>1, BeforeTransitive
  <2> QED
    BY <2>1, <2>2, <2>3
<1> QED
  BY <1>2, <1>3

LEMMA RemoveKeepsData ==
    ASSUME nextID \in Nat, NEW x, Good(x), HeldAfter(x, bucket), NoDataLost, bucket' = bucket \ {x}, shipped' = shipped
    PROVE  NoDataLost'
<1> SUFFICES ASSUME NEW d \in shipped
             PROVE  \E b \in bucket \ {x} : d \in b.data
  BY DEF NoDataLost, Holders
<1>1. PICK b \in bucket : d \in b.data
  BY DEF NoDataLost, Holders
<1>2. CASE b = x
  <2>1. PICK e \in bucket : before(x, e) /\ d \in e.data
    BY <1>1, <1>2 DEF HeldAfter
  <2> QED
    BY <2>1, BeforeIrreflexive
<1> QED
  BY <1>1, <1>2

------------------------------------------------------------------------------
\* findDuplicates: the successors of a duplicate hold its series.
LEMMA DuplicateHeld ==
    ASSUME FixedShardCount, Types, \A b \in bucket : Good(b), NEW b \in mayBeDuplicate(bucket)
    PROVE  HeldAfter(b, bucket)
<1> DEFINE succ == successors(b, bucket)
<1>1. PICK first \in succ : isFullyIncluded(b, first, succ)
  BY DEF mayBeDuplicate
<1>2. b \in bucket
  BY DEF mayBeDuplicate
<1>3. \A s \in succ : /\ s \in bucket /\ before(b, s) /\ b.sources \subseteq s.sources
                      /\ b.shard = NoShard \/ b.shard = s.shard
  BY DEF successors, includers, isIncludedIn
<1> SUFFICES ASSUME NEW d \in b.data
             PROVE  \E s \in succ : d \in s.data
  BY <1>3 DEF HeldAfter
<1> HIDE DEF succ
<1>4. d \in shipped /\ d[1] \in b.sources /\ InShard(d[2], b.shard)
  BY <1>2 DEF Good
<1>5. \A s \in succ : InShard(d[2], s.shard) => d \in s.data
  BY <1>3, <1>4 DEF Good
<1>6. CASE b.shard # NoShard
  BY <1>1, <1>3, <1>4, <1>5, <1>6
<1>7. CASE \E s \in succ : s.shard = NoShard
  BY <1>5, <1>7 DEF InShard
<1>8. CASE b.shard = NoShard /\ \A s \in succ : s.shard # NoShard
  <2> DEFINE n == first.shard[2]
             I == {s.shard[1] : s \in succ}
  <2>1. n \in Nat /\ \A s \in succ : s.shard[2] = n /\ s.shard[1] \in 0..(n - 1)
    BY <1>1, <1>3, <1>8, CompactorConstants, Zenon DEF Good, ShardOK, FixedShardCount
  <2>2. Cardinality(I) = n
    BY <1>1, <1>8 DEF isFullyIncluded
  <2>3. I \subseteq 0..(n - 1)
    BY <2>1
  <2>4. IsFiniteSet(0..(n - 1)) /\ Cardinality(0..(n - 1)) = n
    <3>1. first.shard[1] \in 0..(n - 1)
      BY <1>1, <2>1
    <3>2. n \in Nat \ {0}
      BY <2>1, <3>1
    <3> HIDE DEF n
    <3> QED
      BY <3>2, FS_Interval
  <2>5. I = 0..(n - 1)
    <3> HIDE DEF I, n
    <3> QED
      BY <2>2, <2>3, <2>4, FS_Subset, Zenon
  <2>6. d[2] \in Nat
    BY <1>4 DEF Types
  <2>7. d[2] % n \in 0..(n - 1)
    <3>1. n \in Nat \ {0}
      BY <1>1, <2>1
    <3> HIDE DEF n
    <3> QED
      BY <2>6, <3>1
  <2>8. PICK s \in succ : s.shard[1] = d[2] % n
    BY <2>5, <2>7
  <2> QED
    BY <1>5, <2>1, <2>8 DEF InShard
<1> QED
  BY <1>6, <1>7, <1>8

\* planCompaction: what the jobs of a plan are made of.
LEMMA PlanOK ==
    ASSUME NEW M, \A b \in M : Good(b), NEW n \in ShardCounts, NEW t,
           NEW j \in planCompaction(M, n, t)
    PROVE  JobOK([job |-> j, shards |-> n])
<1>1. PICK i \in DOMAIN Ranges : j \in planCompactionByRange(M, Ranges[i], n)
  BY DEF planCompaction, candidates
<1>2. PICK g \in groupBlocksByRange(M, Ranges[i]) :
        \/ n > 0 /\ j \in planSplitting(g)
        \/ j \in planMerging(g)
  BY <1>1 DEF planCompactionByRange
<1>3. g.blocks \subseteq M /\ g.blocks # {}
  BY <1>2 DEF groupBlocksByRange
<1>4. CASE n > 0 /\ j \in planSplitting(g)
  <2>1. PICK r \in {b.id % groupCount : b \in getNonShardedBlocks(g)} :
          j = [stage |-> "split", shard |-> <<r, groupCount>>, start |-> g.start, end |-> g.end,
               blocks |-> {b \in getNonShardedBlocks(g) : b.id % groupCount = r}]
    BY <1>4 DEF planSplitting
  <2>2. j.stage = "split" /\ j.blocks = {b \in getNonShardedBlocks(g) : b.id % groupCount = r}
    BY <2>1
  <2>3. j.blocks # {} /\ j.blocks \subseteq M /\ \A b \in j.blocks : b.shard = NoShard
    BY <1>3, <2>2 DEF getNonShardedBlocks
  <2> QED
    BY <1>4, <2>2, <2>3 DEF JobOK
<1>5. CASE j \in planMerging(g)
  <2>1. PICK x \in {b.shard : b \in g.blocks} :
          j = [stage |-> "merge", shard |-> x, start |-> g.start, end |-> g.end,
               blocks |-> {b \in g.blocks : b.shard = x}]
    BY <1>5 DEF planMerging
  <2>2. j.stage = "merge" /\ j.shard = x /\ j.blocks = {b \in g.blocks : b.shard = x}
    BY <2>1
  <2> QED
    BY <1>3, <2>2 DEF JobOK
<1> QED
  BY <1>2, <1>4, <1>5

------------------------------------------------------------------------------
\* Blocks stay as they are while IDs are handed out and blocks are shipped.
LEMMA GoodStays ==
    ASSUME Types, nextID' \in Nat, nextID <= nextID', shipped \subseteq shipped',
           \A d \in shipped' \ shipped : d[1] >= nextID, NEW b, Good(b)
    PROVE  Good(b)'
<1>1. b.sources \subseteq 0..(nextID - 1)
  BY DEF Good
<1>2. b.id \in Nat /\ b.id < nextID' /\ b.sources \subseteq 0..(nextID' - 1)
  BY <1>1 DEF Good, Types
<1>3. \A d \in shipped' : d[1] \in b.sources => d \in shipped
  BY <1>1 DEF Types
<1>4. b.data = {d \in shipped' : d[1] \in b.sources /\ InShard(d[2], b.shard)}
  BY <1>3 DEF Good
<1> QED
  BY <1>2, <1>4 DEF Good

LEMMA JobStays ==
    ASSUME NEW j, JobOK(j), \A b : Good(b) => Good(b)'
    PROVE  JobOK(j)'
BY DEF JobOK

\* A tuple of two is not the empty one.
LEMMA PairIsShard == \A i, n : <<i, n>> # NoShard
BY DEF NoShard

\* CompactWithSplitting and Compact: the results hold the series of the sources,
\* and come after them.
IDsAfter(j) == nextID + (IF j.job.stage = "merge" THEN 1 ELSE j.shards)
GoodResult(c, next) ==
    /\ c.id \in Nat /\ nextID <= c.id /\ c.id < next
    /\ ShardOK(c.shard)
    /\ c.data = {d \in shipped : d[1] \in c.sources /\ InShard(d[2], c.shard)}

LEMMA ResultFields ==
    ASSUME NEW j, NEW x, NEW i, NEW data
    PROVE  /\ result(j, x, i, data).id = i
           /\ result(j, x, i, data).shard = x
           /\ result(j, x, i, data).data = data
           /\ result(j, x, i, data).sources = UNION {b.sources : b \in j.blocks}
BY DEF result

LEMMA ResultsGood ==
    ASSUME Types, NEW j, JobOK(j), NEW c \in results(j.job, j.shards)
    PROVE  GoodResult(c, IDsAfter(j)) /\ c.sources = UNION {b.sources : b \in j.job.blocks}
<1> DEFINE J == j.job
           data == UNION {b.data : b \in J.blocks}
           S == UNION {b.sources : b \in J.blocks}
<1>1. \A b \in J.blocks : b.data = {d \in shipped : d[1] \in b.sources /\ InShard(d[2], b.shard)}
  BY DEF JobOK, Good
<1>2. CASE J.stage = "merge"
  <2>1. c = result(J, J.shard, nextID, data)
    BY <1>2 DEF results
  <2>2. c.id = nextID /\ c.shard = J.shard /\ c.data = data /\ c.sources = S
    BY <2>1, ResultFields
  <2>3. data = {d \in shipped : d[1] \in S /\ InShard(d[2], J.shard)}
    BY <1>1, <1>2 DEF JobOK
  <2>4. ShardOK(J.shard)
    BY <1>2 DEF JobOK, Good
  <2> QED
    BY <1>2, <2>2, <2>3, <2>4 DEF GoodResult, IDsAfter, Types
<1>3. CASE J.stage = "split"
  <2>1. PICK i \in 0..(j.shards - 1) :
          c = result(J, <<i, j.shards>>, nextID + i, {d \in data : d[2] % j.shards = i})
    BY <1>3, Zenon DEF results
  <2>2. /\ c.id = nextID + i /\ c.shard = <<i, j.shards>> /\ c.sources = S
        /\ c.data = {d \in data : d[2] % j.shards = i}
    BY <2>1, ResultFields
  <2>3. data = {d \in shipped : d[1] \in S}
    BY <1>1, <1>3 DEF JobOK, InShard
  <2>4. \A d : InShard(d[2], c.shard) <=> d[2] % j.shards = i
    BY <2>2, PairIsShard DEF InShard
  <2>5. c.data = {d \in shipped : d[1] \in c.sources /\ InShard(d[2], c.shard)}
    BY <2>2, <2>3, <2>4
  <2>6. j.shards \in Nat /\ j.shards \in ShardCounts
    BY CompactorConstants, Zenon DEF JobOK
  <2>7. ShardOK(c.shard)
    BY <2>2, <2>6 DEF ShardOK
  <2>8. c.id \in Nat /\ nextID <= c.id /\ c.id < IDsAfter(j)
    BY <1>3, <2>2, <2>6 DEF IDsAfter, Types
  <2> QED
    BY <2>2, <2>5, <2>7, <2>8 DEF GoodResult
<1> QED
  BY <1>2, <1>3 DEF JobOK

LEMMA ResultsHold ==
    ASSUME Types, NEW j, JobOK(j), NEW b \in j.job.blocks
    PROVE  HeldAfter(b, results(j.job, j.shards))
<1> DEFINE J == j.job
           data == UNION {x.data : x \in J.blocks}
           R == results(J, j.shards)
<1> SUFFICES ASSUME NEW d \in b.data
             PROVE  \E c \in R : d \in c.data /\ before(b, c)
  BY DEF HeldAfter
<1>1. \E c \in R : d \in c.data
  <2>1. CASE J.stage = "merge"
    <3>1. result(J, J.shard, nextID, data) \in R
      BY <2>1 DEF results
    <3> QED
      BY <3>1, ResultFields
  <2>2. CASE J.stage = "split"
    <3> DEFINE n == j.shards
               i == d[2] % n
               O == {e \in data : e[2] % n = i}
    <3>1. n \in Nat \ {0}
      BY <2>2, CompactorConstants DEF JobOK
    <3>2. d[2] \in Nat
      BY DEF JobOK, Good, Types
    <3>3. i \in 0..(n - 1)
      <4> HIDE DEF n
      <4> QED
        BY <3>1, <3>2
    <3>4. d \in O
      OBVIOUS
    <3>5. result(J, <<i, n>>, nextID + i, O) \in R
      <4> HIDE DEF i
      <4> QED
        BY <2>2, <3>3, <3>4, Zenon DEF results
    <3> QED
      BY <3>4, <3>5, ResultFields
  <2> QED
    BY <2>1, <2>2 DEF JobOK
<1>2. \A c \in R : before(b, c)
  <2> SUFFICES ASSUME NEW c \in R
               PROVE  before(b, c)
    OBVIOUS
  <2>1. GoodResult(c, IDsAfter(j)) /\ c.sources = UNION {x.sources : x \in J.blocks}
    BY ResultsGood
  <2>2. Good(b) /\ nextID \in Nat
    BY DEF JobOK, Types
  <2>3. IsFiniteSet(c.sources)
    <3>1. c.sources \subseteq 0..(nextID - 1)
      BY <2>1 DEF JobOK, Good
    <3>2. IsFiniteSet(0..(nextID - 1))
      BY <2>2, FS_Interval
    <3> QED
      BY <3>1, <3>2, FS_Subset, Zenon
  <2>4. c.id \in Nat /\ b.id < c.id /\ b.sources \subseteq c.sources
    BY <2>1, <2>2 DEF GoodResult, Good
  <2> QED
    BY <2>2, <2>3, <2>4, LaterIncluder
<1> QED
  BY <1>1, <1>2

------------------------------------------------------------------------------
\* The steps that make no block leave what is known of the blocks.
LEMMA GoodUnchanged ==
    ASSUME UNCHANGED <<shipped, nextID>>
    PROVE  (\A b : Good(b) => Good(b)') /\ (\A j : JobOK(j) => JobOK(j)')
<1>1. \A b : Good(b) => Good(b)'
  BY DEF Good
<1> QED
  BY <1>1, JobStays

LEMMA InitHolds == Init => IInv
BY DEF Init, IInv, Types, Blocks, Handover, NoDataLost

LEMMA ShipKeeps ==
    ASSUME IInv, NEW w \in Windows, NEW hashes \in (SUBSET Hashes) \ {{}}, Ship(w, hashes)
    PROVE  IInv'
<1>0. PICK new : new = [id |-> nextID, min |-> w[1], max |-> w[2], shard |-> NoShard, level |-> 1,
                        sources |-> {nextID}, data |-> {nextID} \X hashes]
  BY Zenon
<1>1. /\ bucket' = bucket \cup {new} /\ shipped' = shipped \cup {nextID} \X hashes
      /\ nextID' = nextID + 1
      /\ pc' = pc /\ metas' = metas /\ duplicateIDs' = duplicateIDs /\ jobs' = jobs
      /\ uploads' = uploads /\ deletes' = deletes /\ ring' = ring
  BY <1>0 DEF Ship, compactor
<1>2. nextID \in Nat /\ hashes \subseteq Nat /\ Types
  BY CompactorConstants DEF IInv, Types
<1>3. Types'
  BY <1>1, <1>2 DEF Types
<1>4. \A b : Good(b) => Good(b)'
  BY <1>1, <1>2, GoodStays
<1>5. Good(new)'
  <2>1. new.id = nextID /\ new.shard = NoShard /\ new.sources = {nextID} /\ new.data = {nextID} \X hashes
    BY <1>0
  <2>2. \A d \in shipped : d[1] # nextID
    BY <1>2 DEF Types
  <2>3. {nextID} \X hashes = {d \in shipped' : d[1] \in {nextID}}
    BY <1>1, <2>2
  <2> QED
    BY <1>1, <1>2, <2>1, <2>3 DEF Good, ShardOK, InShard
<1>6. \A j : JobOK(j) => JobOK(j)'
  BY <1>4, JobStays
<1>7. Blocks'
  BY <1>1, <1>4, <1>5, <1>6 DEF IInv, Blocks
<1>8. Handover'
  <2>1. \A b : HeldAfter(b, bucket) => HeldAfter(b, bucket')
    BY <1>1 DEF HeldAfter
  <2>2. \A b, U : HeldAfter(b, bucket \cup U) => HeldAfter(b, bucket' \cup U)
    BY <1>1 DEF HeldAfter
  <2> QED
    BY <1>1, <2>1, <2>2, Zenon DEF IInv, Handover
<1>9. NoDataLost'
  <2> SUFFICES ASSUME NEW d \in shipped'
               PROVE  \E b \in bucket' : d \in b.data
    BY DEF NoDataLost, Holders
  <2>1. CASE d \in shipped
    BY <1>1, <2>1 DEF IInv, NoDataLost, Holders
  <2>2. CASE d \in {nextID} \X hashes
    BY <1>0, <1>1, <2>2
  <2> QED
    BY <1>1, <2>1, <2>2
<1> QED
  BY <1>3, <1>7, <1>8, <1>9 DEF IInv

LEMMA SyncMetasKeeps ==
    ASSUME FixedShardCount, IInv, NEW k \in Compactors, SyncMetas(k)
    PROVE  IInv'
<1>1. PICK found \in {mustBeDuplicate(bucket) \cup s : s \in SUBSET (mayBeDuplicate(bucket) \ mustBeDuplicate(bucket))} :
        /\ duplicateIDs' = [duplicateIDs EXCEPT ![k] = found]
        /\ metas' = [metas EXCEPT ![k] = bucket \ (found \cup noCompact)]
  BY Zenon DEF SyncMetas
<1>2. /\ pc' = [pc EXCEPT ![k] = "gc"]
      /\ UNCHANGED <<bucket, shipped, nextID, ring, jobs, uploads, deletes>>
  BY DEF SyncMetas
<1>3. found \subseteq mayBeDuplicate(bucket) /\ found \subseteq bucket
  BY DEF mustBeDuplicate, mayBeDuplicate
<1>4. \A b \in found : HeldAfter(b, bucket)
  BY <1>3, DuplicateHeld DEF IInv, Blocks
<1>5. Types'
  BY <1>1, <1>2, Zenon DEF IInv, Types
<1>6. Blocks'
  BY <1>1, <1>2, <1>3, GoodUnchanged DEF IInv, Types, Blocks
<1>7. Handover'
  BY <1>1, <1>2, <1>4, Zenon DEF IInv, Types, Handover
<1>8. NoDataLost'
  BY <1>2 DEF IInv, NoDataLost, Holders
<1> QED
  BY <1>5, <1>6, <1>7, <1>8 DEF IInv

\* What a mark for deletion leaves: used for duplicates and for sources.
LEMMA MarkKeeps ==
    ASSUME IInv, NEW x, Good(x), HeldAfter(x, bucket), bucket' = bucket \ {x},
           UNCHANGED <<shipped, nextID>>
    PROVE  /\ NoDataLost'
           /\ \A b, U : Good(b) /\ HeldAfter(b, bucket \cup U) => HeldAfter(b, bucket' \cup U)
           /\ \A b : Good(b) /\ HeldAfter(b, bucket) => HeldAfter(b, bucket')
<1>1. nextID \in Nat /\ NoDataLost /\ \A b \in bucket : Good(b)
  BY DEF IInv, Types, Blocks
<1>2. NoDataLost'
  BY <1>1, RemoveKeepsData
<1>3. \A b, U : Good(b) /\ HeldAfter(b, bucket \cup U) => HeldAfter(b, bucket' \cup U)
  BY <1>1, RemoveKeeps
<1>4. bucket \cup {} = bucket /\ bucket' \cup {} = bucket'
  OBVIOUS
<1> QED
  BY <1>2, <1>3, <1>4

LEMMA GarbageCollectKeeps ==
    ASSUME IInv, NEW k \in Compactors, GarbageCollect(k)
    PROVE  IInv'
<1>1. PICK x \in duplicateIDs[k] :
        bucket' = bucket \ {x} /\ duplicateIDs' = [duplicateIDs EXCEPT ![k] = @ \ {x}]
  BY Zenon DEF GarbageCollect
<1>2. UNCHANGED <<shipped, nextID, ring, pc, metas, jobs, uploads, deletes>>
  BY DEF GarbageCollect
<1>3. Good(x) /\ HeldAfter(x, bucket)
  BY Zenon DEF IInv, Blocks, Handover
<1>4. /\ NoDataLost'
      /\ \A b, U : Good(b) /\ HeldAfter(b, bucket \cup U) => HeldAfter(b, bucket' \cup U)
      /\ \A b : Good(b) /\ HeldAfter(b, bucket) => HeldAfter(b, bucket')
  BY <1>1, <1>2, <1>3, MarkKeeps
<1>5. Types'
  BY <1>1, <1>2, Zenon DEF IInv, Types
<1>6. Blocks'
  BY <1>1, <1>2, GoodUnchanged DEF IInv, Types, Blocks
<1>7. \A c \in Compactors : duplicateIDs'[c] \subseteq duplicateIDs[c]
  BY <1>1 DEF IInv, Types
<1>8. Handover'
  BY <1>2, <1>4, <1>7, Zenon DEF IInv, Blocks, Handover
<1> QED
  BY <1>4, <1>5, <1>6, <1>8 DEF IInv

LEMMA DeleteBlockKeeps ==
    ASSUME IInv, NEW k \in Compactors, DeleteBlock(k)
    PROVE  IInv'
<1>1. PICK x \in deletes[k] :
        bucket' = bucket \ {x} /\ deletes' = [deletes EXCEPT ![k] = @ \ {x}]
  BY Zenon DEF DeleteBlock
<1>2. /\ UNCHANGED <<shipped, nextID, ring, metas, duplicateIDs, jobs, uploads>>
      /\ pc[k] = "delete"
      /\ pc' = [pc EXCEPT ![k] = IF deletes'[k] = {} THEN "jobs" ELSE @]
  BY DEF DeleteBlock
<1>3. bucket \cup uploads[k] = bucket
  BY <1>2, Zenon DEF IInv, Handover
<1>4. Good(x) /\ HeldAfter(x, bucket)
  BY <1>3, Zenon DEF IInv, Blocks, Handover
<1>5. /\ NoDataLost'
      /\ \A b, U : Good(b) /\ HeldAfter(b, bucket \cup U) => HeldAfter(b, bucket' \cup U)
      /\ \A b : Good(b) /\ HeldAfter(b, bucket) => HeldAfter(b, bucket')
  BY <1>1, <1>2, <1>4, MarkKeeps, Zenon
<1>6. Types'
  BY <1>1, <1>2, Zenon DEF IInv, Types
<1>7. \A c \in Compactors : deletes'[c] \subseteq deletes[c] /\ (pc'[c] = "delete" => pc[c] = "delete")
  BY <1>1, <1>2 DEF IInv, Types
<1>8. Blocks'
  BY <1>1, <1>2, <1>7, GoodUnchanged DEF IInv, Blocks
<1>9. Handover'
  BY <1>2, <1>5, <1>7, Zenon DEF IInv, Blocks, Handover
<1> QED
  BY <1>5, <1>6, <1>8, <1>9 DEF IInv

LEMMA GroupsKeeps ==
    ASSUME IInv, NEW k \in Compactors, Groups(k)
    PROVE  IInv'
<1>1. PICK n \in ShardCounts :
        jobs' = [jobs EXCEPT ![k] = {[job |-> j, shards |-> n] : j \in planCompaction(metas[k], n, now)}]
  BY Zenon DEF Groups
<1>2. /\ metas' = [metas EXCEPT ![k] = {}] /\ pc' = [pc EXCEPT ![k] = "jobs"]
      /\ UNCHANGED <<bucket, shipped, nextID, ring, duplicateIDs, uploads, deletes>>
  BY DEF Groups
<1>3. \A j \in planCompaction(metas[k], n, now) : JobOK([job |-> j, shards |-> n])
  BY PlanOK DEF IInv, Blocks
<1>4. \A c \in Compactors : \A j \in jobs'[c] : JobOK(j)
  BY <1>1, <1>3 DEF IInv, Types, Blocks
<1>5. \A c \in Compactors : metas'[c] \subseteq metas[c] /\ (pc'[c] = "delete" => pc[c] = "delete")
  BY <1>2, Zenon DEF IInv, Types
<1>6. Types'
  BY <1>1, <1>2, Zenon DEF IInv, Types
<1>7. Blocks'
  BY <1>2, <1>4, <1>5, GoodUnchanged DEF IInv, Blocks
<1>8. Handover' /\ NoDataLost'
  BY <1>2, <1>5 DEF IInv, Handover, NoDataLost, Holders
<1> QED
  BY <1>6, <1>7, <1>8 DEF IInv

LEMMA CompactKeeps ==
    ASSUME IInv, NEW k \in Compactors, Compact(k)
    PROVE  IInv'
<1>1. PICK j \in jobs[k] :
        /\ jobs' = [jobs EXCEPT ![k] = @ \ {j}]
        /\ uploads' = [uploads EXCEPT ![k] = results(j.job, j.shards)]
        /\ deletes' = [deletes EXCEPT ![k] = j.job.blocks]
        /\ nextID' = IDsAfter(j)
  BY Zenon DEF Compact, IDsAfter
<1>2. /\ pc' = [pc EXCEPT ![k] = "upload"]
      /\ UNCHANGED <<bucket, shipped, ring, metas, duplicateIDs>>
  BY DEF Compact
<1>3. JobOK(j) /\ Types
  BY DEF IInv, Blocks
<1>4. nextID \in Nat /\ nextID' \in Nat /\ nextID < nextID'
  BY <1>1, <1>3, CompactorConstants DEF JobOK, Types, IDsAfter
<1>5. Types'
  <2>1. \A d \in shipped' : d[1] < nextID'
    BY <1>2, <1>3, <1>4 DEF Types
  <2>2. /\ jobs' = [c \in Compactors |-> jobs'[c]]
        /\ uploads' = [c \in Compactors |-> uploads'[c]]
        /\ deletes' = [c \in Compactors |-> deletes'[c]]
        /\ pc' = [c \in Compactors |-> pc'[c]]
    BY <1>1, <1>2, <1>3, Zenon DEF Types
  <2> QED
    BY <1>2, <1>3, <1>4, <2>1, <2>2 DEF Types
<1>6. \A b : Good(b) => Good(b)'
  BY <1>2, <1>3, <1>4, GoodStays
<1>7. \A i : JobOK(i) => JobOK(i)'
  BY <1>6, JobStays
<1>8. PICK R : R = results(j.job, j.shards)
  OBVIOUS
<1>9. \A c \in R : Good(c)'
  <2> SUFFICES ASSUME NEW c \in R
               PROVE  Good(c)'
    OBVIOUS
  <2>1. GoodResult(c, nextID') /\ c.sources = UNION {b.sources : b \in j.job.blocks}
    BY <1>1, <1>3, <1>8, ResultsGood
  <2>2. c.sources \subseteq 0..(nextID' - 1)
    BY <1>3, <1>4, <2>1 DEF JobOK, Good
  <2> QED
    BY <1>2, <2>1, <2>2 DEF GoodResult, Good
<1>10. \A c \in Compactors :
         /\ jobs'[c] \subseteq jobs[c]
         /\ c = k => uploads'[c] = R /\ deletes'[c] = j.job.blocks /\ pc'[c] = "upload"
         /\ c # k => uploads'[c] = uploads[c] /\ deletes'[c] = deletes[c] /\ pc'[c] = pc[c]
  BY <1>1, <1>2, <1>8, Zenon DEF IInv, Types
<1>11. Blocks'
  <2>1. \A b \in bucket' : Good(b)'
    BY <1>2, <1>6 DEF IInv, Blocks
  <2>2. ASSUME NEW c \in Compactors
        PROVE  \A b \in metas'[c] \cup duplicateIDs'[c] \cup uploads'[c] \cup deletes'[c] : Good(b)'
    <3>1. \A b \in j.job.blocks : Good(b)
      BY <1>3 DEF JobOK
    <3> QED
      BY <1>2, <1>6, <1>9, <1>10, <3>1 DEF IInv, Blocks
  <2>3. ASSUME NEW c \in Compactors
        PROVE  \A i \in jobs'[c] : JobOK(i)'
    BY <1>7, <1>10 DEF IInv, Blocks
  <2> QED
    BY <2>1, <2>2, <2>3 DEF Blocks
<1>12. Handover'
  <2>1. \A b \in j.job.blocks : HeldAfter(b, bucket' \cup R)
    <3>1. \A b \in j.job.blocks : HeldAfter(b, R)
      BY <1>3, <1>8, ResultsHold
    <3> QED
      BY <3>1 DEF HeldAfter
  <2> QED
    BY <1>2, <1>10, <2>1, Zenon DEF IInv, Handover
<1>13. NoDataLost'
  BY <1>2 DEF IInv, NoDataLost, Holders
<1> QED
  BY <1>5, <1>11, <1>12, <1>13 DEF IInv

\* The repaired block holds what the broken one does, and comes after it.
LEMMA RepairKeeps ==
    ASSUME IInv, NEW k \in Compactors, Repair(k)
    PROVE  IInv'
<1>0. PICK j \in jobs[k] : \E b \in j.job.blocks :
        /\ jobs' = [jobs EXCEPT ![k] = @ \ {j}]
        /\ uploads' = [uploads EXCEPT ![k] = {[b EXCEPT !.id = nextID]}]
        /\ deletes' = [deletes EXCEPT ![k] = {b}]
  BY Zenon DEF Repair
<1>1. PICK x \in j.job.blocks :
        /\ jobs' = [jobs EXCEPT ![k] = @ \ {j}]
        /\ uploads' = [uploads EXCEPT ![k] = {[x EXCEPT !.id = nextID]}]
        /\ deletes' = [deletes EXCEPT ![k] = {x}]
  BY <1>0, Zenon
<1>2. /\ pc' = [pc EXCEPT ![k] = "upload"] /\ nextID' = nextID + 1
      /\ UNCHANGED <<bucket, shipped, ring, metas, duplicateIDs>>
  BY DEF Repair
<1>3. Good(x) /\ Types
  BY DEF IInv, Blocks, JobOK
<1>4. nextID \in Nat /\ nextID' \in Nat /\ nextID < nextID'
  BY <1>2, <1>3 DEF Types
<1>5. Types'
  <2>1. \A d \in shipped' : d[1] < nextID'
    BY <1>2, <1>3, <1>4 DEF Types
  <2>2. /\ jobs' = [c \in Compactors |-> jobs'[c]]
        /\ uploads' = [c \in Compactors |-> uploads'[c]]
        /\ deletes' = [c \in Compactors |-> deletes'[c]]
        /\ pc' = [c \in Compactors |-> pc'[c]]
    BY <1>1, <1>2, <1>3, Zenon DEF Types
  <2> QED
    BY <1>2, <1>3, <1>4, <2>1, <2>2 DEF Types
<1>6. \A b : Good(b) => Good(b)'
  BY <1>2, <1>3, <1>4, GoodStays
<1>7. \A i : JobOK(i) => JobOK(i)'
  BY <1>6, JobStays
<1>8. PICK y : y = [x EXCEPT !.id = nextID]
  BY Zenon
<1>9. y.id = nextID /\ y.sources = x.sources /\ y.shard = x.shard /\ y.data = x.data
  BY <1>8
<1>10. Good(y)'
  <2>1. Good(x)'
    BY <1>3, <1>6
  <2> QED
    BY <1>2, <1>4, <1>9, <2>1 DEF Good
<1>11. before(x, y)
  BY <1>3, <1>4, <1>9, FiniteSources DEF before, Good
<1>12. \A c \in Compactors :
         /\ jobs'[c] \subseteq jobs[c]
         /\ c = k => uploads'[c] = {y} /\ deletes'[c] = {x} /\ pc'[c] = "upload"
         /\ c # k => uploads'[c] = uploads[c] /\ deletes'[c] = deletes[c] /\ pc'[c] = pc[c]
  BY <1>1, <1>2, <1>8, Zenon DEF IInv, Types
<1>13. Blocks'
  <2>1. \A b \in bucket' : Good(b)'
    BY <1>2, <1>6 DEF IInv, Blocks
  <2>2. ASSUME NEW c \in Compactors
        PROVE  \A b \in metas'[c] \cup duplicateIDs'[c] \cup uploads'[c] \cup deletes'[c] : Good(b)'
    BY <1>2, <1>3, <1>6, <1>10, <1>12 DEF IInv, Blocks
  <2>3. ASSUME NEW c \in Compactors
        PROVE  \A i \in jobs'[c] : JobOK(i)'
    BY <1>7, <1>12 DEF IInv, Blocks
  <2> QED
    BY <2>1, <2>2, <2>3 DEF Blocks
<1>14. Handover'
  <2>1. HeldAfter(x, bucket' \cup {y})
    BY <1>9, <1>11 DEF HeldAfter
  <2> QED
    BY <1>2, <1>12, <2>1, Zenon DEF IInv, Handover
<1>15. NoDataLost'
  BY <1>2 DEF IInv, NoDataLost, Holders
<1> QED
  BY <1>5, <1>13, <1>14, <1>15 DEF IInv

LEMMA UploadBlockKeeps ==
    ASSUME IInv, NEW k \in Compactors, UploadBlock(k)
    PROVE  IInv'
<1>1. PICK x \in uploads[k] :
        bucket' = bucket \cup {x} /\ uploads' = [uploads EXCEPT ![k] = @ \ {x}]
  BY Zenon DEF UploadBlock
<1>2. /\ UNCHANGED <<shipped, nextID, ring, metas, duplicateIDs, jobs, deletes>>
      /\ pc' = [pc EXCEPT ![k] = IF uploads'[k] = {} THEN "delete" ELSE @]
      /\ pc[k] = "upload"
  BY DEF UploadBlock
<1>3. \A c \in Compactors :
        /\ uploads'[c] \subseteq uploads[c] /\ uploads[c] \subseteq uploads'[c] \cup {x}
        /\ pc'[c] = "delete" => uploads'[c] = {} \/ pc[c] = "delete"
  BY <1>1, <1>2 DEF IInv, Types
<1>4. Types'
  BY <1>1, <1>2, Zenon DEF IInv, Types
<1>5. Blocks'
  BY <1>1, <1>2, <1>3, GoodUnchanged DEF IInv, Blocks
<1>6. Handover'
  <2>1. \A b : HeldAfter(b, bucket) => HeldAfter(b, bucket')
    BY <1>1 DEF HeldAfter
  <2>2. \A b : \A c \in Compactors : HeldAfter(b, bucket \cup uploads[c]) => HeldAfter(b, bucket' \cup uploads'[c])
    BY <1>1, <1>3 DEF HeldAfter
  <2>3. \A c \in Compactors : pc'[c] = "delete" => uploads'[c] = {}
    BY <1>3, Zenon DEF IInv, Handover
  <2> QED
    BY <1>2, <2>1, <2>2, <2>3 DEF IInv, Handover
<1>7. NoDataLost'
  BY <1>1, <1>2 DEF IInv, NoDataLost, Holders
<1> QED
  BY <1>4, <1>5, <1>6, <1>7 DEF IInv

\* The steps that only drop what a compactor holds.
LEMMA DropKeeps ==
    ASSUME IInv, UNCHANGED <<bucket, shipped, nextID, ring>>, NEW k \in Compactors,
           NotOwned(k) \/ MarkNoCompact(k) \/ Iterate(k) \/ Stop(k)
    PROVE  IInv'
<1>1. Types'
  BY DEF IInv, Types, NotOwned, MarkNoCompact, Iterate, Stop
<1>2. \A c \in Compactors :
        /\ metas'[c] \subseteq metas[c] /\ duplicateIDs'[c] \subseteq duplicateIDs[c] /\ jobs'[c] \subseteq jobs[c]
        /\ uploads'[c] = uploads[c] \/ (uploads'[c] = {} /\ deletes'[c] = {})
        /\ uploads'[c] \subseteq uploads[c] /\ deletes'[c] \subseteq deletes[c]
        /\ pc'[c] = "delete" => pc[c] = "delete"
  BY DEF IInv, Types, NotOwned, MarkNoCompact, Iterate, Stop
<1>3. Blocks'
  BY <1>2, GoodUnchanged DEF IInv, Blocks
<1>4. Handover'
  BY <1>2, Zenon DEF IInv, Handover
<1>5. NoDataLost'
  BY DEF IInv, NoDataLost, Holders
<1> QED
  BY <1>1, <1>3, <1>4, <1>5 DEF IInv

LEMMA NextKeeps ==
    ASSUME FixedShardCount, IInv, [Next]_vars
    PROVE  IInv'
<1>1. ring \subseteq Compactors
  BY DEF IInv, Types
<1>2. CASE TimePasses \/ UNCHANGED vars
  <2>1. UNCHANGED <<bucket, shipped, nextID, ring, pc, metas, duplicateIDs, jobs, uploads, deletes>>
    BY <1>2 DEF vars, compactor, TimePasses
  <2>2. Types'
    BY <2>1 DEF IInv, Types
  <2>3. Blocks'
    BY <2>1, GoodUnchanged DEF IInv, Blocks
  <2>4. Handover' /\ NoDataLost'
    BY <2>1, Zenon DEF IInv, Handover, NoDataLost, Holders
  <2> QED
    BY <2>2, <2>3, <2>4 DEF IInv
<1>3. CASE \E w \in Windows, hashes \in (SUBSET Hashes) \ {{}} : Ship(w, hashes)
  BY <1>3, ShipKeeps
<1>4. ASSUME NEW k \in ring, Step(k)
      PROVE  IInv'
  <2>1. k \in Compactors
    BY <1>1
  <2>2. CASE SyncMetas(k)
    BY <2>1, <2>2, SyncMetasKeeps
  <2>3. CASE GarbageCollect(k)
    BY <2>1, <2>3, GarbageCollectKeeps
  <2>4. CASE Groups(k)
    BY <2>1, <2>4, GroupsKeeps
  <2>5. CASE Compact(k)
    BY <2>1, <2>5, CompactKeeps
  <2>6. CASE UploadBlock(k)
    BY <2>1, <2>6, UploadBlockKeeps
  <2>7. CASE DeleteBlock(k)
    BY <2>1, <2>7, DeleteBlockKeeps
  <2>8. CASE Iterate(k)
    <3>1. UNCHANGED <<bucket, shipped, nextID, ring>>
      BY <2>8 DEF Iterate
    <3> QED
      BY <2>1, <2>8, <3>1, DropKeeps
  <2> QED
    BY <1>4, <2>2, <2>3, <2>4, <2>5, <2>6, <2>7, <2>8 DEF Step
<1>5. ASSUME NEW k \in ring, NotOwned(k) \/ MarkNoCompact(k) \/ Stop(k)
      PROVE  IInv'
  <2>1. UNCHANGED <<bucket, shipped, nextID, ring>>
    BY <1>5 DEF NotOwned, MarkNoCompact, Stop
  <2> QED
    BY <1>1, <1>5, <2>1, DropKeeps
<1>6. ASSUME NEW k \in ring, Repair(k)
      PROVE  IInv'
  BY <1>1, <1>6, RepairKeeps
<1> QED
  BY <1>2, <1>3, <1>4, <1>5, <1>6 DEF Next, Compaction

(***************************************************************************)
(* Whatever compactors share the tenant, whoever stops where, and however  *)
(* stale the metas that a plan or a mark for deletion rests on, no series  *)
(* of a shipped block is lost (garbageCollectBlocks and runCompactionJob,  *)
(* bucket_compactor.go), while the tenant's shard count stays the same.    *)
(***************************************************************************)
THEOREM CompactionLosesNothing ==
    ASSUME FixedShardCount
    PROVE  Spec => []NoDataLost
<1>1. IInv /\ [Next]_vars => IInv'
  BY NextKeeps
<1>2. IInv => NoDataLost
  BY DEF IInv
<1> QED
  BY <1>1, <1>2, InitHolds, PTL DEF Spec
==============================================================================
