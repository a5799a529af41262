-------------------------- MODULE ShardMigrationProofs --------------------------
(***************************************************************************)
(* Proofs about ShardMigration, for any tenants, numbers of shards, writes *)
(* and starts.                                                             *)
(*                                                                         *)
(* The inductive invariant says for every point of the migration what      *)
(* keeps the copies of a bucket alike and where they can be: a migration   *)
(* that is cut short leaves only copies that agree (CopiesAgree), so that  *)
(* the next one may start from any of them.  Only the tenants that strayed *)
(* are excepted: a start left them in two shards and wrote to one.         *)
(***************************************************************************)
EXTENDS ShardMigration, WellFoundedInduction, TLAPS

To(t) == home[t][target]

Phases == {"down", "cold", "failed", "create", "scan", "copy", "delete", "meta", "trim",
           "recover", "up"}
Plans == [copy : [Shards -> SUBSET Tenants], source : [Tenants -> Shards \cup {none}],
          delete : [Shards -> SUBSET Tenants], next : Nat]

\* Every copy of a bucket is the same, at any time.
CopiesAgree == \A t \in Tenants \ strayed : \A i, k \in Holding(t) : bucket[i][t] = bucket[k][t]

\* How many files there are at each point.
FilesFit ==
    /\ files >= meta
    /\ pc \in {"scan", "copy", "delete", "meta", "trim"} => files >= target
    /\ pc \in {"recover", "up"} => files = target
    /\ pc = "trim" => meta = target
    /\ pc = "cold" => files <= target /\ meta = 0 /\ \A t \in Tenants : Holding(t) = {}

\* What is to be deleted is in the wrong shard, and covers all that is.
DeletesMisplaced(t) ==
    /\ \A i \in Shards : t \in plan.delete[i] => i # To(t)
    /\ \A i \in Holding(t) : i = To(t) \/ t \in plan.delete[i]

\* A bucket is in its shard or will be copied there, from a shard that has it.
Planned ==
    pc = "copy" =>
      \A t \in Tenants :
        /\ DeletesMisplaced(t)
        /\ \A i \in Shards : t \in plan.copy[i] => i = To(t) /\ plan.source[t] \in Holding(t)
        /\ Holding(t) # {} => To(t) \in Holding(t) \/ t \in plan.copy[To(t)]

\* Nothing is deleted that is not in its shard.
Copied ==
    pc = "delete" =>
      \A t \in Tenants : DeletesMisplaced(t) /\ (Holding(t) # {} => To(t) \in Holding(t))

\* After a migration every tenant is in its shard; a start without one relies
\* on an earlier one.
Placed ==
    /\ pc \in {"meta", "trim"} => \A t \in Tenants : Holding(t) \subseteq {To(t)}
    /\ pc \in {"recover", "up"} => \A t \in Tenants \ strayed : Holding(t) \subseteq {To(t)}

\* The shards recovered so far have their trackers and no tenant that is not
\* allowed.
Recovered ==
    /\ pc # "recover" => plan.next = 0
    /\ pc \notin {"recover", "up"} => tracker = EmptyShard
    /\ pc = "recover" =>
         \A t \in Tenants :
           /\ tracker[t] # none => t \in allowed /\ tracker[t] \in Holding(t)
           /\ t \notin strayed => \A i \in Holding(t) : i < plan.next => t \in allowed /\ tracker[t] = i
    /\ pc = "up" =>
         \A t \in Tenants :
           /\ tracker[t] # none => t \in allowed /\ tracker[t] \in Holding(t)
           /\ t \notin strayed => \A i \in Holding(t) : t \in allowed /\ tracker[t] = i

IInv ==
    /\ TypeOK /\ pc \in Phases /\ plan \in Plans
    /\ CopiesAgree /\ FilesFit /\ Planned /\ Copied /\ Placed /\ Recovered

----------------------------------------------------------------------------
(* Least and greatest elements *)

\* A set of naturals that is not empty has a least element.
LEMMA NatMin ==
    ASSUME NEW S, S \subseteq Nat, S # {}
    PROVE  \E x \in S : \A y \in S : x <= y
<1> DEFINE R == OpToRel(<, Nat)
<1>1. IsWellFoundedOn(R, Nat)
  BY NatLessThanWellFounded
<1>2. \A x, y \in Nat : y < x => <<y, x>> \in R
  BY DEF OpToRel
<1> HIDE DEF R
<1>3. PICK x \in S : \A y \in S : ~(<<y, x>> \in R)
  BY <1>1, WFMin, Zenon
<1>4. \A y \in S : x <= y
  <2> TAKE y \in S
  <2>1. x \in Nat /\ y \in Nat
    OBVIOUS
  <2>2. ~(y < x)
    BY <1>2, <1>3, <2>1, Zenon
  <2> QED BY <2>1, <2>2
<1> QED BY <1>4

\* Min, which orders the transactions of a migration, picks it.
LEMMA MinIn ==
    ASSUME NEW S, S \subseteq Nat, S # {}
    PROVE  Min(S) \in S /\ \A y \in S : Min(S) <= y
BY NatMin, Zenon DEF Min

\* Max, which the last shard read wins by, picks an element too.
LEMMA MaxIn ==
    ASSUME NEW N \in Nat, NEW S, S \subseteq 0..N, S # {}
    PROVE  Max(S) \in S /\ \A y \in S : Max(S) >= y
<1> DEFINE T == {N - y : y \in S}
<1>0. \A y \in S : y \in Nat /\ y <= N /\ N - y \in Nat
  <2> TAKE y \in S
  <2>1. y \in 0..N
    OBVIOUS
  <2> QED BY <2>1
<1>1. T \subseteq Nat
  BY <1>0
<1>5. T # {}
  OBVIOUS
<1>2. PICK x \in T : \A y \in T : x <= y
  BY <1>1, <1>5, NatMin, Zenon
<1>3. PICK m \in S : x = N - m
  OBVIOUS
<1>4. \A y \in S : m >= y
  <2> TAKE y \in S
  <2>1. N - y \in T
    OBVIOUS
  <2>2. N - m <= N - y
    BY <1>2, <1>3, <2>1, Zenon
  <2> QED BY <1>0, <2>2
<1> QED BY <1>4, Zenon DEF Max
----------------------------------------------------------------------------
(* Reading the definitions *)

\* Which shards a bucket is in, before and after a step.
LEMMA HoldingIs ==
    ASSUME NEW t, NEW i
    PROVE  /\ i \in Holding(t) <=> i \in Shards /\ i < files /\ bucket[i][t] # none
           /\ i \in Holding(t)' <=> i \in Shards /\ i < files' /\ bucket'[i][t] # none
BY DEF Holding

\* The shard of a tenant is a shard, below the number it was computed for.
LEMMA HomeIs ==
    ASSUME NEW h \in [Tenants -> JumpHash], NEW t \in Tenants, NEW n \in Counts
    PROVE  h[t][n] \in Shards /\ h[t][n] \in Nat /\ h[t][n] < n
BY ShardConstants DEF JumpHash, Counts, Shards

LEMMA NextShardIs ==
    ASSUME NEW todo \in [Shards -> SUBSET Tenants], ~Nothing(todo)
    PROVE  NextShard(todo) \in Shards /\ todo[NextShard(todo)] # {}
<1> DEFINE S == {i \in Shards : todo[i] # {}}
<1>1. S # {} /\ S \subseteq Nat
  BY ShardConstants DEF Nothing, Shards
<1>2. Min(S) \in S
  BY <1>1, MinIn
<1> QED BY <1>2 DEF NextShard

\* The invariant holds at first: there is no file.
LEMMA Initially == Init => IInv
<1> SUFFICES ASSUME Init PROVE IInv
  OBVIOUS
<1>1. \A t \in Tenants : Holding(t) = {}
  BY ShardConstants DEF Init, Holding, Shards
<1>2. TypeOK
  BY ShardConstants DEF Init, TypeOK, EmptyShard, Buckets, Counts
<1>3. plan \in Plans /\ pc \in Phases
  BY DEF Init, NoPlan, Plans, Phases
<1> QED BY <1>1, <1>2, <1>3 DEF Init, IInv, CopiesAgree, FilesFit, Planned, Copied, Placed, Recovered, NoPlan
----------------------------------------------------------------------------
(* Steps that leave every bucket where it is *)

\* A step that touches neither files nor buckets keeps the copies.
LEMMA SameHolding ==
    ASSUME UNCHANGED <<files, bucket>>, strayed \subseteq strayed'
    PROVE  /\ \A t \in Tenants : Holding(t)' = Holding(t)
           /\ CopiesAgree => CopiesAgree'
           /\ strayed' = strayed => \A t \in Tenants : Stored(t)' = Stored(t)
<1>1. \A t \in Tenants : Holding(t)' = Holding(t)
  BY DEF Holding
<1> QED BY <1>1 DEF CopiesAgree, Stored

LEMMA PrepareKeeps ==
    ASSUME IInv, NEW n \in Counts, prepare(n)
    PROVE  IInv'
<1> USE DEF prepare, Start
<1>1. \A t \in Tenants : Holding(t)' = Holding(t)
  BY SameHolding
<1>2. TypeOK'
  BY DEF IInv, TypeOK, Astray
<1>3. pc' \in Phases /\ plan' \in Plans
  BY DEF IInv, Phases
<1>4. CopiesAgree'
  BY SameHolding DEF IInv
<1>5. files \in Nat /\ meta \in Nat /\ n \in Nat
  BY ShardConstants DEF IInv, TypeOK, Counts
<1>6. pc' = "cold" => \A t \in Tenants : Holding(t) = {}
  BY ShardConstants, HoldingIs DEF Shards
<1>7. FilesFit'
  BY <1>1, <1>5, <1>6 DEF IInv, FilesFit, Counts, NoMigration
<1>8. pc' = "recover" => \A t \in Tenants \ strayed' : Holding(t) \subseteq {home[t][n]}
  BY DEF Astray
<1>9. Placed'
  BY <1>1, <1>8 DEF Placed, To
<1>10. plan.next = 0 /\ tracker = EmptyShard
  BY DEF IInv, Recovered
<1>11. Recovered'
  BY <1>1, <1>10, ShardConstants, HoldingIs DEF Recovered, EmptyShard, Shards
<1>12. Planned' /\ Copied'
  BY DEF Planned, Copied
<1> QED BY <1>2, <1>3, <1>4, <1>7, <1>9, <1>11, <1>12 DEF IInv

\* A new file has no bucket.
LEMMA AppendHolding ==
    ASSUME TypeOK, appendOpenShard, UNCHANGED bucket
    PROVE  \A t \in Tenants : Holding(t)' = Holding(t)
<1> TAKE t \in Tenants
<1>1. bucket[files][t] = none \/ files \notin Shards
  BY DEF TypeOK, EmptyShard
<1>2. \A i : i \in Shards => (i < files' <=> i < files \/ i = files)
  BY ShardConstants DEF TypeOK, Shards, appendOpenShard
<1>3. \A i : i \in Holding(t)' <=> i \in Holding(t)
  BY <1>1, <1>2, HoldingIs
<1> QED BY <1>3

LEMMA AppendKeepsType ==
    ASSUME TypeOK, appendOpenShard, UNCHANGED <<home, bucket, target, allowed, tracker, strayed>>,
           meta' \in 0..MaxShards
    PROVE  TypeOK'
<1>1. files' \in 0..MaxShards /\ files' = files + 1 /\ files \in Nat
  BY ShardConstants DEF TypeOK, appendOpenShard, Counts
<1>2. \A i \in Shards : i >= files' => bucket'[i] = EmptyShard
  BY <1>1, ShardConstants DEF TypeOK, Shards
<1> QED BY <1>1, <1>2 DEF TypeOK

LEMMA ColdStartKeeps == IInv /\ coldStart => IInv'
<1> SUFFICES ASSUME IInv, coldStart PROVE IInv'
  OBVIOUS
<1> USE DEF coldStart
<1>1. \A t \in Tenants : Holding(t)' = Holding(t)
  BY AppendHolding, SameHolding DEF IInv
<1>2. \A t \in Tenants : Holding(t) = {}
  BY DEF IInv, FilesFit
<1>3. TypeOK'
  <2>1. CASE appendOpenShard
    BY <2>1, AppendKeepsType DEF IInv, TypeOK
  <2>2. CASE ~appendOpenShard
    BY <2>2, ShardConstants DEF IInv, TypeOK, Counts
  <2> QED BY <2>1, <2>2
<1>4. pc' \in Phases /\ plan' \in Plans
  BY DEF IInv, Phases, appendOpenShard
<1>5. files \in Nat /\ target \in Nat
  BY ShardConstants DEF IInv, TypeOK, Counts
<1>6. FilesFit'
  BY <1>1, <1>2, <1>5 DEF IInv, FilesFit, appendOpenShard
<1>7. pc' \in {"cold", "recover"}
  BY DEF appendOpenShard
<1>8. tracker' = EmptyShard /\ plan'.next = 0
  BY DEF IInv, Recovered
<1>9. Recovered'
  BY <1>1, <1>2, <1>7, <1>8 DEF Recovered, EmptyShard
<1> QED BY <1>1, <1>2, <1>3, <1>4, <1>6, <1>7, <1>9 DEF IInv, CopiesAgree, Planned, Copied, Placed

LEMMA CreateKeeps == IInv /\ createShardsIfNeeded => IInv'
<1> SUFFICES ASSUME IInv, createShardsIfNeeded PROVE IInv'
  OBVIOUS
<1> USE DEF createShardsIfNeeded
<1>1. \A t \in Tenants : Holding(t)' = Holding(t)
  BY AppendHolding, SameHolding DEF IInv
<1>2. \A t \in Tenants : \A i \in Holding(t) : bucket'[i][t] = bucket[i][t]
  OBVIOUS
<1>3. TypeOK'
  <2>1. CASE appendOpenShard
    BY <2>1, AppendKeepsType DEF IInv, TypeOK
  <2>2. CASE ~appendOpenShard
    BY <2>2, ShardConstants DEF IInv, TypeOK, Counts
  <2> QED BY <2>1, <2>2
<1>4. pc' \in Phases /\ plan' \in Plans
  BY DEF IInv, Phases, appendOpenShard
<1>5. files \in Nat /\ target \in Nat /\ meta \in Nat
  BY ShardConstants DEF IInv, TypeOK, Counts
<1>6. pc' \in {"create", "scan"}
  BY DEF appendOpenShard
<1>7. FilesFit'
  BY <1>5, <1>6 DEF IInv, FilesFit, appendOpenShard
<1>8. Recovered'
  BY <1>6 DEF IInv, Recovered
<1>9. CopiesAgree'
  BY <1>1, <1>2 DEF IInv, CopiesAgree
<1> QED BY <1>3, <1>4, <1>6, <1>7, <1>8, <1>9 DEF IInv, Planned, Copied, Placed

\* The scan's plan: every misplaced copy is deleted, and a bucket that is not
\* in its shard is copied there from one of them.
LEMMA ScanPlan ==
    ASSUME IInv, pc = "scan", NEW p, p = scanShardsForTenants
    PROVE  /\ p \in Plans /\ p.next = 0
           /\ \A t \in Tenants :
                /\ \A i \in Shards : t \in p.delete[i] <=> i \in Holding(t) /\ i # To(t)
                /\ \A i \in Shards : t \in p.copy[i] => i = To(t) /\ p.source[t] \in Holding(t)
                /\ Holding(t) # {} => To(t) \in Holding(t) \/ t \in p.copy[To(t)]
<1> DEFINE Mis(t) == Holding(t) \ {home[t][target]}
<1>1. \A t \in Tenants : Mis(t) # {} => Max(Mis(t)) \in Mis(t)
  <2> SUFFICES ASSUME NEW t \in Tenants, Mis(t) # {} PROVE Max(Mis(t)) \in Mis(t)
    OBVIOUS
  <2>1. Mis(t) \subseteq 0..(MaxShards - 1) /\ MaxShards - 1 \in Nat
    BY ShardConstants DEF Holding, Shards
  <2> QED BY <2>1, MaxIn
<1>2. \A t \in Tenants : home[t][target] \in Shards
  BY HomeIs DEF IInv, TypeOK
<1>3. \A t \in Tenants : Mis(t) \subseteq Shards
  BY DEF Holding
<1>4. p = [copy |-> [i \in Shards |-> {t \in Tenants : Mis(t) # {} /\ i = home[t][target] /\ i \notin Holding(t)}],
          source |-> [t \in Tenants |-> IF Mis(t) = {} THEN none ELSE Max(Mis(t))],
          delete |-> [i \in Shards |-> {t \in Tenants : i \in Mis(t)}],
          next |-> 0]
  BY DEF scanShardsForTenants
<1>5. p \in Plans /\ p.next = 0
  BY <1>1, <1>3, <1>4 DEF Plans
<1>6. \A t \in Tenants, i \in Shards : t \in p.delete[i] <=> i \in Holding(t) /\ i # To(t)
  BY <1>4 DEF To
<1>7. \A t \in Tenants, i \in Shards : t \in p.copy[i] => i = To(t) /\ p.source[t] \in Holding(t)
  BY <1>1, <1>4 DEF To
<1>8. \A t \in Tenants : Holding(t) # {} => To(t) \in Holding(t) \/ t \in p.copy[To(t)]
  BY <1>2, <1>4 DEF To
<1> QED BY <1>5, <1>6, <1>7, <1>8

LEMMA ScanKeeps == IInv /\ Scan => IInv'
<1> SUFFICES ASSUME IInv, Scan PROVE IInv'
  OBVIOUS
<1> USE DEF Scan
<1>1. \A t \in Tenants : Holding(t)' = Holding(t) /\ To(t)' = To(t)
  BY SameHolding DEF To
<1>2. TypeOK' /\ CopiesAgree'
  BY SameHolding DEF IInv, TypeOK
<1>3. PICK p : p = plan' /\ p = scanShardsForTenants
  OBVIOUS
<1>4. plan' \in Plans /\ plan'.next = 0 /\ pc' \in Phases
  BY <1>3, ScanPlan DEF Phases
<1>5. FilesFit' /\ Copied' /\ Placed'
  BY DEF IInv, FilesFit, Copied, Placed
<1>6. \A t \in Tenants : Holding(t) \subseteq Shards
  BY DEF Holding
<1>7. Planned'
  BY <1>1, <1>3, <1>6, ScanPlan DEF Planned, DeletesMisplaced
<1>8. Recovered'
  BY <1>4 DEF IInv, Recovered
<1> QED BY <1>2, <1>4, <1>5, <1>7, <1>8 DEF IInv

LEMMA MetadataKeeps == IInv /\ writeShardMetadata => IInv'
<1> SUFFICES ASSUME IInv, writeShardMetadata PROVE IInv'
  OBVIOUS
<1> USE DEF writeShardMetadata
<1>1. \A t \in Tenants : Holding(t)' = Holding(t) /\ To(t)' = To(t)
  BY SameHolding DEF To
<1>2. TypeOK' /\ CopiesAgree'
  BY SameHolding, ShardConstants DEF IInv, TypeOK, Counts
<1> QED BY <1>1, <1>2 DEF IInv, Phases, FilesFit, Planned, Copied, Placed, Recovered

LEMMA EndKeeps == IInv /\ End => IInv'
<1> SUFFICES ASSUME IInv, End PROVE IInv'
  OBVIOUS
<1> USE DEF End
<1>1. TypeOK' /\ CopiesAgree'
  BY SameHolding DEF IInv, TypeOK, EmptyShard
<1>2. plan' \in Plans /\ plan'.next = 0 /\ pc' \in Phases
  BY DEF NoPlan, Plans, Phases
<1> QED BY <1>1, <1>2 DEF IInv, FilesFit, Planned, Copied, Placed, Recovered

----------------------------------------------------------------------------
(* Steps that move buckets *)

\* A transaction on shard i that gives its buckets the values of b.
Written(i, b) ==
    /\ bucket' \in [Shards -> [Tenants -> Buckets]] /\ bucket'[i] = b
    /\ \A k \in Shards \ {i} : bucket'[k] = bucket[k]
    /\ \A t \in Tenants, k \in Shards \ {i} : k \in Holding(t)' <=> k \in Holding(t)
    /\ \A t \in Tenants : i \in Holding(t)' <=> i < files /\ b[t] # none
LEMMA WrittenHolding ==
    ASSUME NEW i \in Shards, NEW b \in [Tenants -> Buckets],
           TypeOK /\ bucket' = [bucket EXCEPT ![i] = b] /\ files' = files
    PROVE  Written(i, b)
<1>1. /\ bucket' \in [Shards -> [Tenants -> Buckets]] /\ bucket'[i] = b
      /\ \A k \in Shards \ {i} : bucket'[k] = bucket[k]
  BY DEF TypeOK
<1> QED BY <1>1, HoldingIs DEF Written

\* What a transaction of copyTenantsToShards writes: the buckets that belong
\* in shard i, from a copy of each.
CopiesInto(i, b) ==
    /\ i < files /\ UNCHANGED pc
    /\ bucket' = [bucket EXCEPT ![i] = b] /\ plan' = [plan EXCEPT !.copy[i] = {}]
    /\ \A t \in plan.copy[i] : i = To(t) /\ b[t] # none /\ \E k \in Holding(t) : b[t] = bucket[k][t]
    /\ \A t \in Tenants \ plan.copy[i] : b[t] = bucket[i][t]

LEMMA CopyWrites ==
    ASSUME IInv, copyTenantsToShards, ~Nothing(plan.copy)
    PROVE  \E i \in Shards, b \in [Tenants -> Buckets] : CopiesInto(i, b)
<1>1. plan.copy \in [Shards -> SUBSET Tenants] /\ plan.source \in [Tenants -> Shards \cup {none}]
  BY DEF IInv, Plans
<1>2. PICK i \in Shards : i = NextShard(plan.copy) /\ plan.copy[i] # {}
  BY <1>1, NextShardIs
<1> DEFINE b == [t \in Tenants |-> IF t \in plan.copy[i] THEN bucket[plan.source[t]][t] ELSE bucket[i][t]]
<1>3. bucket' = [bucket EXCEPT ![i] = b] /\ plan' = [plan EXCEPT !.copy[i] = {}] /\ UNCHANGED pc
  BY <1>2 DEF copyTenantsToShards, IInv, TypeOK
<1>4. \A t \in plan.copy[i] : t \in Tenants /\ i = To(t) /\ plan.source[t] \in Holding(t)
  BY <1>1 DEF copyTenantsToShards, IInv, Planned
<1>5. \A t \in plan.copy[i] : b[t] # none /\ b[t] = bucket[plan.source[t]][t] /\ b[t] \in Buckets
  BY <1>4, HoldingIs DEF IInv, TypeOK
<1>6. b \in [Tenants -> Buckets]
  BY <1>5, Zenon DEF IInv, TypeOK
<1>7. i < files
  <2>1. PICK t \in plan.copy[i] : TRUE
    BY <1>2
  <2>2. i < target /\ i \in Nat
    BY <1>4, <2>1, HomeIs DEF IInv, TypeOK, To
  <2>3. files >= target /\ files \in Nat /\ target \in Nat
    BY ShardConstants DEF IInv, FilesFit, TypeOK, Counts, copyTenantsToShards
  <2> QED BY <2>2, <2>3
<1> HIDE DEF b
<1>8. \A t \in Tenants \ plan.copy[i] : b[t] = bucket[i][t]
  BY DEF b
<1>9. CopiesInto(i, b)
  BY <1>3, <1>4, <1>5, <1>7, <1>8 DEF CopiesInto
<1> QED BY <1>6, <1>9

\* What that leaves.
LEMMA CopyHolding ==
    ASSUME IInv, copyTenantsToShards, NEW i \in Shards, NEW b \in [Tenants -> Buckets], CopiesInto(i, b)
    PROVE  /\ Written(i, b)
           /\ \A t \in Tenants : Holding(t)' = IF t \in plan.copy[i] THEN Holding(t) \cup {i} ELSE Holding(t)
<1>1. Written(i, b)
  <2>1. bucket' = [bucket EXCEPT ![i] = b] /\ files' = files /\ TypeOK
    BY DEF IInv, CopiesInto, copyTenantsToShards
  <2> QED BY <2>1, WrittenHolding, Zenon
<1>2. \A t \in Tenants : Holding(t)' = IF t \in plan.copy[i] THEN Holding(t) \cup {i} ELSE Holding(t)
  <2> TAKE t \in Tenants
  <2>1. Holding(t) \subseteq Shards /\ Holding(t)' \subseteq Shards
    BY DEF Holding
  <2>2. i \in Holding(t)' <=> i \in Holding(t) \/ t \in plan.copy[i]
    BY <1>1, HoldingIs DEF CopiesInto, Written
  <2>3. \A k \in Shards \ {i} : k \in Holding(t)' <=> k \in Holding(t)
    BY <1>1 DEF Written
  <2> QED BY <2>1, <2>2, <2>3
<1> QED BY <1>1, <1>2

LEMMA CopyKeeps == IInv /\ copyTenantsToShards => IInv'
<1> SUFFICES ASSUME IInv, copyTenantsToShards PROVE IInv'
  OBVIOUS
<1>1. CASE Nothing(plan.copy)
  <2>1. UNCHANGED <<home, files, bucket, meta, target, plan, allowed, tracker, strayed>> /\ pc = "copy" /\ pc' = "delete"
    BY <1>1 DEF copyTenantsToShards
  <2>2. \A t \in Tenants : Holding(t)' = Holding(t) /\ To(t)' = To(t)
    BY <2>1, SameHolding DEF To
  <2>3. TypeOK' /\ CopiesAgree'
    BY <2>1, SameHolding DEF IInv, TypeOK
  <2>4. \A t \in Tenants : t \notin plan.copy[To(t)]
    BY <1>1, HomeIs DEF Nothing, IInv, TypeOK, To
  <2>5. Copied'
    BY <2>1, <2>2, <2>4 DEF IInv, Planned, Copied, DeletesMisplaced
  <2> QED BY <2>1, <2>3, <2>5 DEF IInv, Phases, FilesFit, Planned, Placed, Recovered
<1>2. CASE ~Nothing(plan.copy)
  <2>1. PICK i \in Shards, b \in [Tenants -> Buckets] : CopiesInto(i, b)
    BY <1>2, CopyWrites
  <2>2. UNCHANGED <<home, files, meta, target, allowed, tracker, strayed>> /\ pc = "copy"
    BY DEF copyTenantsToShards
  <2>3. /\ Written(i, b)
        /\ \A t \in Tenants : Holding(t)' = IF t \in plan.copy[i] THEN Holding(t) \cup {i} ELSE Holding(t)
    BY <2>1, CopyHolding
  <2>4. TypeOK'
    BY <2>1, <2>2, <2>3, ShardConstants DEF IInv, TypeOK, Shards, CopiesInto, Written
  <2>5. plan' \in Plans /\ plan'.delete = plan.delete /\ plan'.source = plan.source
        /\ plan'.next = plan.next /\ plan'.copy[i] = {} /\ \A k \in Shards \ {i} : plan'.copy[k] = plan.copy[k]
    BY <2>1 DEF IInv, Plans, CopiesInto
  <2>7. CopiesAgree'
    <3> SUFFICES ASSUME NEW t \in Tenants \ strayed, NEW j \in Holding(t)', NEW k \in Holding(t)'
                 PROVE  bucket'[j][t] = bucket'[k][t]
      BY <2>2 DEF CopiesAgree
    <3>1. j \in Shards /\ k \in Shards
      BY HoldingIs
    <3>2. \A m \in Holding(t)' : \E n \in Holding(t) : bucket'[m][t] = bucket[n][t]
      <4> TAKE m \in Holding(t)'
      <4>1. m \in Shards
        BY HoldingIs
      <4> QED BY <2>1, <2>3, <4>1 DEF CopiesInto, Written
    <3> QED BY <3>2 DEF IInv, CopiesAgree
  <2>8. \A t \in Tenants : To(t)' = To(t)
    BY <2>2 DEF To
  <2>9. Planned'
    BY <2>1, <2>2, <2>3, <2>5, <2>8 DEF IInv, Planned, DeletesMisplaced, CopiesInto
  <2> QED BY <2>1, <2>2, <2>4, <2>5, <2>7, <2>9 DEF IInv, Phases, FilesFit, Copied, Placed, Recovered, CopiesInto
<1> QED BY <1>1, <1>2

\* What a transaction of deleteTenantsFromShards removes: buckets that are not
\* in their shard.
DeletesFrom(i, b) ==
    /\ UNCHANGED pc
    /\ bucket' = [bucket EXCEPT ![i] = b] /\ plan' = [plan EXCEPT !.delete[i] = {}]
    /\ \A t \in Tenants : b[t] = IF t \in plan.delete[i] THEN none ELSE bucket[i][t]
    /\ \A t \in plan.delete[i] : i # To(t)

LEMMA DeleteWrites ==
    ASSUME IInv, deleteTenantsFromShards, ~Nothing(plan.delete)
    PROVE  \E i \in Shards, b \in [Tenants -> Buckets] : DeletesFrom(i, b)
<1>1. plan.delete \in [Shards -> SUBSET Tenants]
  BY DEF IInv, Plans
<1>2. PICK i \in Shards : i = NextShard(plan.delete) /\ plan.delete[i] # {}
  BY <1>1, NextShardIs
<1> DEFINE b == [t \in Tenants |-> IF t \in plan.delete[i] THEN none ELSE bucket[i][t]]
<1>3. bucket' = [bucket EXCEPT ![i] = b] /\ plan' = [plan EXCEPT !.delete[i] = {}] /\ UNCHANGED pc
  BY <1>2 DEF deleteTenantsFromShards, IInv, TypeOK
<1>4. \A t \in plan.delete[i] : i # To(t)
  BY <1>1 DEF deleteTenantsFromShards, IInv, Copied, DeletesMisplaced
<1>5. b \in [Tenants -> Buckets]
  BY DEF IInv, TypeOK, Buckets
<1>6. \A t \in Tenants : b[t] = IF t \in plan.delete[i] THEN none ELSE bucket[i][t]
  OBVIOUS
<1> HIDE DEF b
<1>7. DeletesFrom(i, b)
  BY <1>3, <1>4, <1>6 DEF DeletesFrom
<1> QED BY <1>5, <1>7

\* What that leaves.
LEMMA DeleteHolding ==
    ASSUME IInv, deleteTenantsFromShards, NEW i \in Shards, NEW b \in [Tenants -> Buckets], DeletesFrom(i, b)
    PROVE  /\ Written(i, b)
           /\ \A t \in Tenants : /\ Holding(t)' = IF t \in plan.delete[i] THEN Holding(t) \ {i} ELSE Holding(t)
                                 /\ Holding(t) # {} => To(t) \in Holding(t)'
<1>1. Written(i, b)
  <2>1. bucket' = [bucket EXCEPT ![i] = b] /\ files' = files /\ TypeOK
    BY DEF IInv, DeletesFrom, deleteTenantsFromShards
  <2> QED BY <2>1, WrittenHolding, Zenon
<1>2. \A t \in Tenants : Holding(t)' = IF t \in plan.delete[i] THEN Holding(t) \ {i} ELSE Holding(t)
  <2> TAKE t \in Tenants
  <2>1. Holding(t) \subseteq Shards /\ Holding(t)' \subseteq Shards
    BY DEF Holding
  <2>2. i \in Holding(t)' <=> i \in Holding(t) /\ t \notin plan.delete[i]
    BY <1>1, HoldingIs DEF DeletesFrom, Written
  <2>3. \A k \in Shards \ {i} : k \in Holding(t)' <=> k \in Holding(t)
    BY <1>1 DEF Written
  <2> QED BY <2>1, <2>2, <2>3
<1>3. \A t \in Tenants : Holding(t) # {} => To(t) \in Holding(t)
  BY DEF deleteTenantsFromShards, IInv, Copied
<1>4. \A t \in Tenants : t \in plan.delete[i] => i # To(t)
  BY DEF DeletesFrom
<1> QED BY <1>1, <1>2, <1>3, <1>4

LEMMA DeleteKeeps == IInv /\ deleteTenantsFromShards => IInv'
<1> SUFFICES ASSUME IInv, deleteTenantsFromShards PROVE IInv'
  OBVIOUS
<1>1. CASE Nothing(plan.delete)
  <2>1. UNCHANGED <<home, files, bucket, meta, target, plan, allowed, tracker, strayed>> /\ pc = "delete" /\ pc' = "meta"
    BY <1>1 DEF deleteTenantsFromShards
  <2>2. \A t \in Tenants : Holding(t)' = Holding(t) /\ To(t)' = To(t)
    BY <2>1, SameHolding DEF To
  <2>3. TypeOK' /\ CopiesAgree'
    BY <2>1, SameHolding DEF IInv, TypeOK
  <2>4. \A t \in Tenants : Holding(t) \subseteq {To(t)}
    <3> SUFFICES ASSUME NEW t \in Tenants, NEW i \in Holding(t) PROVE i = To(t)
      OBVIOUS
    <3>1. i \in Shards
      BY HoldingIs
    <3> QED BY <1>1, <2>1, <3>1 DEF Nothing, IInv, Copied, DeletesMisplaced
  <2>5. Placed'
    BY <2>1, <2>2, <2>4 DEF Placed
  <2> QED BY <2>1, <2>3, <2>5 DEF IInv, Phases, FilesFit, Planned, Copied, Recovered
<1>2. CASE ~Nothing(plan.delete)
  <2>1. PICK i \in Shards, b \in [Tenants -> Buckets] : DeletesFrom(i, b)
    BY <1>2, DeleteWrites
  <2>2. UNCHANGED <<home, files, meta, target, allowed, tracker, strayed>> /\ pc = "delete"
    BY DEF deleteTenantsFromShards
  <2>3. /\ Written(i, b)
        /\ \A t \in Tenants : Holding(t)' = IF t \in plan.delete[i] THEN Holding(t) \ {i} ELSE Holding(t)
    BY <2>1, DeleteHolding
  <2>4. TypeOK'
    <3>1. i >= files => b = EmptyShard
      BY <2>1 DEF IInv, TypeOK, EmptyShard, DeletesFrom
    <3> QED BY <2>2, <2>3, <3>1 DEF IInv, TypeOK, Written
  <2>5. /\ plan' \in Plans /\ plan'.next = plan.next /\ plan'.delete[i] = {}
        /\ \A k \in Shards \ {i} : plan'.delete[k] = plan.delete[k]
    BY <2>1 DEF IInv, Plans, DeletesFrom
  <2>7. CopiesAgree'
    <3> SUFFICES ASSUME NEW t \in Tenants \ strayed, NEW j \in Holding(t)', NEW k \in Holding(t)'
                 PROVE  bucket'[j][t] = bucket'[k][t]
      BY <2>2 DEF CopiesAgree
    <3>1. \A m \in Holding(t)' : m \in Holding(t) /\ bucket'[m][t] = bucket[m][t]
      <4> TAKE m \in Holding(t)'
      <4>1. m \in Shards
        BY HoldingIs
      <4> QED BY <2>1, <2>3, <4>1 DEF DeletesFrom, Written
    <3> QED BY <3>1 DEF IInv, CopiesAgree
  <2>8. \A t \in Tenants : To(t)' = To(t)
    BY <2>2 DEF To
  <2>9. Copied'
    <3> SUFFICES ASSUME NEW t \in Tenants
                 PROVE  DeletesMisplaced(t)' /\ (Holding(t)' # {} => To(t)' \in Holding(t)')
      BY DEF Copied
    <3>1. DeletesMisplaced(t) /\ (Holding(t) # {} => To(t) \in Holding(t))
      BY <2>2 DEF IInv, Copied
    <3>2. t \in plan.delete[i] => i # To(t)
      BY <2>1 DEF DeletesFrom
    <3>3. Holding(t) \subseteq Shards
      BY DEF Holding
    <3> QED BY <2>3, <2>5, <2>8, <3>1, <3>2, <3>3 DEF DeletesMisplaced
  <2> QED BY <2>1, <2>2, <2>4, <2>5, <2>7, <2>9 DEF IInv, Phases, FilesFit, Planned, Placed, Recovered, DeletesFrom
<1> QED BY <1>1, <1>2

\* A file is removed only when nothing is in it.
LEMMA TrimHolding ==
    ASSUME IInv, closeAndDeleteExtraShards
    PROVE  TypeOK' /\ \A t \in Tenants : Holding(t)' = Holding(t)
<1>1. CASE files > target
  <2>1. /\ files' = files - 1 /\ bucket' = [bucket EXCEPT ![files - 1] = EmptyShard]
        /\ UNCHANGED <<home, meta, target, allowed, tracker, strayed>> /\ pc = "trim"
    BY <1>1 DEF closeAndDeleteExtraShards
  <2>2. PICK i \in Shards : i = files - 1 /\ i >= target /\ files \in Nat /\ target \in Nat
    BY <1>1, ShardConstants DEF IInv, TypeOK, Counts, Shards
  <2>3. \A t \in Tenants : i \notin Holding(t)
    <3> SUFFICES ASSUME NEW t \in Tenants PROVE i \notin Holding(t)
      OBVIOUS
    <3>1. To(t) \in Nat /\ To(t) < target
      BY HomeIs DEF IInv, TypeOK, To
    <3>2. i # To(t)
      BY <2>2, <3>1
    <3> QED BY <2>1, <3>2 DEF IInv, Placed
  <2>4. bucket[i] = EmptyShard
    <3>1. i < files
      BY <2>2
    <3>2. \A t \in Tenants : bucket[i][t] = none
      BY <2>3, <3>1, HoldingIs
    <3> QED BY <3>2 DEF IInv, TypeOK, EmptyShard
  <2>5. bucket' = bucket
    BY <2>1, <2>2, <2>4 DEF IInv, TypeOK
  <2>6. \A k \in Shards : k < files' <=> k < files /\ k # i
    BY <2>1, <2>2, ShardConstants DEF Shards
  <2>7. \A t \in Tenants : Holding(t)' = Holding(t)
    <3> TAKE t \in Tenants
    <3>1. \A k : k \in Holding(t)' <=> k \in Holding(t)
      BY <2>3, <2>5, <2>6, HoldingIs
    <3> QED BY <3>1
  <2>8. \A k \in Shards : k >= files' => bucket[k] = EmptyShard
    <3> SUFFICES ASSUME NEW k \in Shards, k >= files' PROVE bucket[k] = EmptyShard
      OBVIOUS
    <3>1. k \in Nat /\ (k = i \/ k >= files)
      BY <2>1, <2>2, ShardConstants DEF Shards
    <3> QED BY <2>4, <3>1 DEF IInv, TypeOK
  <2> QED BY <2>1, <2>2, <2>5, <2>7, <2>8, ShardConstants DEF IInv, TypeOK
<1>2. CASE ~(files > target)
  BY <1>2, SameHolding DEF closeAndDeleteExtraShards, IInv, TypeOK
<1> QED BY <1>1, <1>2

LEMMA TrimKeeps == IInv /\ closeAndDeleteExtraShards => IInv'
<1> SUFFICES ASSUME IInv, closeAndDeleteExtraShards PROVE IInv'
  OBVIOUS
<1>1. TypeOK' /\ \A t \in Tenants : Holding(t)' = Holding(t)
  BY TrimHolding
<1>2. /\ UNCHANGED <<home, meta, target, allowed, tracker, strayed>> /\ pc = "trim"
      /\ files \in Nat /\ target \in Nat /\ meta \in Nat
  BY ShardConstants DEF closeAndDeleteExtraShards, IInv, TypeOK, Counts
<1>3. \A t \in Tenants : To(t)' = To(t) /\ Holding(t) \subseteq {To(t)}
  BY <1>2 DEF To, IInv, Placed
<1>4. CopiesAgree' /\ Placed'
  BY <1>1, <1>3 DEF CopiesAgree, Placed
<1>5. plan' \in Plans /\ plan'.next = 0 /\ pc' \in {"trim", "recover"}
  BY <1>2 DEF closeAndDeleteExtraShards, IInv, Recovered, NoPlan, Plans
<1>6. meta = target
  BY <1>2 DEF IInv, FilesFit
<1>7. FilesFit'
  BY <1>2, <1>5, <1>6 DEF closeAndDeleteExtraShards, IInv, FilesFit
<1>8. tracker = EmptyShard
  BY <1>2 DEF IInv, Recovered
<1>9. Recovered'
  <2>1. \A t \in Tenants : \A i \in Holding(t) : ~(i < 0)
    BY ShardConstants, HoldingIs DEF Shards
  <2> QED BY <1>1, <1>2, <1>5, <1>8, <2>1 DEF Recovered, EmptyShard
<1> QED BY <1>1, <1>4, <1>5, <1>7, <1>9 DEF IInv, Phases, Planned, Copied

\* recoverDB on the next shard: the tenants that are not allowed lose the
\* bucket they have there.
RecoversFrom(i, b) ==
    /\ i < files /\ i = plan.next /\ UNCHANGED pc
    /\ bucket' = [bucket EXCEPT ![i] = b] /\ plan' = [plan EXCEPT !.next = i + 1]
    /\ \A t \in Tenants : b[t] = IF t \in allowed THEN bucket[i][t] ELSE none
    /\ tracker' = [t \in Tenants |-> IF t \in allowed /\ bucket[i][t] # none THEN i ELSE tracker[t]]

LEMMA RecoverWrites ==
    ASSUME IInv, RecoverAll, plan.next < files
    PROVE  \E i \in Shards, b \in [Tenants -> Buckets] : RecoversFrom(i, b)
<1>1. PICK i \in Shards : i = plan.next
  BY ShardConstants DEF IInv, TypeOK, Plans, Shards
<1> DEFINE b == [t \in Tenants |-> IF t \in allowed THEN bucket[i][t] ELSE none]
<1>2. bucket' = [bucket EXCEPT ![i] = b] /\ plan' = [plan EXCEPT !.next = i + 1] /\ UNCHANGED pc
  BY <1>1 DEF RecoverAll, recoverDB, IInv, TypeOK
<1>3. b \in [Tenants -> Buckets]
  BY DEF IInv, TypeOK, Buckets
<1>4. tracker' = [t \in Tenants |-> IF t \in allowed /\ bucket[i][t] # none THEN i ELSE tracker[t]]
  BY <1>1 DEF RecoverAll, recoverDB
<1>5. \A t \in Tenants : b[t] = IF t \in allowed THEN bucket[i][t] ELSE none
  OBVIOUS
<1> HIDE DEF b
<1>6. RecoversFrom(i, b)
  BY <1>1, <1>2, <1>4, <1>5 DEF RecoversFrom
<1> QED BY <1>3, <1>6

\* What that leaves.
LEMMA RecoverHolding ==
    ASSUME IInv, RecoverAll, NEW i \in Shards, NEW b \in [Tenants -> Buckets], RecoversFrom(i, b)
    PROVE  /\ Written(i, b)
           /\ \A t \in Tenants : /\ Holding(t)' = IF t \in allowed THEN Holding(t) ELSE Holding(t) \ {i}
                                 /\ \A k \in Holding(t)' : bucket'[k][t] = bucket[k][t]
<1>1. Written(i, b)
  <2>1. bucket' = [bucket EXCEPT ![i] = b] /\ files' = files /\ TypeOK
    BY DEF IInv, RecoversFrom, RecoverAll
  <2> QED BY <2>1, WrittenHolding, Zenon
<1>2. \A t \in Tenants : Holding(t)' = IF t \in allowed THEN Holding(t) ELSE Holding(t) \ {i}
  <2> TAKE t \in Tenants
  <2>1. Holding(t) \subseteq Shards /\ Holding(t)' \subseteq Shards
    BY DEF Holding
  <2>2. i \in Holding(t)' <=> i \in Holding(t) /\ t \in allowed
    BY <1>1, HoldingIs DEF RecoversFrom, Written
  <2>3. \A k \in Shards \ {i} : k \in Holding(t)' <=> k \in Holding(t)
    BY <1>1 DEF Written
  <2> QED BY <2>1, <2>2, <2>3
<1>3. \A t \in Tenants : \A k \in Holding(t)' : bucket'[k][t] = bucket[k][t]
  <2> TAKE t \in Tenants
  <2> TAKE k \in Holding(t)'
  <2>1. k \in Shards /\ bucket'[k][t] # none
    BY HoldingIs
  <2> QED BY <1>1, <2>1 DEF RecoversFrom, Written
<1> QED BY <1>1, <1>2, <1>3

LEMMA RecoverKeeps == IInv /\ RecoverAll => IInv'
<1> SUFFICES ASSUME IInv, RecoverAll PROVE IInv'
  OBVIOUS
<1>1. UNCHANGED <<home, files, meta, target, allowed, strayed>> /\ pc = "recover" /\ files = target
  BY DEF RecoverAll, IInv, FilesFit
<1>2. /\ \A t \in Tenants : To(t)' = To(t)
      /\ \A t \in Tenants \ strayed : Holding(t) \subseteq {To(t)}
  BY <1>1 DEF To, IInv, Placed
<1>3. CASE plan.next < files
  <2>1. PICK i \in Shards, b \in [Tenants -> Buckets] : RecoversFrom(i, b)
    BY <1>3, RecoverWrites
  <2>2. /\ Written(i, b)
        /\ \A t \in Tenants : /\ Holding(t)' = IF t \in allowed THEN Holding(t) ELSE Holding(t) \ {i}
                              /\ \A k \in Holding(t)' : bucket'[k][t] = bucket[k][t]
    BY <2>1, RecoverHolding
  <2>3. TypeOK'
    <3>1. \A k \in Shards : k >= files => k # i
      BY <2>1, ShardConstants DEF RecoversFrom, IInv, TypeOK, Shards
    <3>2. tracker' \in [Tenants -> Shards \cup {none}]
      BY <2>1 DEF RecoversFrom, IInv, TypeOK
    <3> QED BY <1>1, <2>2, <3>1, <3>2 DEF IInv, TypeOK, Written
  <2>4. plan' \in Plans /\ plan'.next = i + 1 /\ i = plan.next /\ pc' = pc /\ i \in Nat
    BY <2>1 DEF RecoversFrom, IInv, Plans
  <2>5. CopiesAgree' /\ Placed'
    BY <1>1, <1>2, <2>2, <2>4 DEF CopiesAgree, Placed
  <2>6. Recovered'
    <3> SUFFICES ASSUME NEW t \in Tenants
                 PROVE  /\ tracker'[t] # none => t \in allowed /\ tracker'[t] \in Holding(t)'
                        /\ t \notin strayed =>
                             \A k \in Holding(t)' : k < i + 1 => t \in allowed /\ tracker'[t] = k
      BY <1>1, <2>4 DEF Recovered
    <3>1. /\ tracker[t] # none => t \in allowed /\ tracker[t] \in Holding(t)
          /\ t \notin strayed => \A k \in Holding(t) : k < i => t \in allowed /\ tracker[t] = k
      BY <1>1, <2>4 DEF IInv, Recovered
    <3>2. tracker'[t] = IF t \in allowed /\ bucket[i][t] # none THEN i ELSE tracker[t]
      BY <2>1 DEF RecoversFrom
    <3>3. bucket[i][t] # none <=> i \in Holding(t)
      BY <2>1, HoldingIs DEF RecoversFrom
    <3>4. \A k \in Holding(t) : k \in Nat
      BY ShardConstants, HoldingIs DEF Shards
    <3>5. t \notin strayed => \A k \in Holding(t) : k = To(t)
      BY <1>2
    <3> QED BY <2>2, <2>4, <3>1, <3>2, <3>3, <3>4, <3>5
  <2> QED BY <1>1, <2>3, <2>4, <2>5, <2>6 DEF IInv, Phases, FilesFit, Planned, Copied
<1>4. CASE ~(plan.next < files)
  <2>1. UNCHANGED <<bucket, tracker>> /\ pc' = "up" /\ plan' = NoPlan
    BY <1>4 DEF RecoverAll
  <2>2. TypeOK' /\ CopiesAgree' /\ \A t \in Tenants : Holding(t)' = Holding(t)
    BY <1>1, <2>1, SameHolding DEF IInv, TypeOK
  <2>3. plan' \in Plans /\ plan'.next = 0
    BY <2>1 DEF NoPlan, Plans
  <2>4. \A t \in Tenants : \A k \in Holding(t) : k < plan.next
    BY <1>4, ShardConstants, HoldingIs DEF IInv, TypeOK, Plans, Shards
  <2>5. Recovered'
    BY <1>1, <1>2, <2>1, <2>2, <2>3, <2>4 DEF IInv, Recovered
  <2> QED BY <1>1, <1>2, <2>1, <2>2, <2>3, <2>5 DEF IInv, Phases, FilesFit, Planned, Copied, Placed
<1> QED BY <1>3, <1>4

----------------------------------------------------------------------------
(* The manager's operations *)

\* While the scheduler is up a bucket of one tenant is written in shard i, and
\* the tenant's tracker is there.
WritesTenant(t, i, v) ==
    /\ pc = "up" /\ UNCHANGED <<home, files, meta, pc, target, plan, allowed, strayed>>
    /\ t \in allowed /\ v \in Buckets
    /\ i \in Shards /\ i < files /\ (t \notin strayed => i = To(t))
    /\ bucket' = [bucket EXCEPT ![i][t] = v]
    /\ tracker' = [tracker EXCEPT ![t] = IF v = none THEN none ELSE i]

LEMMA OperationWrites ==
    ASSUME IInv, NEW t \in Tenants
    PROVE  /\ InitializeTenant(t) => WritesTenant(t, To(t), 0) /\ (t \notin strayed => Holding(t) = {})
           /\ WriteJob(t) =>
                \E i \in Holding(t) : i \in Shards /\ WritesTenant(t, i, bucket[i][t] + 1)
           /\ DropTenant(t) => \E i \in Holding(t) : WritesTenant(t, i, none)
<1>1. To(t) \in Shards /\ tracker \in [Tenants -> Shards \cup {none}] /\ none \notin Nat /\ none \notin Shards
  BY HomeIs, ShardConstants DEF IInv, TypeOK, To, Shards
<1>2. pc = "up" =>
        /\ files = target
        /\ tracker[t] # none => t \in allowed /\ tracker[t] \in Holding(t)
        /\ t \notin strayed => Holding(t) \subseteq {To(t)} /\ \A i \in Holding(t) : tracker[t] = i
  BY DEF IInv, FilesFit, Placed, Recovered
<1>3. \A i \in Holding(t) : i \in Shards /\ i < files /\ bucket[i][t] \in Nat
  BY <1>1, HoldingIs DEF IInv, TypeOK, Buckets
<1>4. ASSUME InitializeTenant(t) PROVE WritesTenant(t, To(t), 0) /\ (t \notin strayed => Holding(t) = {})
  <2>1. t \notin strayed => Holding(t) = {}
    BY <1>1, <1>2, <1>3, <1>4, Zenon DEF InitializeTenant
  <2>2. /\ pc = "up" /\ t \in allowed /\ home[t][files] = To(t)
        /\ UNCHANGED <<home, files, meta, pc, target, plan, allowed, strayed>>
    BY <1>2, <1>4 DEF InitializeTenant, To
  <2>3. bucket' = [bucket EXCEPT ![To(t)][t] = 0]
    BY <1>4, <2>2 DEF InitializeTenant
  <2>4. tracker' = [tracker EXCEPT ![t] = To(t)] /\ 0 # none
    BY <1>1, <1>4, <2>2 DEF InitializeTenant
  <2>5. To(t) < files
    BY <1>2, <2>2, HomeIs DEF IInv, TypeOK, To
  <2> QED BY <1>1, <2>1, <2>2, <2>3, <2>4, <2>5 DEF WritesTenant, Buckets
<1>5. ASSUME WriteJob(t) PROVE \E i \in Holding(t) : i \in Shards /\ WritesTenant(t, i, bucket[i][t] + 1)
  <2>1. PICK i \in Holding(t) : i = tracker[t]
    BY <1>2, <1>5 DEF WriteJob
  <2>2. /\ pc = "up" /\ t \in allowed /\ (t \notin strayed => i = To(t))
        /\ UNCHANGED <<home, files, meta, pc, target, plan, allowed, tracker, strayed>>
        /\ bucket' = [bucket EXCEPT ![i][t] = @ + 1]
    BY <1>2, <1>5, <2>1 DEF WriteJob
  <2>3. bucket' = [bucket EXCEPT ![i][t] = bucket[i][t] + 1]
    BY <1>3, <2>1, <2>2 DEF IInv, TypeOK
  <2>4. bucket[i][t] + 1 \in Nat /\ i \in Shards /\ i < files
    BY <1>3, <2>1
  <2>5. tracker' = [tracker EXCEPT ![t] = i]
    BY <1>1, <2>1, <2>2
  <2>6. WritesTenant(t, i, bucket[i][t] + 1)
    BY <1>1, <2>2, <2>3, <2>4, <2>5, Zenon DEF WritesTenant, Buckets
  <2> QED BY <2>1, <2>4, <2>6
<1>6. ASSUME DropTenant(t) PROVE \E i \in Holding(t) : WritesTenant(t, i, none)
  <2>1. PICK i \in Holding(t) : i = tracker[t]
    BY <1>2, <1>6 DEF DropTenant
  <2>2. i \in Shards /\ i < files
    BY <1>3, <2>1
  <2>3. WritesTenant(t, i, none)
    BY <1>2, <1>6, <2>1, <2>2, Zenon DEF DropTenant, WritesTenant, Buckets
  <2> QED BY <2>1, <2>3
<1> QED BY <1>4, <1>5, <1>6

\* The tenant has that bucket there afterwards, and the others have theirs.
LEMMA TenantHolding ==
    ASSUME IInv, NEW t \in Tenants, NEW i, NEW v, WritesTenant(t, i, v)
    PROVE  /\ TypeOK'
           /\ Holding(t)' = (IF v = none THEN Holding(t) \ {i} ELSE Holding(t) \cup {i}) /\ bucket'[i][t] = v
           /\ \A u \in Tenants \ {t} : /\ Holding(u)' = Holding(u)
                                       /\ \A k \in Shards : bucket'[k][u] = bucket[k][u]
<1>1. i \in Shards /\ i < files
  BY DEF WritesTenant
<1>2. /\ bucket' \in [Shards -> [Tenants -> Buckets]] /\ bucket'[i][t] = v
      /\ \A k \in Shards, u \in Tenants : k # i \/ u # t => bucket'[k][u] = bucket[k][u]
      /\ \A k \in Shards : k # i => bucket'[k] = bucket[k]
  BY <1>1 DEF WritesTenant, IInv, TypeOK
<1>3. tracker' \in [Tenants -> Shards \cup {none}]
  BY <1>1 DEF WritesTenant, IInv, TypeOK
<1>4. TypeOK'
  <2>1. \A k \in Shards : k >= files => k # i
    BY <1>1, ShardConstants DEF IInv, TypeOK, Shards
  <2> QED BY <1>2, <1>3, <2>1 DEF WritesTenant, IInv, TypeOK
<1>6. Holding(t)' = IF v = none THEN Holding(t) \ {i} ELSE Holding(t) \cup {i}
  <2>1. \A k : k \in Holding(t)' <=> (k = i /\ v # none) \/ (k # i /\ k \in Holding(t))
    BY <1>1, <1>2, HoldingIs DEF WritesTenant
  <2> QED BY <2>1
<1>7. \A u \in Tenants \ {t} : Holding(u)' = Holding(u)
  <2> TAKE u \in Tenants \ {t}
  <2>1. \A k : k \in Holding(u)' <=> k \in Holding(u)
    BY <1>2, HoldingIs DEF WritesTenant
  <2> QED BY <2>1
<1> QED BY <1>2, <1>4, <1>6, <1>7

LEMMA TenantKeeps ==
    ASSUME IInv, NEW t \in Tenants, NEW i, NEW v, WritesTenant(t, i, v)
    PROVE  IInv'
<1>1. /\ TypeOK'
      /\ Holding(t)' = (IF v = none THEN Holding(t) \ {i} ELSE Holding(t) \cup {i})
      /\ \A u \in Tenants \ {t} : /\ Holding(u)' = Holding(u)
                                  /\ \A k \in Shards : bucket'[k][u] = bucket[k][u]
  BY TenantHolding
<1>2. /\ \A u \in Tenants : To(u)' = To(u)
      /\ \A u \in Tenants \ strayed : Holding(u) \subseteq {To(u)}
      /\ t \notin strayed => i = To(t)
      /\ pc = "up" /\ pc' = "up" /\ strayed' = strayed /\ allowed' = allowed /\ t \in allowed
  BY DEF WritesTenant, To, IInv, Placed
<1>3. Placed' /\ CopiesAgree'
  BY <1>1, <1>2 DEF Placed, CopiesAgree
<1>4. /\ tracker'[t] = IF v = none THEN none ELSE i
      /\ \A u \in Tenants \ {t} : tracker'[u] = tracker[u]
  BY DEF WritesTenant, IInv, TypeOK
<1>5. Recovered'
  <2>1. \A u \in Tenants : /\ tracker[u] # none => u \in allowed /\ tracker[u] \in Holding(u)
                           /\ u \notin strayed => \A k \in Holding(u) : u \in allowed /\ tracker[u] = k
    BY <1>2 DEF IInv, Recovered
  <2>2. \A u \in Tenants : /\ tracker'[u] # none => u \in allowed /\ tracker'[u] \in Holding(u)'
                           /\ u \notin strayed => \A k \in Holding(u)' : u \in allowed /\ tracker'[u] = k
    BY <1>1, <1>2, <1>4, <2>1
  <2> QED BY <1>2, <2>2 DEF IInv, Recovered, WritesTenant
<1> QED BY <1>1, <1>3, <1>5 DEF IInv, WritesTenant, FilesFit, Planned, Copied

----------------------------------------------------------------------------
(* The theorems *)

LEMMA NextKeeps == IInv /\ [Next]_vars => IInv'
<1> SUFFICES ASSUME IInv, [Next]_vars PROVE IInv'
  OBVIOUS
<1>1. ASSUME NEW n \in Counts, prepare(n) PROVE IInv'
  BY <1>1, PrepareKeeps
<1>2. ASSUME Migrate PROVE IInv'
  BY <1>2, ColdStartKeeps, CreateKeeps, ScanKeeps, CopyKeeps, DeleteKeeps, MetadataKeeps, TrimKeeps,
     RecoverKeeps DEF Migrate
<1>3. ASSUME NEW t \in Tenants, InitializeTenant(t) \/ WriteJob(t) \/ DropTenant(t) PROVE IInv'
  BY <1>3, OperationWrites, TenantKeeps
<1>4. CASE End
  BY <1>4, EndKeeps
<1>5. CASE UNCHANGED vars
  <2>1. UNCHANGED <<home, files, bucket, meta, pc, target, plan, allowed, tracker, strayed>>
    BY <1>5 DEF vars
  <2>2. \A t \in Tenants : Holding(t)' = Holding(t) /\ To(t)' = To(t)
    BY <2>1, SameHolding DEF To
  <2>3. CopiesAgree'
    BY <2>1, SameHolding DEF IInv
  <2>4. TypeOK' /\ (pc \in Phases)' /\ (plan \in Plans)'
    BY <2>1 DEF IInv, TypeOK
  <2>5. FilesFit' /\ Placed'
    BY <2>1, <2>2 DEF IInv, FilesFit, Placed
  <2>6. Planned'
    BY <2>1, <2>2 DEF IInv, Planned, DeletesMisplaced
  <2>7. Copied'
    BY <2>1, <2>2 DEF IInv, Copied, DeletesMisplaced
  <2>8. Recovered'
    BY <2>1, <2>2 DEF IInv, Recovered
  <2> QED
    BY <2>3, <2>4, <2>5, <2>6, <2>7, <2>8 DEF IInv
<1> QED BY <1>1, <1>2, <1>3, <1>4, <1>5 DEF Next

\* The invariant holds at every step of every migration, whatever is cut short.
THEOREM MigrationInvariant == Spec => []IInv
<1>1. Init => IInv
  BY Initially
<1>2. IInv /\ [Next]_vars => IInv'
  BY NextKeeps
<1> QED BY <1>1, <1>2, PTL DEF Spec

\* No start refuses the files that an earlier one left.
THEOREM MigrationNeverRefused == Spec => []NeverRefused
<1>1. IInv => NeverRefused
  BY DEF IInv, FilesFit, NeverRefused
<1> QED BY <1>1, MigrationInvariant, PTL

\* The last bucket of a tenant goes only when the scheduler drops the tenant,
\* or by a recovery that does not allow it.
LEMMA NextKeepsLast ==
    ASSUME IInv, [Next]_vars, NEW t \in Tenants, Holding(t) # {}, Holding(t)' = {}
    PROVE  pc = "up" \/ t \notin allowed
<1>1. CASE UNCHANGED <<files, bucket, strayed>>
  BY <1>1, SameHolding
<1>2. ASSUME NEW n \in Counts, prepare(n) PROVE FALSE
  BY <1>2, SameHolding DEF prepare, Start
<1>3. CASE coldStart \/ createShardsIfNeeded
  BY <1>3, AppendHolding, SameHolding DEF IInv, coldStart, createShardsIfNeeded
<1>4. CASE copyTenantsToShards
  <2>1. CASE Nothing(plan.copy)
    BY <1>1, <1>4, <2>1 DEF copyTenantsToShards
  <2>2. CASE ~Nothing(plan.copy)
    <3>1. PICK i \in Shards, b \in [Tenants -> Buckets] : CopiesInto(i, b)
      BY <1>4, <2>2, CopyWrites
    <3> QED BY <1>4, <3>1, CopyHolding
  <2> QED BY <2>1, <2>2
<1>5. CASE deleteTenantsFromShards
  <2>1. CASE Nothing(plan.delete)
    BY <1>1, <1>5, <2>1 DEF deleteTenantsFromShards
  <2>2. CASE ~Nothing(plan.delete)
    <3>1. PICK i \in Shards, b \in [Tenants -> Buckets] : DeletesFrom(i, b)
      BY <1>5, <2>2, DeleteWrites
    <3> QED BY <1>5, <3>1, DeleteHolding
  <2> QED BY <2>1, <2>2
<1>6. CASE closeAndDeleteExtraShards
  BY <1>6, TrimHolding
<1>7. CASE RecoverAll
  <2>1. CASE plan.next < files
    <3>1. PICK i \in Shards, b \in [Tenants -> Buckets] : RecoversFrom(i, b)
      BY <1>7, <2>1, RecoverWrites
    <3> QED BY <1>7, <3>1, RecoverHolding
  <2>2. CASE ~(plan.next < files)
    BY <1>1, <1>7, <2>2 DEF RecoverAll
  <2> QED BY <2>1, <2>2
<1>8. CASE Scan \/ writeShardMetadata \/ End \/ UNCHANGED vars
  BY <1>1, <1>8 DEF Scan, writeShardMetadata, End, vars
<1>9. ASSUME NEW u \in Tenants, InitializeTenant(u) \/ WriteJob(u) \/ DropTenant(u) PROVE pc = "up"
  BY <1>9 DEF InitializeTenant, WriteJob, DropTenant
<1> QED BY <1>2, <1>3, <1>4, <1>5, <1>6, <1>7, <1>8, <1>9 DEF Next, Migrate

\* Whatever start, crash or migration comes, also after a start that went back
\* on a migration, no allowed tenant loses its last bucket.
THEOREM MigrationLastBucketStays == Spec => LastBucketStays
<1>1. IInv /\ [Next]_vars =>
        [\A t \in Tenants : Holding(t) # {} /\ Holding(t)' = {} => pc = "up" \/ t \notin allowed]_vars
  BY NextKeepsLast
<1> QED BY <1>1, MigrationInvariant, PTL DEF Spec, LastBucketStays

\* A scheduler that is up has each tenant in one shard, the one it looks in,
\* unless a start went back on a migration that had copied the tenant.
THEOREM MigrationOneBucket == Spec => []OneBucketAtHome
<1>1. IInv => OneBucketAtHome
  <2> SUFFICES ASSUME IInv, pc = "up", NEW t \in Tenants \ strayed
               PROVE  Holding(t) = IF tracker[t] = none THEN {} ELSE {home[t][files]}
    BY DEF OneBucketAtHome
  <2>1. home[t][files] = To(t) /\ Holding(t) \subseteq {To(t)}
    BY DEF IInv, FilesFit, Placed, To
  <2>2. /\ tracker[t] # none => tracker[t] \in Holding(t)
        /\ \A i \in Holding(t) : tracker[t] = i
    BY DEF IInv, Recovered
  <2>3. none \notin Holding(t)
    BY ShardConstants DEF Holding, Shards
  <2> QED BY <2>1, <2>2, <2>3
<1> QED BY <1>1, MigrationInvariant, PTL

----------------------------------------------------------------------------
(* The shards implement one durable store *)

\* What a start would recover is what any of the copies has.
LEMMA StoredIs ==
    ASSUME NEW t \in Tenants
    PROVE  /\ CopiesAgree /\ t \notin strayed => \A i \in Holding(t) : Stored(t) = bucket[i][t]
           /\ (CopiesAgree /\ t \notin strayed)' => \A i \in Holding(t)' : Stored(t)' = bucket'[i][t]
           /\ t \notin strayed => (Holding(t) = {} <=> Stored(t) = none)
           /\ t \notin strayed' => (Holding(t)' = {} <=> Stored(t)' = none)
           /\ t \in strayed => Stored(t) = none
           /\ t \in strayed' => Stored(t)' = none
<1>1. /\ Holding(t) # {} => Max(Holding(t)) \in Holding(t)
      /\ Holding(t)' # {} => Max(Holding(t)') \in Holding(t)'
  <2>1. Holding(t) \subseteq 0..(MaxShards - 1) /\ Holding(t)' \subseteq 0..(MaxShards - 1) /\ MaxShards - 1 \in Nat
    BY ShardConstants DEF Holding, Shards
  <2> QED BY <2>1, MaxIn
<1>2. Stored(t)' = IF t \in strayed' \/ Holding(t)' = {} THEN none ELSE bucket'[Max(Holding(t)')][t]
  BY DEF Stored
<1> QED BY <1>1, <1>2, HoldingIs DEF Stored, CopiesAgree

\* A step of the store, or none.
StoreStep == [Store!Next]_<<[t \in Tenants |-> Stored(t)], allowed, pc = "up", strayed>>

LEMMA StoreStutters ==
    ASSUME \A t \in Tenants : Stored(t)' = Stored(t), UNCHANGED <<allowed, strayed>>, (pc = "up")' = (pc = "up")
    PROVE  StoreStep
<1>1. [t \in Tenants |-> Stored(t)]' = [t \in Tenants |-> Stored(t)]
  OBVIOUS
<1> QED BY <1>1 DEF StoreStep

\* A start and an end of the process.
LEMMA PrepareStores ==
    ASSUME IInv, NEW n \in Counts, prepare(n)
    PROVE  StoreStep
<1> DEFINE st == [t \in Tenants |-> Stored(t)]
<1>1. PICK T \in SUBSET Tenants : T = Astray(n) /\ strayed' = strayed \cup T
  BY DEF prepare, Start, Astray
<1>2. \A t \in Tenants : Stored(t)' = IF t \in T THEN none ELSE Stored(t)
  <2> TAKE t \in Tenants
  <2>1. Holding(t)' = Holding(t) /\ bucket' = bucket
    BY <1>1, SameHolding DEF prepare, Start
  <2> QED BY <1>1, <2>1 DEF Stored
<1>3. st' = [t \in Tenants |-> IF t \in T THEN none ELSE st[t]]
  BY <1>2
<1>4. pc # "up" /\ pc' # "up" /\ allowed' \in SUBSET Tenants
  BY DEF prepare, Start
<1>5. (pc = "up")' = (pc = "up") /\ ~(pc = "up")
  BY <1>4
<1>6. Store!Configure(T)
  BY <1>1, <1>3, <1>4, <1>5 DEF Store!Configure
<1> QED BY <1>6 DEF StoreStep, Store!Next

LEMMA EndStores ==
    ASSUME IInv, End
    PROVE  StoreStep
<1>1. \A t \in Tenants : Stored(t)' = Stored(t)
  BY SameHolding DEF End
<1>2. UNCHANGED <<allowed, strayed>> /\ pc' # "up"
  BY DEF End
<1>3. CASE pc # "up"
  BY <1>1, <1>2, <1>3, StoreStutters
<1>4. CASE pc = "up"
  <2>1. [t \in Tenants |-> Stored(t)]' = [t \in Tenants |-> Stored(t)]
    BY <1>1
  <2>2. (pc = "up")' = FALSE
    BY <1>2
  <2>3. Store!Close
    BY <1>2, <1>4, <2>1, <2>2 DEF Store!Close
  <2> QED BY <2>3 DEF StoreStep, Store!Next
<1> QED BY <1>3, <1>4

\* The steps of a migration.
LEMMA FilesStore ==
    ASSUME IInv, IInv', coldStart \/ createShardsIfNeeded \/ closeAndDeleteExtraShards
    PROVE  \A t \in Tenants : Stored(t)' = Stored(t)
<1> SUFFICES ASSUME NEW t \in Tenants PROVE Stored(t)' = Stored(t)
  OBVIOUS
<1>1. CASE coldStart \/ createShardsIfNeeded
  <2>1. Holding(t)' = Holding(t) /\ bucket' = bucket /\ strayed' = strayed
    BY <1>1, AppendHolding, SameHolding DEF IInv, coldStart, createShardsIfNeeded
  <2> QED BY <2>1 DEF Stored
<1>2. CASE closeAndDeleteExtraShards
  <2>1. Holding(t)' = Holding(t)
    BY <1>2, TrimHolding
  <2>2. \A k \in Holding(t)' : bucket'[k][t] = bucket[k][t]
    <3> TAKE k \in Holding(t)'
    <3>1. k \in Shards /\ bucket'[k][t] # none
      BY HoldingIs
    <3>2. bucket' = bucket \/ bucket' = [bucket EXCEPT ![files - 1] = EmptyShard]
      BY <1>2, Zenon DEF closeAndDeleteExtraShards
    <3>3. EmptyShard[t] = none
      BY DEF EmptyShard
    <3>4. bucket = [i \in Shards |-> bucket[i]]
      BY DEF IInv, TypeOK
    <3>5. bucket'[k] = bucket[k] \/ bucket'[k] = EmptyShard
      BY <3>1, <3>2, <3>4
    <3> QED BY <3>1, <3>3, <3>5
  <2>3. CopiesAgree /\ CopiesAgree' /\ strayed' = strayed
    BY <1>2 DEF IInv, closeAndDeleteExtraShards
  <2> QED BY <2>1, <2>2, <2>3, StoredIs
<1> QED BY <1>1, <1>2

LEMMA CopyStores ==
    ASSUME IInv, IInv', copyTenantsToShards
    PROVE  \A t \in Tenants : Stored(t)' = Stored(t)
<1>0. strayed' = strayed /\ CopiesAgree /\ CopiesAgree'
  BY DEF copyTenantsToShards, IInv
<1>1. CASE Nothing(plan.copy)
  BY <1>0, <1>1, SameHolding DEF copyTenantsToShards
<1>2. CASE ~Nothing(plan.copy)
  <2>1. PICK i \in Shards, b \in [Tenants -> Buckets] : CopiesInto(i, b)
    BY <1>2, CopyWrites
  <2>2. Written(i, b) /\ \A t \in Tenants : Holding(t)' = IF t \in plan.copy[i] THEN Holding(t) \cup {i} ELSE Holding(t)
    BY <2>1, CopyHolding
  <2> SUFFICES ASSUME NEW t \in Tenants, t \notin strayed PROVE Stored(t)' = Stored(t)
    BY <1>0, StoredIs
  <2>3. CASE t \in plan.copy[i]
    BY <1>0, <2>1, <2>2, <2>3, StoredIs DEF CopiesInto, Written
  <2>4. CASE t \notin plan.copy[i]
    <3>1. bucket'[i][t] = bucket[i][t] /\ \A k \in Shards \ {i} : bucket'[k][t] = bucket[k][t]
      BY <2>1, <2>2, <2>4 DEF CopiesInto, Written
    <3>2. \A k \in Holding(t) : k \in Shards
      BY HoldingIs
    <3> QED BY <1>0, <2>2, <2>4, <3>1, <3>2, StoredIs
  <2> QED BY <2>3, <2>4
<1> QED BY <1>1, <1>2

LEMMA DeleteStores ==
    ASSUME IInv, IInv', deleteTenantsFromShards
    PROVE  \A t \in Tenants : Stored(t)' = Stored(t)
<1>0. strayed' = strayed /\ CopiesAgree /\ CopiesAgree'
  BY DEF deleteTenantsFromShards, IInv
<1>1. CASE Nothing(plan.delete)
  BY <1>0, <1>1, SameHolding DEF deleteTenantsFromShards
<1>2. CASE ~Nothing(plan.delete)
  <2>1. PICK i \in Shards, b \in [Tenants -> Buckets] : DeletesFrom(i, b)
    BY <1>2, DeleteWrites
  <2>2. /\ Written(i, b)
        /\ \A t \in Tenants : /\ Holding(t)' = IF t \in plan.delete[i] THEN Holding(t) \ {i} ELSE Holding(t)
                              /\ Holding(t) # {} => To(t) \in Holding(t)'
    BY <2>1, DeleteHolding
  <2> SUFFICES ASSUME NEW t \in Tenants, t \notin strayed PROVE Stored(t)' = Stored(t)
    BY <1>0, StoredIs
  <2>3. CASE Holding(t) # {}
    <3>1. To(t) \in Holding(t)' /\ To(t) \in Holding(t)
      BY <2>2, <2>3
    <3>2. To(t) \in Shards /\ bucket'[To(t)][t] # none
      BY <3>1, HoldingIs
    <3>3. bucket'[To(t)][t] = bucket[To(t)][t]
      BY <2>1, <2>2, <3>2 DEF DeletesFrom, Written
    <3> QED BY <1>0, <3>1, <3>3, StoredIs
  <2>4. CASE Holding(t) = {}
    BY <1>0, <2>2, <2>4, StoredIs
  <2> QED BY <2>3, <2>4
<1> QED BY <1>1, <1>2

LEMMA RecoverStores ==
    ASSUME IInv, IInv', RecoverAll
    PROVE  StoreStep
<1> DEFINE st == [u \in Tenants |-> Stored(u)]
<1>1. pc = "recover" /\ UNCHANGED <<allowed, strayed>> /\ CopiesAgree /\ CopiesAgree'
  BY DEF RecoverAll, IInv
<1>2. CASE plan.next < files
  <2>1. PICK i \in Shards, b \in [Tenants -> Buckets] : RecoversFrom(i, b)
    BY <1>2, RecoverWrites
  <2>2. \A t \in Tenants : /\ Holding(t)' = IF t \in allowed THEN Holding(t) ELSE Holding(t) \ {i}
                           /\ \A k \in Holding(t)' : bucket'[k][t] = bucket[k][t]
    BY <2>1, RecoverHolding
  <2>3. PICK T \in SUBSET Tenants : T = {t \in Tenants \ strayed : t \notin allowed /\ i \in Holding(t)}
    BY Zenon
  <2>4. \A t \in Tenants : Stored(t)' = IF t \in T THEN none ELSE Stored(t)
    <3> TAKE t \in Tenants
    <3>1. CASE t \in strayed
      BY <1>1, <2>3, <3>1, StoredIs
    <3>2. CASE t \notin strayed /\ t \in T
      <4>1. Holding(t) \subseteq {To(t)}
        BY <1>1, <3>2 DEF IInv, Placed
      <4>2. Holding(t)' = {}
        BY <2>2, <2>3, <3>2, <4>1
      <4> QED BY <1>1, <3>2, <4>2, StoredIs
    <3>3. CASE t \notin strayed /\ t \notin T
      <4>1. Holding(t)' = Holding(t)
        BY <2>2, <2>3, <3>3, Zenon
      <4>2. CASE Holding(t) = {}
        BY <1>1, <3>3, <4>1, <4>2, StoredIs
      <4>3. CASE Holding(t) # {}
        BY <1>1, <2>2, <3>3, <4>1, <4>3, StoredIs
      <4> QED BY <4>2, <4>3
    <3> QED BY <3>1, <3>2, <3>3
  <2>5. st' = [t \in Tenants |-> IF t \in T THEN none ELSE st[t]]
    BY <2>4
  <2>6. pc # "up" /\ pc' # "up"
    BY <1>1, <2>1 DEF RecoversFrom
  <2>7. (pc = "up")' = (pc = "up") /\ ~(pc = "up")
    BY <2>6
  <2>9. T \cap allowed = {}
    BY <2>3
  <2>10. Store!Expel(T)
    BY <1>1, <2>5, <2>7, <2>9 DEF Store!Expel
  <2> QED BY <2>10 DEF StoreStep, Store!Next
<1>3. CASE ~(plan.next < files)
  <2>1. UNCHANGED <<files, bucket>> /\ pc' = "up"
    BY <1>3 DEF RecoverAll
  <2>2. st' = st
    BY <1>1, <2>1, SameHolding
  <2>3. \A t \in Tenants \ allowed : Stored(t) = none
    <3> SUFFICES ASSUME NEW t \in Tenants \ allowed, t \notin strayed PROVE Holding(t) = {}
      BY StoredIs
    <3>1. \A k \in Holding(t)' : t \in allowed'
      BY <1>1, <2>1 DEF IInv, Recovered
    <3>2. Holding(t)' = Holding(t)
      BY <1>1, <2>1, SameHolding
    <3> QED BY <1>1, <3>1, <3>2
  <2>4. (pc = "up")' = TRUE /\ ~(pc = "up")
    BY <1>1, <2>1
  <2>5. \A t \in Tenants \ allowed : st[t] = none
    BY <2>3
  <2>6. Store!Open
    BY <1>1, <2>2, <2>4, <2>5 DEF Store!Open
  <2> QED BY <2>6 DEF StoreStep, Store!Next
<1> QED BY <1>2, <1>3

\* The operations of the manager are those of the store, or of no concern to
\* it when the tenant strayed.
LEMMA OperationStores ==
    ASSUME IInv, IInv', NEW t \in Tenants, InitializeTenant(t) \/ WriteJob(t) \/ DropTenant(t)
    PROVE  StoreStep
<1> DEFINE st == [u \in Tenants |-> Stored(u)]
<1>0. CopiesAgree /\ CopiesAgree'
  BY DEF IInv
<1>1. ASSUME NEW i, NEW v, WritesTenant(t, i, v)
      PROVE  /\ (pc = "up") = TRUE /\ (pc = "up")' = (pc = "up")
             /\ UNCHANGED <<allowed, strayed>> /\ t \in allowed
             /\ t \notin strayed => i = To(t) /\ Holding(t) \subseteq {i}
  BY <1>1 DEF WritesTenant, IInv, Placed
<1>2. ASSUME NEW i, NEW v, WritesTenant(t, i, v)
      PROVE  /\ \A u \in Tenants \ {t} : Stored(u)' = Stored(u)
             /\ t \notin strayed => Stored(t)' = v
  <2>1. /\ Holding(t)' = (IF v = none THEN Holding(t) \ {i} ELSE Holding(t) \cup {i}) /\ bucket'[i][t] = v
        /\ \A u \in Tenants \ {t} : /\ Holding(u)' = Holding(u)
                                    /\ \A k \in Shards : bucket'[k][u] = bucket[k][u]
    BY <1>2, TenantHolding
  <2>2. t \notin strayed => Stored(t)' = v
    BY <1>0, <1>1, <1>2, <2>1, StoredIs
  <2>3. \A u \in Tenants \ {t} : Stored(u)' = Stored(u)
    <3> TAKE u \in Tenants \ {t}
    <3>1. \A k \in Holding(u) : k \in Shards
      BY HoldingIs
    <3>2. CASE u \in strayed \/ Holding(u) = {}
      BY <1>1, <1>2, <2>1, <3>2, StoredIs
    <3>3. CASE u \notin strayed /\ Holding(u) # {}
      <4>1. PICK k \in Holding(u) : k \in Holding(u)' /\ bucket'[k][u] = bucket[k][u]
        BY <2>1, <3>1, <3>3
      <4>2. u \notin strayed'
        BY <1>1, <1>2, <3>3
      <4> QED BY <1>0, <3>3, <4>1, <4>2, StoredIs
    <3> QED BY <3>2, <3>3
  <2> QED BY <2>2, <2>3
<1>3. PICK i, v : /\ WritesTenant(t, i, v)
                  /\ \/ InitializeTenant(t) /\ v = 0 /\ (t \notin strayed => Holding(t) = {})
                     \/ WriteJob(t) /\ i \in Holding(t) /\ v = bucket[i][t] + 1
                     \/ DropTenant(t) /\ i \in Holding(t) /\ v = none
  BY OperationWrites, Zenon
<1>4. CASE t \in strayed
  <2>1. \A u \in Tenants : Stored(u)' = Stored(u)
    BY <1>1, <1>2, <1>3, <1>4, StoredIs
  <2> QED BY <1>1, <1>3, <2>1, StoreStutters, Zenon
<1>5. CASE t \notin strayed
  <2>1. st' = [st EXCEPT ![t] = v]
    <3>1. st' = [u \in Tenants |-> Stored(u)'] /\ Stored(t)' = v
      BY <1>2, <1>3, <1>5
    <3> QED BY <1>2, <1>3, <3>1, Zenon
  <2>2. st[t] = Stored(t)
    OBVIOUS
  <2>3. t \in allowed \ strayed
    BY <1>1, <1>3, <1>5
  <2>4. CASE InitializeTenant(t) /\ v = 0 /\ (t \notin strayed => Holding(t) = {})
    <3>1. st[t] = none
      BY <1>5, <2>2, <2>4, StoredIs
    <3>2. Store!Create(t)
      BY <1>1, <1>3, <2>1, <2>3, <2>4, <3>1, Zenon DEF Store!Create
    <3> QED BY <3>2 DEF StoreStep, Store!Next
  <2>5. CASE WriteJob(t) /\ i \in Holding(t) /\ v = bucket[i][t] + 1
    <3>1. st[t] # none /\ st[t] = bucket[i][t]
      BY <1>0, <1>5, <2>2, <2>5, StoredIs
    <3>2. st' = [st EXCEPT ![t] = st[t] + 1]
      BY <2>1, <2>5, <3>1
    <3>3. Store!Write(t)
      BY <1>1, <1>3, <3>1, <3>2, Zenon DEF Store!Write
    <3> QED BY <3>3 DEF StoreStep, Store!Next
  <2>6. CASE DropTenant(t) /\ i \in Holding(t) /\ v = none
    <3>1. st[t] # none
      BY <1>5, <2>2, <2>6, StoredIs
    <3>2. Store!Drop(t)
      BY <1>1, <1>3, <2>1, <2>6, <3>1, Zenon DEF Store!Drop
    <3> QED BY <3>2 DEF StoreStep, Store!Next
  <2> QED BY <1>3, <2>4, <2>5, <2>6
<1> QED BY <1>4, <1>5

LEMMA NextStores == IInv /\ IInv' /\ [Next]_vars => StoreStep
<1> SUFFICES ASSUME IInv, IInv', [Next]_vars PROVE StoreStep
  OBVIOUS
<1>1. ASSUME NEW n \in Counts, prepare(n) PROVE StoreStep
  BY <1>1, PrepareStores
<1>2. CASE Migrate /\ ~RecoverAll
  <2>1. UNCHANGED <<allowed, strayed>> /\ pc # "up" /\ pc' # "up"
    BY <1>2 DEF Migrate, coldStart, createShardsIfNeeded, appendOpenShard, Scan, copyTenantsToShards,
                deleteTenantsFromShards, writeShardMetadata, closeAndDeleteExtraShards
  <2>2. \A t \in Tenants : Stored(t)' = Stored(t)
    <3>1. CASE Scan \/ writeShardMetadata
      BY <2>1, <3>1, SameHolding DEF Scan, writeShardMetadata
    <3> QED BY <1>2, <3>1, FilesStore, CopyStores, DeleteStores DEF Migrate
  <2> QED BY <2>1, <2>2, StoreStutters
<1>3. CASE RecoverAll
  BY <1>3, RecoverStores
<1>4. ASSUME NEW t \in Tenants, InitializeTenant(t) \/ WriteJob(t) \/ DropTenant(t) PROVE StoreStep
  BY <1>4, OperationStores
<1>5. CASE End
  BY <1>5, EndStores
<1>6. CASE UNCHANGED vars
  <2>1. [t \in Tenants |-> Stored(t)]' = [t \in Tenants |-> Stored(t)] /\ UNCHANGED <<allowed, pc, strayed>>
    BY <1>6, SameHolding DEF vars
  <2>2. (pc = "up")' = (pc = "up")
    BY <2>1
  <2> QED BY <2>1, <2>2 DEF StoreStep
<1> QED BY <1>1, <1>2, <1>3, <1>4, <1>5, <1>6 DEF Next

LEMMA InitStores == Init => Store!Init
<1> SUFFICES ASSUME Init PROVE Store!Init
  OBVIOUS
<1>1. \A t \in Tenants : Holding(t) = {}
  BY ShardConstants DEF Init, Holding, Shards
<1>2. [t \in Tenants |-> Stored(t)] = [t \in Tenants |-> none]
  BY <1>1 DEF Stored
<1>3. allowed = Tenants /\ (pc = "up") = FALSE /\ strayed = {}
  BY DEF Init
<1> QED BY <1>2, <1>3 DEF Store!Init

\* Whatever the shards are configured to be, and wherever a start, a migration
\* or a recovery is cut short, the shards are one durable store: nothing but
\* the tenants that a new allow list leaves out, and those that strayed, is lost.
THEOREM MigrationImplementsStore == Spec => ImplementsStore
<1>1. Init => Store!Init
  BY InitStores
<1>2. IInv /\ IInv' /\ [Next]_vars => [Store!Next]_<<[t \in Tenants |-> Stored(t)], allowed, pc = "up", strayed>>
  BY NextStores DEF StoreStep
<1> QED BY <1>1, <1>2, MigrationInvariant, PTL DEF Spec, ImplementsStore, Store!Spec
================================================================================
