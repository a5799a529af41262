---------------------------- MODULE ShardMigration ----------------------------
(***************************************************************************)
(* The bbolt shards of the compactor-scheduler and their migration when    *)
(* the configured number of shards changes                                 *)
(* (pkg/compactor/scheduler/persistence_bbolt.go).                         *)
(*                                                                         *)
(* A tenant's bucket lives in the shard that jumpHash gives for the number *)
(* of shards.  At startup prepare compares the files, the metadata and the *)
(* configuration, and moves buckets when they differ: every bbolt          *)
(* transaction and every file created or removed is one step, and the      *)
(* process may end after any of them.  The next start may have another     *)
(* number of shards and another allow list.  When it has the number that a *)
(* migration was leaving, no migration runs and the tenants it had copied  *)
(* stay in two shards; strayed remembers them.                             *)
(*                                                                         *)
(* A bucket is abstracted to the number of writes it has had; JobTracker   *)
(* has what the writes are.  Files appear and vanish in order, so that     *)
(* their number is enough; what a power failure does to a directory that   *)
(* was not synced is left out, and so is the cleanup of keys that cannot   *)
(* be decoded.                                                             *)
(***************************************************************************)
EXTENDS Naturals, FiniteSets, FiniteSetsExt

CONSTANTS
    Tenants,
    none,         \* no bucket, no tracker
    MaxShards,    \* bound: shards that can be configured
    MaxWrites,    \* bound: writes of a tenant
    MaxStarts     \* bound: starts of the process

VARIABLES
    home,      \* jumpHash: per tenant and number of shards, the shard
    files,     \* shard files: 0 .. files - 1
    bucket,    \* per shard and tenant, the tenant's bucket
    meta,      \* ShardCount of the metadata in shard 0, 0 when there is none
    pc,        \* where the process is
    target,    \* the configured number of shards
    plan,      \* what scanShardsForTenants returned and is not done yet, and
               \* the next shard to recover
    allowed,   \* the configured allow list of tenants
    tracker,   \* per tenant, the shard of its persister
    starts,
    strayed    \* history: tenants of which a start left copies out of place

vars == <<home, files, bucket, meta, pc, target, plan, allowed, tracker, starts, strayed>>

Shards == 0..(MaxShards - 1)
Counts == 1..MaxShards

ASSUME ShardConstants ==
    MaxShards \in Nat \ {0} /\ MaxWrites \in Nat /\ MaxStarts \in Nat /\ none \notin Nat

\* jumpHash: in [0, numBuckets), and one more shard takes a key or leaves it
\* where it is.
JumpHash ==
    {h \in [Counts -> Shards] : /\ \A n \in Counts : h[n] < n
                               /\ \A n \in 2..MaxShards : h[n] \in {h[n - 1], n - 1}}

NoPlan == [copy |-> [i \in Shards |-> {}], source |-> [t \in Tenants |-> none],
           delete |-> [i \in Shards |-> {}], next |-> 0]
EmptyShard == [t \in Tenants |-> none]

\* The shards that have a bucket of the tenant.
Holding(t) == {i \in Shards : i < files /\ bucket[i][t] # none}

Init ==
    /\ home \in [Tenants -> JumpHash]
    /\ files = 0
    /\ bucket = [i \in Shards |-> EmptyShard]
    /\ meta = 0
    /\ pc = "down"
    /\ target = 1
    /\ plan = NoPlan
    /\ allowed = Tenants
    /\ tracker = EmptyShard
    /\ starts = 0
    /\ strayed = {}

----------------------------------------------------------------------------
(* prepare *)

NoMigration(n) == meta = n /\ files = n

\* A migration away from n shards was cut short after it copied these tenants
\* and before the metadata: a start with n shards sees no need for another.
Astray(n) == {t \in Tenants : NoMigration(n) /\ ~(Holding(t) \subseteq {home[t][n]})}

\* The files are counted and the metadata read.
Start(n) ==
    /\ pc = "down"
    /\ starts < MaxStarts
    /\ starts' = starts + 1
    /\ strayed' = strayed \cup Astray(n)
    /\ allowed' \in SUBSET Tenants
    /\ target' = n
    /\ UNCHANGED <<home, files, bucket, meta, plan, tracker>>
\* Mutant: the number of files is taken as the number that is stored.
prepareFilesOnly(n) ==
    /\ Start(n)
    /\ pc' = IF files = 0 THEN "cold" ELSE IF files = n THEN "recover" ELSE "create"
prepare(n) ==
    /\ Start(n)
    /\ pc' = IF files = 0 THEN "cold"
             ELSE IF files < meta THEN "failed"
             ELSE IF NoMigration(n) THEN "recover"
             ELSE "create"

appendOpenShard ==
    /\ files < target
    /\ files' = files + 1
    /\ UNCHANGED pc

\* A cold start: the metadata after the files.  Mutant: after the first.
coldStartMetaFirst ==
    /\ pc = "cold"
    /\ \/ appendOpenShard /\ meta' = target
       \/ files = target /\ pc' = "recover" /\ UNCHANGED <<files, meta>>
    /\ UNCHANGED <<home, bucket, target, plan, allowed, tracker, starts, strayed>>
coldStart ==
    /\ pc = "cold"
    /\ \/ appendOpenShard /\ UNCHANGED meta
       \/ files = target /\ meta' = target /\ pc' = "recover" /\ UNCHANGED files
    /\ UNCHANGED <<home, bucket, target, plan, allowed, tracker, starts, strayed>>

createShardsIfNeeded ==
    /\ pc = "create"
    /\ \/ appendOpenShard
       \/ files >= target /\ pc' = "scan" /\ UNCHANGED files
    /\ UNCHANGED <<home, bucket, meta, target, plan, allowed, tracker, starts, strayed>>

\* Which tenants are not in their shard, where each is copied from (the last
\* shard that has it) and what will be deleted.
scanShardsForTenants ==
    LET to(t) == home[t][target]
        misplaced(t) == Holding(t) \ {to(t)}
    IN  [copy |-> [i \in Shards |-> {t \in Tenants : /\ misplaced(t) # {}
                                                     /\ i = to(t) /\ i \notin Holding(t)}],
         source |-> [t \in Tenants |-> IF misplaced(t) = {} THEN none ELSE Max(misplaced(t))],
         delete |-> [i \in Shards |-> {t \in Tenants : i \in misplaced(t)}],
         next |-> 0]

\* Mutant: buckets are deleted before they are copied.
ScanDeletesFirst ==
    /\ pc = "scan"
    /\ plan' = scanShardsForTenants
    /\ pc' = "delete"
    /\ UNCHANGED <<home, files, bucket, meta, target, allowed, tracker, starts, strayed>>
Scan ==
    /\ pc = "scan"
    /\ plan' = scanShardsForTenants
    /\ pc' = "copy"
    /\ UNCHANGED <<home, files, bucket, meta, target, allowed, tracker, starts, strayed>>

\* The next shard, in order, that the plan has something for.
NextShard(todo) == Min({i \in Shards : todo[i] # {}})
Nothing(todo) == \A i \in Shards : todo[i] = {}

\* One transaction per shard: every tenant that belongs there.
copyTenantsToShards ==
    /\ pc = "copy"
    /\ IF Nothing(plan.copy)
       THEN pc' = "delete" /\ UNCHANGED <<bucket, plan>>
       ELSE LET i == NextShard(plan.copy)
            IN  /\ bucket' = [bucket EXCEPT ![i] =
                     [t \in Tenants |-> IF t \in plan.copy[i] THEN bucket[plan.source[t]][t] ELSE @[t]]]
                /\ plan' = [plan EXCEPT !.copy[i] = {}]
                /\ UNCHANGED pc
    /\ UNCHANGED <<home, files, meta, target, allowed, tracker, starts, strayed>>

\* Mutant: the buckets that were copied are left.
deleteNothing ==
    /\ pc = "delete"
    /\ pc' = "meta"
    /\ UNCHANGED <<home, files, bucket, meta, target, plan, allowed, tracker, starts, strayed>>
deleteTenantsFromShards ==
    /\ pc = "delete"
    /\ IF Nothing(plan.delete)
       THEN pc' = "meta" /\ UNCHANGED <<bucket, plan>>
       ELSE LET i == NextShard(plan.delete)
            IN  /\ bucket' = [bucket EXCEPT ![i] =
                     [t \in Tenants |-> IF t \in plan.delete[i] THEN none ELSE @[t]]]
                /\ plan' = [plan EXCEPT !.delete[i] = {}]
                /\ UNCHANGED pc
    /\ UNCHANGED <<home, files, meta, target, allowed, tracker, starts, strayed>>

writeShardMetadata ==
    /\ pc = "meta"
    /\ meta' = target
    /\ pc' = "trim"
    /\ UNCHANGED <<home, files, bucket, target, plan, allowed, tracker, starts, strayed>>

\* Extra files go from the last one down.
closeAndDeleteExtraShards ==
    /\ pc = "trim"
    /\ IF files > target
       THEN /\ files' = files - 1
            /\ bucket' = [bucket EXCEPT ![files - 1] = EmptyShard]
            /\ UNCHANGED <<pc, plan>>
       ELSE pc' = "recover" /\ plan' = NoPlan /\ UNCHANGED <<files, bucket>>
    /\ UNCHANGED <<home, meta, target, allowed, tracker, starts, strayed>>

----------------------------------------------------------------------------
(* The manager, once the shards are ready *)

\* One transaction per shard: its buckets become trackers, or are deleted
\* when their tenants are not allowed any more.
recoverDB(i) ==
    /\ bucket' = [bucket EXCEPT ![i] = [t \in Tenants |-> IF t \in allowed THEN @[t] ELSE none]]
    /\ tracker' = [t \in Tenants |-> IF t \in allowed /\ bucket[i][t] # none THEN i ELSE tracker[t]]
RecoverAll ==
    /\ pc = "recover"
    /\ IF plan.next < files
       THEN recoverDB(plan.next) /\ plan' = [plan EXCEPT !.next = @ + 1] /\ UNCHANGED pc
       ELSE pc' = "up" /\ plan' = NoPlan /\ UNCHANGED <<bucket, tracker>>
    /\ UNCHANGED <<home, files, meta, target, allowed, starts, strayed>>

InitializeTenant(t) ==
    /\ pc = "up" /\ tracker[t] = none
    /\ t \in allowed
    /\ LET i == home[t][files]
       IN  /\ bucket[i][t] = none
           /\ bucket' = [bucket EXCEPT ![i][t] = 0]
           /\ tracker' = [tracker EXCEPT ![t] = i]
    /\ UNCHANGED <<home, files, meta, pc, target, plan, allowed, starts, strayed>>

WriteJob(t) ==
    /\ pc = "up" /\ tracker[t] # none
    /\ bucket[tracker[t]][t] < MaxWrites
    /\ bucket' = [bucket EXCEPT ![tracker[t]][t] = @ + 1]
    /\ UNCHANGED <<home, files, meta, pc, target, plan, allowed, tracker, starts, strayed>>

DropTenant(t) ==
    /\ pc = "up" /\ tracker[t] # none
    /\ bucket' = [bucket EXCEPT ![tracker[t]][t] = none]
    /\ tracker' = [tracker EXCEPT ![t] = none]
    /\ UNCHANGED <<home, files, meta, pc, target, plan, allowed, starts, strayed>>

\* The process ends, by a crash, an I/O error or a shutdown.
End ==
    /\ pc # "down"
    /\ pc' = "down"
    /\ plan' = NoPlan
    /\ tracker' = EmptyShard
    /\ UNCHANGED <<home, files, bucket, meta, target, allowed, starts, strayed>>

Migrate ==
    \/ coldStart \/ createShardsIfNeeded \/ Scan \/ copyTenantsToShards
    \/ deleteTenantsFromShards \/ writeShardMetadata \/ closeAndDeleteExtraShards \/ RecoverAll

Next ==
    \/ \E n \in Counts : prepare(n)
    \/ Migrate
    \/ \E t \in Tenants : InitializeTenant(t) \/ WriteJob(t) \/ DropTenant(t)
    \/ End

Spec == Init /\ [][Next]_vars

----------------------------------------------------------------------------
(* What must hold *)

Buckets == Nat \cup {none}

\* The variables have their types, and shards that do not exist are empty.
TypeOK ==
    /\ home \in [Tenants -> JumpHash]
    /\ files \in 0..MaxShards
    /\ bucket \in [Shards -> [Tenants -> Buckets]]
    /\ \A i \in Shards : i >= files => bucket[i] = EmptyShard
    /\ meta \in 0..MaxShards
    /\ target \in Counts
    /\ allowed \subseteq Tenants
    /\ tracker \in [Tenants -> Shards \cup {none}]
    /\ strayed \subseteq Tenants

\* No end of the process, at whatever step, leaves files that the next start
\* refuses for being fewer than the metadata says.
NeverRefused == files >= meta

\* Whatever start, crash or migration comes, the last bucket of a tenant goes
\* only when the scheduler drops the tenant or a start does not allow it: a
\* migration copies before it deletes, also from what another one left.
LastBucketStays ==
    [][\A t \in Tenants : Holding(t) # {} /\ Holding(t)' = {} => pc = "up" \/ t \notin allowed]_vars

\* What scanShardsForTenants takes for granted: the copies of a tenant's bucket
\* are the same, and it does not matter which one becomes the source or is
\* found in its place.
SourcesEquivalent ==
    pc = "scan" =>
      \A t \in Tenants : \A i, k \in Holding(t) : bucket[i][t] = bucket[k][t]

\* Once the scheduler is up, a tenant has one bucket, in the shard where
\* InitializeTenant would create it, and its tracker writes to that one, unless
\* a start went back on a migration that had copied the tenant.
OneBucketAtHome ==
    pc = "up" =>
      \A t \in Tenants \ strayed : Holding(t) = IF tracker[t] = none THEN {} ELSE {home[t][files]}

\* Ends, starts and migrations do not change what a start would recover, but
\* for the tenants it may not and those that strayed: the shards implement one
\* durable store.
Stored(t) == IF t \in strayed \/ Holding(t) = {} THEN none ELSE bucket[Max(Holding(t))][t]
Store == INSTANCE TenantStore WITH state <- [t \in Tenants |-> Stored(t)], up <- (pc = "up"),
                                   abandoned <- strayed
ImplementsStore == Store!Spec
================================================================================
