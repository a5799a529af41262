-------------------------- MODULE ObservationOrdering --------------------------
(***************************************************************************)
(* orderObservationsForImport (pkg/blockbuilder/scheduler/                 *)
(* observation_ordering.go): a topological sort of the jobs observed for   *)
(* one partition.  Each cluster has its list of jobs, sorted by start      *)
(* offset; the algorithm walks the clusters in passes and emits from each  *)
(* the first job, among those tied with the front of the list, that no     *)
(* other cluster holds back.  A pass that emits nothing is a cycle.        *)
(*                                                                         *)
(* A job is the function from its clusters to its start offsets, with a    *)
(* number that tells equal ones apart.                                     *)
(***************************************************************************)
EXTENDS Integers, Sequences, FiniteSetsExt

CONSTANTS
    NumClusters,
    NumJobs, MaxStart    \* bounds

ASSUME OrderingConstants == NumClusters \in Nat /\ NumClusters >= 2 /\ NumJobs \in Nat /\ MaxStart \in Nat

clusterIDs == 0..(NumClusters - 1)
Jobs == 1..NumJobs

VARIABLES
    starts,    \* job -> (cluster -> start offset), for the job's clusters
    entries,   \* observationsByCluster
    next,      \* nextUnemittedByCluster
    ordered,   \* the jobs emitted so far
    cluster,   \* where the grouping or the pass is
    emitted,   \* emittedThisPass
    result     \* grouping, working, ordered or cycle (errObservationOffsetCycle)

orderVars == <<starts, entries, next, ordered, cluster, emitted, result>>

In(c) == {j \in Jobs : c \in DOMAIN starts[j]}

OrderInit ==
    /\ starts \in [Jobs -> UNION {[cs -> 0..MaxStart] : cs \in (SUBSET clusterIDs) \ {{}}}]
    /\ entries = [c \in clusterIDs |-> <<>>]
    /\ next = [c \in clusterIDs |-> 1]
    /\ ordered = <<>>
    /\ cluster = 0
    /\ emitted = FALSE
    /\ result = "grouping"

\* The jobs of a cluster sorted by start offset, ties in any order (SortFunc is
\* not stable and the observations come out of a map).
Sorted(c) ==
    {s \in [1..Cardinality(In(c)) -> In(c)] :
       /\ {s[i] : i \in DOMAIN s} = In(c)
       /\ \A i, j \in DOMAIN s : s[i] = s[j] => i = j
       /\ \A i, j \in DOMAIN s : i < j => starts[s[i]][c] <= starts[s[j]][c]}
groupByClusterID ==
    /\ result = "grouping"
    /\ \E s \in Sorted(cluster) : entries' = [entries EXCEPT ![cluster] = s]
    /\ IF cluster + 1 < NumClusters
       THEN cluster' = cluster + 1 /\ UNCHANGED result
       ELSE cluster' = 0 /\ result' = IF NumJobs = 0 THEN "ordered" ELSE "working"
    /\ UNCHANGED <<starts, next, ordered, emitted>>

-------------------------------------------------------------------------------
front(c) == starts[entries[c][next[c]]][c]
\* Mutant: only the cluster being visited is looked at.
canEmitHere(j) == next[cluster] <= Len(entries[cluster]) /\ front(cluster) >= starts[j][cluster]
\* Mutant: a tie in another cluster holds the job back.
canEmitStrict(j) ==
    \A c \in DOMAIN starts[j] :
      next[c] <= Len(entries[c]) /\ (front(c) > starts[j][c] \/ (c = cluster /\ front(c) >= starts[j][c]))
canEmit(j) ==
    \A c \in DOMAIN starts[j] : next[c] <= Len(entries[c]) /\ front(c) >= starts[j][c]

\* The entries of the visited cluster tied with its front that can be emitted.
candidates ==
    {i \in next[cluster]..Len(entries[cluster]) :
       /\ starts[entries[cluster][i]][cluster] = front(cluster)
       /\ canEmit(entries[cluster][i])}

\* emitCandidate: the job is swapped to the front of each of its lists.
position(j, c) == CHOOSE i \in next[c]..Len(entries[c]) : entries[c][i] = j
emitCandidate(j) ==
    /\ entries' = [c \in clusterIDs |->
                     IF c \notin DOMAIN starts[j] THEN entries[c]
                     ELSE [entries[c] EXCEPT ![next[c]] = j,
                                             ![position(j, c)] = entries[c][next[c]]]]
    /\ next' = [c \in clusterIDs |-> IF c \in DOMAIN starts[j] THEN next[c] + 1 ELSE next[c]]

visitCluster ==
    /\ result = "working" /\ cluster < NumClusters
    /\ cluster' = cluster + 1
    /\ IF candidates = {}
       THEN UNCHANGED <<entries, next, ordered, emitted>>
       ELSE LET j == entries[cluster][Min(candidates)]
            IN  /\ ordered' = Append(ordered, j)
                /\ emitCandidate(j)
                /\ emitted' = TRUE
    /\ UNCHANGED <<starts, result>>

\* Mutant: a pass that emits nothing is followed by another.
endPassNoCycle ==
    /\ result = "working" /\ cluster = NumClusters
    /\ result' = IF Len(ordered) = NumJobs THEN "ordered" ELSE "working"
    /\ cluster' = 0
    /\ emitted' = FALSE
    /\ UNCHANGED <<starts, entries, next, ordered>>
endPass ==
    /\ result = "working" /\ cluster = NumClusters
    /\ result' = IF ~emitted THEN "cycle"
                 ELSE IF Len(ordered) = NumJobs THEN "ordered" ELSE "working"
    /\ cluster' = 0
    /\ emitted' = FALSE
    /\ UNCHANGED <<starts, entries, next, ordered>>

OrderDone == result \in {"ordered", "cycle"} /\ UNCHANGED orderVars

OrderNext == groupByClusterID \/ visitCluster \/ endPass \/ OrderDone

OrderSpec == OrderInit /\ [][OrderNext]_orderVars /\ WF_orderVars(OrderNext)
-------------------------------------------------------------------------------
\* i must be imported before j: it starts lower in a cluster they share.
Precedes(i, j) ==
    \E c \in DOMAIN starts[i] \cap DOMAIN starts[j] : starts[i][c] < starts[j][c]

\* The reference: an order exists unless some jobs all have a predecessor among
\* themselves.
Acyclic ==
    \A some \in (SUBSET Jobs) \ {{}} : \E j \in some : \A i \in some : ~Precedes(i, j)

OrderTypeOK ==
    /\ \A c \in clusterIDs : next[c] \in 1..(Len(entries[c]) + 1) /\ entries[c] \in Seq(In(c))
    /\ ordered \in Seq(Jobs)
    /\ cluster \in 0..NumClusters /\ emitted \in BOOLEAN
    /\ result \in {"grouping", "working", "ordered", "cycle"}

\* The cursors split every list into what was emitted and what was not, and a
\* job that can be emitted is tied with the front of each of its lists (the
\* panic of emitCandidate, observation_ordering.go:115).
CursorsSplit ==
    \A c \in clusterIDs :
      /\ {entries[c][i] : i \in 1..(next[c] - 1)} = {ordered[i] : i \in DOMAIN ordered} \cap In(c)
      /\ result # "grouping" => {entries[c][i] : i \in DOMAIN entries[c]} = In(c)
      /\ \A i \in next[c]..Len(entries[c]) :
           canEmit(entries[c][i]) => starts[entries[c][i]][c] = front(c)

\* "a job spanning multiple clusters appears only after every job that precedes
\* it in any of its clusters" (observation_ordering.go:13); at the end every job
\* is there once.
OrderedRight ==
    /\ \A i, j \in DOMAIN ordered : i < j => ordered[i] # ordered[j] /\ ~Precedes(ordered[j], ordered[i])
    /\ result = "ordered" => {ordered[i] : i \in DOMAIN ordered} = Jobs

\* The error is returned exactly for inputs that cannot be ordered.
CycleIffCyclic ==
    result \in {"ordered", "cycle"} => (result = "cycle") = ~Acyclic

\* The passes come to an end.
Terminates == <>(result \in {"ordered", "cycle"})
================================================================================
