---------------------- MODULE ObservationOrderingProofs ----------------------
(***************************************************************************)
(* Proofs that orderObservationsForImport emits a topological order of the *)
(* observed jobs, never reaches the panic of emitCandidate, and returns    *)
(* the cycle error exactly for jobs that have no order: for any number of  *)
(* clusters and jobs and any offsets.                                      *)
(***************************************************************************)
EXTENDS ObservationOrdering, FiniteSetTheorems, TLAPS

Emitted == {ordered[i] : i \in DOMAIN ordered}

\* A list holds the jobs of its cluster, once each, sorted.
ListOK(c) ==
    /\ entries[c] \in Seq(In(c))
    /\ \A j \in In(c) : \E i \in DOMAIN entries[c] : entries[c][i] = j
    /\ \A i, k \in DOMAIN entries[c] : entries[c][i] = entries[c][k] => i = k
    /\ \A i, k \in DOMAIN entries[c] : i < k => starts[entries[c][i]][c] <= starts[entries[c][k]][c]

\* Its cursor separates what was emitted from what was not.
CursorOK(c) ==
    /\ next[c] \in 1..(Len(entries[c]) + 1)
    /\ \A i \in DOMAIN entries[c] : i < next[c] <=> entries[c][i] \in Emitted

Types ==
    /\ \A j \in Jobs : /\ DOMAIN starts[j] \subseteq clusterIDs
                       /\ DOMAIN starts[j] # {}
                       /\ \A c \in DOMAIN starts[j] : starts[j][c] \in Nat
    /\ entries = [c \in clusterIDs |-> entries[c]]
    /\ next = [c \in clusterIDs |-> next[c]]
    /\ ordered \in Seq(Jobs)
    /\ cluster \in 0..NumClusters
    /\ emitted \in BOOLEAN
    /\ result \in {"grouping", "working", "ordered", "cycle"}

\* While the lists are made, those before the current cluster are.
Grouping ==
    result = "grouping" =>
      /\ cluster < NumClusters /\ ordered = <<>> /\ emitted = FALSE
      /\ \A c \in clusterIDs : next[c] = 1
      /\ \A c \in clusterIDs : IF c < cluster THEN ListOK(c) ELSE entries[c] = <<>>

Lists == result # "grouping" => \A c \in clusterIDs : ListOK(c) /\ CursorOK(c)

\* No job is emitted twice, or before one that precedes it.
Topological ==
    \A i, k \in DOMAIN ordered : i < k => ordered[i] # ordered[k] /\ ~Precedes(ordered[k], ordered[i])

\* A pass that has emitted nothing found no job to emit in the clusters it
\* visited, and there is one that was not emitted.
Stuck ==
    result = "working" /\ ~emitted =>
      /\ Len(ordered) # NumJobs
      /\ \A j \in Jobs \ Emitted : (\E c \in DOMAIN starts[j] : c < cluster) => ~canEmit(j)

OInv ==
    /\ Types
    /\ Grouping
    /\ Lists
    /\ Topological
    /\ Stuck
    /\ result = "cycle" => ~Acyclic
    /\ result = "ordered" => Len(ordered) = NumJobs
----------------------------------------------------------------------------
(* Least elements *)

LEMMA Least ==
    ASSUME NEW S, S \subseteq Nat, S # {}
    PROVE  \E x \in S : \A y \in S : x <= y
<1> DEFINE R == OpToRel(<, Nat)
<1>1. IsWellFoundedOn(R, Nat)
  BY NatLessThanWellFounded
<1>2. \A x, y \in Nat : y < x => <<y, x>> \in R
  BY DEF OpToRel
<1> HIDE DEF R
<1>3. PICK x \in S : \A y \in S : ~(<<y, x>> \in R)
  BY <1>1, WFMin, Zenon
<1>4. ASSUME NEW y \in S PROVE x <= y
  <2>1. x \in Nat /\ y \in Nat
    OBVIOUS
  <2>2. ~(y < x)
    BY <1>2, <1>3, <2>1, Zenon
  <2> QED
    BY <2>1, <2>2
<1> QED
  BY <1>4

LEMMA MinIn ==
    ASSUME NEW S, S \subseteq Nat, S # {}
    PROVE  Min(S) \in S
  BY Least, Zenon DEF Min
----------------------------------------------------------------------------
(* The jobs that were not emitted *)

\* Where an unemitted job is.
LEMMA Placed ==
    ASSUME OInv, result # "grouping", NEW j \in Jobs, j \notin Emitted, NEW c \in DOMAIN starts[j]
    PROVE  /\ c \in clusterIDs /\ j \in In(c)
           /\ next[c] \in Nat /\ Len(entries[c]) \in Nat /\ DOMAIN entries[c] = 1..Len(entries[c])
           /\ next[c] \in DOMAIN entries[c]
           /\ entries[c][next[c]] \in In(c) /\ entries[c][next[c]] \notin Emitted
           /\ starts[entries[c][next[c]]][c] <= starts[j][c]
           /\ \E i \in next[c]..Len(entries[c]) : entries[c][i] = j
<1>1. c \in clusterIDs /\ j \in In(c)
  BY DEF OInv, Types, In
<1>2. ListOK(c) /\ CursorOK(c)
  BY <1>1 DEF OInv, Lists
<1>3. entries[c] \in Seq(In(c)) /\ Len(entries[c]) \in Nat /\ DOMAIN entries[c] = 1..Len(entries[c])
  BY <1>2 DEF ListOK
<1>4. PICK i \in DOMAIN entries[c] : entries[c][i] = j
  BY <1>1, <1>2 DEF ListOK
<1>5. next[c] \in 1..(Len(entries[c]) + 1) /\ ~(i < next[c])
  BY <1>2, <1>4 DEF CursorOK
<1>6. next[c] \in Nat /\ i \in Nat /\ next[c] \in DOMAIN entries[c] /\ i \in next[c]..Len(entries[c])
  BY <1>3, <1>4, <1>5
<1>7. entries[c][next[c]] \in In(c)
  BY <1>3, <1>6
<1>8. entries[c][next[c]] \notin Emitted
  BY <1>2, <1>6 DEF CursorOK
<1>9. starts[entries[c][next[c]]][c] <= starts[j][c]
  <2>1. starts[j][c] \in Nat
    BY DEF OInv, Types
  <2>2. CASE i = next[c]
    BY <1>4, <2>1, <2>2
  <2>3. CASE next[c] < i
    BY <1>2, <1>4, <1>6, <2>3 DEF ListOK
  <2> QED
    BY <1>6, <2>2, <2>3
<1> QED
  BY <1>1, <1>3, <1>4, <1>6, <1>7, <1>8, <1>9

\* A job that can be emitted is tied with the front of each of its lists.
LEMMA Tied ==
    ASSUME OInv, result # "grouping", NEW j \in Jobs, j \notin Emitted, canEmit(j),
           NEW c \in DOMAIN starts[j]
    PROVE  starts[j][c] = front(c)
<1>1. /\ entries[c][next[c]] \in In(c)
      /\ starts[entries[c][next[c]]][c] <= starts[j][c]
  BY Placed
<1>2. starts[entries[c][next[c]]][c] \in Nat /\ starts[j][c] \in Nat
  BY <1>1 DEF OInv, Types, In
<1>3. starts[j][c] <= starts[entries[c][next[c]]][c]
  BY <1>2 DEF canEmit, front
<1> QED
  BY <1>1, <1>2, <1>3 DEF front

\* One that cannot has a predecessor that was not emitted either.
LEMMA HeldBack ==
    ASSUME OInv, result # "grouping", NEW j \in Jobs, j \notin Emitted, ~canEmit(j)
    PROVE  \E i \in Jobs \ Emitted : Precedes(i, j)
<1>1. PICK c \in DOMAIN starts[j] : ~(next[c] <= Len(entries[c]) /\ front(c) >= starts[j][c])
  BY DEF canEmit
<1>2. /\ next[c] \in Nat /\ Len(entries[c]) \in Nat /\ next[c] \in 1..Len(entries[c])
      /\ entries[c][next[c]] \in In(c) /\ entries[c][next[c]] \notin Emitted
  BY Placed
<1>3. PICK i : i = entries[c][next[c]]
  OBVIOUS
<1>4. i \in Jobs /\ c \in DOMAIN starts[i] /\ i \notin Emitted
  BY <1>2, <1>3 DEF In
<1>5. starts[i][c] \in Nat /\ starts[j][c] \in Nat
  BY <1>4 DEF OInv, Types
<1>6. starts[i][c] < starts[j][c]
  BY <1>1, <1>2, <1>3, <1>5 DEF front
<1> QED
  BY <1>4, <1>6 DEF Precedes

\* And one that can, none.
LEMMA NotHeldBack ==
    ASSUME OInv, result # "grouping", NEW j \in Jobs, j \notin Emitted, canEmit(j),
           NEW i \in Jobs, i \notin Emitted
    PROVE  ~Precedes(i, j)
<1> SUFFICES ASSUME NEW c \in DOMAIN starts[i] \cap DOMAIN starts[j], starts[i][c] < starts[j][c]
             PROVE  FALSE
  BY DEF Precedes
<1>1. starts[j][c] = front(c)
  BY Tied
<1>2. starts[entries[c][next[c]]][c] <= starts[i][c] /\ entries[c][next[c]] \in In(c)
  BY Placed
<1>3. starts[entries[c][next[c]]][c] \in Nat /\ starts[i][c] \in Nat
  BY <1>2 DEF OInv, Types, In
<1> QED
  BY <1>1, <1>2, <1>3 DEF front

\* What was emitted does not start after what was not.
LEMMA EmittedFirst ==
    ASSUME OInv, result # "grouping", NEW i \in Jobs, i \in Emitted, NEW j \in Jobs, j \notin Emitted
    PROVE  ~Precedes(j, i)
<1> SUFFICES ASSUME NEW c \in DOMAIN starts[j] \cap DOMAIN starts[i], starts[j][c] < starts[i][c]
             PROVE  FALSE
  BY DEF Precedes
<1>1. c \in clusterIDs /\ i \in In(c) /\ j \in In(c)
  BY DEF OInv, Types, In
<1>2. ListOK(c) /\ CursorOK(c)
  BY <1>1 DEF OInv, Lists
<1>3. PICK k \in DOMAIN entries[c] : entries[c][k] = i
  BY <1>1, <1>2 DEF ListOK
<1>4. PICK m \in DOMAIN entries[c] : entries[c][m] = j
  BY <1>1, <1>2 DEF ListOK
<1>5. k < next[c] /\ ~(m < next[c]) /\ next[c] \in Nat
  BY <1>2, <1>3, <1>4 DEF CursorOK
<1>6. k \in Nat /\ m \in Nat
  BY <1>2, <1>3, <1>4 DEF ListOK
<1>7. starts[i][c] <= starts[j][c]
  BY <1>2, <1>3, <1>4, <1>5, <1>6 DEF ListOK
<1>8. starts[i][c] \in Nat /\ starts[j][c] \in Nat
  BY DEF OInv, Types
<1> QED
  BY <1>7, <1>8
----------------------------------------------------------------------------
(* Emitting a job *)

\* The candidate is a job not emitted yet, that nothing holds back.
LEMMA Candidate ==
    ASSUME OInv, result = "working", cluster < NumClusters, candidates # {},
           NEW j, j = entries[cluster][Min(candidates)]
    PROVE  j \in Jobs /\ j \notin Emitted /\ canEmit(j)
<1>1. cluster \in clusterIDs
  BY OrderingConstants DEF OInv, Types, clusterIDs
<1>2. ListOK(cluster) /\ CursorOK(cluster)
  BY <1>1 DEF OInv, Lists
<1>3. /\ entries[cluster] \in Seq(In(cluster))
      /\ Len(entries[cluster]) \in Nat /\ DOMAIN entries[cluster] = 1..Len(entries[cluster])
      /\ next[cluster] \in 1..(Len(entries[cluster]) + 1)
  BY <1>2 DEF ListOK, CursorOK
<1>4. candidates \subseteq Nat
  BY <1>3 DEF candidates
<1>5. PICK i : i = Min(candidates)
  OBVIOUS
<1>6. i \in candidates
  BY <1>4, <1>5, MinIn
<1>7. i \in next[cluster]..Len(entries[cluster]) /\ canEmit(j)
  BY <1>5, <1>6 DEF candidates
<1>8. i \in DOMAIN entries[cluster] /\ ~(i < next[cluster])
  BY <1>3, <1>7
<1>9. j \notin Emitted
  BY <1>2, <1>5, <1>8 DEF CursorOK
<1>10. j \in In(cluster)
  BY <1>3, <1>5, <1>8
<1> QED
  BY <1>7, <1>9, <1>10 DEF In

\* Appending it emits it.
LEMMA NowEmitted ==
    ASSUME OInv, NEW j \in Jobs, ordered' = Append(ordered, j)
    PROVE  /\ ordered' \in Seq(Jobs)
           /\ Len(ordered) \in Nat /\ DOMAIN ordered = 1..Len(ordered)
           /\ DOMAIN ordered' = 1..(Len(ordered) + 1)
           /\ \A i \in DOMAIN ordered : ordered'[i] = ordered[i]
           /\ ordered'[Len(ordered) + 1] = j
           /\ Emitted' = Emitted \cup {j}
<1>1. ordered \in Seq(Jobs) /\ Len(ordered) \in Nat /\ DOMAIN ordered = 1..Len(ordered)
  BY DEF OInv, Types
<1>2. /\ ordered' \in Seq(Jobs)
      /\ DOMAIN ordered' = 1..(Len(ordered) + 1)
      /\ \A i \in DOMAIN ordered : ordered'[i] = ordered[i]
      /\ ordered'[Len(ordered) + 1] = j
  BY <1>1
<1>3. Emitted' \subseteq Emitted \cup {j}
  BY <1>1, <1>2 DEF Emitted
<1>4. Emitted \subseteq Emitted'
  BY <1>1, <1>2 DEF Emitted
<1>5. j \in Emitted'
  BY <1>1, <1>2 DEF Emitted
<1> QED
  BY <1>1, <1>2, <1>3, <1>4, <1>5

\* Swapping it to the front keeps the list sorted, and the cursor passes it.
LEMMA Swapped ==
    ASSUME OInv, result = "working", NEW j \in Jobs, j \notin Emitted, canEmit(j),
           ordered' = Append(ordered, j), emitCandidate(j), starts' = starts,
           NEW c \in DOMAIN starts[j]
    PROVE  ListOK(c)' /\ CursorOK(c)'
<1>1. /\ c \in clusterIDs /\ j \in In(c)
      /\ next[c] \in Nat /\ Len(entries[c]) \in Nat /\ DOMAIN entries[c] = 1..Len(entries[c])
      /\ next[c] \in DOMAIN entries[c]
      /\ \E i \in next[c]..Len(entries[c]) : entries[c][i] = j
  BY Placed
<1>2. ListOK(c) /\ CursorOK(c)
  BY <1>1 DEF OInv, Lists
<1>3. PICK p : p = position(j, c)
  OBVIOUS
<1>4. p \in next[c]..Len(entries[c]) /\ entries[c][p] = j
  BY <1>1, <1>3 DEF position
<1>5. PICK e, n : e = entries[c] /\ n = next[c]
  OBVIOUS
<1>6. PICK f : f = entries'[c]
  OBVIOUS
<1>7. f = [e EXCEPT ![n] = j, ![p] = e[n]] /\ next'[c] = n + 1
  BY <1>1, <1>3, <1>5, <1>6 DEF emitCandidate
<1>8. e \in Seq(In(c)) /\ n \in DOMAIN e /\ p \in DOMAIN e /\ n \in Nat /\ p \in Nat /\ n <= p
  <2>1. e \in Seq(In(c))
    BY <1>2, <1>5 DEF ListOK
  <2>2. n \in DOMAIN e /\ n \in Nat /\ DOMAIN e = 1..Len(e) /\ Len(e) \in Nat /\ p \in n..Len(e)
    BY <1>1, <1>4, <1>5
  <2> QED
    BY <2>1, <2>2
<1>9. /\ DOMAIN f = DOMAIN e
      /\ f[p] = e[n] /\ f[n] = e[p]
      /\ \A i \in DOMAIN e : i # n /\ i # p => f[i] = e[i]
  BY <1>4, <1>5, <1>7, <1>8
<1>10. f \in Seq(In(c)) /\ Len(f) = Len(e)
  BY <1>1, <1>7, <1>8
<1>11. In(c)' = In(c)
  BY DEF In
<1>12. \A k \in In(c) : \E i \in DOMAIN f : f[i] = k
  <2> TAKE k \in In(c)
  <2>1. PICK i \in DOMAIN e : e[i] = k
    BY <1>2, <1>5 DEF ListOK
  <2> QED
    BY <2>1, <1>8, <1>9
<1>13. \A i, k \in DOMAIN f : f[i] = f[k] => i = k
  <2>1. \A i, k \in DOMAIN e : e[i] = e[k] => i = k
    BY <1>2, <1>5 DEF ListOK
  <2> QED
    BY <2>1, <1>8, <1>9
<1>14. \A i \in DOMAIN e : starts[f[i]][c] = starts[e[i]][c]
  <2>1. starts[j][c] = starts[e[n]][c]
    BY Tied, <1>5 DEF front
  <2>2. e[p] = j
    BY <1>4, <1>5
  <2> QED
    BY <2>1, <2>2, <1>9
<1>15. \A i, k \in DOMAIN f : i < k => starts[f[i]][c] <= starts[f[k]][c]
  <2>1. \A i, k \in DOMAIN e : i < k => starts[e[i]][c] <= starts[e[k]][c]
    BY <1>2, <1>5 DEF ListOK
  <2> QED
    BY <2>1, <1>9, <1>14
<1>16. ListOK(c)'
  BY <1>6, <1>10, <1>11, <1>12, <1>13, <1>15 DEF ListOK
<1>17. \A i \in DOMAIN f : i < n + 1 <=> f[i] \in Emitted'
  <2> TAKE i \in DOMAIN f
  <2>1. Emitted' = Emitted \cup {j}
    BY NowEmitted
  <2>2. \A k \in DOMAIN e : k < n <=> e[k] \in Emitted
    BY <1>2, <1>5 DEF CursorOK
  <2>3. \A k \in DOMAIN e : e[k] = j <=> k = p
    BY <1>2, <1>4, <1>5, <1>8 DEF ListOK
  <2>4. i \in Nat
    BY <1>1, <1>5, <1>9
  <2>5. CASE i = n
    BY <1>4, <1>5, <1>8, <1>9, <2>1, <2>5
  <2>6. CASE i = p /\ i # n
    BY <1>8, <1>9, <2>1, <2>2, <2>3, <2>6
  <2>7. CASE i # n /\ i # p
    BY <1>8, <1>9, <2>1, <2>2, <2>3, <2>4, <2>7
  <2> QED
    BY <2>5, <2>6, <2>7
<1>18. CursorOK(c)'
  <2>1. n + 1 \in 1..(Len(f) + 1)
    BY <1>1, <1>5, <1>8, <1>10
  <2> QED
    BY <1>6, <1>7, <1>17, <2>1 DEF CursorOK
<1> QED
  BY <1>16, <1>18

\* The other lists do not hold it.
LEMMA NotSwapped ==
    ASSUME OInv, result = "working", NEW j \in Jobs,
           ordered' = Append(ordered, j), emitCandidate(j), starts' = starts,
           NEW c \in clusterIDs, c \notin DOMAIN starts[j]
    PROVE  ListOK(c)' /\ CursorOK(c)'
<1>1. ListOK(c) /\ CursorOK(c)
  BY DEF OInv, Lists
<1>2. entries'[c] = entries[c] /\ next'[c] = next[c]
  BY DEF emitCandidate
<1>3. In(c)' = In(c)
  BY DEF In
<1>4. ListOK(c)'
  BY <1>1, <1>2, <1>3 DEF ListOK
<1>5. \A i \in DOMAIN entries[c] : entries[c][i] # j
  BY <1>1 DEF ListOK, In
<1>6. Emitted' = Emitted \cup {j}
  BY NowEmitted
<1> QED
  BY <1>1, <1>2, <1>4, <1>5, <1>6 DEF CursorOK
----------------------------------------------------------------------------
(* The steps *)

LEMMA InitOK == OrderInit => OInv
<1> SUFFICES ASSUME OrderInit PROVE OInv
  OBVIOUS
<1>1. \A j \in Jobs : /\ DOMAIN starts[j] \subseteq clusterIDs
                      /\ DOMAIN starts[j] # {}
                      /\ \A c \in DOMAIN starts[j] : starts[j][c] \in Nat
  <2> TAKE j \in Jobs
  <2>1. PICK cs \in (SUBSET clusterIDs) \ {{}} : starts[j] \in [cs -> 0..MaxStart]
    BY DEF OrderInit
  <2> QED
    BY <2>1, OrderingConstants
<1>2. Types
  <2>1. entries = [c \in clusterIDs |-> entries[c]] /\ next = [c \in clusterIDs |-> next[c]]
    BY DEF OrderInit
  <2>2. ordered \in Seq(Jobs) /\ cluster \in 0..NumClusters
    BY OrderingConstants DEF OrderInit
  <2> QED
    BY <1>1, <2>1, <2>2 DEF Types, OrderInit
<1>3. Grouping
  BY OrderingConstants DEF Grouping, OrderInit, clusterIDs
<1>4. Topological
  BY DEF Topological, OrderInit
<1> QED
  BY <1>2, <1>3, <1>4 DEF OInv, Lists, Stuck, OrderInit

\* A step that leaves the lists, the cursors and the order alone.
LEMMA SameLists ==
    ASSUME OInv, UNCHANGED <<starts, entries, next, ordered>>
    PROVE  /\ \A c \in clusterIDs : ListOK(c)' = ListOK(c) /\ CursorOK(c)' = CursorOK(c)
           /\ \A j \in Jobs : canEmit(j)' = canEmit(j)
           /\ Emitted' = Emitted
           /\ Topological'
           /\ Acyclic' = Acyclic
<1>1. Emitted' = Emitted
  BY DEF Emitted
<1>2. \A c \in clusterIDs : In(c)' = In(c)
  BY DEF In
<1>3. \A c \in clusterIDs : ListOK(c)' = ListOK(c)
  BY <1>2, Zenon DEF ListOK
<1>4. \A c \in clusterIDs : CursorOK(c)' = CursorOK(c)
  BY <1>1, Zenon DEF CursorOK
<1>5. \A j \in Jobs : canEmit(j)' = canEmit(j)
  BY Zenon DEF canEmit, front
<1>6. Topological'
  BY DEF OInv, Topological, Precedes
<1>7. Acyclic' = Acyclic
  BY Zenon DEF Acyclic, Precedes
<1> QED
  BY <1>1, <1>3, <1>4, <1>5, <1>6, <1>7

LEMMA GroupStep ==
    ASSUME OInv, groupByClusterID
    PROVE  OInv'
<1>1. /\ result = "grouping" /\ starts' = starts /\ next' = next /\ ordered' = ordered /\ emitted' = emitted
      /\ cluster < NumClusters /\ ordered = <<>> /\ emitted = FALSE
      /\ \A c \in clusterIDs : next[c] = 1
      /\ cluster \in clusterIDs /\ cluster \in Nat
  BY OrderingConstants DEF groupByClusterID, OInv, Grouping, Types, clusterIDs
<1>2. PICK s \in Sorted(cluster) : entries' = [entries EXCEPT ![cluster] = s]
  BY DEF groupByClusterID
<1>3. entries = [c \in clusterIDs |-> entries[c]]
  BY DEF OInv, Types
<1>4. entries'[cluster] = s /\ \A c \in clusterIDs \ {cluster} : entries'[c] = entries[c]
  BY <1>1, <1>2, <1>3
<1>5. \A c \in clusterIDs : In(c)' = In(c)
  BY <1>1 DEF In
<1>6. Cardinality(In(cluster)) \in Nat
  <2>1. IsFiniteSet(Jobs)
    BY OrderingConstants, FS_Interval DEF Jobs
  <2>2. In(cluster) \in SUBSET Jobs
    BY DEF In
  <2> QED
    BY <2>1, <2>2, FS_Subset, FS_CardinalityType
<1>7. \A c \in clusterIDs : c = cluster => ListOK(c)'
  <2> SUFFICES ASSUME NEW c \in clusterIDs, c = cluster PROVE ListOK(c)'
    OBVIOUS
  <2>1. s \in [1..Cardinality(In(cluster)) -> In(cluster)]
    BY <1>2 DEF Sorted
  <2>2. s \in Seq(In(cluster))
    BY <1>6, <2>1
  <2>3. /\ {s[i] : i \in DOMAIN s} = In(cluster)
        /\ \A i, j \in DOMAIN s : s[i] = s[j] => i = j
        /\ \A i, j \in DOMAIN s : i < j => starts[s[i]][cluster] <= starts[s[j]][cluster]
    BY <1>2 DEF Sorted
  <2>4. \A j \in In(cluster) : \E i \in DOMAIN s : s[i] = j
    BY <2>3, Zenon
  <2>6. entries'[c] = s /\ In(c)' = In(c)
    BY <1>4, <1>5
  <2>7. /\ entries'[c] \in Seq(In(c))
        /\ \A j \in In(c) : \E i \in DOMAIN entries'[c] : entries'[c][i] = j
        /\ \A i, k \in DOMAIN entries'[c] : entries'[c][i] = entries'[c][k] => i = k
        /\ \A i, k \in DOMAIN entries'[c] : i < k => starts[entries'[c][i]][c] <= starts[entries'[c][k]][c]
    BY <2>2, <2>3, <2>4, <2>6
  <2> QED
    BY <2>6, <2>7, <1>1 DEF ListOK
<1>8. \A c \in clusterIDs : c < cluster => ListOK(c)'
  <2> SUFFICES ASSUME NEW c \in clusterIDs, c < cluster PROVE ListOK(c)'
    OBVIOUS
  <2>1. ListOK(c) /\ entries'[c] = entries[c]
    BY <1>1, <1>4 DEF OInv, Grouping, clusterIDs
  <2> QED
    BY <1>1, <1>5, <2>1 DEF ListOK
<1>9. Types'
  <2>1. entries' = [c \in clusterIDs |-> entries'[c]]
    BY <1>2, <1>3
  <2>2. cluster' \in 0..NumClusters /\ result' \in {"grouping", "working", "ordered", "cycle"}
    BY <1>1, OrderingConstants DEF groupByClusterID
  <2> QED
    BY <1>1, <2>1, <2>2 DEF OInv, Types
<1>10. Topological'
  BY <1>1 DEF Topological
<1>11. CASE cluster + 1 < NumClusters
  <2>1. cluster' = cluster + 1 /\ result' = "grouping"
    BY <1>1, <1>11 DEF groupByClusterID
  <2>2. \A c \in clusterIDs : IF c < cluster + 1 THEN ListOK(c)' ELSE entries'[c] = <<>>
    <3> TAKE c \in clusterIDs
    <3>1. CASE c < cluster
      BY <1>1, <1>8, <3>1, OrderingConstants DEF clusterIDs
    <3>2. CASE c = cluster
      BY <1>1, <1>7, <3>2
    <3>3. CASE c > cluster
      BY <1>1, <1>4, <3>3, OrderingConstants DEF OInv, Grouping, clusterIDs
    <3> QED
      BY <1>1, <3>1, <3>2, <3>3, OrderingConstants DEF clusterIDs
  <2>3. Grouping'
    BY <1>1, <1>11, <2>1, <2>2 DEF Grouping
  <2> QED
    BY <1>9, <1>10, <2>1, <2>3 DEF OInv, Lists, Stuck
<1>12. CASE ~(cluster + 1 < NumClusters)
  <2>1. /\ cluster' = 0 /\ result' = IF NumJobs = 0 THEN "ordered" ELSE "working"
        /\ cluster = NumClusters - 1
    BY <1>1, <1>12, OrderingConstants DEF groupByClusterID
  <2>2. \A c \in clusterIDs : ListOK(c)'
    <3> TAKE c \in clusterIDs
    <3>1. c < cluster \/ c = cluster
      BY <2>1, OrderingConstants DEF clusterIDs
    <3> QED
      BY <1>7, <1>8, <3>1
  <2>3. Emitted' = {}
    BY <1>1 DEF Emitted
  <2>4. \A c \in clusterIDs : CursorOK(c)'
    <3> TAKE c \in clusterIDs
    <3>1. Len(entries'[c]) \in Nat /\ DOMAIN entries'[c] = 1..Len(entries'[c])
      BY <2>2 DEF ListOK
    <3>2. next'[c] = 1
      BY <1>1
    <3> QED
      BY <2>3, <3>1, <3>2 DEF CursorOK
  <2>5. Stuck'
    <3>1. \A j \in Jobs : DOMAIN starts[j] \subseteq clusterIDs
      BY DEF OInv, Types
    <3>2. \A j \in Jobs : ~\E c \in DOMAIN starts[j] : c < 0
      BY <3>1, OrderingConstants DEF clusterIDs
    <3>3. result' = "working" => Len(ordered') # NumJobs
      BY <1>1, <2>1
    <3> QED
      BY <1>1, <2>1, <3>2, <3>3 DEF Stuck
  <2>6. result' = "ordered" => Len(ordered') = NumJobs
    BY <1>1, <2>1
  <2>7. result' # "grouping" /\ result' # "cycle"
    BY <2>1
  <2> QED
    BY <1>9, <1>10, <2>2, <2>4, <2>5, <2>6, <2>7 DEF OInv, Grouping, Lists
<1> QED
  BY <1>11, <1>12

\* A pass that finds nothing in a cluster.
LEMMA VisitNone ==
    ASSUME OInv, visitCluster, candidates = {}
    PROVE  OInv'
<1>1. /\ result = "working" /\ result' = result /\ cluster < NumClusters /\ cluster' = cluster + 1
      /\ UNCHANGED <<starts, entries, next, ordered>> /\ emitted' = emitted
      /\ cluster \in Nat
  BY OrderingConstants DEF visitCluster, OInv, Types
<1>2. /\ \A c \in clusterIDs : ListOK(c)' = ListOK(c) /\ CursorOK(c)' = CursorOK(c)
      /\ \A j \in Jobs : canEmit(j)' = canEmit(j)
      /\ Emitted' = Emitted
      /\ Topological'
  BY <1>1, SameLists
<1>3. Types'
  BY <1>1, OrderingConstants DEF OInv, Types
<1>4. Lists'
  BY <1>1, <1>2 DEF OInv, Lists
<1>5. ASSUME ~emitted,
             NEW j \in Jobs \ Emitted, NEW c \in DOMAIN starts[j], c < cluster + 1
      PROVE  ~canEmit(j)
  <2>1. c \in clusterIDs /\ c \in Nat
    BY OrderingConstants DEF OInv, Types, clusterIDs
  <2>2. CASE c < cluster
    BY <1>1, <1>5, <2>2 DEF OInv, Stuck
  <2>3. CASE c = cluster
    <3> SUFFICES ASSUME canEmit(j) PROVE FALSE
      OBVIOUS
    <3>1. PICK i \in next[c]..Len(entries[c]) : entries[c][i] = j
      BY <1>1, Placed
    <3>2. starts[j][c] = front(c)
      BY <1>1, Tied
    <3>3. i \in candidates
      BY <2>3, <3>1, <3>2 DEF candidates
    <3> QED
      BY <3>3
  <2> QED
    BY <1>1, <1>5, <2>1, <2>2, <2>3
<1>6. Stuck'
  <2> SUFFICES ASSUME ~emitted
               PROVE  /\ Len(ordered') # NumJobs
                      /\ \A j \in Jobs \ Emitted' :
                           (\E c \in DOMAIN starts'[j] : c < cluster') => ~canEmit(j)'
    BY <1>1 DEF Stuck
  <2>1. Len(ordered') # NumJobs
    BY <1>1 DEF OInv, Stuck
  <2> QED
    BY <1>1, <1>2, <1>5, <2>1
<1> QED
  BY <1>1, <1>2, <1>3, <1>4, <1>6 DEF OInv, Grouping

\* One that emits a job.
LEMMA VisitEmits ==
    ASSUME OInv, visitCluster, candidates # {}
    PROVE  OInv'
<1>1. /\ result = "working" /\ result' = result /\ cluster < NumClusters /\ cluster' = cluster + 1
      /\ starts' = starts /\ cluster \in Nat
  BY OrderingConstants DEF visitCluster, OInv, Types
<1>2. PICK j : j = entries[cluster][Min(candidates)]
  OBVIOUS
<1>3. j \in Jobs /\ j \notin Emitted /\ canEmit(j)
  BY <1>1, <1>2, Candidate
<1>4. ordered' = Append(ordered, j) /\ emitCandidate(j) /\ emitted' = TRUE
  BY <1>2 DEF visitCluster
<1>5. /\ ordered' \in Seq(Jobs)
      /\ Len(ordered) \in Nat /\ DOMAIN ordered = 1..Len(ordered)
      /\ DOMAIN ordered' = 1..(Len(ordered) + 1)
      /\ \A i \in DOMAIN ordered : ordered'[i] = ordered[i]
      /\ ordered'[Len(ordered) + 1] = j
  BY <1>3, <1>4, NowEmitted
<1>6. Types'
  <2>1. entries' = [c \in clusterIDs |-> entries'[c]] /\ next' = [c \in clusterIDs |-> next'[c]]
    BY <1>4 DEF emitCandidate
  <2>2. cluster' \in 0..NumClusters
    BY <1>1, OrderingConstants
  <2> QED
    BY <1>1, <1>4, <1>5, <2>1, <2>2 DEF OInv, Types
<1>7. Lists'
  <2>1. \A c \in clusterIDs : ListOK(c)' /\ CursorOK(c)'
    <3> TAKE c \in clusterIDs
    <3>1. CASE c \in DOMAIN starts[j]
      BY <1>1, <1>3, <1>4, <3>1, Swapped
    <3>2. CASE c \notin DOMAIN starts[j]
      BY <1>1, <1>3, <1>4, <3>2, NotSwapped
    <3> QED
      BY <3>1, <3>2
  <2> QED
    BY <2>1 DEF Lists
<1>8. Topological'
  <2>1. \A a, b : Precedes(a, b)' = Precedes(a, b)
    BY <1>1 DEF Precedes
  <2>2. ASSUME NEW i \in DOMAIN ordered', NEW k \in DOMAIN ordered', i < k
        PROVE  ordered'[i] # ordered'[k] /\ ~Precedes(ordered'[k], ordered'[i])
    <3>1. i \in DOMAIN ordered /\ i \in Nat /\ k \in Nat /\ ordered'[i] = ordered[i]
      BY <1>5, <2>2
    <3>2. CASE k \in DOMAIN ordered
      BY <1>5, <2>2, <3>1, <3>2 DEF OInv, Topological
    <3>3. CASE k \notin DOMAIN ordered
      <4>1. ordered'[k] = j
        BY <1>5, <3>3
      <4>2. ordered[i] \in Emitted /\ ordered[i] \in Jobs
        BY <3>1 DEF Emitted, OInv, Types
      <4> QED
        BY <1>1, <1>3, <3>1, <4>1, <4>2, EmittedFirst
    <3> QED
      BY <3>2, <3>3
  <2> QED
    BY <2>1, <2>2 DEF Topological
<1> QED
  BY <1>1, <1>4, <1>6, <1>7, <1>8 DEF OInv, Grouping, Stuck

\* The jobs are all emitted when as many were emitted.
LEMMA AllEmitted ==
    ASSUME OInv
    PROVE  Len(ordered) = NumJobs <=> Emitted = Jobs
<1>1. ordered \in Seq(Jobs) /\ Len(ordered) \in Nat /\ DOMAIN ordered = 1..Len(ordered)
  BY DEF OInv, Types
<1>2. ordered \in [1..Len(ordered) -> Jobs]
  BY <1>1
<1>3. \A i, k \in 1..Len(ordered) : ordered[i] = ordered[k] => i = k
  <2> TAKE i, k \in 1..Len(ordered)
  <2>1. i < k \/ k < i \/ i = k
    BY <1>1
  <2> QED
    BY <1>1, <2>1 DEF OInv, Topological
<1>4. ordered \in Injection(1..Len(ordered), Jobs)
  BY <1>1, <1>2, <1>3 DEF Injection, IsInjective
<1>5. /\ IsFiniteSet(Jobs) /\ Cardinality(Jobs) = NumJobs
      /\ Cardinality(1..Len(ordered)) = Len(ordered)
  <2>1. \A n \in Nat : IsFiniteSet(1..n) /\ Cardinality(1..n) = n
    <3> TAKE n \in Nat
    <3>1. IsFiniteSet(1..n) /\ Cardinality(1..n) = IF 1 > n THEN 0 ELSE n - 1 + 1
      BY FS_Interval
    <3> QED
      BY <3>1
  <2> QED
    BY <1>1, <2>1, OrderingConstants DEF Jobs
<1>6. Len(ordered) = NumJobs <=> ordered \in Surjection(1..Len(ordered), Jobs)
  BY <1>4, <1>5, FS_Injection
<1>7. ordered \in Surjection(1..Len(ordered), Jobs) <=> \A j \in Jobs : \E i \in 1..Len(ordered) : ordered[i] = j
  BY <1>2 DEF Surjection
<1>8. (\A j \in Jobs : \E i \in 1..Len(ordered) : ordered[i] = j) <=> Emitted = Jobs
  BY <1>1, <1>2 DEF Emitted
<1> QED
  BY <1>6, <1>7, <1>8

\* A pass over all clusters that emitted nothing has met a cycle.
LEMMA CycleFound ==
    ASSUME OInv, result = "working", ~emitted, cluster = NumClusters
    PROVE  ~Acyclic
<1>1. Emitted # Jobs
  BY AllEmitted DEF OInv, Stuck
<1>2. Emitted \subseteq Jobs
  BY DEF Emitted, OInv, Types
<1>3. PICK some : some = Jobs \ Emitted
  OBVIOUS
<1>4. some \in (SUBSET Jobs) \ {{}}
  BY <1>1, <1>2, <1>3
<1>5. ASSUME NEW j \in some PROVE \E i \in some : Precedes(i, j)
  <2>1. PICK c \in DOMAIN starts[j] : c \in clusterIDs
    BY <1>3 DEF OInv, Types
  <2>2. c < cluster
    BY <2>1, OrderingConstants DEF clusterIDs
  <2>3. ~canEmit(j)
    BY <1>3, <2>2 DEF OInv, Stuck
  <2> QED
    BY <1>3, <2>3, HeldBack
<1> QED
  BY <1>4, <1>5 DEF Acyclic

LEMMA EndStep ==
    ASSUME OInv, endPass
    PROVE  OInv'
<1>1. /\ result = "working" /\ cluster = NumClusters /\ cluster' = 0 /\ emitted' = FALSE
      /\ UNCHANGED <<starts, entries, next, ordered>>
      /\ result' = IF ~emitted THEN "cycle"
                   ELSE IF Len(ordered) = NumJobs THEN "ordered" ELSE "working"
  BY DEF endPass
<1>2. /\ \A c \in clusterIDs : ListOK(c)' = ListOK(c) /\ CursorOK(c)' = CursorOK(c)
      /\ Topological' /\ Acyclic' = Acyclic
  BY <1>1, SameLists
<1>3. Types'
  <2>1. cluster' \in 0..NumClusters /\ result' \in {"grouping", "working", "ordered", "cycle"}
    BY <1>1, OrderingConstants
  <2> QED
    BY <1>1, <2>1 DEF OInv, Types
<1>4. Lists' /\ Grouping'
  BY <1>1, <1>2 DEF OInv, Lists, Grouping
<1>5. Stuck'
  <2>1. \A j \in Jobs : ~\E c \in DOMAIN starts[j] : c < 0
    BY OrderingConstants DEF OInv, Types, clusterIDs
  <2> QED
    BY <1>1, <2>1 DEF Stuck
<1>6. result' = "cycle" => ~Acyclic'
  BY <1>1, <1>2, CycleFound
<1>7. result' = "ordered" => Len(ordered') = NumJobs
  BY <1>1
<1> QED
  BY <1>2, <1>3, <1>4, <1>5, <1>6, <1>7 DEF OInv

LEMMA StepOK == OInv /\ [OrderNext]_orderVars => OInv'
<1> SUFFICES ASSUME OInv, [OrderNext]_orderVars PROVE OInv'
  OBVIOUS
<1>1. CASE UNCHANGED orderVars
  <2>1. /\ \A c \in clusterIDs : ListOK(c)' = ListOK(c) /\ CursorOK(c)' = CursorOK(c)
        /\ \A j \in Jobs : canEmit(j)' = canEmit(j)
        /\ Emitted' = Emitted /\ Topological' /\ Acyclic' = Acyclic
    BY <1>1, SameLists DEF orderVars
  <2>2. Types' /\ Grouping' /\ Lists'
    BY <1>1, <2>1 DEF orderVars, OInv, Types, Grouping, Lists
  <2>3. Stuck'
    BY <1>1, <2>1 DEF orderVars, OInv, Stuck
  <2> QED
    BY <1>1, <2>1, <2>2, <2>3 DEF orderVars, OInv
<1> QED
  BY <1>1, GroupStep, VisitNone, VisitEmits, EndStep DEF OrderNext, OrderDone

LEMMA Invariant == OrderSpec => []OInv
  BY InitOK, StepOK, PTL DEF OrderSpec
----------------------------------------------------------------------------
\* orderObservationsForImport emits every job at most once and after all that
\* precede it in a cluster they share, and all of them when it succeeds
\* (observation_ordering.go:13-15).
THEOREM OrderingIsTopological == OrderSpec => []OrderedRight
<1>1. OInv => OrderedRight
  BY AllEmitted DEF OInv, OrderedRight, Topological, Emitted
<1> QED
  BY <1>1, Invariant, PTL

\* errObservationOffsetCycle is returned exactly when the offsets cannot be
\* ordered.
THEOREM OrderingErrsOnCycles == OrderSpec => []CycleIffCyclic
<1>1. ASSUME OInv, result = "ordered" PROVE Acyclic
  <2> SUFFICES ASSUME NEW some \in (SUBSET Jobs) \ {{}}
               PROVE  \E j \in some : \A i \in some : ~Precedes(i, j)
    BY DEF Acyclic
  <2>1. Emitted = Jobs
    BY <1>1, AllEmitted DEF OInv
  <2>2. DOMAIN ordered \subseteq Nat
    BY <1>1 DEF OInv, Types
  <2>3. PICK S : S = {k \in DOMAIN ordered : ordered[k] \in some}
    OBVIOUS
  <2>4. S # {} /\ S \subseteq Nat
    BY <2>1, <2>2, <2>3 DEF Emitted
  <2>5. PICK k \in S : \A m \in S : k <= m
    BY <2>4, Least
  <2>6. ASSUME NEW i \in some PROVE ~Precedes(i, ordered[k])
    <3>1. PICK m \in DOMAIN ordered : ordered[m] = i
      BY <2>1 DEF Emitted
    <3>2. k <= m /\ k \in Nat /\ m \in Nat /\ k \in DOMAIN ordered
      BY <2>2, <2>3, <2>5, <3>1
    <3>3. CASE k < m
      BY <1>1, <3>1, <3>2, <3>3 DEF OInv, Topological
    <3>4. CASE k = m
      BY <1>1, <3>1, <3>4 DEF OInv, Types, Precedes
    <3> QED
      BY <3>2, <3>3, <3>4
  <2> QED
    BY <2>3, <2>5, <2>6
<1>2. OInv => CycleIffCyclic
  BY <1>1, Zenon DEF OInv, CycleIffCyclic
<1> QED
  BY <1>2, Invariant, PTL

\* The cursors keep separating the emitted jobs from the others, and emitCandidate
\* never panics: the job it swaps ties with the front of each of its lists
\* (observation_ordering.go:112-118).
THEOREM OrderingNeverPanics == OrderSpec => []CursorsSplit
<1>1. ASSUME OInv, NEW c \in clusterIDs, result = "grouping"
      PROVE  /\ {entries[c][i] : i \in 1..(next[c] - 1)} = {ordered[i] : i \in DOMAIN ordered} \cap In(c)
             /\ \A i \in next[c]..Len(entries[c]) :
                  canEmit(entries[c][i]) => starts[entries[c][i]][c] = front(c)
  <2>1. next[c] = 1 /\ ordered = <<>> /\ (entries[c] = <<>> \/ ListOK(c))
    BY <1>1, Zenon DEF OInv, Grouping
  <2>2. {entries[c][i] : i \in 1..(next[c] - 1)} = {} /\ {ordered[i] : i \in DOMAIN ordered} = {}
    BY <2>1
  <2>3. ASSUME NEW i \in next[c]..Len(entries[c]), canEmit(entries[c][i])
        PROVE  starts[entries[c][i]][c] = front(c)
    <3>1. ListOK(c)
      BY <2>1, <2>3
    <3>2. entries[c] \in Seq(In(c)) /\ Len(entries[c]) \in Nat /\ DOMAIN entries[c] = 1..Len(entries[c])
      BY <3>1 DEF ListOK
    <3>3. i \in DOMAIN entries[c] /\ 1 \in DOMAIN entries[c] /\ i \in Nat
      BY <2>1, <2>3, <3>2
    <3>4. entries[c][i] \in In(c) /\ entries[c][1] \in In(c)
      BY <3>2, <3>3
    <3>5. starts[entries[c][i]][c] \in Nat /\ starts[entries[c][1]][c] \in Nat
      BY <1>1, <3>4 DEF OInv, Types, In
    <3>6. front(c) >= starts[entries[c][i]][c]
      BY <2>3, <3>4 DEF canEmit, In
    <3>7. i = 1 \/ starts[entries[c][1]][c] <= starts[entries[c][i]][c]
      BY <3>1, <3>3 DEF ListOK
    <3> QED
      BY <2>1, <3>5, <3>6, <3>7 DEF front
  <2> QED
    BY <2>2, <2>3
<1>2. ASSUME OInv, NEW c \in clusterIDs, result # "grouping"
      PROVE  /\ {entries[c][i] : i \in 1..(next[c] - 1)} = {ordered[i] : i \in DOMAIN ordered} \cap In(c)
             /\ {entries[c][i] : i \in DOMAIN entries[c]} = In(c)
             /\ \A i \in next[c]..Len(entries[c]) :
                  canEmit(entries[c][i]) => starts[entries[c][i]][c] = front(c)
  <2>1. ListOK(c) /\ CursorOK(c)
    BY <1>2 DEF OInv, Lists
  <2>2. /\ entries[c] \in Seq(In(c)) /\ Len(entries[c]) \in Nat /\ DOMAIN entries[c] = 1..Len(entries[c])
        /\ next[c] \in 1..(Len(entries[c]) + 1)
    BY <2>1 DEF ListOK, CursorOK
  <2>3. {entries[c][i] : i \in DOMAIN entries[c]} = In(c)
    BY <2>1, <2>2 DEF ListOK
  <2>4. 1..(next[c] - 1) = {i \in DOMAIN entries[c] : i < next[c]}
    BY <2>2
  <2>5. {entries[c][i] : i \in {k \in DOMAIN entries[c] : k < next[c]}} = Emitted \cap In(c)
    BY <2>1, <2>3, Zenon DEF CursorOK
  <2>6. ASSUME NEW i \in next[c]..Len(entries[c]), canEmit(entries[c][i])
        PROVE  starts[entries[c][i]][c] = front(c)
    <3>1. i \in DOMAIN entries[c] /\ ~(i < next[c])
      BY <2>2, <2>6
    <3>2. entries[c][i] \in In(c) /\ entries[c][i] \notin Emitted
      BY <2>1, <2>2, <3>1 DEF CursorOK
    <3> QED
      BY <1>2, <2>6, <3>2, Tied DEF In
  <2> QED
    BY <2>3, <2>4, <2>5, <2>6 DEF Emitted
<1>3. OInv => CursorsSplit
  BY <1>1, <1>2, Zenon DEF CursorsSplit
<1> QED
  BY <1>3, Invariant, PTL
==============================================================================
