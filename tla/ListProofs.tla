------------------------------ MODULE ListProofs ------------------------------
(***************************************************************************)
(* What the operators on lists return, for lists of any length.            *)
(***************************************************************************)
EXTENDS Lists, FiniteSetTheorems, TLAPS

\* The positions that Keep reads: the ranks of the elements of a finite set of
\* numbers are 1, 2 and so on, in their order.
LEMMA Ranks ==
    ASSUME NEW P, P \subseteq Nat, IsFiniteSet(P)
    PROVE  /\ Cardinality(P) \in Nat
           /\ \A i \in P : Rank(P, i) \in 1..Cardinality(P)
           /\ \A i, k \in P : i < k => Rank(P, i) < Rank(P, k)
           /\ \A m \in 1..Cardinality(P) : \E i \in P : Rank(P, i) = m
<1> DEFINE upTo(i) == {k \in P : k <= i}
<1>1. Cardinality(P) \in Nat
  BY FS_CardinalityType
<1>2. \A i : upTo(i) \in SUBSET P
  OBVIOUS
<1>3. \A i : IsFiniteSet(upTo(i)) /\ Cardinality(upTo(i)) <= Cardinality(P)
  BY <1>2, FS_Subset
<1>4. \A i : Cardinality(upTo(i)) \in Nat /\ Rank(P, i) = Cardinality(upTo(i))
  BY <1>3, FS_CardinalityType DEF Rank
<1>5. ASSUME NEW i \in P PROVE Rank(P, i) \in 1..Cardinality(P)
  <2>1. i \in upTo(i)
    OBVIOUS
  <2>2. Cardinality(upTo(i)) # 0
    BY <1>3, <2>1, FS_EmptySet
  <2> QED
    BY <1>1, <1>3, <1>4, <2>2
<1>6. ASSUME NEW i \in P, NEW k \in P, i < k PROVE Rank(P, i) < Rank(P, k)
  <2>1. i \in Nat /\ k \in Nat
    OBVIOUS
  <2>2. upTo(i) \in SUBSET upTo(k)
    <3>1. \A x \in P : x <= i => x <= k
      BY <1>6, <2>1
    <3> QED
      BY <3>1
  <2>3. k \in upTo(k) /\ k \notin upTo(i)
    BY <1>6, <2>1
  <2>4. /\ Cardinality(upTo(i)) <= Cardinality(upTo(k))
        /\ Cardinality(upTo(k)) = Cardinality(upTo(i)) => upTo(k) = upTo(i)
    BY <1>3, <2>2, FS_Subset
  <2>5. Cardinality(upTo(i)) # Cardinality(upTo(k))
    BY <2>3, <2>4
  <2> QED
    BY <1>4, <2>4, <2>5
<1> HIDE DEF upTo
<1>7. ASSUME NEW m \in 1..Cardinality(P) PROVE \E i \in P : Rank(P, i) = m
  <2> DEFINE N == 1..Cardinality(P)
             rank == [i \in P |-> Rank(P, i)]
  <2>1. rank \in [P -> N]
    BY <1>5
  <2>2. \A i, k \in P : Rank(P, i) = Rank(P, k) => i = k
    <3> TAKE i, k \in P
    <3>1. i \in Nat /\ k \in Nat /\ Rank(P, i) \in Nat /\ Rank(P, k) \in Nat
      BY <1>4
    <3> QED
      BY <1>6, <3>1
  <2>3. rank \in Injection(P, N)
    BY <2>1, <2>2 DEF Injection, IsInjective
  <2>4. IsFiniteSet(N) /\ Cardinality(N) = Cardinality(P)
    BY <1>1, FS_Interval
  <2> HIDE DEF N, rank
  <2>5. rank \in Surjection(P, N)
    BY <2>3, <2>4, FS_Injection
  <2> QED
    BY <2>5 DEF Surjection, N, rank
<1> QED
  BY <1>1, <1>5, <1>6, <1>7

\* r has the elements of s that are in S, all of them, in their order; g says
\* where they are in s.
Kept(r, s, S, g) ==
    /\ g \in [DOMAIN r -> DOMAIN s]
    /\ \A m \in DOMAIN r : r[m] = s[g[m]] /\ r[m] \in S
    /\ \A m, k \in DOMAIN r : m < k => g[m] < g[k]
    /\ \A i \in DOMAIN s : s[i] \in S => \E m \in DOMAIN r : g[m] = i

\* So does Keep.
LEMMA KeepIs ==
    ASSUME NEW T, NEW s \in Seq(T), NEW S
    PROVE  Keep(s, S) \in Seq(T) /\ \E g : Kept(Keep(s, S), s, S, g)
<1> DEFINE P == {i \in DOMAIN s : s[i] \in S}
           g == [m \in 1..Cardinality(P) |-> CHOOSE i \in P : Rank(P, i) = m]
<1>1. P \subseteq Nat /\ IsFiniteSet(P) /\ P \subseteq DOMAIN s
  <2>1. DOMAIN s = 1..Len(s) /\ Len(s) \in Nat
    OBVIOUS
  <2>2. IsFiniteSet(1..Len(s))
    BY <2>1, FS_Interval
  <2>3. P \in SUBSET (1..Len(s))
    BY <2>1
  <2>4. IsFiniteSet(P)
    BY <2>2, <2>3, FS_Subset
  <2> QED
    BY <2>1, <2>3, <2>4
<1>2. \A i \in P : s[i] \in S /\ s[i] \in T
  OBVIOUS
<1>9. \A i \in DOMAIN s : s[i] \in S => i \in P
  OBVIOUS
<1>3. Keep(s, S) = [m \in 1..Cardinality(P) |-> s[CHOOSE i \in P : Rank(P, i) = m]]
  BY DEF Keep
<1> HIDE DEF P
<1>4. /\ Cardinality(P) \in Nat
      /\ \A i \in P : Rank(P, i) \in 1..Cardinality(P)
      /\ \A i, k \in P : i < k => Rank(P, i) < Rank(P, k)
      /\ \A m \in 1..Cardinality(P) : \E i \in P : Rank(P, i) = m
  BY <1>1, Ranks
<1>5. \A m \in 1..Cardinality(P) : g[m] \in P /\ Rank(P, g[m]) = m
  BY <1>4
<1>6. DOMAIN g = 1..Cardinality(P) /\ \A m \in 1..Cardinality(P) : Keep(s, S)[m] = s[g[m]]
  BY <1>3
<1> HIDE DEF g
<1>7. Keep(s, S) \in Seq(T) /\ DOMAIN Keep(s, S) = 1..Cardinality(P)
  <2>1. \A m \in 1..Cardinality(P) : Keep(s, S)[m] \in T
    BY <1>2, <1>5, <1>6
  <2>2. Keep(s, S) \in [1..Cardinality(P) -> T]
    BY <1>3, <2>1
  <2> QED
    BY <1>4, <2>2
<1>8. g \in [DOMAIN Keep(s, S) -> DOMAIN s]
  BY <1>1, <1>5, <1>7 DEF g
<1>10. ASSUME NEW m \in DOMAIN g, NEW k \in DOMAIN g, m < k PROVE g[m] < g[k]
  <2>1. /\ g[m] \in P /\ g[k] \in P /\ Rank(P, g[m]) = m /\ Rank(P, g[k]) = k
        /\ g[m] \in Nat /\ g[k] \in Nat /\ m \in Nat /\ k \in Nat
    <3>1. m \in 1..Cardinality(P) /\ k \in 1..Cardinality(P)
      BY <1>6
    <3>2. /\ g[m] \in P /\ g[k] \in P /\ Rank(P, g[m]) = m /\ Rank(P, g[k]) = k
      BY <1>5, <3>1
    <3>3. m \in Nat /\ k \in Nat
      BY <1>4, <3>1
    <3> QED
      BY <1>1, <3>2, <3>3
  <2>2. g[m] # g[k]
    BY <1>10, <2>1
  <2>3. ~(g[k] < g[m])
    BY <1>4, <1>10, <2>1
  <2> QED
    BY <2>1, <2>2, <2>3
<1>11. ASSUME NEW i \in DOMAIN s, s[i] \in S PROVE \E m \in DOMAIN g : g[m] = i
  <2>1. i \in P
    BY <1>9, <1>11
  <2>2. PICK m \in 1..Cardinality(P) : m = Rank(P, i)
    BY <1>4, <2>1
  <2>3. g[m] \in P /\ Rank(P, g[m]) = m
    BY <1>5
  <2>4. g[m] \in Nat /\ i \in Nat /\ m \in Nat
    <3>1. g[m] \in Nat /\ i \in Nat
      BY <1>1, <2>1, <2>3
    <3>2. m \in Nat
      BY <1>4
    <3> QED
      BY <3>1, <3>2
  <2>5. ~(g[m] < i) /\ ~(i < g[m])
    BY <1>4, <2>1, <2>2, <2>3, <2>4
  <2> QED
    BY <1>6, <2>4, <2>5
<1>12. Kept(Keep(s, S), s, S, g)
  BY <1>2, <1>5, <1>6, <1>7, <1>8, <1>10, <1>11 DEF Kept
<1> QED
  BY <1>7, <1>12

\* So it has those elements and, if s repeats none, repeats none.
LEMMA KeepSet ==
    ASSUME NEW T, NEW s \in Seq(T), NEW S
    PROVE  /\ Keep(s, S) \in Seq(T)
           /\ Range(Keep(s, S)) = Range(s) \cap S
           /\ IsInjective(s) => IsInjective(Keep(s, S))
<1>1. PICK g : Kept(Keep(s, S), s, S, g)
  BY KeepIs
<1>2. Keep(s, S) \in Seq(T)
  BY KeepIs
<1>3. Range(Keep(s, S)) = Range(s) \cap S
  BY <1>1 DEF Range, Kept
<1>4. ASSUME IsInjective(s), NEW m \in DOMAIN Keep(s, S), NEW k \in DOMAIN Keep(s, S),
             Keep(s, S)[m] = Keep(s, S)[k]
      PROVE  m = k
  <2>1. g[m] = g[k] /\ g[m] \in DOMAIN s
    BY <1>1, <1>4 DEF IsInjective, Kept
  <2>2. m \in Nat /\ k \in Nat /\ g[m] \in Nat
    BY <1>2, <2>1
  <2> QED
    BY <1>1, <2>1, <2>2 DEF Kept
<1> QED
  BY <1>2, <1>3, <1>4 DEF IsInjective

\* Two lists one after the other.
LEMMA ConcatSet ==
    ASSUME NEW T, NEW s \in Seq(T), NEW t \in Seq(T)
    PROVE  /\ s \o t \in Seq(T)
           /\ Range(s \o t) = Range(s) \cup Range(t)
           /\ IsInjective(s) /\ IsInjective(t) /\ Range(s) \cap Range(t) = {} => IsInjective(s \o t)
<1>1. /\ s \o t \in Seq(T) /\ Len(s) \in Nat /\ Len(t) \in Nat
      /\ DOMAIN s = 1..Len(s) /\ DOMAIN t = 1..Len(t)
      /\ DOMAIN (s \o t) = 1..(Len(s) + Len(t))
      /\ \A i \in 1..Len(s) : (s \o t)[i] = s[i]
      /\ \A i \in 1..(Len(s) + Len(t)) : i > Len(s) => i - Len(s) \in 1..Len(t) /\ (s \o t)[i] = t[i - Len(s)]
      /\ \A i \in 1..Len(t) : Len(s) + i \in 1..(Len(s) + Len(t)) /\ (s \o t)[Len(s) + i] = t[i]
  OBVIOUS
<1> DEFINE st == s \o t
<1> HIDE DEF st
<1>2. ASSUME NEW i \in DOMAIN st
      PROVE  \/ i \in DOMAIN s /\ st[i] = s[i]
             \/ i > Len(s) /\ i - Len(s) \in DOMAIN t /\ st[i] = t[i - Len(s)]
  BY <1>1 DEF st
<1>3. /\ \A i \in DOMAIN s : i \in DOMAIN st /\ st[i] = s[i]
      /\ \A i \in DOMAIN t : Len(s) + i \in DOMAIN st /\ st[Len(s) + i] = t[i]
  BY <1>1 DEF st
<1>4. Range(st) = Range(s) \cup Range(t)
  BY <1>2, <1>3 DEF Range
<1>5. ASSUME IsInjective(s), IsInjective(t), Range(s) \cap Range(t) = {},
             NEW i \in DOMAIN st, NEW k \in DOMAIN st, st[i] = st[k]
      PROVE  i = k
  <2>1. \A x \in DOMAIN s, y \in DOMAIN t : s[x] # t[y]
    BY <1>5 DEF Range
  <2>2. i \in Nat /\ k \in Nat
    BY <1>1 DEF st
  <2>3. CASE i \in DOMAIN s /\ st[i] = s[i]
    BY <1>2, <1>5, <2>1, <2>3 DEF IsInjective
  <2>4. CASE i > Len(s) /\ i - Len(s) \in DOMAIN t /\ st[i] = t[i - Len(s)]
    <3>1. k > Len(s) /\ k - Len(s) \in DOMAIN t /\ st[k] = t[k - Len(s)]
      BY <1>2, <1>5, <2>1, <2>4
    <3>2. i - Len(s) = k - Len(s)
      BY <1>5, <2>4, <3>1 DEF IsInjective
    <3> QED
      BY <1>1, <2>2, <3>2
  <2> QED
    BY <1>2, <2>3, <2>4
<1> QED
  BY <1>1, <1>4, <1>5 DEF st, IsInjective

\* One element, put at the end.
LEMMA AppendSet ==
    ASSUME NEW T, NEW s \in Seq(T), NEW x \in T
    PROVE  /\ Append(s, x) \in Seq(T)
           /\ Range(Append(s, x)) = Range(s) \cup {x}
           /\ IsInjective(s) /\ x \notin Range(s) => IsInjective(Append(s, x))
<1>1. /\ Append(s, x) \in Seq(T) /\ DOMAIN s = 1..Len(s) /\ Len(s) \in Nat
      /\ DOMAIN Append(s, x) = 1..(Len(s) + 1)
      /\ \A i \in 1..Len(s) : i \in DOMAIN Append(s, x) /\ Append(s, x)[i] = s[i]
      /\ Append(s, x)[Len(s) + 1] = x /\ Len(s) + 1 \in DOMAIN Append(s, x)
      /\ \A i \in 1..(Len(s) + 1) : i \in 1..Len(s) \/ i = Len(s) + 1
  OBVIOUS
<1>2. Range(Append(s, x)) = Range(s) \cup {x}
  BY <1>1 DEF Range
<1> QED
  BY <1>1, <1>2 DEF Range, IsInjective

\* One element, put at the front.
LEMMA PushSet ==
    ASSUME NEW T, NEW s \in Seq(T), NEW x \in T
    PROVE  /\ <<x>> \o s \in Seq(T)
           /\ Range(<<x>> \o s) = {x} \cup Range(s)
           /\ IsInjective(s) /\ x \notin Range(s) => IsInjective(<<x>> \o s)
<1>1. PICK one : one = <<x>>
  OBVIOUS
<1>2. one \in Seq(T) /\ Range(one) = {x} /\ IsInjective(one)
  BY <1>1 DEF Range, IsInjective
<1>3. x \notin Range(s) => Range(one) \cap Range(s) = {}
  BY <1>2
<1>4. /\ one \o s \in Seq(T) /\ Range(one \o s) = Range(one) \cup Range(s)
      /\ IsInjective(one) /\ IsInjective(s) /\ Range(one) \cap Range(s) = {} => IsInjective(one \o s)
  BY <1>2, ConcatSet
<1> QED
  BY <1>1, <1>2, <1>3, <1>4

\* The front element, taken out of a list that repeats none.
LEMMA TailSet ==
    ASSUME NEW T, NEW s \in Seq(T), s # <<>>, IsInjective(s)
    PROVE  /\ Head(s) \in Range(s) /\ Tail(s) \in Seq(T)
           /\ Range(Tail(s)) = Range(s) \ {Head(s)}
           /\ IsInjective(Tail(s))
<1>1. /\ Tail(s) \in Seq(T) /\ DOMAIN s = 1..Len(s) /\ Len(s) \in Nat /\ Len(s) >= 1
      /\ Head(s) = s[1] /\ DOMAIN Tail(s) = 1..(Len(s) - 1)
      /\ \A i \in 1..(Len(s) - 1) : i + 1 \in DOMAIN s /\ Tail(s)[i] = s[i + 1] /\ i + 1 # 1
      /\ \A i \in 1..Len(s) : i = 1 \/ (i - 1 \in 1..(Len(s) - 1) /\ Tail(s)[i - 1] = s[i])
  OBVIOUS
<1>2. Head(s) \in Range(s)
  BY <1>1 DEF Range
<1>3. Range(Tail(s)) = Range(s) \ {Head(s)}
  <2>1. \A i \in DOMAIN Tail(s) : Tail(s)[i] \in Range(s) /\ Tail(s)[i] # Head(s)
    BY <1>1 DEF Range, IsInjective
  <2>2. ASSUME NEW x \in Range(s) \ {Head(s)}
        PROVE  \E i \in DOMAIN Tail(s) : Tail(s)[i] = x
    <3>1. PICK i \in DOMAIN s : x = s[i]
      BY DEF Range
    <3>2. i # 1
      BY <1>1, <3>1
    <3>3. i - 1 \in DOMAIN Tail(s) /\ Tail(s)[i - 1] = x
      BY <1>1, <3>1, <3>2
    <3> QED
      BY <3>3
  <2> QED
    BY <2>1, <2>2 DEF Range
<1>4. IsInjective(Tail(s))
  BY <1>1 DEF IsInjective
<1> QED
  BY <1>1, <1>2, <1>3, <1>4

\* A list read backwards.
LEMMA ReverseSet ==
    ASSUME NEW T, NEW s \in Seq(T)
    PROVE  /\ Reversed(s) \in Seq(T) /\ Range(Reversed(s)) = Range(s)
           /\ IsInjective(s) => IsInjective(Reversed(s))
<1>1. /\ DOMAIN s = 1..Len(s) /\ Len(s) \in Nat /\ DOMAIN Reversed(s) = 1..Len(s)
      /\ \A i \in 1..Len(s) : /\ (Len(s) - i) + 1 \in 1..Len(s)
                              /\ (Len(s) - ((Len(s) - i) + 1)) + 1 = i
                              /\ Reversed(s)[i] = s[(Len(s) - i) + 1]
  BY DEF Reversed
<1>2. Reversed(s) \in Seq(T)
  BY <1>1 DEF Reversed
<1>3. Range(Reversed(s)) = Range(s)
  BY <1>1 DEF Range
<1>4. IsInjective(s) => IsInjective(Reversed(s))
  BY <1>1 DEF IsInjective
<1> QED
  BY <1>2, <1>3, <1>4

\* A list has finitely many elements, and a list of as many different ones as a
\* set has is a list of them all.
LEMMA ListFinite ==
    ASSUME NEW T, NEW s \in Seq(T)
    PROVE  IsFiniteSet(Range(s))
<1>1. DOMAIN s = 1..Len(s) /\ Len(s) \in Nat
  OBVIOUS
<1>2. IsFiniteSet(1..Len(s))
  BY <1>1, FS_Interval
<1>3. s \in Surjection(1..Len(s), Range(s))
  BY <1>1 DEF Surjection, Range
<1> QED
  BY <1>2, <1>3, FS_Surjection
LEMMA OrdersIs ==
    ASSUME NEW S, IsFiniteSet(S), NEW s \in Orders(S)
    PROVE  s \in Seq(S) /\ Range(s) = S /\ IsInjective(s)
<1> DEFINE N == 1..Cardinality(S)
<1>1. Cardinality(S) \in Nat
  BY FS_CardinalityType
<1>2. s \in [N -> S] /\ \A i, k \in N : i # k => s[i] # s[k]
  BY DEF Orders, Bijection, Injection, IsInjective
<1>3. s \in Injection(N, S) /\ IsInjective(s)
  BY <1>2 DEF Injection, IsInjective
<1>4. IsFiniteSet(N) /\ Cardinality(N) = Cardinality(S)
  BY <1>1, FS_Interval
<1>5. s \in Seq(S)
  BY <1>1, <1>2
<1> HIDE DEF N
<1>6. s \in Surjection(N, S)
  BY <1>3, <1>4, FS_Injection
<1>7. Range(s) = S
  BY <1>2, <1>6 DEF Surjection, Range
<1> QED
  BY <1>3, <1>5, <1>7
===============================================================================
