--------------------------------- MODULE Lists ---------------------------------
(* Lists as container/list has them, and what is taken out of them. *)
EXTENDS Naturals, Sequences, FiniteSets, Functions

\* The elements of s that are in S, in the order of s.
Rank(P, i) == Cardinality({k \in P : k <= i})
Keep(s, S) ==
    LET P == {i \in DOMAIN s : s[i] \in S}
    IN  [m \in 1..Cardinality(P) |-> s[CHOOSE i \in P : Rank(P, i) = m]]

Reversed(s) == [i \in 1..Len(s) |-> s[(Len(s) - i) + 1]]

\* A set in any order.
Orders(S) == Bijection(1..Cardinality(S), S)
================================================================================
