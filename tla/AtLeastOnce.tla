------------------------------ MODULE AtLeastOnce ------------------------------
(***************************************************************************)
(* What the block-builders and their scheduler promise together, whatever  *)
(* jobs, leases and epochs they use to keep it: records are appended,      *)
(* their samples are built into blocks (some of them more than once), and  *)
(* the commit of a partition moves forward over records that are built.    *)
(***************************************************************************)
EXTENDS Integers

CONSTANTS Partitions, Clusters, InitialCommit

VARIABLES logEnd, kcommit, built

avars == <<logEnd, kcommit, built>>

Init ==
    /\ logEnd = [p \in Partitions |-> [c \in Clusters |-> 0]]
    /\ kcommit = [p \in Partitions |-> [c \in Clusters |-> InitialCommit]]
    /\ built = [p \in Partitions |-> [c \in Clusters |-> {}]]

Append(p, c) ==
    /\ logEnd' = [logEnd EXCEPT ![p][c] = @ + 1]
    /\ UNCHANGED <<kcommit, built>>

\* Records of one partition are built, from the log as far as it goes.
Build(p) ==
    /\ \A q \in Partitions, c \in Clusters :
         /\ built[q][c] \subseteq built'[q][c]
         /\ built'[q][c] \ built[q][c] \subseteq IF q = p THEN 0..(logEnd[q][c] - 1) ELSE {}
    /\ UNCHANGED <<logEnd, kcommit>>

\* The commits of one cluster move forward, never past a record not built.
Commit(c) ==
    /\ \A p \in Partitions, d \in Clusters :
         /\ kcommit[p][d] <= kcommit'[p][d]
         /\ d # c => kcommit'[p][d] = kcommit[p][d]
         /\ 0..(kcommit'[p][d] - 1) \subseteq built[p][d]
    /\ UNCHANGED <<logEnd, built>>

Next ==
    \/ \E p \in Partitions, c \in Clusters : Append(p, c)
    \/ \E p \in Partitions : Build(p)
    \/ \E c \in Clusters : Commit(c)

Spec == Init /\ [][Next]_avars
================================================================================
