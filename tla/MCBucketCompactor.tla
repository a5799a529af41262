------------------------- MODULE MCBucketCompactor -------------------------
(* One compactor with faults, and two compactors that may both run a job, without. *)
EXTENDS BucketCompactor, TLC

RangesDef == <<2, 4>>
WindowsDef == {<<0, 2>>, <<2, 4>>, <<3, 6>>}
Symmetry == Permutations(Compactors)

Two == Cardinality(ring) > 1
MCInit == Init /\ (IF Two THEN faults = MaxFaults /\ now = Late ELSE faults = 0 /\ now = Early)
\* The second source of two compactors, and the third of one, is of the first window;
\* two compactors share sources with all series.
Allowed(w, hashes) ==
    LET n == Cardinality(sources)
    IN  /\ n = 2 => ~Two
        /\ Two => hashes = Hashes
        /\ Two \/ n = 2 => w[2] = 2 /\ \A b \in bucket : b.max <= 2
\* Bound: three sources with one fault, or two with two.
SourcesAndFaults == 4
MCNext ==
    /\ \/ \E w \in Windows, hashes \in (SUBSET Hashes) \ {{}} : Allowed(w, hashes) /\ Ship(w, hashes)
       \/ Compaction
    /\ Cardinality(sources') + faults' <= SourcesAndFaults
MCSpec == MCInit /\ [][MCNext]_vars
============================================================================
