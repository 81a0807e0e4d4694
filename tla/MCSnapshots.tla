---------------------------- MODULE MCSnapshots -----------------------------
(* Small instances of Snapshots for TLC. *)
EXTENDS Snapshots, TLC

CONSTANTS i1, i2, i3, k1, k2

MCIds == {i1, i2, i3}

\* In their order: 1 to 3 are "v1.0", "v1.1" and "v1.tmp", 4 and 5 are "work"
\* and "work.tmp".
MCNames == 1..5
MCTempOf == [n \in MCNames |-> IF n \in {4, 5} THEN 5 ELSE 3]

IdSymmetry == Permutations(MCIds)
=============================================================================
