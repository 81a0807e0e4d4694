----------------------------- MODULE MCSessions -----------------------------
(* Small instances of Sessions for TLC. *)
EXTENDS Sessions, TLC

CONSTANTS c1, c2

OneChunk == <<"o1">>
TwoChunks == <<"o1", "o2">>

\* It does not matter which connection object is allocated.
ConnSymmetry == Permutations(Conns)
=============================================================================
