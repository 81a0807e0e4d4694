------------------------------- MODULE MCRpc --------------------------------
(* Small instances of Rpc for TLC. *)
EXTENDS Rpc, TLC

CONSTANTS c1, c2, c3, c4, r1, r2

MCConns == {c1, c2, c3, c4}
MCReqs == {r1, r2}

\* Neither the connection object allocated nor the order of command ids
\* makes a difference.
RpcSymmetry == Permutations(Conns) \cup Permutations(Commands)
=============================================================================
