---------------------------- MODULE MCDaemonLink ----------------------------
(* Small instances of DaemonLink for TLC. *)
EXTENDS DaemonLink, TLC

CONSTANTS c1, c2, c3, c4

MCConns == {c1, c2, c3, c4}

\* Which DaemonConnection object is allocated makes no difference.
ConnSymmetry == Permutations(MCConns)
=============================================================================
