---------------------------- MODULE MCWorkspace -----------------------------
(* Small instances of Workspace for TLC. *)
EXTENDS Workspace, TLC

CONSTANTS one, two, torn, s1, s2

D == <<"d">>
G == <<"d", "g">>
L == <<"l">>

\* one and two have the same length.
MCContents == {one, two, torn}
MCSizeOf == [c \in MCContents |-> IF c = torn THEN 1 ELSE 2]

\* A directory with a file, and a link to that file.
TreePaths == {D, G, L}
TreeKinds == (D :> {"dir", "file"}) @@ (G :> {"file"}) @@ (L :> {"link", "file"})
LinkTargets == {G}

WsSymmetry == Permutations({one, two}) \cup Permutations({s1, s2})
=============================================================================
