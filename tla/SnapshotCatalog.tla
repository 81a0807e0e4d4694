-------------------------- MODULE SnapshotCatalog --------------------------
(***************************************************************************)
(* What the snapshot manager promises about snapshots and their tags: a    *)
(* catalogue in which a snapshot appears together with all of its tags, a  *)
(* tag belongs to one snapshot until that snapshot is deleted, and a       *)
(* deletion takes the snapshot's tags with it and no others.               *)
(***************************************************************************)
CONSTANTS Ids, Tags, None

VARIABLES
    listed,   \* the snapshots
    tagOf     \* tag -> the snapshot it names, or None

vars == <<listed, tagOf>>

TagsOf(i) == {t \in Tags : tagOf[t] = i}

Init == listed = {} /\ tagOf = [t \in Tags |-> None]

Create(i, T) ==
    /\ i \notin listed
    /\ \A t \in T : tagOf[t] = None
    /\ listed' = listed \cup {i}
    /\ tagOf' = [t \in Tags |-> IF t \in T THEN i ELSE tagOf[t]]

Delete(i) ==
    /\ i \in listed
    /\ listed' = listed \ {i}
    /\ tagOf' = [t \in Tags |-> IF t \in TagsOf(i) THEN None ELSE tagOf[t]]

Next == \E i \in Ids : Delete(i) \/ \E T \in SUBSET Tags : Create(i, T)

Spec == Init /\ [][Next]_vars
=============================================================================
