----------------------------- MODULE Snapshots ------------------------------
(***************************************************************************)
(* The files behind snapshots and tags (sandd/src/snapshot/manager.rs):    *)
(* snapshots/<id>.json, which holds the tag names of a snapshot, and       *)
(* refs/tags/<tag>, which holds the id of the snapshot a tag names.  Every *)
(* operation is a sequence of file operations, and may end after any of    *)
(* them: the process is killed, or `?` returns an I/O error.               *)
(*                                                                         *)
(* A daemon runs one operation at a time (handle_message is awaited inside *)
(* its serve loop); several clients are several daemons with the same      *)
(* SANDD_ROOT, which is ~/.sandd unless the environment says otherwise.    *)
(* The content of a snapshot plays no part here.                           *)
(***************************************************************************)
EXTENDS Integers, FiniteSets

CONSTANTS
    Clients,   \* processes that use the root
    Ids,       \* snapshot ids (UUIDs)
    Names,     \* file names in refs/tags, as numbers in their sorted order
    Tags,      \* the names callers use as tags; validate_tag_name accepts them
    TempOf,    \* Path::with_extension("tmp") on Names
    None,
    MaxAborts  \* bound: operations cut short

ASSUME NamesAssumption ==
    /\ Names \subseteq Int
    /\ Tags \subseteq Names
    /\ TempOf \in [Names -> Names]
ASSUME NoneAssumption == None \notin Ids /\ \A T \in SUBSET Tags : T # None
ASSUME AbortsAssumption == MaxAborts \in Nat

VARIABLES
    snaps,    \* the tag list in <id>.json, or None: no such file
    refs,     \* the id in a file of refs/tags, or None: no such file
    used,     \* ids drawn so far
    pc,       \* where a client is in an operation
    cur,      \* the snapshot the operation is about
    todo,     \* the tags the operation has still to visit
    aborts,   \* operations cut short so far
    kept      \* history: <<t, i>> acknowledged by a create, no delete of i yet

vars == <<snaps, refs, used, pc, cur, todo, aborts, kept>>

TypeOK ==
    /\ snaps \in [Ids -> (SUBSET Tags) \cup {None}]
    /\ refs \in [Names -> Ids \cup {None}]
    /\ used \subseteq Ids
    /\ pc \in [Clients -> {"idle", "save", "temp", "rename", "untag"}]
    /\ cur \in [Clients -> Ids \cup {None}]
    /\ todo \in [Clients -> SUBSET Tags]
    /\ aborts \in Nat
    /\ kept \subseteq Tags \X Ids

Init ==
    /\ snaps = [i \in Ids |-> None]
    /\ refs = [n \in Names |-> None]
    /\ used = {}
    /\ pc = [c \in Clients |-> "idle"]
    /\ cur = [c \in Clients |-> None]
    /\ todo = [c \in Clients |-> {}]
    /\ aborts = 0
    /\ kept = {}

\* Tags are visited in sorted order: create_snapshot sorts its input and
\* stores the list as it is.
First(c, t) == t \in todo[c] /\ \A u \in todo[c] : t <= u

Begin(c, at, i, T) ==
    /\ pc[c] = "idle"
    /\ pc' = [pc EXCEPT ![c] = at]
    /\ cur' = [cur EXCEPT ![c] = i]
    /\ todo' = [todo EXCEPT ![c] = T]

End(c) ==
    /\ pc' = [pc EXCEPT ![c] = "idle"]
    /\ cur' = [cur EXCEPT ![c] = None]
    /\ todo' = [todo EXCEPT ![c] = {}]

-----------------------------------------------------------------------------
(* create_snapshot *)

\* Mutant: no look at the existing tags.
Create_Blind(c, i, T) ==
    /\ i \notin used
    /\ Begin(c, "save", i, T)
    /\ used' = used \cup {i}
    /\ UNCHANGED <<snaps, refs, aborts, kept>>

\* None of the tags exists: a fresh id, then build_tree.  (With a tag that
\* exists the call fails and nothing has changed.)
Create(c, i, T) ==
    /\ i \notin used
    /\ \A t \in T : refs[t] = None
    /\ Begin(c, "save", i, T)
    /\ used' = used \cup {i}
    /\ UNCHANGED <<snaps, refs, aborts, kept>>

\* The snapshot file appears by a rename from a name of its own.
Save(c) ==
    /\ pc[c] = "save"
    /\ snaps' = [snaps EXCEPT ![cur[c]] = todo[c]]
    /\ pc' = [pc EXCEPT ![c] = "temp"]
    /\ UNCHANGED <<refs, used, cur, todo, aborts, kept>>

\* add_tag, first half: fs::write of <tag>.tmp, where .tmp replaces what the
\* tag name has after its last dot.
WriteTemp(c, t) ==
    /\ pc[c] = "temp"
    /\ First(c, t)
    /\ refs' = [refs EXCEPT ![TempOf[t]] = cur[c]]
    /\ pc' = [pc EXCEPT ![c] = "rename"]
    /\ UNCHANGED <<snaps, used, cur, todo, aborts, kept>>

\* Second half: the rename, which fails when another client has already
\* renamed the common temporary file.
Rename(c, t) ==
    /\ pc[c] = "rename"
    /\ First(c, t)
    /\ IF refs[TempOf[t]] = None
       THEN End(c) /\ UNCHANGED refs
       ELSE /\ refs' = [n \in Names |-> IF n = t THEN refs[TempOf[t]]
                                        ELSE IF n = TempOf[t] THEN None
                                        ELSE refs[n]]
            /\ todo' = [todo EXCEPT ![c] = @ \ {t}]
            /\ pc' = [pc EXCEPT ![c] = "temp"]
            /\ UNCHANGED cur
    /\ UNCHANGED <<snaps, used, aborts, kept>>

\* All refs are written.  handle_message reads the snapshot once more before
\* it tells the caller.
Created(c) ==
    /\ pc[c] = "temp"
    /\ todo[c] = {}
    /\ kept' = IF snaps[cur[c]] = None THEN kept
               ELSE kept \cup (snaps[cur[c]] \X {cur[c]})
    /\ End(c)
    /\ UNCHANGED <<snaps, refs, used, aborts>>

-----------------------------------------------------------------------------
(* delete_snapshot *)

\* Mutant: the tags are left alone.
Delete_KeepsTags(c, i) ==
    /\ snaps[i] # None
    /\ Begin(c, "untag", i, {})
    /\ kept' = {p \in kept : p[2] # i}
    /\ UNCHANGED <<snaps, refs, used, aborts>>

\* The snapshot file says which tags to remove.  (An unknown id is an error
\* and changes nothing.)
Delete(c, i) ==
    /\ snaps[i] # None
    /\ Begin(c, "untag", i, snaps[i])
    /\ kept' = {p \in kept : p[2] # i}
    /\ UNCHANGED <<snaps, refs, used, aborts>>

\* Mutant: the ref file is emptied, not removed.
Untag_Empties(c, t) ==
    /\ pc[c] = "untag"
    /\ First(c, t)
    /\ refs' = [refs EXCEPT ![t] = ""]
    /\ todo' = [todo EXCEPT ![c] = @ \ {t}]
    /\ UNCHANGED <<snaps, used, pc, cur, aborts, kept>>

\* remove_tag looks at the name only.
Untag(c, t) ==
    /\ pc[c] = "untag"
    /\ First(c, t)
    /\ refs' = [refs EXCEPT ![t] = None]
    /\ todo' = [todo EXCEPT ![c] = @ \ {t}]
    /\ UNCHANGED <<snaps, used, pc, cur, aborts, kept>>

\* Mutant: the snapshot file goes first.
Unlink_First(c) ==
    /\ pc[c] = "untag"
    /\ snaps' = [snaps EXCEPT ![cur[c]] = None]
    /\ IF todo[c] = {} THEN End(c) ELSE UNCHANGED <<pc, cur, todo>>
    /\ UNCHANGED <<refs, used, aborts, kept>>

\* The file goes last.  (It may be gone: then the call is an error.)
Unlink(c) ==
    /\ pc[c] = "untag"
    /\ todo[c] = {}
    /\ snaps' = [snaps EXCEPT ![cur[c]] = None]
    /\ End(c)
    /\ UNCHANGED <<refs, used, aborts, kept>>

-----------------------------------------------------------------------------
\* The daemon is killed, or a file operation fails and the error is returned:
\* what was written stays.
Abort(c) ==
    /\ pc[c] # "idle"
    /\ aborts < MaxAborts
    /\ aborts' = aborts + 1
    /\ End(c)
    /\ UNCHANGED <<snaps, refs, used, kept>>

Next ==
    \E c \in Clients :
        \/ \E i \in Ids : Delete(c, i) \/ \E T \in SUBSET Tags : Create(c, i, T)
        \/ \E t \in Tags : WriteTemp(c, t) \/ Rename(c, t) \/ Untag(c, t)
        \/ Save(c) \/ Created(c) \/ Unlink(c) \/ Abort(c)

Spec == Init /\ [][Next]_vars

-----------------------------------------------------------------------------
(* The look-ups.  They change nothing; each is a function of the files. *)

\* list_snapshots without a filter: the files of snapshots/.
ListAll == {i \in Ids : snaps[i] # None}

\* find_snapshot_by_tag: absent, found, or an error when the ref names a
\* snapshot that is not there.
FindByTag(t) ==
    [ok |-> refs[t] = None \/ snaps[refs[t]] # None, id |-> refs[t]]

\* list_snapshots by tags: an error when one of them does not exist or cannot
\* be loaded, and each snapshot once however many of its tags are asked for.
ListSnapshots(T) ==
    [ok  |-> \A t \in T : refs[t] # None /\ FindByTag(t).ok,
     ids |-> {refs[t] : t \in T}]

-----------------------------------------------------------------------------
\* The operation in progress, for the abstract catalogue: a snapshot is there
\* once all of its refs are, and gone when its deletion starts.
Busy == {cur[c] : c \in {x \in Clients : pc[x] # "idle"}}

\* A tag that is found names a snapshot that exists and lists the tag, at
\* every moment and after every crash: the order "snapshot file, then refs;
\* refs away, then the file" (find_snapshot_by_tag and list_snapshots fail on
\* a ref that names nothing, and nobody could delete such a ref).
RefsResolve ==
    \A t \in Tags : refs[t] # None =>
        /\ snaps[refs[t]] # None
        /\ t \in snaps[refs[t]]

\* "Immutable: Once created, a tag cannot be changed": a tag a caller was
\* told of names that caller's snapshot until the snapshot is deleted
\* (docs/proposals/SNAPSHOTS.md).
TagKept == \A p \in kept : refs[p[1]] = p[2]

\* create_snapshot and delete_snapshot keep that promise as long as every
\* operation has run to its end.
TagKeptUncut == aborts = 0 => TagKept

\* A tag is stored twice, in the snapshot's own file and in refs/tags, and the
\* listing by tags reads only the second.  Between operations, and until one
\* is cut short, it fails exactly when some tag belongs to no snapshot, and
\* otherwise gives the snapshots whose own file has one of the tags.
ListingAgrees ==
    aborts = 0 /\ Busy = {} =>
        \A T \in SUBSET Tags :
            LET listing == ListSnapshots(T) IN
            /\ listing.ok <=> \A t \in T : \E i \in ListAll : t \in snaps[i]
            /\ listing.ok => listing.ids = {i \in ListAll : snaps[i] \cap T # {}}

Catalog == INSTANCE SnapshotCatalog WITH
    listed <- {i \in Ids : snaps[i] # None} \ Busy,
    tagOf <- [t \in Tags |-> IF refs[t] \in Busy THEN None ELSE refs[t]]

\* Until an operation is cut short every step of the files is a step of the
\* catalogue or invisible to it.
ImplementsCatalog ==
    Catalog!Init /\ [][aborts' = 0 => Catalog!Next]_(Catalog!vars)

-----------------------------------------------------------------------------
(* Inductive strengthenings, for a client that is alone and tags that are no *)
(* other tag's temporary file.                                               *)

OneClient == \A c, k \in Clients : c = k
NoAlias   == \A t \in Tags : TempOf[t] \notin Tags

\* What a crash anywhere leaves true.
StepsInv ==
    /\ \A i \in Ids \ used : snaps[i] = None
    /\ \A c \in Clients :
         /\ pc[c] # "idle" => cur[c] \in used
         /\ pc[c] = "save" => snaps[cur[c]] = None
         /\ pc[c] \in {"temp", "rename"} =>
              snaps[cur[c]] # None /\ todo[c] \subseteq snaps[cur[c]]
         /\ \A t \in Tags :
              /\ pc[c] = "rename" /\ First(c, t) => refs[TempOf[t]] = cur[c]
              /\ pc[c] = "untag" /\ refs[t] = cur[c] => t \in todo[c]

IInv == TypeOK /\ StepsInv /\ RefsResolve

\* What holds as long as no operation is cut short: the two places a tag is
\* stored in agree, up to the operation in progress.
ExactInv ==
    /\ \A c \in Clients : \A t \in Tags :
         /\ pc[c] \in {"save", "temp", "rename"} /\ t \in todo[c] => refs[t] = None
         /\ pc[c] = "untag" /\ t \in todo[c] => refs[t] = cur[c]
         /\ pc[c] \in {"temp", "rename"} /\ t \in snaps[cur[c]] \ todo[c]
              => refs[t] = cur[c]
    /\ \A i \in Ids \ Busy : snaps[i] # None => \A t \in snaps[i] : refs[t] = i
    /\ \A p \in kept : p[2] \notin Busy /\ snaps[p[2]] # None /\ p[1] \in snaps[p[2]]

SerialInv == IInv /\ (aborts = 0 => ExactInv)
=============================================================================
