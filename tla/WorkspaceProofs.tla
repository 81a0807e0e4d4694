--------------------------- MODULE WorkspaceProofs ---------------------------
(***************************************************************************)
(* Proofs about Workspace, for any paths, contents, snapshots and bounds:  *)
(* the type invariant, that objects never change, that what a listed       *)
(* snapshot names is in the store with the content that names it, that a   *)
(* restore makes the workspace the snapshot's, but for what goes through a *)
(* link and for files that look alike, and that it deletes last.           *)
(***************************************************************************)
EXTENDS Workspace, SequenceTheorems, NaturalsInduction, WellFoundedInduction, TLAPS

\* What a tree's entry names is in the store.
Stored(e) ==
    /\ e.kind = "file" => e.hash \in Contents /\ store[e.hash] # None
    /\ e.kind = "link" => e.hash \in Targets /\ store[e.hash] = e.hash

HeldOK ==
    /\ pc # "idle"
    /\ fs[held.path].kind = "file"
    /\ held.meta.kind = "file" /\ held.meta.data \in Contents
    /\ held.hash \in Contents \cup {None}
    /\ pc = "restore" => Tree[held.entry] # None /\ Tree[held.entry].kind = "file"

FsShape ==
    \A p \in Paths : /\ fs[p].kind = "file" => fs[p].data \in Contents
                     /\ fs[p].kind = "link" => fs[p].data \in Targets

StoreShape ==
    /\ \A x \in Contents : store[x] \in Contents \cup {None}
    /\ \A t \in Targets : store[t] \in {t, None}

TreesShape ==
    /\ \A p \in Paths : built[p] # None => Stored(built[p])
    /\ \A s \in Snaps : snaps[s] # None =>
         \A p \in Paths : snaps[s][p] # None => Stored(snaps[s][p])

OpShape ==
    /\ held # None => HeldOK
    /\ pc # "idle" => snap \in Snaps
    /\ pc = "restore" =>
         snaps[snap] # None /\ Len(dirs) > 0 /\ \A p \in todo : Tree[p] # None

Shape == FsShape /\ StoreShape /\ TreesShape /\ OpShape

IInv == TypeOK /\ Shape

\* As long as no command writes during an operation, put_file's two reads of a
\* file agree.
Honest ==
    ~stray =>
        /\ \A x \in Contents : store[x] \in {x, None}
        /\ held # None /\ held.hash # None => held.hash = fs[held.path].data

-----------------------------------------------------------------------------
(* What the operators build. *)

\* What commands and restores put into the workspace are nodes.
LEMMA NodeTypes ==
    /\ Absent \in Nodes /\ Absent.kind = "none"
    /\ DirNode \in Nodes /\ DirNode.kind = "dir"
    /\ \A t \in Paths : Link(t) \in Nodes /\ Link(t).kind = "link" /\ Link(t).data = t
    /\ \A c \in Contents, s \in Nat, f \in BOOLEAN :
         /\ File(c, s, f) \in Nodes
         /\ File(c, s, f).kind = "file" /\ File(c, s, f).data = c
<1>1. Absent \in Nodes /\ DirNode \in Nodes
  BY DEF Absent, DirNode, Nodes
<1>2. \A t \in Paths : Link(t) \in Nodes
  BY DEF Link, Nodes, Objects
<1>3. ASSUME NEW c \in Contents, NEW s \in Nat, NEW f \in BOOLEAN
      PROVE  File(c, s, f) \in Nodes
  BY DEF File, Nodes, Objects
<1> QED BY <1>1, <1>2, <1>3 DEF Absent, DirNode, Link, File

\* A node's entry is of its kind and names the hash build_tree found.
LEMMA EntryTypes ==
    ASSUME NEW n \in Nodes, n.kind # "none", n.kind = "file" => n.data \in Contents,
           NEW h \in Objects \cup {None}
    PROVE  Entry(n, h) \in Entries /\ Entry(n, h).kind = n.kind /\ Entry(n, h).hash = h
<1>1. n.kind \in {"file", "dir", "link"} /\ n.sec \in Nat
  BY DEF Nodes
<1>2. (IF n.kind = "file" THEN SizeOf[n.data] ELSE 0) \in Nat
  BY ContentsAssumption
<1> QED BY <1>1, <1>2 DEF Entry, Entries

\* Links point into the workspace, so opening one opens a path of it.
LEMMA FollowInPaths ==
    ASSUME Shape, NEW p \in Paths
    PROVE  Follow(p) \in Paths
BY PathsAssumption DEF Shape, FsShape, Follow

-----------------------------------------------------------------------------
(* Objects never change. *)

Grows == \A x \in Objects : store[x] # None => store'[x] = store[x]

\* put_blob writes what is there already, put_file leaves an object that
\* exists alone.
LEMMA StoreGrows == IInv /\ [Next]_vars => Grows
<1> SUFFICES ASSUME IInv, [Next]_vars PROVE Grows
    OBVIOUS
<1>0. /\ store \in [Objects -> Objects \cup {None}]
      /\ held \in Calls \cup {None}
      /\ Targets \subseteq Paths /\ Paths \subseteq Objects /\ Contents \subseteq Objects
      /\ \A t \in Targets : store[t] \in {t, None}
      /\ held # None => held.hash \in Contents \cup {None}
  BY PathsAssumption DEF IInv, TypeOK, Shape, StoreShape, OpShape, HeldOK, Objects
<1>1. ASSUME NEW p \in Paths, WalkLink(p) PROVE Grows
  <2>1. fs[p].data \in Targets
    BY <1>1 DEF WalkLink, IInv, Shape, FsShape
  <2> QED BY <1>0, <1>1, <2>1 DEF WalkLink, Grows
<1>2. ASSUME held # None, held.hash # None, store' = Stowed PROVE Grows
  BY <1>0, <1>2 DEF Stowed, Grows
<1>3. CASE WalkStow \/ RestoreStow
  BY <1>2, <1>3 DEF WalkStow, RestoreStow
<1>4. CASE UNCHANGED store
  BY <1>4 DEF Grows
<1>5. CASE HashFile \/ Publish \/ Abort \/ UNCHANGED vars
  BY <1>4, <1>5 DEF HashFile, Publish, Abort, Stop, vars
<1>6. ASSUME NEW p \in Paths, NEW c \in Contents, Write(p, c) PROVE UNCHANGED store
  BY <1>6 DEF Write, Edit
<1>7. ASSUME NEW p \in Paths, NEW n, Place(p, n) PROVE UNCHANGED store
  BY <1>7 DEF Place, Edit
<1>8. ASSUME NEW p \in Paths, Remove(p) \/ WalkDir(p) \/ WalkFile(p) PROVE UNCHANGED store
  BY <1>8 DEF Remove, Edit, WalkDir, WalkFile
<1>9. ASSUME NEW p \in Paths, RestoreDir(p) \/ RestoreSkip(p) \/ RestoreMissing(p)
      PROVE  UNCHANGED store
  BY <1>9 DEF RestoreDir, RestoreSkip, RestoreMissing
<1>10. ASSUME NEW p \in Paths,
              RestoreVerify(p) \/ RestoreLink(p) \/ RestoreClash(p) \/ AbortCopy(p)
       PROVE  UNCHANGED store
  BY <1>10 DEF RestoreVerify, RestoreLink, RestoreClash, AbortCopy, Stop
<1>11. ASSUME NEW s \in Snaps, Create(s) \/ Restore(s) PROVE UNCHANGED store
  BY <1>11 DEF Create, Restore
<1>12. ASSUME NEW left \in SUBSET Paths, CleanUp(left) PROVE UNCHANGED store
  BY <1>12 DEF CleanUp
<1> QED BY <1>1, <1>3, <1>4, <1>5, <1>6, <1>7, <1>8, <1>9, <1>10, <1>11, <1>12 DEF Next

\* An entry whose object is there keeps it, since objects only come.
LEMMA StoredKept ==
    ASSUME Grows, NEW e, Stored(e)
    PROVE  Stored(e)'
BY PathsAssumption, NoneAssumption DEF Grows, Stored, Objects

\* Trees nobody touches stay in the store.
LEMMA TreesKept ==
    ASSUME TreesShape, Grows, UNCHANGED <<built, snaps>>
    PROVE  TreesShape'
<1>1. \A e : Stored(e) => Stored(e)'
  BY StoredKept
<1> QED BY <1>1 DEF TreesShape

\* The store is only written by WalkLink and by the second half of put_file.
LEMMA StowedShape ==
    ASSUME IInv, held # None, held.hash # None, store' = Stowed
    PROVE  /\ store' \in [Objects -> Objects \cup {None}] /\ StoreShape'
           /\ held.hash \in Contents /\ store'[held.hash] \in Contents
<1>0. /\ held.path \in Paths /\ held.hash \in Contents
      /\ fs[held.path].kind = "file"
      /\ store \in [Objects -> Objects \cup {None}]
  BY DEF IInv, TypeOK, Calls, Shape, OpShape, HeldOK
<1>1. fs[held.path].data \in Contents
  BY <1>0 DEF IInv, Shape, FsShape
<1>2. Contents \subseteq Objects /\ Targets \subseteq Objects /\ Contents \cap Targets = {}
  BY PathsAssumption, ContentsAssumption DEF Objects
<1>3. CASE store[held.hash] # None
  BY <1>0, <1>3 DEF Stowed, IInv, Shape, StoreShape
<1>4. CASE store[held.hash] = None
  <2>1. store' = [store EXCEPT ![held.hash] = fs[held.path].data]
    BY <1>4 DEF Stowed
  <2> QED BY <1>0, <1>1, <1>2, <2>1 DEF IInv, Shape, StoreShape
<1> QED BY <1>3, <1>4

-----------------------------------------------------------------------------
(* Type correctness. *)

\* A fresh workspace, an empty store, no snapshot.
LEMMA InitIInv == Init => IInv
<1> SUFFICES ASSUME Init PROVE IInv
    OBVIOUS
<1>1. fs \in [Paths -> Fresh]
  BY DEF Init
<1>2. ASSUME NEW p \in Paths
      PROVE  /\ fs[p] \in Nodes
             /\ fs[p].kind = "file" => fs[p].data \in Contents
             /\ fs[p].kind = "link" => fs[p].data \in Targets
  <2>1. \/ fs[p] = Absent \/ fs[p] = DirNode
        \/ \E c \in Contents : fs[p] = File(c, 0, TRUE)
        \/ \E t \in Targets : fs[p] = Link(t)
    BY <1>1 DEF Fresh
  <2>2. ASSUME NEW c \in Contents
        PROVE  /\ File(c, 0, TRUE) \in Nodes
               /\ File(c, 0, TRUE).kind = "file" /\ File(c, 0, TRUE).data = c
    <3>1. TRUE \in BOOLEAN /\ 0 \in Nat
      OBVIOUS
    <3> QED BY <3>1, NodeTypes, Zenon
  <2>3. CASE fs[p] = Absent \/ fs[p] = DirNode
    BY <2>3, NodeTypes
  <2>4. CASE \E c \in Contents : fs[p] = File(c, 0, TRUE)
    <3>1. fs[p] \in Nodes /\ fs[p].kind = "file" /\ fs[p].data \in Contents
      BY <2>2, <2>4, Zenon
    <3> QED BY <3>1
  <2>5. CASE \E t \in Targets : fs[p] = Link(t)
    BY <2>5, NodeTypes, PathsAssumption
  <2> QED BY <2>1, <2>3, <2>4, <2>5
<1>3. fs \in [Paths -> Nodes]
  BY <1>1, <1>2
<1>4. shown \in Snaps \cup {None} /\ stray \in BOOLEAN
  BY Zenon DEF Init
<1>5. TypeOK
  BY <1>3, <1>4 DEF Init, TypeOK, Trees
<1>6. FsShape
  BY <1>2 DEF FsShape
<1>7. StoreShape /\ TreesShape /\ OpShape
  BY PathsAssumption DEF Init, StoreShape, TreesShape, OpShape, Objects
<1> QED BY <1>5, <1>6, <1>7 DEF IInv, Shape

\* A file may be written by a command or by a restore.
LEMMA FileTypes ==
    ASSUME NEW c \in Contents, NEW s \in Nat
    PROVE  /\ File(c, s, TRUE) \in Nodes /\ File(c, s, TRUE).kind = "file"
           /\ File(c, s, TRUE).data = c
           /\ File(c, s, FALSE) \in Nodes /\ File(c, s, FALSE).kind = "file"
           /\ File(c, s, FALSE).data = c
<1>1. TRUE \in BOOLEAN /\ FALSE \in BOOLEAN
  OBVIOUS
<1> QED BY <1>1, NodeTypes, Zenon

\* One node written (fs::write, fs::copy, symlink, create_dir).
LEMMA SetNode ==
    ASSUME TypeOK, FsShape, NEW q \in Paths, NEW n \in Nodes,
           n.kind = "file" => n.data \in Contents,
           n.kind = "link" => n.data \in Targets,
           fs' = [fs EXCEPT ![q] = n]
    PROVE  fs' \in [Paths -> Nodes] /\ FsShape'
BY DEF TypeOK, FsShape

\* Nodes removed, a directory with all below it.
LEMMA RemoveNodes ==
    ASSUME TypeOK, FsShape, NEW ps, fs' = Without(ps)
    PROVE  fs' \in [Paths -> Nodes] /\ FsShape'
BY NodeTypes DEF Without, TypeOK, FsShape

\* An edit writes fs, now and its histories; files stay files while an
\* operation is on.
LEMMA EditIInv ==
    ASSUME IInv, Edit, fs' \in [Paths -> Nodes], FsShape', now' \in Nat, stray' \in BOOLEAN,
           \A p \in Paths : pc # "idle" /\ fs[p].kind = "file" => fs'[p].kind = "file"
    PROVE  IInv'
<1>1. UNCHANGED <<store, snaps, pc, snap, built, todo, dirs, held, faults>>
  BY DEF Edit, opVars
<1>2. TypeOK'
  BY <1>1, NoneAssumption DEF IInv, TypeOK, Edit, Trees, Calls
<1>3. StoreShape'
  BY <1>1 DEF IInv, Shape, StoreShape
<1>4. TreesShape'
  BY <1>1 DEF IInv, Shape, TreesShape, Stored
<1>5. OpShape'
  <2>1. held # None => held.path \in Paths
    BY DEF IInv, TypeOK, Calls
  <2> QED BY <1>1, <2>1 DEF IInv, Shape, OpShape, HeldOK, Tree
<1> QED BY <1>2, <1>3, <1>4, <1>5 DEF IInv, Shape

\* Commands touch the workspace alone, and keep a file that put_file reads
\* a file.
LEMMA CommandsIInv ==
    ASSUME IInv, NEW p \in Paths,
           \/ \E c \in Contents \ {Torn} : Write(p, c)
           \/ \E t \in Targets : Place(p, Link(t))
           \/ Place(p, DirNode)
           \/ Remove(p)
    PROVE  IInv'
<1>0. TypeOK /\ FsShape /\ Targets \subseteq Paths
  BY PathsAssumption DEF IInv, Shape
<1>1. ASSUME NEW c \in Contents, Write(p, c) PROVE IInv'
  <2>1. now' \in Nat
    BY <1>0, <1>1 DEF Write, TypeOK
  <2>2. PICK n \in Nodes : n = File(c, now', TRUE) /\ n.kind = "file" /\ n.data = c
    BY <2>1, FileTypes, Zenon
  <2>3. fs' = [fs EXCEPT ![Follow(p)] = n]
    BY <1>1, <2>2, Zenon DEF Write
  <2>4. Follow(p) \in Paths
    BY FollowInPaths DEF IInv
  <2>5. fs' \in [Paths -> Nodes] /\ FsShape'
    BY <1>0, <2>2, <2>3, <2>4, SetNode
  <2>6. stray' \in BOOLEAN
    BY <1>0, <1>1, Zenon DEF Write, TypeOK
  <2>7. \A q \in Paths : fs[q].kind = "file" => fs'[q].kind = "file"
    BY <1>0, <2>2, <2>3, <2>4 DEF TypeOK
  <2>8. Edit
    BY <1>1 DEF Write
  <2> QED BY <2>1, <2>5, <2>6, <2>7, <2>8, EditIInv
<1>2. ASSUME NEW n \in Nodes, Place(p, n), n.kind # "file",
             n.kind = "link" => n.data \in Targets
      PROVE  IInv'
  <2>1. /\ fs' = [fs EXCEPT ![p] = n] /\ UNCHANGED <<now, stray>>
        /\ Edit /\ pc = "idle"
    BY <1>2 DEF Place
  <2>2. fs' \in [Paths -> Nodes] /\ FsShape'
    BY <1>0, <1>2, <2>1, SetNode
  <2>3. now' \in Nat /\ stray' \in BOOLEAN
    BY <1>0, <2>1 DEF TypeOK
  <2> QED BY <2>1, <2>2, <2>3, EditIInv
<1>3. ASSUME Remove(p) PROVE IInv'
  <2>1. /\ fs' = Without({p}) /\ UNCHANGED <<now, stray>>
        /\ Edit /\ pc = "idle"
    BY <1>3 DEF Remove
  <2>2. fs' \in [Paths -> Nodes] /\ FsShape'
    BY <1>0, <2>1, RemoveNodes
  <2>3. now' \in Nat /\ stray' \in BOOLEAN
    BY <1>0, <2>1 DEF TypeOK
  <2> QED BY <2>1, <2>2, <2>3, EditIInv
<1>4. ASSUME NEW t \in Targets, Place(p, Link(t)) PROVE IInv'
  BY <1>0, <1>2, <1>4, NodeTypes
<1>5. ASSUME Place(p, DirNode) PROVE IInv'
  BY <1>2, <1>5, NodeTypes
<1> QED BY <1>1, <1>3, <1>4, <1>5

\* create_snapshot's own steps leave the workspace alone.
LEMMA WalkIInv ==
    ASSUME IInv, Grows,
           \/ \E s \in Snaps : Create(s)
           \/ \E p \in Paths : WalkLink(p) \/ WalkDir(p) \/ WalkFile(p)
           \/ HashFile \/ WalkStow \/ Publish
    PROVE  IInv'
<1>0. /\ TypeOK /\ FsShape /\ StoreShape /\ TreesShape /\ OpShape
      /\ Targets \subseteq Paths /\ Paths \subseteq Objects /\ Contents \subseteq Objects
      /\ None \notin Contents /\ None \notin Paths /\ None \notin Snaps
  BY PathsAssumption, NoneAssumption DEF IInv, Shape, Objects
<1>1. ASSUME NEW s \in Snaps, Create(s) PROVE IInv'
  <2>0. Listed(Root) \subseteq Paths
    BY DEF Listed, Children
  <2>1. TypeOK'
    BY <1>0, <1>1, <2>0 DEF Create, TypeOK, Trees
  <2>2. FsShape' /\ StoreShape'
    BY <1>0, <1>1 DEF Create, FsShape, StoreShape
  <2>3. TreesShape'
    BY <1>0, <1>1 DEF Create, TreesShape, Stored
  <2>4. OpShape'
    BY <1>0, <1>1 DEF Create, OpShape, HeldOK
  <2> QED BY <2>1, <2>2, <2>3, <2>4 DEF IInv, Shape
<1>2. ASSUME NEW p \in Paths, WalkLink(p) PROVE IInv'
  <2>0. /\ fs[p] \in Nodes /\ fs[p].kind = "link" /\ fs[p].data \in Targets
        /\ store' = [store EXCEPT ![fs[p].data] = fs[p].data]
    BY <1>0, <1>2 DEF WalkLink, TypeOK, FsShape
  <2>1. PICK e \in Entries : /\ e = Entry(fs[p], fs[p].data)
                            /\ e.kind = "link" /\ e.hash = fs[p].data
    BY <1>0, <2>0, EntryTypes
  <2>2. built' = [built EXCEPT ![p] = e]
    BY <1>2, <2>1 DEF WalkLink
  <2>3. TypeOK'
    BY <1>0, <1>2, <2>0, <2>1, <2>2 DEF WalkLink, TypeOK, Trees
  <2>4. FsShape'
    BY <1>0, <1>2 DEF WalkLink, FsShape
  <2>5. StoreShape'
    BY <1>0, <2>0, ContentsAssumption DEF StoreShape, TypeOK
  <2>6. Stored(e)'
    BY <1>0, <2>0, <2>1 DEF Stored, TypeOK
  <2>7. \A x : Stored(x) => Stored(x)'
    BY StoredKept
  <2>8. TreesShape'
    BY <1>0, <1>2, <2>2, <2>6, <2>7 DEF WalkLink, TreesShape, TypeOK, Trees
  <2>9. OpShape'
    BY <1>0, <1>2 DEF WalkLink, Visit, OpShape, HeldOK
  <2> QED BY <2>3, <2>4, <2>5, <2>8, <2>9 DEF IInv, Shape
<1>3. ASSUME NEW p \in Paths, WalkDir(p) PROVE IInv'
  <2>0. fs[p] \in Nodes /\ fs[p].kind = "dir" /\ Listed(p) \subseteq Paths
    BY <1>0, <1>3 DEF WalkDir, TypeOK, Listed, Children
  <2>1. PICK e \in Entries : e = Entry(fs[p], None) /\ e.kind = "dir"
    BY <2>0, EntryTypes
  <2>2. built' = [built EXCEPT ![p] = e]
    BY <1>3, <2>1 DEF WalkDir
  <2>3. TypeOK'
    BY <1>0, <1>3, <2>0, <2>1, <2>2 DEF WalkDir, TypeOK, Trees
  <2>4. FsShape' /\ StoreShape'
    BY <1>0, <1>3 DEF WalkDir, FsShape, StoreShape
  <2>5. TreesShape'
    BY <1>0, <1>3, <2>1, <2>2 DEF WalkDir, TreesShape, Stored, TypeOK, Trees
  <2>6. OpShape'
    BY <1>0, <1>3 DEF WalkDir, Visit, OpShape, HeldOK
  <2> QED BY <2>3, <2>4, <2>5, <2>6 DEF IInv, Shape
<1>4. ASSUME NEW p \in Paths, WalkFile(p) PROVE IInv'
  <2>0. fs[p] \in Nodes /\ fs[p].kind = "file" /\ fs[p].data \in Contents
    BY <1>0, <1>4 DEF WalkFile, TypeOK, FsShape
  <2>1. /\ held' \in Calls /\ held'.entry = p /\ held'.path = p
        /\ held'.meta = fs[p] /\ held'.hash = None
    BY <1>4, <2>0 DEF WalkFile, Call, Calls
  <2>2. TypeOK'
    BY <1>0, <1>4, <2>1 DEF WalkFile, TypeOK
  <2>3. FsShape' /\ StoreShape'
    BY <1>0, <1>4 DEF WalkFile, FsShape, StoreShape
  <2>4. TreesShape'
    BY <1>0, <1>4 DEF WalkFile, TreesShape, Stored
  <2>5. OpShape'
    BY <1>0, <1>4, <2>0, <2>1 DEF WalkFile, Visit, OpShape, HeldOK
  <2> QED BY <2>2, <2>3, <2>4, <2>5 DEF IInv, Shape
<1>5. ASSUME HashFile PROVE IInv'
  <2>0. /\ held \in Calls /\ HeldOK
        /\ held' = [held EXCEPT !.hash = fs[held.path].data]
        /\ UNCHANGED <<fs, now, store, snaps, pc, snap, built, todo, dirs, edits, faults,
                      shown, stray>>
    BY <1>0, <1>5 DEF HashFile, TypeOK, OpShape
  <2>1. fs[held.path].data \in Contents
    BY <1>0, <2>0 DEF HeldOK, FsShape, Calls
  <2>2. /\ held' \in Calls /\ held'.entry = held.entry /\ held'.path = held.path
        /\ held'.meta = held.meta /\ held'.hash \in Contents
    BY <2>0, <2>1 DEF Calls
  <2>3. TypeOK'
    BY <1>0, <2>0, <2>2 DEF TypeOK
  <2>4. FsShape' /\ StoreShape'
    BY <1>0, <2>0 DEF FsShape, StoreShape
  <2>5. TreesShape'
    BY <1>0, <2>0 DEF TreesShape, Stored
  <2>6. HeldOK'
    BY <2>0, <2>2 DEF HeldOK, Tree
  <2>7. OpShape'
    BY <1>0, <2>0, <2>6 DEF OpShape, Tree
  <2> QED BY <2>3, <2>4, <2>5, <2>7 DEF IInv, Shape
<1>6. ASSUME WalkStow PROVE IInv'
  <2>0. /\ held \in Calls /\ HeldOK
        /\ store' \in [Objects -> Objects \cup {None}] /\ StoreShape'
        /\ held.hash \in Contents /\ store'[held.hash] \in Contents
    BY <1>0, <1>6, StowedShape DEF WalkStow, TypeOK, OpShape
  <2>1. PICK e \in Entries : /\ e = Entry(held.meta, held.hash)
                            /\ e.kind = "file" /\ e.hash = held.hash
    BY <1>0, <2>0, EntryTypes DEF HeldOK, Calls
  <2>2. built' = [built EXCEPT ![held.entry] = e] /\ held.entry \in Paths
    BY <1>6, <2>0, <2>1 DEF WalkStow, Calls
  <2>3. TypeOK'
    BY <1>0, <1>6, <2>0, <2>1, <2>2 DEF WalkStow, TypeOK, Trees
  <2>4. FsShape'
    BY <1>0, <1>6 DEF WalkStow, FsShape
  <2>5. Stored(e)'
    BY <1>0, <2>0, <2>1 DEF Stored
  <2>6. \A x : Stored(x) => Stored(x)'
    BY StoredKept
  <2>7. TreesShape'
    BY <1>0, <1>6, <2>2, <2>5, <2>6 DEF WalkStow, TreesShape, TypeOK, Trees
  <2>8. OpShape'
    BY <1>0, <1>6 DEF WalkStow, OpShape
  <2> QED BY <2>0, <2>3, <2>4, <2>7, <2>8 DEF IInv, Shape
<1>7. ASSUME Publish PROVE IInv'
  <2>0. snap \in Snaps /\ held = None
    BY <1>0, <1>7 DEF Publish, OpShape
  <2>1. TypeOK'
    BY <1>0, <1>7, <2>0 DEF Publish, TypeOK, Trees
  <2>2. FsShape' /\ StoreShape'
    BY <1>0, <1>7 DEF Publish, FsShape, StoreShape
  <2>3. TreesShape'
    BY <1>0, <1>7, <2>0 DEF Publish, TreesShape, Stored, TypeOK
  <2>4. OpShape'
    BY <1>7, <2>0 DEF Publish, OpShape
  <2> QED BY <2>1, <2>2, <2>3, <2>4 DEF IInv, Shape
<1> QED BY <1>1, <1>2, <1>3, <1>4, <1>5, <1>6, <1>7

\* One entry of a restore, or one directory: the rest of the operation's state
\* only shrinks.
LEMMA TurnIInv ==
    ASSUME IInv, pc = "restore", held = None,
           UNCHANGED <<now, store, snaps, pc, snap, built, held, edits, stray>>,
           fs' \in [Paths -> Nodes], FsShape',
           todo' \subseteq todo, dirs' \in Seq(Paths \cup {Root}), Len(dirs') > 0,
           faults' \in Nat, shown' \in Snaps \cup {None}
    PROVE  IInv'
<1>1. TypeOK'
  BY DEF IInv, TypeOK, Trees
<1>2. StoreShape'
  BY DEF IInv, Shape, StoreShape
<1>3. TreesShape'
  BY DEF IInv, Shape, TreesShape, Stored
<1>4. OpShape'
  BY DEF IInv, Shape, OpShape, Tree
<1> QED BY <1>1, <1>2, <1>3, <1>4 DEF IInv, Shape

\* However an operation stops, only its own state is lost.
LEMMA StopIInv ==
    ASSUME IInv, UNCHANGED <<now, store, snaps, edits, stray>>,
           pc' = "idle", snap' = None, held' = None,
           built' = built \/ built' = [p \in Paths |-> None],
           todo' \subseteq Paths, dirs' \in Seq(Paths \cup {Root}),
           fs' \in [Paths -> Nodes], FsShape',
           faults' \in Nat, shown' \in Snaps \cup {None}
    PROVE  IInv'
<1>1. TypeOK'
  BY DEF IInv, TypeOK, Trees
<1>2. StoreShape'
  BY DEF IInv, Shape, StoreShape
<1>3. TreesShape'
  BY DEF IInv, Shape, TreesShape, Stored
<1>4. OpShape'
  BY DEF OpShape
<1> QED BY <1>1, <1>2, <1>3, <1>4 DEF IInv, Shape

\* What copy_file finds in the store for an entry of a tree being restored.
LEMMA EntryToRestore ==
    ASSUME IInv, pc = "restore", NEW p \in Paths, Tree[p] # None
    PROVE  /\ Tree[p] \in Entries
           /\ Tree[p].kind = "file" => store[Tree[p].hash] \in Contents
           /\ Tree[p].kind = "link" => store[Tree[p].hash] \in Targets
<1>1. snap \in Snaps /\ snaps[snap] # None
  BY DEF IInv, Shape, OpShape
<1>2. Tree[p] \in Entries /\ Stored(Tree[p])
  BY <1>1 DEF IInv, TypeOK, Trees, Shape, TreesShape, Tree
<1> QED BY <1>2 DEF Stored, IInv, Shape, StoreShape

\* The steps of restore_tree.
LEMMA RestoreIInv ==
    ASSUME IInv, Grows,
           \/ \E s \in Snaps : Restore(s)
           \/ \E p \in Paths : \/ RestoreDir(p) \/ RestoreSkip(p) \/ RestoreMissing(p)
                               \/ RestoreVerify(p) \/ RestoreLink(p)
           \/ RestoreStow
           \/ \E left \in SUBSET Paths : CleanUp(left)
    PROVE  IInv'
<1>0. /\ TypeOK /\ FsShape /\ StoreShape /\ TreesShape /\ OpShape
      /\ Targets \subseteq Paths
      /\ None \notin Contents /\ None \notin Paths /\ None \notin Snaps
      /\ todo \subseteq Paths /\ dirs \in Seq(Paths \cup {Root})
      /\ faults \in Nat /\ shown \in Snaps \cup {None}
  BY PathsAssumption, NoneAssumption DEF IInv, Shape, TypeOK
<1>1. ASSUME NEW s \in Snaps, Restore(s) PROVE IInv'
  <2>0. <<Root>> \in Seq(Paths \cup {Root}) /\ Len(<<Root>>) = 1
    OBVIOUS
  <2>1. TypeOK'
    BY <1>0, <1>1, <2>0 DEF Restore, TypeOK, Trees
  <2>2. FsShape' /\ StoreShape'
    BY <1>0, <1>1 DEF Restore, FsShape, StoreShape
  <2>3. TreesShape'
    BY <1>0, <1>1 DEF Restore, TreesShape, Stored
  <2>4. OpShape'
    BY <1>0, <1>1, <2>0 DEF Restore, OpShape, HeldOK, Tree
  <2> QED BY <2>1, <2>2, <2>3, <2>4 DEF IInv, Shape
<1>2. ASSUME NEW p \in Paths, RestoreDir(p) PROVE IInv'
  <2>1. /\ pc = "restore" /\ held = None /\ Len(dirs) > 0
        /\ fs' = [fs EXCEPT ![p] = DirNode]
        /\ todo' = todo \ {p} /\ dirs' = Append(dirs, p)
        /\ UNCHANGED <<now, store, snaps, pc, snap, built, held, edits, faults, shown, stray>>
    BY <1>0, <1>2 DEF RestoreDir, Turn, OpShape
  <2>2. fs' \in [Paths -> Nodes] /\ FsShape'
    BY <1>0, <2>1, NodeTypes, SetNode
  <2>3. dirs' \in Seq(Paths \cup {Root}) /\ Len(dirs') > 0
    BY <1>0, <2>1
  <2> QED BY <1>0, <2>1, <2>2, <2>3, TurnIInv
<1>3. ASSUME NEW p \in Paths, RestoreSkip(p) PROVE IInv'
  <2>1. /\ pc = "restore" /\ held = None /\ Len(dirs) > 0
        /\ todo' = todo \ {p}
        /\ UNCHANGED <<fs, now, store, snaps, pc, snap, built, dirs, held, edits, faults,
                      shown, stray>>
    BY <1>0, <1>3 DEF RestoreSkip, Turn, OpShape
  <2>2. fs' \in [Paths -> Nodes] /\ FsShape'
    BY <1>0, <2>1 DEF TypeOK, FsShape
  <2> QED BY <1>0, <2>1, <2>2, TurnIInv
<1>4. ASSUME NEW p \in Paths, RestoreMissing(p) PROVE IInv'
  <2>1. /\ pc = "restore" /\ held = None /\ Len(dirs) > 0
        /\ p \in todo /\ Tree[p].kind = "file"
        /\ fs' = [fs EXCEPT ![Follow(p)] = Restored(Tree[p])]
        /\ todo' = todo \ {p}
        /\ UNCHANGED <<now, store, snaps, pc, snap, built, dirs, held, edits, faults,
                      shown, stray>>
    BY <1>0, <1>4 DEF RestoreMissing, Turn, OpShape
  <2>2. Tree[p] \in Entries /\ store[Tree[p].hash] \in Contents
    BY <1>0, <2>1, EntryToRestore DEF OpShape
  <2>3. Tree[p].sec \in Nat
    BY <2>2 DEF Entries
  <2>4. PICK n \in Nodes : /\ n = Restored(Tree[p]) /\ n.kind = "file"
                          /\ n.data \in Contents
    BY <2>2, <2>3, FileTypes, Zenon DEF Restored
  <2>5. fs' \in [Paths -> Nodes] /\ FsShape'
    BY <1>0, <2>1, <2>4, FollowInPaths, SetNode DEF IInv
  <2> QED BY <1>0, <2>1, <2>5, TurnIInv
<1>5. ASSUME NEW p \in Paths, RestoreVerify(p) PROVE IInv'
  <2>0. /\ pc = "restore" /\ p \in todo /\ Tree[p].kind = "file" /\ Follow(p) \in Paths
        /\ fs[Follow(p)].kind = "file"
        /\ held' = Call(p, Follow(p))
        /\ UNCHANGED <<fs, now, store, snaps, pc, snap, built, todo, dirs, edits, faults,
                      shown, stray>>
    BY <1>5, FollowInPaths DEF RestoreVerify, Turn, IInv
  <2>1. fs[Follow(p)] \in Nodes /\ fs[Follow(p)].data \in Contents
    BY <1>0, <2>0 DEF TypeOK, FsShape
  <2>2. /\ held' \in Calls /\ held'.entry = p /\ held'.path = Follow(p)
        /\ held'.meta = fs[Follow(p)] /\ held'.hash = None
    BY <2>0, <2>1 DEF Call, Calls
  <2>3. TypeOK'
    BY <1>0, <2>0, <2>2 DEF TypeOK
  <2>4. FsShape' /\ StoreShape'
    BY <1>0, <2>0 DEF FsShape, StoreShape
  <2>5. TreesShape'
    BY <1>0, <2>0 DEF TreesShape, Stored
  <2>6. OpShape'
    BY <1>0, <2>0, <2>1, <2>2 DEF OpShape, HeldOK, Tree
  <2> QED BY <2>3, <2>4, <2>5, <2>6 DEF IInv, Shape
<1>6. ASSUME RestoreStow PROVE IInv'
  <2>0. /\ pc = "restore" /\ held \in Calls /\ HeldOK
        /\ held # None /\ held.hash # None
        /\ store' = Stowed
        /\ held.entry \in Paths /\ held.path \in Paths
        /\ Tree[held.entry] # None /\ Tree[held.entry].kind = "file"
        /\ UNCHANGED <<now, snaps, pc, snap, built, dirs, edits, faults, shown, stray>>
        /\ todo' = todo \ {held.entry} /\ held' = None
    BY <1>0, <1>6 DEF RestoreStow, TypeOK, OpShape, HeldOK, Calls
  <2>1. Tree[held.entry] \in Entries /\ store[Tree[held.entry].hash] \in Contents
    BY <2>0, EntryToRestore
  <2>2. Tree[held.entry].sec \in Nat
    BY <2>1 DEF Entries
  <2>3. fs[held.path].data \in Contents
    BY <1>0, <2>0 DEF FsShape, HeldOK
  <2>4. PICK n \in Nodes : /\ n.kind = "file" /\ n.data \in Contents
                          /\ fs' = [fs EXCEPT ![held.path] = n]
    <3>1. /\ File(fs[held.path].data, Tree[held.entry].sec, FALSE) \in Nodes
          /\ File(fs[held.path].data, Tree[held.entry].sec, FALSE).kind = "file"
          /\ File(fs[held.path].data, Tree[held.entry].sec, FALSE).data \in Contents
      BY <2>2, <2>3, FileTypes, Zenon
    <3>2. /\ Restored(Tree[held.entry]) \in Nodes
          /\ Restored(Tree[held.entry]).kind = "file"
          /\ Restored(Tree[held.entry]).data \in Contents
      BY <2>1, <2>2, FileTypes, Zenon DEF Restored
    <3>3. \/ fs' = [fs EXCEPT ![held.path] =
                        File(fs[held.path].data, Tree[held.entry].sec, FALSE)]
          \/ fs' = [fs EXCEPT ![held.path] = Restored(Tree[held.entry])]
      BY <1>6 DEF RestoreStow
    <3> QED BY <3>1, <3>2, <3>3, Zenon
  <2>5. fs' \in [Paths -> Nodes] /\ FsShape'
    BY <1>0, <2>0, <2>4, SetNode
  <2>6. store' \in [Objects -> Objects \cup {None}] /\ StoreShape'
    BY <2>0, <1>0, StowedShape
  <2>7. TypeOK'
    BY <1>0, <2>0, <2>5, <2>6 DEF TypeOK
  <2>8. TreesShape'
    BY <1>0, <2>0, TreesKept
  <2>9. OpShape'
    BY <1>0, <2>0 DEF OpShape, Tree
  <2> QED BY <2>5, <2>6, <2>7, <2>8, <2>9 DEF IInv, Shape
<1>7. ASSUME NEW p \in Paths, RestoreLink(p) PROVE IInv'
  <2>1. /\ pc = "restore" /\ held = None /\ Len(dirs) > 0
        /\ p \in todo /\ Tree[p].kind = "link"
        /\ fs' = [fs EXCEPT ![p] = Link(store[Tree[p].hash])]
        /\ todo' = todo \ {p}
        /\ UNCHANGED <<now, store, snaps, pc, snap, built, dirs, held, edits, faults,
                      shown, stray>>
    BY <1>0, <1>7 DEF RestoreLink, Turn, OpShape
  <2>2. store[Tree[p].hash] \in Targets
    BY <1>0, <2>1, EntryToRestore DEF OpShape
  <2>3. fs' \in [Paths -> Nodes] /\ FsShape'
    <3>1. store[Tree[p].hash] \in Paths
      BY <2>2, PathsAssumption
    <3>2. PICK n \in Nodes : /\ n.kind = "link" /\ n.data \in Targets
                            /\ fs' = [fs EXCEPT ![p] = n]
      BY <2>1, <2>2, <3>1, NodeTypes, Zenon
    <3> QED BY <1>0, <3>2, SetNode
  <2> QED BY <1>0, <2>1, <2>3, TurnIInv
<1>8. ASSUME NEW left \in SUBSET Paths, CleanUp(left) PROVE IInv'
  <2>1. /\ pc = "restore" /\ held = None /\ Len(dirs) > 0
        /\ fs' = Without(Extras(dirs[Len(dirs)]) \ left)
        /\ dirs' = SubSeq(dirs, 1, Len(dirs) - 1)
        /\ UNCHANGED <<now, store, snaps, built, todo, held, edits, stray>>
        /\ IF Len(dirs) = 1 THEN pc' = "idle" /\ snap' = None ELSE UNCHANGED <<pc, snap>>
    BY <1>0, <1>8 DEF CleanUp, OpShape
  <2>2. faults' \in Nat /\ shown' \in Snaps \cup {None}
    BY <1>0, <1>8 DEF CleanUp
  <2>3. fs' \in [Paths -> Nodes] /\ FsShape'
    BY <1>0, <2>1, RemoveNodes
  <2>4. /\ dirs' \in Seq(Paths \cup {Root})
        /\ Len(dirs) \in Nat /\ Len(dirs') = Len(dirs) - 1
    <3>1. Len(dirs) \in Nat /\ \A i \in 1 .. Len(dirs) : dirs[i] \in Paths \cup {Root}
      BY <1>0, ElementOfSeq, LenProperties
    <3>2. \A i \in 1 .. Len(dirs) - 1 : dirs[i] \in Paths \cup {Root}
      BY <3>1
    <3>3. PICK n \in Nat : n = Len(dirs) - 1
      BY <2>1, <3>1
    <3>4. \A i \in 1 .. n : dirs[i] \in Paths \cup {Root}
      BY <3>2, <3>3
    <3>5. /\ SubSeq(dirs, 1, n) \in Seq(Paths \cup {Root})
          /\ Len(SubSeq(dirs, 1, n)) = IF 1 <= n THEN n - 1 + 1 ELSE 0
      BY <3>4, SubSeqProperties
    <3> QED BY <2>1, <3>1, <3>3, <3>5
  <2>5. CASE Len(dirs) = 1
    BY <1>0, <2>1, <2>2, <2>3, <2>4, <2>5, StopIInv
  <2>6. CASE Len(dirs) # 1
    <3>1. Len(dirs') > 0 /\ UNCHANGED <<pc, snap>>
      BY <2>1, <2>4, <2>6
    <3> QED BY <2>1, <2>2, <2>3, <2>4, <3>1, TurnIInv
  <2> QED BY <2>5, <2>6
<1> QED BY <1>1, <1>2, <1>3, <1>4, <1>5, <1>6, <1>7, <1>8

\* Operations that end where they are, by an error, a crash or a torn copy.
LEMMA StopsIInv ==
    ASSUME IInv, Abort \/ \E p \in Paths : RestoreClash(p) \/ AbortCopy(p)
    PROVE  IInv'
<1>0. /\ TypeOK /\ FsShape /\ now \in Nat /\ faults \in Nat
      /\ {} \subseteq Paths /\ <<>> \in Seq(Paths \cup {Root})
  BY DEF IInv, Shape, TypeOK
<1>1. ASSUME UNCHANGED fs, Stop, faults' \in Nat PROVE IInv'
  <2>1. fs' \in [Paths -> Nodes] /\ FsShape'
    BY <1>0, <1>1 DEF TypeOK, FsShape
  <2> QED BY <1>0, <1>1, <2>1, StopIInv DEF Stop
<1>2. ASSUME Abort PROVE IInv'
  BY <1>0, <1>1, <1>2 DEF Abort, Fault
<1>3. ASSUME NEW p \in Paths, RestoreClash(p) PROVE IInv'
  BY <1>0, <1>1, <1>3 DEF RestoreClash
<1>4. ASSUME NEW p \in Paths, AbortCopy(p) PROVE IInv'
  <2>1. Torn \in Contents
    BY ContentsAssumption
  <2>2. PICK n \in Nodes : n = File(Torn, now, TRUE) /\ n.kind = "file" /\ n.data = Torn
    BY <1>0, <2>1, FileTypes, Zenon
  <2>3. fs' = [fs EXCEPT ![Follow(p)] = n] /\ Fault /\ Stop
    BY <1>4, <2>2, Zenon DEF AbortCopy
  <2>4. fs' \in [Paths -> Nodes] /\ FsShape'
    BY <1>0, <2>1, <2>2, <2>3, FollowInPaths, SetNode DEF IInv
  <2> QED BY <1>0, <2>3, <2>4, StopIInv DEF Stop, Fault
<1> QED BY <1>2, <1>3, <1>4

\* Every step of the workspace keeps the invariant.
LEMMA StepIInv == IInv /\ [Next]_vars => IInv'
<1> SUFFICES ASSUME IInv, [Next]_vars PROVE IInv'
    OBVIOUS
<1>1. Grows
  BY StoreGrows
<1>2. CASE UNCHANGED vars
  BY <1>2 DEF vars, opVars, IInv, TypeOK, Shape, FsShape, StoreShape, TreesShape, OpShape,
              HeldOK, Stored, Tree
<1>3. CASE Next
  BY <1>1, <1>3, CommandsIInv, WalkIInv, RestoreIInv, StopsIInv DEF Next
<1> QED BY <1>2, <1>3

\* Every variable keeps its type, with any commands and operations cut short
\* anywhere.
THEOREM TypeCorrect == Spec => []TypeOK
<1>1. IInv => TypeOK
  BY DEF IInv
<1> QED BY <1>1, InitIInv, StepIInv, PTL DEF Spec

\* No operation ever changes an object that exists, whatever commands write
\* meanwhile (put_blob, put_file).
THEOREM ObjectsNeverChange == Spec => ObjectsImmutable
<1>1. Grows => \A x \in Objects : store[x] # None => store'[x] = store[x]
  BY DEF Grows
<1>2. IInv /\ [Next]_vars => [\A x \in Objects : store[x] # None => store'[x] = store[x]]_vars
  BY <1>1, StoreGrows
<1> QED BY <1>2, InitIInv, StepIInv, PTL DEF Spec, ObjectsImmutable

-----------------------------------------------------------------------------
(* The objects of a snapshot. *)

\* Steps that leave put_file alone, or start or drop one.
LEMMA HonestKept ==
    ASSUME Honest, UNCHANGED <<store, stray>>,
           \/ held' = None
           \/ held'.hash = None
           \/ UNCHANGED <<held, fs>>
           \/ held = None /\ UNCHANGED held
    PROVE  Honest'
BY DEF Honest

\* The object a put_file writes has the content that names it.
LEMMA HonestStow ==
    ASSUME IInv, Honest, held # None, held.hash # None, store' = Stowed,
           held' = None, UNCHANGED stray
    PROVE  Honest'
<1> SUFFICES ASSUME ~stray, NEW x \in Contents PROVE store'[x] \in {x, None}
    BY DEF Honest
<1>1. store[x] \in {x, None} /\ held.hash = fs[held.path].data
  BY DEF Honest
<1>2. store \in [Objects -> Objects \cup {None}] /\ x \in Objects
  BY DEF IInv, TypeOK, Objects
<1> QED BY <1>1, <1>2 DEF Stowed

\* Unless a command writes during an operation, put_file copies what it has
\* hashed.
LEMMA StepHonest == IInv /\ Honest /\ [Next]_vars => Honest'
<1> SUFFICES ASSUME IInv, Honest, [Next]_vars PROVE Honest'
    OBVIOUS
<1>1. ASSUME NEW p \in Paths, NEW c \in Contents, Write(p, c) PROVE Honest'
  <2>1. pc # "idle" => stray'
    BY <1>1 DEF Write
  <2>2. pc = "idle" => held = None
    BY DEF IInv, Shape, OpShape, HeldOK
  <2>3. UNCHANGED <<store, held>> /\ (stray => stray')
    BY <1>1 DEF Write, Edit, opVars
  <2> QED BY <2>1, <2>2, <2>3 DEF Honest
<1>2. ASSUME NEW p \in Paths, Remove(p) \/ \E n : Place(p, n) PROVE Honest'
  <2>1. held = None /\ UNCHANGED <<store, held, stray>>
    BY <1>2 DEF Remove, Place, Edit, opVars, IInv, Shape, OpShape, HeldOK
  <2> QED BY <2>1, HonestKept
<1>3. ASSUME NEW p \in Paths, WalkLink(p) PROVE Honest'
  <2>1. fs[p].data \in Targets /\ Targets \cap Contents = {}
    BY <1>3, PathsAssumption, ContentsAssumption DEF WalkLink, IInv, Shape, FsShape
  <2>2. store \in [Objects -> Objects \cup {None}] /\ Contents \subseteq Objects
    BY DEF IInv, TypeOK, Objects
  <2>3. held = None /\ UNCHANGED <<held, stray>>
    BY <1>3 DEF WalkLink, Visit
  <2>4. \A x \in Contents : store'[x] = store[x]
    BY <1>3, <2>1, <2>2 DEF WalkLink
  <2> QED BY <2>3, <2>4 DEF Honest
<1>4. ASSUME HashFile PROVE Honest'
  <2>1. held \in Calls /\ UNCHANGED <<fs, store, stray>>
    BY <1>4 DEF HashFile, IInv, TypeOK
  <2>2. held'.hash = fs'[held'.path].data
    BY <1>4, <2>1 DEF HashFile, Calls
  <2> QED BY <2>1, <2>2 DEF Honest
<1>5. ASSUME WalkStow \/ RestoreStow PROVE Honest'
  BY <1>5, HonestStow DEF WalkStow, RestoreStow
<1>6. ASSUME NEW p \in Paths, WalkDir(p) \/ WalkFile(p) \/ RestoreVerify(p) PROVE Honest'
  BY <1>6, HonestKept DEF WalkDir, WalkFile, RestoreVerify, Call
<1>7. ASSUME NEW p \in Paths,
             RestoreDir(p) \/ RestoreSkip(p) \/ RestoreMissing(p) \/ RestoreLink(p)
      PROVE  Honest'
  BY <1>7, HonestKept DEF RestoreDir, RestoreSkip, RestoreMissing, RestoreLink, Turn
<1>8. ASSUME NEW p \in Paths, RestoreClash(p) \/ AbortCopy(p) PROVE Honest'
  BY <1>8, HonestKept DEF RestoreClash, AbortCopy, Stop
<1>9. ASSUME NEW s \in Snaps, Create(s) \/ Restore(s) PROVE Honest'
  BY <1>9, HonestKept DEF Create, Restore
<1>10. ASSUME NEW left \in SUBSET Paths, CleanUp(left) PROVE Honest'
  BY <1>10, HonestKept DEF CleanUp
<1>11. ASSUME Publish \/ Abort \/ UNCHANGED vars PROVE Honest'
  BY <1>11, HonestKept DEF Publish, Abort, Stop, vars, opVars
<1> QED BY <1>1, <1>2, <1>3, <1>4, <1>5, <1>6, <1>7, <1>8, <1>9, <1>10, <1>11 DEF Next

\* Whatever is cut short, a snapshot that is listed has every object its tree
\* names in the store, with the content that names it (build_tree stores an
\* entry's object before the entry, and the tree before the snapshot's file),
\* unless a command has written during an operation.
THEOREM SnapshotsRestorable == Spec => []Restorable
<1>1. Init => Honest
  BY DEF Init, Honest, Objects
<1>2. IInv /\ Honest => Restorable
  <2> SUFFICES ASSUME IInv, Honest, ~stray, NEW s \in Snaps, snaps[s] # None, NEW p \in Paths,
                      snaps[s][p] # None, snaps[s][p].kind # "dir"
               PROVE  store[snaps[s][p].hash] = snaps[s][p].hash
      BY DEF Restorable
  <2>1. snaps[s][p].kind \in {"file", "link"} /\ Stored(snaps[s][p])
    BY DEF IInv, TypeOK, Trees, Entries, Shape, TreesShape
  <2> QED BY <2>1 DEF Honest, Stored
<1> QED BY <1>1, <1>2, InitIInv, StepIInv, StepHonest, PTL DEF Spec

-----------------------------------------------------------------------------
(* Paths and what is inside of a directory. *)

\* A set of naturals that is not empty has a least element.
LEMMA LeastNat ==
    ASSUME NEW T, T \subseteq Nat, T # {}
    PROVE  \E n \in T : \A m \in T : n <= m
<1> DEFINE R == OpToRel(<, Nat)
<1>1. IsWellFoundedOn(R, Nat)
  BY NatLessThanWellFounded
<1>2. PICK n \in T : \A m \in T : ~(<<m, n>> \in R)
  <2> HIDE DEF R
  <2> QED BY <1>1, WFMin
<1>3. \A m \in T : ~(m < n)
  BY <1>2 DEF OpToRel
<1> QED BY <1>3

\* A path is a sequence of one name or more.
LEMMA PathTypes == \A p \in Paths : p \in Seq(STRING) /\ Len(p) \in Nat /\ Len(p) > 0
BY PathsAssumption, LenProperties

\* A prefix of a path has its own prefixes.
LEMMA PrefixFacts ==
    ASSUME NEW p \in Paths, NEW n \in 0 .. Len(p)
    PROVE  /\ Len(p) \in Nat /\ Len(p) > 0 /\ p \in Seq(STRING)
           /\ SubSeq(p, 1, n) \in Seq(STRING) /\ Len(SubSeq(p, 1, n)) = n
           /\ n > 0 => SubSeq(p, 1, n) \in Paths
           /\ SubSeq(p, 1, 0) = Root /\ SubSeq(p, 1, Len(p)) = p
           /\ \A m \in 0 .. n : SubSeq(SubSeq(p, 1, n), 1, m) = SubSeq(p, 1, m)
<1>1. p \in Seq(STRING) /\ Len(p) \in Nat /\ Len(p) > 0
  BY PathsAssumption, LenProperties
<1>2. \A i \in 1 .. n : p[i] \in STRING
  BY <1>1, ElementOfSeq
<1>3. n \in Int /\ 1 \in Int
  BY <1>1
<1>4. SubSeq(p, 1, n) \in Seq(STRING) /\ Len(SubSeq(p, 1, n)) = IF 1 <= n THEN n - 1 + 1 ELSE 0
  BY <1>2, <1>3, SubSeqProperties
<1>5. SubSeq(p, 1, 0) = Root
  BY <1>3, SubSeqEmpty DEF Root
<1>6. ASSUME NEW m \in 0 .. n PROVE SubSeq(SubSeq(p, 1, n), 1, m) = SubSeq(p, 1, m)
  <2>1. CASE m = 0
    <3>1. m \in Int /\ m < 1 /\ 1 \in Int
      BY <2>1
    <3>2. SubSeq(SubSeq(p, 1, n), 1, m) = <<>> /\ SubSeq(p, 1, m) = <<>>
      BY <3>1, SubSeqEmpty
    <3> QED BY <3>2
  <2>2. CASE m # 0
    <3>1. /\ 1 \in 1 .. Len(p) /\ n \in 1 .. Len(p)
          /\ 1 \in 1 .. n - 1 + 1 /\ m \in 1 .. n - 1 + 1
          /\ 1 + 1 - 1 = 1 /\ 1 + m - 1 = m
      BY <1>1, <2>2
    <3>2. SubSeq(SubSeq(p, 1, n), 1, m) = SubSeq(p, 1 + 1 - 1, 1 + m - 1)
      BY <1>1, <3>1, SubSeqOfSubSeq
    <3> QED BY <3>1, <3>2
  <2> QED BY <2>1, <2>2
<1>7. n > 0 => SubSeq(p, 1, n) \in Paths
  BY <1>3, PrefixAssumption
<1>8. SubSeq(p, 1, Len(p)) = p
  BY <1>1, SubSeqFull
<1> QED BY <1>1, <1>4, <1>5, <1>6, <1>7, <1>8

\* The parent of a path is the nearest directory that it is inside of.
LEMMA ParentFacts ==
    ASSUME NEW p \in Paths
    PROVE  /\ Parent(p) \in Paths \cup {Root} /\ Len(p) = Len(Parent(p)) + 1
           /\ Len(Parent(p)) \in Nat /\ p \in Inside(Parent(p))
           /\ \A a \in Paths : p \in Inside(a) => a = Parent(p) \/ Parent(p) \in Inside(a)
<1> DEFINE n == Len(p) - 1
<1>1. Len(p) \in Nat /\ Len(p) > 0 /\ n \in 0 .. Len(p)
  BY PrefixFacts
<1>2. /\ Parent(p) = SubSeq(p, 1, n) /\ Len(Parent(p)) = n
      /\ n > 0 => Parent(p) \in Paths
      /\ n = 0 => Parent(p) = Root
      /\ \A m \in 0 .. n : SubSeq(Parent(p), 1, m) = SubSeq(p, 1, m)
  BY <1>1, PrefixFacts DEF Parent
<1>3. p \in Inside(Parent(p))
  BY <1>1, <1>2 DEF Inside
<1>4. ASSUME NEW a \in Paths, p \in Inside(a) PROVE a = Parent(p) \/ Parent(p) \in Inside(a)
  <2>1. Len(a) \in Nat /\ Len(a) > 0 /\ Len(p) > Len(a) /\ SubSeq(p, 1, Len(a)) = a
    BY <1>4, PrefixFacts DEF Inside
  <2>2. Len(a) \in 0 .. n /\ SubSeq(Parent(p), 1, Len(a)) = a
    BY <1>1, <1>2, <2>1
  <2>3. CASE Len(a) = n
    BY <1>2, <2>1, <2>3
  <2>4. CASE Len(a) < n
    <3>1. n > 0 /\ Parent(p) \in Paths
      BY <1>1, <1>2, <2>1, <2>4
    <3>2. Len(Parent(p)) > Len(a)
      BY <1>2, <2>4
    <3> QED BY <2>2, <3>1, <3>2 DEF Inside
  <2> QED BY <1>1, <2>2, <2>3, <2>4
<1> QED BY <1>1, <1>2, <1>3, <1>4

\* What is inside of a directory is one of its entries or inside of one.
LEMMA EntryAbove ==
    ASSUME NEW d \in Paths \cup {Root}, NEW q \in Inside(d)
    PROVE  \E c \in Paths : /\ Parent(c) = d /\ Len(c) = Len(d) + 1
                            /\ q = c \/ q \in Inside(c)
<1> DEFINE n == Len(d)
           c == SubSeq(q, 1, n + 1)
<1>1. q \in Paths /\ Len(q) > n /\ SubSeq(q, 1, n) = d
  BY DEF Inside
<1>2. n \in Nat /\ Len(q) \in Nat /\ n + 1 \in 0 .. Len(q) /\ n \in 0 .. n + 1
  <2>1. n \in Nat
    BY PrefixFacts DEF Root
  <2> QED BY <1>1, <2>1, PrefixFacts
<1>3. /\ c \in Paths /\ Len(c) = n + 1 /\ SubSeq(c, 1, n) = d
      /\ SubSeq(q, 1, Len(q)) = q
  BY <1>1, <1>2, PrefixFacts
<1>4. Parent(c) = d
  BY <1>2, <1>3 DEF Parent
<1>5. q = c \/ q \in Inside(c)
  <2>1. CASE Len(q) = n + 1
    BY <1>3, <2>1
  <2>2. CASE Len(q) # n + 1
    <3>1. Len(c) = n + 1 /\ c = SubSeq(q, 1, n + 1)
      BY <1>3
    <3>2. Len(q) > n + 1
      BY <1>1, <1>2, <2>2
    <3> HIDE DEF c, n
    <3> QED BY <1>1, <3>1, <3>2 DEF Inside
  <2> QED BY <2>1, <2>2
<1> QED BY <1>3, <1>4, <1>5

\* Inside of a directory that is inside of another one.
LEMMA InsideTrans ==
    ASSUME NEW a \in Paths \cup {Root}, NEW p \in Paths, NEW q \in Paths,
           q \in Inside(p), p \in Inside(a)
    PROVE  q \in Inside(a)
<1>1. /\ Len(a) \in Nat /\ Len(p) \in Nat /\ Len(q) \in Nat
      /\ Len(p) > Len(a) /\ Len(q) > Len(p)
      /\ SubSeq(p, 1, Len(a)) = a /\ SubSeq(q, 1, Len(p)) = p
  BY PrefixFacts DEF Inside, Root
<1>2. Len(p) \in 0 .. Len(q) /\ Len(a) \in 0 .. Len(p)
  BY <1>1
<1>3. SubSeq(SubSeq(q, 1, Len(p)), 1, Len(a)) = SubSeq(q, 1, Len(a))
  BY <1>2, PrefixFacts
<1> QED BY <1>1, <1>3 DEF Inside

\* Everything is inside of the root, and nothing inside of itself.
LEMMA InsideRoot == Inside(Root) = Paths /\ \A p \in Paths : p \notin Inside(p)
<1>1. ASSUME NEW p \in Paths PROVE Len(p) > Len(Root) /\ SubSeq(p, 1, Len(Root)) = Root
  BY PathTypes, SubSeqEmpty DEF Root
<1>2. \A p \in Paths : Len(p) \in Nat
  BY PathTypes
<1> QED BY <1>1, <1>2 DEF Inside

-----------------------------------------------------------------------------
(* What a restore relies on. *)

\* The directories above an entry are entries of the tree.
Closed(t) ==
    \A p \in Paths, a \in Paths :
        t[p] # None /\ p \in Inside(a) => t[a] # None /\ t[a].kind = "dir"

\* The length of a file's entry is that of the content it names, and a
\* directory's entry names none.
Sized(t) ==
    \A p \in Paths : t[p] # None =>
        /\ t[p].kind = "file" => t[p].len = SizeOf[t[p].hash]
        /\ t[p].kind = "dir" => t[p].hash = None

FsClosed ==
    \A p \in Paths : /\ fs[p].kind = "dir" => fs[p].data = None
                     /\ \A a \in Paths : Present(p) /\ p \in Inside(a) => fs[a].kind = "dir"

TreesTrue == \A s \in Snaps : snaps[s] # None => Closed(snaps[s]) /\ Sized(snaps[s])

\* A snapshot has a file of this content and this second.
Origin(n) ==
    \E s \in Snaps, q \in Paths :
        /\ snaps[s] # None /\ snaps[s][q] # None /\ snaps[s][q].kind = "file"
        /\ snaps[s][q].hash = n.data /\ snaps[s][q].sec = n.sec

\* A file without a fraction of a second was restored.
Dated == \A p \in Paths : fs[p].kind = "file" /\ ~fs[p].frac => Origin(fs[p])

WalkInv == pc = "walk" =>
    /\ snaps[snap] = None /\ Closed(built) /\ Sized(built)
    /\ \A p \in todo :
         /\ built[p] = None
         /\ \A a \in Paths : p \in Inside(a) => built[a] # None /\ built[a].kind = "dir"
    /\ held # None =>
         held.path = held.entry /\ held.entry \in todo /\ held.meta = fs[held.path]

\* The directories that a restore is inside of.
Open == {dirs[i] : i \in 1 .. Len(dirs)}

\* What the workspace has where an entry was restored; a later entry may have
\* written there through a link.
Settled(q) ==
    /\ Tree[q].kind = "dir" => fs[q].kind = "dir"
    /\ Tree[q].kind = "link" => fs[q].kind = "link" /\ fs[q].data = Tree[q].hash
    /\ Tree[q].kind = "file" =>
         \/ fs[q].kind = "link"
         \/ /\ fs[q].kind = "file"
            /\ fs[q].data = Tree[q].hash \/ ThroughLink(Tree, q) \/ Lookalike(Tree, q)

\* Nothing is left inside of a directory but what its snapshot has.
Cleared(a) ==
    \A p \in Inside(a) : Tree[p] = None => ~Present(p) \/ ThroughLink(Tree, p)

DirsInv ==
    /\ dirs[1] = Root
    /\ \A i \in 1 .. Len(dirs) : Len(dirs[i]) = i - 1
    /\ \A i \in 2 .. Len(dirs) :
         Tree[dirs[i]] # None /\ Tree[dirs[i]].kind = "dir" /\ dirs[i] \notin todo
    /\ \A q \in todo, a \in Paths : q \in Inside(a) => a \in todo \cup Open

DoneInv ==
    /\ \A q \in Paths \ todo : Tree[q] # None => Settled(q)
    /\ shown # None =>
         \A a \in Paths \ (todo \cup Open) :
             Tree[a] # None /\ Tree[a].kind = "dir" => Cleared(a)

RestInv == pc = "restore" =>
    /\ DirsInv /\ DoneInv
    /\ shown \in {snap, None}
    /\ held # None => held.path = Follow(held.entry) /\ held.entry \in todo

Shows ==
    pc # "restore" /\ shown # None =>
        snaps[shown] # None /\ \A p \in Paths : RestoredAt(snaps[shown], p)

Exact == FsClosed /\ TreesTrue /\ Dated /\ WalkInv /\ RestInv /\ Shows

\* The invariant: unless a command wrote during an operation.
Sound == ~stray => Exact

-----------------------------------------------------------------------------
(* The workspace as a tree. *)

\* One node written where its directory is there and no directory was.
LEMMA PutClosed ==
    ASSUME TypeOK, FsClosed, NEW q \in Paths, NEW n, fs' = [fs EXCEPT ![q] = n],
           DirExists(q), n.kind = "dir" \/ fs[q].kind # "dir", n.kind = "dir" => n.data = None
    PROVE  FsClosed'
<1>0. \A p \in Paths : fs'[p].kind = "dir" => fs'[p].data = None
  BY DEF FsClosed, TypeOK
<1> SUFFICES ASSUME NEW p \in Paths, NEW a \in Paths, fs'[p].kind # "none", p \in Inside(a)
             PROVE  fs'[a].kind = "dir"
    BY <1>0 DEF FsClosed, Present
<1>1. fs \in [Paths -> Nodes] /\ p # a
  BY InsideRoot DEF TypeOK
<1>2. CASE p = q
  <2>1. Parent(q) \in Paths \cup {Root} /\ (a = Parent(q) \/ Parent(q) \in Inside(a))
    BY <1>2, ParentFacts
  <2>2. Parent(q) \in Paths
    <3>1. Root \notin Paths
      BY PathTypes DEF Root
    <3> QED BY <2>1, <3>1 DEF Inside
  <2>3. fs[Parent(q)].kind = "dir"
    <3>1. Parent(q) # Root
      BY <2>2, PathTypes DEF Root
    <3> QED BY <3>1 DEF DirExists
  <2>4. fs[a].kind = "dir"
    BY <2>1, <2>2, <2>3 DEF FsClosed, Present
  <2> QED BY <1>1, <1>2, <2>4
<1>3. CASE p # q
  <2>1. fs[a].kind = "dir"
    BY <1>1, <1>3 DEF FsClosed, Present
  <2> QED BY <1>1, <2>1
<1> QED BY <1>2, <1>3

\* Nodes removed with what is inside of them.
LEMMA DropClosed ==
    ASSUME TypeOK, FsClosed, NEW ps \in SUBSET Paths, fs' = Without(ps)
    PROVE  FsClosed'
<1>0. \A p \in Paths : fs'[p].kind = "dir" => fs'[p].data = None
  BY DEF FsClosed, Without, Absent
<1> SUFFICES ASSUME NEW p \in Paths, NEW a \in Paths, fs'[p].kind # "none", p \in Inside(a)
             PROVE  fs'[a].kind = "dir"
    BY <1>0 DEF FsClosed, Present
<1>1. \A x \in Paths : fs'[x] = IF \E q \in ps : x \in {q} \cup Inside(q) THEN Absent ELSE fs[x]
  BY DEF Without
<1>2. ~(\E q \in ps : p \in {q} \cup Inside(q)) /\ fs'[p] = fs[p]
  BY <1>1 DEF Absent
<1>3. fs[a].kind = "dir"
  BY <1>2 DEF FsClosed, Present
<1>4. ~(\E q \in ps : a \in {q} \cup Inside(q))
  BY <1>2, InsideTrans
<1> QED BY <1>1, <1>3, <1>4

SnapsGrow == \A s \in Snaps : snaps[s] # None => snaps'[s] = snaps[s]

\* What was seen of a snapshot stays: its files, and entries that look alike.
LEMMA OriginKept == ASSUME SnapsGrow, NEW n, Origin(n) PROVE Origin(n)'
BY DEF SnapsGrow, Origin

\* Likewise.
LEMMA LookalikeKept ==
    ASSUME SnapsGrow, NEW t, NEW p, Lookalike(t, p)
    PROVE  Lookalike(t, p)'
<1>1. PICK s \in Snaps, q \in Paths :
        /\ t[p] # None /\ snaps[s] # None /\ snaps[s][q] # None
        /\ snaps[s][q] = [t[p] EXCEPT !.hash = snaps[s][q].hash]
        /\ snaps[s][q] # t[p]
  BY DEF Lookalike
<1>2. snaps'[s] = snaps[s]
  BY <1>1 DEF SnapsGrow
<1> QED BY <1>1, <1>2 DEF Lookalike

\* A step that restores no file but one with an origin.
LEMMA DatedKept ==
    ASSUME Dated, SnapsGrow,
           \A p \in Paths : \/ fs'[p] = fs[p] \/ fs'[p].kind # "file" \/ fs'[p].frac
                            \/ Origin(fs'[p])
    PROVE  Dated'
<1> SUFFICES ASSUME NEW p \in Paths, fs'[p].kind = "file", ~fs'[p].frac
             PROVE  Origin(fs[p])'
    BY DEF Dated
<1>1. \E n : n = fs'[p] /\ Origin(n)
  BY DEF Dated
<1>2. PICK n : n = fs'[p] /\ Origin(n)
  BY <1>1
<1>3. Origin(n)'
  BY <1>2, OriginKept
<1> QED BY <1>2, <1>3 DEF Origin

\* At first: commands wrote whatever is there.
LEMMA InitExact == Init => Exact
<1> SUFFICES ASSUME Init PROVE Exact
  OBVIOUS
<1>1. /\ fs \in [Paths -> Fresh] /\ \A p \in Paths : Present(p) => DirExists(p)
      /\ snaps = [s \in Snaps |-> None] /\ pc = "idle" /\ shown = None
  BY DEF Init
<1>2. FsClosed
  <2>0. \A p \in Paths : fs[p].kind = "dir" => fs[p].data = None
    BY <1>1 DEF Fresh, Absent, DirNode, File, Link
  <2> SUFFICES ASSUME NEW p \in Paths, NEW a \in Paths, Present(p), p \in Inside(a)
               PROVE  fs[a].kind = "dir"
      BY <2>0 DEF FsClosed
  <2> DEFINE T == {Len(x) : x \in {y \in Paths : y \in Inside(a) /\ Present(y)}}
  <2>1. T # {} /\ T \subseteq Nat
    BY PathTypes
  <2>2. PICK m \in T : \A k \in T : m <= k
    <3> HIDE DEF T
    <3> QED BY <2>1, LeastNat
  <2>3. PICK x \in Paths : x \in Inside(a) /\ Present(x) /\ m = Len(x)
    OBVIOUS
  <2>4. /\ Parent(x) \in Paths \cup {Root} /\ Len(x) = Len(Parent(x)) + 1 /\ Len(Parent(x)) \in Nat
        /\ a = Parent(x) \/ Parent(x) \in Inside(a)
    BY <2>3, ParentFacts
  <2>5. Parent(x) \in Paths /\ Parent(x) # Root
    BY <2>3, <2>4, PathTypes DEF Inside, Root
  <2>6. fs[Parent(x)].kind = "dir"
    BY <1>1, <2>3, <2>5 DEF DirExists
  <2>7. CASE Parent(x) \in Inside(a)
    <3>1. Len(Parent(x)) \in T
      BY <2>5, <2>6, <2>7 DEF Present
    <3> HIDE DEF T
    <3> QED BY <2>2, <2>3, <2>4, <3>1
  <2> QED BY <2>4, <2>6, <2>7
<1>3. TreesTrue /\ WalkInv /\ RestInv /\ Shows
  BY <1>1 DEF TreesTrue, WalkInv, RestInv, Shows
<1>4. Dated
  <2> SUFFICES ASSUME NEW p \in Paths, fs[p].kind = "file" PROVE fs[p].frac
      BY DEF Dated
  <2>1. \/ fs[p] = Absent \/ fs[p] = DirNode
        \/ \E c \in Contents : fs[p] = File(c, 0, TRUE)
        \/ \E t \in Targets : fs[p] = Link(t)
    BY <1>1 DEF Fresh
  <2>2. fs[p] # Absent /\ fs[p] # DirNode /\ \A t \in Targets : fs[p] # Link(t)
    BY DEF Absent, DirNode, Link
  <2>3. \A c : File(c, 0, TRUE).frac
    BY DEF File
  <2> QED BY <2>1, <2>2, <2>3
<1> QED BY <1>2, <1>3, <1>4 DEF Exact

-----------------------------------------------------------------------------
(* Steps of commands and of create_snapshot. *)

\* Trees and files that nobody touches.
LEMMA SameFs ==
    ASSUME FsClosed, Dated, SnapsGrow, UNCHANGED fs
    PROVE  FsClosed' /\ Dated'
<1>1. FsClosed'
  BY DEF FsClosed, Present
<1>2. Dated'
  BY DatedKept
<1> QED BY <1>1, <1>2

\* Likewise.
LEMMA SameTrees == ASSUME TreesTrue, UNCHANGED snaps PROVE TreesTrue' /\ SnapsGrow
BY DEF TreesTrue, SnapsGrow, Closed, Sized

\* What a restore has restored is there as long as nobody writes.
LEMMA ShowsKept ==
    ASSUME TypeOK, Shows, pc # "restore", SnapsGrow, UNCHANGED <<fs, shown>>
    PROVE  Shows'
<1>1. ASSUME shown # None, NEW p \in Paths
      PROVE  (snaps[shown] # None)' /\ RestoredAt(snaps[shown], p)'
  <2>1. PICK t : t = snaps[shown]
    OBVIOUS
  <2>2. t # None /\ snaps'[shown'] = t /\ RestoredAt(t, p)
    BY <1>1, <2>1 DEF Shows, TypeOK, SnapsGrow
  <2>3. Matches(t[p], fs'[p]) \/ ThroughLink(t, p)' \/ Lookalike(t, p)'
    BY <2>2, LookalikeKept DEF RestoredAt, ThroughLink
  <2> QED BY <2>2, <2>3 DEF RestoredAt, ThroughLink, Lookalike, Matches
<1>2. ASSUME shown # None PROVE (snaps[shown] # None)'
  BY <1>2 DEF Shows, TypeOK, SnapsGrow
<1> QED BY <1>1, <1>2 DEF Shows, RestoredAt, ThroughLink, Lookalike, Matches

\* Commands write where the directory is there, remove a directory with what
\* is in it, and end what a restore can claim.
LEMMA CommandsExact ==
    ASSUME IInv, Exact, pc = "idle", NEW p \in Paths,
           \/ \E c \in Contents \ {Torn} : Write(p, c)
           \/ \E t \in Targets : Place(p, Link(t))
           \/ Place(p, DirNode)
           \/ Remove(p)
    PROVE  Exact'
<1>1. pc' = "idle" /\ shown' = None /\ UNCHANGED snaps
  BY DEF Write, Place, Remove, Edit, opVars
<1>2. TreesTrue' /\ SnapsGrow
  BY <1>1, SameTrees DEF Exact
<1>3. WalkInv' /\ RestInv' /\ Shows'
  BY <1>1 DEF WalkInv, RestInv, Shows
<1>4. TypeOK /\ FsClosed /\ Dated /\ fs \in [Paths -> Nodes]
  BY DEF IInv, Exact, TypeOK
<1>5. ASSUME NEW q \in Paths, NEW n, fs' = [fs EXCEPT ![q] = n], DirExists(q),
             fs[q].kind # "dir", n.kind # "file" \/ n.frac, n.kind = "dir" => n.data = None
      PROVE  FsClosed' /\ Dated'
  <2>1. FsClosed'
    BY <1>4, <1>5, PutClosed
  <2>2. \A x \in Paths : fs'[x] = fs[x] \/ fs'[x].kind # "file" \/ fs'[x].frac
    BY <1>4, <1>5
  <2> QED BY <1>2, <1>4, <2>1, <2>2, DatedKept
<1>6. ASSUME NEW c \in Contents, Write(p, c) PROVE FsClosed' /\ Dated'
  <2>1. PICK n : n = File(c, now', TRUE)
    OBVIOUS
  <2>2. n.frac /\ n.kind = "file"
    BY <2>1 DEF File
  <2>3. /\ fs' = [fs EXCEPT ![Follow(p)] = n] /\ DirExists(Follow(p))
        /\ fs[Follow(p)].kind # "dir"
    BY <1>6, <2>1 DEF Write
  <2>4. Follow(p) \in Paths
    BY FollowInPaths DEF IInv
  <2> QED BY <1>5, <2>2, <2>3, <2>4
<1>7. ASSUME NEW n, n.kind # "file", n.kind = "dir" => n.data = None, Place(p, n)
      PROVE  FsClosed' /\ Dated'
  BY <1>5, <1>7 DEF Place, Present
<1>8. ASSUME Remove(p) PROVE FsClosed' /\ Dated'
  <2>1. fs' = Without({p}) /\ {p} \in SUBSET Paths
    BY <1>8 DEF Remove
  <2>2. \A x \in Paths : fs'[x] = fs[x] \/ fs'[x].kind # "file"
    BY <2>1 DEF Without, Absent
  <2> QED BY <1>2, <1>4, <2>1, <2>2, DropClosed, DatedKept
<1>9. DirNode.kind = "dir" /\ DirNode.data = None /\ \A t : Link(t).kind = "link"
  BY DEF DirNode, Link
<1>10. FsClosed' /\ Dated'
  BY <1>6, <1>7, <1>8, <1>9
<1> QED BY <1>2, <1>3, <1>10 DEF Exact

\* The steps of create_snapshot that leave the snapshots alone: what they owe
\* is the walk's own part.
LEMMA WalkKeeps ==
    ASSUME IInv, Exact, pc # "restore", pc' = "walk", UNCHANGED <<fs, snaps, shown>>, WalkInv'
    PROVE  Exact'
<1>1. TreesTrue' /\ SnapsGrow
  BY SameTrees DEF Exact
<1>2. FsClosed' /\ Dated'
  BY <1>1, SameFs DEF Exact
<1>3. Shows'
  BY <1>1, ShowsKept DEF Exact, IInv
<1>4. RestInv'
  BY DEF RestInv
<1> QED BY <1>1, <1>2, <1>3, <1>4 DEF Exact

\* An entry built below directories that are built, and not below a file.
LEMMA BuildEntry ==
    ASSUME TypeOK, pc = "walk", WalkInv, NEW p \in todo, NEW e,
           built' = [built EXCEPT ![p] = e], e # None,
           e.kind = "file" => e.len = SizeOf[e.hash], e.kind = "dir" => e.hash = None,
           \/ todo' = todo \ {p}
           \/ e.kind = "dir" /\ todo' = (todo \ {p}) \cup Listed(p)
    PROVE  /\ Closed(built') /\ Sized(built')
           /\ \A q \in todo' :
                /\ built'[q] = None
                /\ \A a \in Paths :
                     q \in Inside(a) => built'[a] # None /\ built'[a].kind = "dir"
<1>1. /\ built \in [Paths -> Entries \cup {None}] /\ todo \subseteq Paths /\ p \in Paths
      /\ Closed(built) /\ Sized(built)
      /\ \A q \in todo :
           /\ built[q] = None
           /\ \A a \in Paths : q \in Inside(a) => built[a] # None /\ built[a].kind = "dir"
  BY DEF WalkInv, TypeOK, Trees
<1>2. \A q \in Paths : built'[q] = IF q = p THEN e ELSE built[q]
  BY <1>1
<1>3. \A q \in Paths : q \in Inside(p) => built[q] = None
  BY <1>1 DEF Closed
<1>4. Closed(built')
  BY <1>1, <1>2, <1>3 DEF Closed
<1>5. Sized(built')
  BY <1>1, <1>2 DEF Sized
<1>6. ASSUME NEW q \in todo \ {p}
      PROVE  /\ built'[q] = None
             /\ \A a \in Paths : q \in Inside(a) => built'[a] # None /\ built'[a].kind = "dir"
  <2>1. p \in todo
    OBVIOUS
  <2> QED BY <1>1, <1>2, <2>1
<1>7. ASSUME NEW q \in Listed(p), e.kind = "dir"
      PROVE  /\ built'[q] = None
             /\ \A a \in Paths : q \in Inside(a) => built'[a] # None /\ built'[a].kind = "dir"
  <2>1. q \in Paths /\ Parent(q) = p /\ q \in Inside(p) /\ q # p
    BY <1>7, ParentFacts, InsideRoot DEF Listed, Children
  <2>2. \A a \in Paths : q \in Inside(a) => a = p \/ p \in Inside(a)
    BY <2>1, ParentFacts
  <2> QED BY <1>1, <1>2, <1>3, <1>7, <2>1, <2>2
<1> QED BY <1>4, <1>5, <1>6, <1>7

\* build_tree.
LEMMA WalkExact ==
    ASSUME IInv, Exact, Honest, ~stray,
           \/ \E s \in Snaps : Create(s)
           \/ \E p \in Paths : WalkLink(p) \/ WalkDir(p) \/ WalkFile(p)
           \/ pc = "walk" /\ HashFile
           \/ WalkStow \/ Publish
    PROVE  Exact'
<1>0. /\ TypeOK /\ FsShape /\ OpShape /\ TreesShape /\ fs \in [Paths -> Nodes]
      /\ None \notin Objects
  BY NoneAssumption DEF IInv, Shape, TypeOK, Objects
<1>1. ASSUME NEW s \in Snaps, Create(s) PROVE Exact'
  <2>1. /\ pc = "idle" /\ pc' = "walk" /\ snap' = s /\ snaps[s] = None
        /\ built' = [p \in Paths |-> None] /\ todo' = Listed(Root)
        /\ UNCHANGED <<fs, snaps, held, shown>>
    BY <1>1 DEF Create
  <2>2. held = None
    BY <1>0, <2>1 DEF OpShape, HeldOK
  <2>3. \A p \in todo' : p \in Paths /\ \A a \in Paths : p \notin Inside(a)
    <3>1. ASSUME NEW p \in Listed(Root), NEW a \in Paths PROVE p \in Paths /\ p \notin Inside(a)
      <4>1. p \in Paths /\ Parent(p) = Root
        BY DEF Listed, Children
      <4>2. Len(p) = Len(Root) + 1 /\ Len(Root) = 0 /\ Len(a) \in Nat /\ Len(a) > 0
        BY <4>1, ParentFacts, PathTypes DEF Root
      <4> QED BY <4>1, <4>2 DEF Inside
    <3> QED BY <2>1, <3>1 DEF Listed, Children
  <2>4. Closed(built') /\ Sized(built')
    BY <2>1 DEF Closed, Sized
  <2>5. WalkInv'
    BY <2>1, <2>2, <2>3, <2>4 DEF WalkInv, Closed, Sized
  <2> QED BY <2>1, <2>5, WalkKeeps
<1>2. ASSUME NEW p \in Paths, WalkLink(p) PROVE Exact'
  <2>0. /\ pc = "walk" /\ p \in todo /\ fs[p].kind = "link" /\ fs[p].data \in Objects \cup {None}
        /\ built' = [built EXCEPT ![p] = Entry(fs[p], fs[p].data)]
        /\ todo' = todo \ {p} /\ held = None
        /\ UNCHANGED <<fs, snaps, pc, snap, held, shown>>
    BY <1>0, <1>2 DEF WalkLink, Visit, Nodes
  <2>1. PICK e \in Entries : e = Entry(fs[p], fs[p].data) /\ e.kind = "link"
    BY <1>0, <2>0, EntryTypes
  <2>2. e # None
    BY <2>1, EntriesAssumption
  <2>3. WalkInv'
    BY <1>0, <2>0, <2>1, <2>2, BuildEntry DEF Exact, WalkInv, Closed, Sized
  <2> QED BY <2>0, <2>3, WalkKeeps
<1>3. ASSUME NEW p \in Paths, WalkDir(p) PROVE Exact'
  <2>0. /\ pc = "walk" /\ p \in todo /\ fs[p].kind = "dir"
        /\ built' = [built EXCEPT ![p] = Entry(fs[p], None)]
        /\ todo' = (todo \ {p}) \cup Listed(p) /\ held = None
        /\ UNCHANGED <<fs, snaps, pc, snap, held, shown>>
    BY <1>3 DEF WalkDir, Visit
  <2>1. PICK e \in Entries : e = Entry(fs[p], None) /\ e.kind = "dir" /\ e.hash = None
    BY <1>0, <2>0, EntryTypes
  <2>2. e # None
    BY <2>1, EntriesAssumption
  <2>3. WalkInv'
    BY <1>0, <2>0, <2>1, <2>2, BuildEntry DEF Exact, WalkInv, Closed, Sized
  <2> QED BY <2>0, <2>3, WalkKeeps
<1>4. ASSUME NEW p \in Paths, WalkFile(p) PROVE Exact'
  <2>1. /\ pc = "walk" /\ p \in todo
        /\ held'.entry = p /\ held'.path = p /\ held'.meta = fs[p]
        /\ UNCHANGED <<fs, snaps, pc, snap, built, todo, shown>>
    BY <1>4 DEF WalkFile, Visit, Call
  <2>2. WalkInv'
    BY <2>1 DEF Exact, WalkInv, Closed, Sized
  <2> QED BY <2>1, <2>2, WalkKeeps
<1>5. ASSUME pc = "walk", HashFile PROVE Exact'
  <2>1. /\ held \in Calls /\ held # None
        /\ held' = [held EXCEPT !.hash = fs[held.path].data]
        /\ UNCHANGED <<fs, snaps, pc, snap, built, todo, shown>>
    BY <1>0, <1>5 DEF HashFile, TypeOK
  <2>2. held'.entry = held.entry /\ held'.path = held.path /\ held'.meta = held.meta
    BY <2>1 DEF Calls
  <2>3. WalkInv'
    BY <1>5, <2>1, <2>2 DEF Exact, WalkInv, Closed, Sized
  <2> QED BY <1>5, <2>1, <2>3, WalkKeeps
<1>6. ASSUME WalkStow PROVE Exact'
  <2>0. /\ pc = "walk" /\ held \in Calls /\ held # None /\ held.hash # None /\ HeldOK
        /\ built' = [built EXCEPT ![held.entry] = Entry(held.meta, held.hash)]
        /\ todo' = todo \ {held.entry} /\ held' = None
        /\ UNCHANGED <<fs, snaps, pc, snap, shown>>
    BY <1>0, <1>6 DEF WalkStow, TypeOK, OpShape
  <2>1. /\ held.entry \in todo /\ held.meta \in Nodes /\ held.meta.kind = "file"
        /\ held.hash = held.meta.data /\ held.hash \in Contents
    BY <2>0 DEF Exact, WalkInv, Honest, HeldOK, Calls
  <2>2. PICK e \in Entries : e = Entry(held.meta, held.hash) /\ e.kind = "file"
    BY <2>1, EntryTypes DEF Objects
  <2>3. e # None /\ e.len = SizeOf[e.hash]
    BY <2>1, <2>2, EntriesAssumption DEF Entry
  <2>4. WalkInv'
    BY <1>0, <2>0, <2>1, <2>2, <2>3, BuildEntry DEF Exact, WalkInv, Closed, Sized
  <2> QED BY <2>0, <2>4, WalkKeeps
<1>7. ASSUME Publish PROVE Exact'
  <2>1. /\ pc = "walk" /\ pc' = "idle" /\ snap \in Snaps
        /\ snaps' = [snaps EXCEPT ![snap] = built]
        /\ snaps[snap] = None /\ Closed(built) /\ Sized(built)
        /\ UNCHANGED <<fs, shown>>
    BY <1>0, <1>7 DEF Publish, OpShape, Exact, WalkInv
  <2>2. \A s \in Snaps : snaps'[s] = IF s = snap THEN built ELSE snaps[s]
    BY <1>0, <2>1 DEF TypeOK
  <2>3. SnapsGrow
    BY <2>1, <2>2 DEF SnapsGrow
  <2>4. TreesTrue'
    <3> SUFFICES ASSUME NEW s \in Snaps, snaps'[s] # None
                 PROVE  Closed(snaps'[s]) /\ Sized(snaps'[s])
        BY DEF TreesTrue, Closed, Sized
    <3> QED BY <2>1, <2>2 DEF Exact, TreesTrue
  <2>5. FsClosed' /\ Dated'
    BY <2>1, <2>3, SameFs DEF Exact
  <2>6. Shows'
    BY <1>0, <2>1, <2>3, ShowsKept DEF Exact
  <2>7. WalkInv' /\ RestInv'
    BY <2>1 DEF WalkInv, RestInv
  <2> QED BY <2>4, <2>5, <2>6, <2>7 DEF Exact
<1> QED BY <1>1, <1>2, <1>3, <1>4, <1>5, <1>6, <1>7

-----------------------------------------------------------------------------
(* Steps of restore_snapshot, one entry at a time. *)

\* It starts with the entries of the snapshot, in the root.
LEMMA RestoreExact ==
    ASSUME IInv, Exact, NEW s \in Snaps, Restore(s)
    PROVE  Exact'
<1>1. /\ pc = "idle" /\ pc' = "restore" /\ snap' = s /\ shown' = s /\ snaps[s] # None
      /\ todo' = {p \in Paths : snaps[s][p] # None} /\ dirs' = <<Root>>
      /\ UNCHANGED <<fs, snaps, held>>
  BY DEF Restore
<1>2. TreesTrue' /\ SnapsGrow
  BY <1>1, SameTrees DEF Exact
<1>3. FsClosed' /\ Dated'
  BY <1>1, <1>2, SameFs DEF Exact
<1>4. held' = None
  BY <1>1 DEF IInv, Shape, OpShape, HeldOK
<1>5. DirsInv'
  <2>1. Len(dirs') = 1 /\ dirs'[1] = Root /\ Len(Root) = 0
    BY <1>1 DEF Root
  <2>2. \A i \in 1 .. Len(dirs') : Len(dirs'[i]) = i - 1
    BY <2>1
  <2>3. \A q \in todo', a \in Paths : q \in Inside(a) => a \in todo'
    BY <1>1 DEF Exact, TreesTrue, Closed
  <2> QED BY <2>1, <2>2, <2>3 DEF DirsInv
<1>6. DoneInv'
  BY <1>1 DEF DoneInv, Tree
<1> QED BY <1>1, <1>2, <1>3, <1>4, <1>5, <1>6 DEF Exact, WalkInv, RestInv, Shows

\* What a restore knows of its tree and of the directory that it is in.
LEMMA RestFacts ==
    ASSUME IInv, Exact, pc = "restore"
    PROVE  /\ snap \in Snaps /\ Tree # None /\ Closed(Tree) /\ Sized(Tree)
           /\ Tree \in [Paths -> Entries \cup {None}]
           /\ DirsInv /\ DoneInv /\ shown \in {snap, None}
           /\ dirs \in Seq(Paths \cup {Root}) /\ Len(dirs) \in Nat /\ Len(dirs) > 0
           /\ todo \subseteq Paths /\ \A p \in todo : Tree[p] # None
           /\ fs \in [Paths -> Nodes]
<1>1. snap \in Snaps /\ snaps[snap] # None /\ Len(dirs) > 0 /\ \A p \in todo : Tree[p] # None
  BY DEF IInv, Shape, OpShape
<1>2. Tree \in Trees /\ dirs \in Seq(Paths \cup {Root}) /\ todo \subseteq Paths
      /\ fs \in [Paths -> Nodes]
  BY <1>1 DEF IInv, TypeOK, Tree
<1>3. Len(dirs) \in Nat
  BY <1>2, LenProperties
<1> QED BY <1>1, <1>2, <1>3 DEF Exact, TreesTrue, RestInv, Trees, Tree

\* The directory that a restore is in exists.
LEMMA TopIsDir ==
    ASSUME IInv, Exact, pc = "restore", NEW p \in Paths, Parent(p) = dirs[Len(dirs)]
    PROVE  DirExists(p) /\ Len(p) = Len(dirs)
<1>1. DirsInv /\ DoneInv /\ Len(dirs) \in Nat /\ Len(dirs) > 0
  BY RestFacts
<1>2. Len(dirs[Len(dirs)]) = Len(dirs) - 1
  BY <1>1 DEF DirsInv
<1>3. Parent(p) \in Paths \cup {Root} /\ Len(p) = Len(Parent(p)) + 1
  BY ParentFacts
<1>4. CASE Len(dirs) = 1
  BY <1>1, <1>2, <1>3, <1>4 DEF DirsInv, DirExists
<1>5. CASE Len(dirs) # 1
  <2>1. Len(dirs) \in 2 .. Len(dirs)
    BY <1>1, <1>5
  <2>2. Tree[Parent(p)] # None /\ Tree[Parent(p)].kind = "dir" /\ Parent(p) \notin todo
    BY <2>1, <1>1 DEF DirsInv
  <2>3. Parent(p) # Root => fs[Parent(p)].kind = "dir"
    BY <1>1, <1>3, <2>2 DEF DoneInv, Settled
  <2> QED BY <1>1, <1>2, <1>3, <2>3 DEF DirExists
<1> QED BY <1>4, <1>5

\* What is there is in a directory.
LEMMA PresentInDir ==
    ASSUME FsClosed, NEW p \in Paths, Present(p)
    PROVE  DirExists(p)
<1>1. Parent(p) \in Paths \cup {Root} /\ p \in Inside(Parent(p))
  BY ParentFacts
<1> QED BY <1>1 DEF DirExists, FsClosed

\* One directory more.
LEMMA OpenAppend ==
    ASSUME NEW S, dirs \in Seq(S), NEW p \in S, dirs' = Append(dirs, p)
    PROVE  /\ Open' = Open \cup {p} /\ Len(dirs') = Len(dirs) + 1 /\ Len(dirs) \in Nat
           /\ dirs'[Len(dirs')] = p /\ \A i \in 1 .. Len(dirs) : dirs'[i] = dirs[i]
<1>1. /\ Len(dirs') = Len(dirs) + 1 /\ Len(dirs) \in Nat
      /\ dirs'[Len(dirs) + 1] = p /\ \A i \in 1 .. Len(dirs) : dirs'[i] = dirs[i]
  BY AppendProperties, LenProperties
<1>2. Open' \subseteq Open \cup {p}
  <2> SUFFICES ASSUME NEW i \in 1 .. Len(dirs') PROVE dirs'[i] \in Open \cup {p}
      BY DEF Open
  <2>1. i \in 1 .. Len(dirs) \/ i = Len(dirs) + 1
    BY <1>1
  <2> QED BY <1>1, <2>1 DEF Open
<1>3. Open \cup {p} \subseteq Open'
  <2>1. \A i \in 1 .. Len(dirs) : i \in 1 .. Len(dirs')
    BY <1>1
  <2>2. Len(dirs) + 1 \in 1 .. Len(dirs')
    BY <1>1
  <2> QED BY <1>1, <2>1, <2>2 DEF Open
<1> QED BY <1>1, <1>2, <1>3

\* One entry of the tree is done: what it owes to the others.
LEMMA TurnExact ==
    ASSUME IInv, Exact, pc = "restore", NEW p \in todo,
           UNCHANGED <<snaps, pc, snap, shown>>, held' = None, todo' = todo \ {p},
           FsClosed', Dated',
           \/ dirs' = dirs /\ Tree[p].kind # "dir"
           \/ dirs' = Append(dirs, p) /\ Tree[p].kind = "dir" /\ Len(p) = Len(dirs),
           \A q \in Paths \ todo' : Tree[q] # None => Settled(q)',
           \A q \in Paths : Tree[q] = None /\ (~Present(q) \/ ThroughLink(Tree, q))
                              => (~Present(q) \/ ThroughLink(Tree, q))'
    PROVE  Exact'
<1>0. /\ snap \in Snaps /\ Tree # None /\ Closed(Tree)
      /\ DirsInv /\ DoneInv /\ shown \in {snap, None}
      /\ dirs \in Seq(Paths \cup {Root}) /\ Len(dirs) \in Nat /\ Len(dirs) > 0
      /\ todo \subseteq Paths /\ p \in Paths /\ \A q \in todo : Tree[q] # None
  BY RestFacts
<1>1. Tree' = Tree
  BY DEF Tree
<1>2. TreesTrue'
  BY SameTrees DEF Exact
<1>3. Open \subseteq Open' /\ (Tree[p].kind = "dir" => p \in Open')
  <2>1. CASE dirs' = dirs
    BY <2>1 DEF Open
  <2>2. CASE dirs' = Append(dirs, p)
    BY <1>0, <2>2, OpenAppend
  <2> QED BY <2>1, <2>2
<1>4. DirsInv'
  <2>1. /\ dirs'[1] = Root
        /\ \A i \in 1 .. Len(dirs') : Len(dirs'[i]) = i - 1
        /\ \A i \in 2 .. Len(dirs') :
             Tree[dirs'[i]] # None /\ Tree[dirs'[i]].kind = "dir" /\ dirs'[i] \notin todo'
    <3>1. CASE dirs' = dirs
      BY <1>0, <3>1 DEF DirsInv
    <3>2. CASE dirs' = Append(dirs, p) /\ Tree[p].kind = "dir" /\ Len(p) = Len(dirs)
      <4>1. /\ Len(dirs') = Len(dirs) + 1 /\ dirs'[Len(dirs')] = p
            /\ \A i \in 1 .. Len(dirs) : dirs'[i] = dirs[i]
        BY <1>0, <3>2, OpenAppend
      <4>2. \A i \in 1 .. Len(dirs') : i \in 1 .. Len(dirs) \/ i = Len(dirs')
        BY <1>0, <4>1
      <4>3. dirs'[1] = Root
        BY <1>0, <4>1 DEF DirsInv
      <4>4. \A i \in 1 .. Len(dirs') : Len(dirs'[i]) = i - 1
        BY <1>0, <3>2, <4>1, <4>2 DEF DirsInv
      <4>5. \A i \in 2 .. Len(dirs') :
              Tree[dirs'[i]] # None /\ Tree[dirs'[i]].kind = "dir" /\ dirs'[i] \notin todo'
        BY <1>0, <3>2, <4>1, <4>2 DEF DirsInv
      <4> QED BY <4>3, <4>4, <4>5
    <3> QED BY <3>1, <3>2
  <2>2. ASSUME NEW q \in todo', NEW a \in Paths, q \in Inside(a)
        PROVE  a \in todo' \cup Open'
    <3>1. a \in todo \cup Open
      BY <1>0, <2>2 DEF DirsInv
    <3>2. a = p => Tree[p].kind = "dir"
      BY <1>0, <2>2 DEF Closed
    <3> QED BY <1>3, <3>1, <3>2
  <2> QED BY <1>1, <2>1, <2>2 DEF DirsInv
<1>5. DoneInv'
  <2>1. ASSUME shown # None, NEW a \in Paths, a \notin todo', a \notin Open',
               Tree[a] # None, Tree[a].kind = "dir"
        PROVE  Cleared(a)'
    <3>1. a \notin todo \cup Open
      BY <1>3, <2>1
    <3>2. Cleared(a)
      BY <1>0, <2>1, <3>1 DEF DoneInv
    <3> QED BY <1>1, <3>2 DEF Cleared, Inside
  <2> QED BY <1>1, <2>1 DEF DoneInv
<1> QED BY <1>0, <1>1, <1>2, <1>4, <1>5 DEF Exact, WalkInv, RestInv, Shows

\* One node written by a restore: the links that files are written through
\* stay, and so does what was restored elsewhere.
LEMMA WrittenKeeps ==
    ASSUME fs \in [Paths -> Nodes], NEW w \in Paths, NEW n, fs' = [fs EXCEPT ![w] = n],
           UNCHANGED <<snaps, snap>>,
           ~(fs[w].kind = "link" /\ Tree[w] # None /\ Tree[w].kind = "file")
    PROVE  /\ \A q : ThroughLink(Tree, q) => ThroughLink(Tree, q)'
           /\ \A q \in Paths \ {w} : Settled(q) => Settled(q)'
           /\ \A q \in Paths \ {w} : (~Present(q) \/ ThroughLink(Tree, q))
                                       => (~Present(q) \/ ThroughLink(Tree, q))'
<1>1. Tree' = Tree /\ \A q \in Paths \ {w} : fs'[q] = fs[q]
  BY DEF Tree
<1>2. ASSUME NEW q, ThroughLink(Tree, q) PROVE ThroughLink(Tree, q)'
  <2>1. PICK l \in Paths : /\ fs[l].kind = "link" /\ q \in {l, fs[l].data}
                           /\ Tree[l] # None /\ Tree[l].kind = "file"
    BY <1>2 DEF ThroughLink
  <2>2. fs'[l] = fs[l]
    BY <1>1, <2>1
  <2> QED BY <1>1, <2>1, <2>2 DEF ThroughLink
<1>3. ASSUME NEW q \in Paths, Lookalike(Tree, q) PROVE Lookalike(Tree, q)'
  BY <1>1, <1>3 DEF Lookalike
<1>4. ASSUME NEW q \in Paths \ {w}, Settled(q) PROVE Settled(q)'
  BY <1>1, <1>2, <1>3, <1>4 DEF Settled
<1>5. ASSUME NEW q \in Paths \ {w}, ~Present(q) PROVE ~Present(q)'
  BY <1>1, <1>5 DEF Present
<1> QED BY <1>2, <1>4, <1>5

\* A file is written, where its entry is or through a link that stands there.
LEMMA FileExact ==
    ASSUME IInv, Exact, pc = "restore", NEW p \in todo, Tree[p].kind = "file",
           UNCHANGED <<snaps, pc, snap, dirs, shown>>, held' = None, todo' = todo \ {p},
           fs[Follow(p)].kind \in {"none", "file"}, DirExists(Follow(p)),
           NEW n, fs' = [fs EXCEPT ![Follow(p)] = n],
           n.kind = "file", n.data = Tree[p].hash, n.sec = Tree[p].sec
    PROVE  Exact'
<1>0. /\ snap \in Snaps /\ Tree # None /\ DoneInv /\ todo \subseteq Paths /\ p \in Paths
      /\ Tree[p] # None /\ fs \in [Paths -> Nodes] /\ TypeOK /\ FsClosed /\ Dated
  BY RestFacts DEF IInv, Exact
<1>1. PICK w \in Paths : w = Follow(p) /\ fs[w].kind \in {"none", "file"} /\ DirExists(w)
  BY <1>0, FollowInPaths DEF IInv
<1>2. w = p \/ (fs[p].kind = "link" /\ fs[p].data = w)
  BY <1>1 DEF Follow
<1>3. Tree' = Tree /\ fs' = [fs EXCEPT ![w] = n]
  BY <1>1 DEF Tree
<1>4. /\ \A q : ThroughLink(Tree, q) => ThroughLink(Tree, q)'
      /\ \A q \in Paths \ {w} : Settled(q) => Settled(q)'
      /\ \A q \in Paths \ {w} : (~Present(q) \/ ThroughLink(Tree, q))
                                  => (~Present(q) \/ ThroughLink(Tree, q))'
  BY <1>0, <1>1, <1>3, WrittenKeeps
<1>5. w # p => ThroughLink(Tree, w)' /\ fs'[p].kind = "link"
  <2>1. w # p => ThroughLink(Tree, w)
    BY <1>0, <1>2 DEF ThroughLink
  <2> QED BY <1>0, <1>2, <1>3, <1>4, <2>1
<1>6. Settled(p)'
  <2>1. CASE w = p
    BY <1>0, <1>1, <1>3, <2>1 DEF Settled
  <2>2. CASE w # p
    BY <1>3, <1>5, <2>2 DEF Settled
  <2> QED BY <2>1, <2>2
<1>7. ASSUME w # p, Settled(w) PROVE Settled(w)'
  <2>1. fs'[w] = n
    BY <1>0, <1>1, <1>3
  <2>2. Tree[w].kind # "dir" /\ Tree[w].kind # "link"
    BY <1>1, <1>7 DEF Settled
  <2> QED BY <1>3, <1>5, <1>7, <2>1, <2>2 DEF Settled
<1>8. \A q \in Paths \ todo' : Tree[q] # None => Settled(q)'
  <2> SUFFICES ASSUME NEW q \in Paths \ todo', Tree[q] # None PROVE Settled(q)'
      OBVIOUS
  <2>1. q = p \/ Settled(q)
    BY <1>0 DEF DoneInv
  <2> QED BY <1>4, <1>6, <1>7, <2>1
<1>9. \A q \in Paths : Tree[q] = None /\ (~Present(q) \/ ThroughLink(Tree, q))
                          => (~Present(q) \/ ThroughLink(Tree, q))'
  BY <1>0, <1>4, <1>5
<1>10. FsClosed'
  BY <1>0, <1>1, <1>3, PutClosed
<1>11. Dated'
  <2>1. Origin(n)
    BY <1>0 DEF Origin, Tree
  <2>2. fs'[w] = n /\ \A q \in Paths \ {w} : fs'[q] = fs[q]
    BY <1>0, <1>1, <1>3
  <2>3. SnapsGrow
    BY DEF SnapsGrow
  <2> QED BY <1>0, <2>1, <2>2, <2>3, DatedKept
<1> QED BY <1>0, <1>8, <1>9, <1>10, <1>11, TurnExact

\* What copy_file finds for an entry is what the entry names.
LEMMA EntryContent ==
    ASSUME IInv, Honest, ~stray, pc = "restore", NEW p \in Paths, Tree[p] # None
    PROVE  /\ Tree[p].kind \in {"file", "link"} => store[Tree[p].hash] = Tree[p].hash
           /\ Tree[p].kind = "file" => Tree[p].hash \in Contents
<1>1. snap \in Snaps /\ snaps[snap] # None
  BY DEF IInv, Shape, OpShape
<1>2. Stored(Tree[p])
  BY <1>1 DEF IInv, Shape, TreesShape, Tree
<1> QED BY <1>2 DEF Stored, Honest

\* A file that is taken for unchanged is the entry's, or one that looks like it.
LEMMA UnchangedLooks ==
    ASSUME IInv, Exact, pc = "restore", NEW p \in Paths, Tree[p] # None, Tree[p].kind = "file",
           NEW w \in Paths, fs[w].kind = "file", Unchanged(Tree[p], fs[w])
    PROVE  fs[w].data = Tree[p].hash \/ Lookalike(Tree, p)
<1>0. Tree[p] \in Entries
  BY EntryToRestore
<1>1. SizeOf[fs[w].data] = Tree[p].len /\ fs[w].sec = Tree[p].sec /\ ~fs[w].frac
  BY DEF Unchanged
<1>2. Origin(fs[w])
  BY <1>1 DEF Exact, Dated
<1>3. PICK s \in Snaps, q \in Paths :
        /\ snaps[s] # None /\ snaps[s][q] # None /\ snaps[s][q].kind = "file"
        /\ snaps[s][q].hash = fs[w].data /\ snaps[s][q].sec = fs[w].sec
  BY <1>2 DEF Origin
<1>4. snaps[s][q] \in Entries /\ snaps[s][q].len = Tree[p].len
  BY <1>1, <1>3 DEF Exact, TreesTrue, Sized, IInv, TypeOK, Trees
<1>5. snaps[s][q] = [Tree[p] EXCEPT !.hash = snaps[s][q].hash]
  BY <1>0, <1>1, <1>3, <1>4 DEF Entries
<1> QED BY <1>3, <1>5 DEF Lookalike

\* Steps of a restore that change nothing but the file being verified.
LEMMA VerifyExact ==
    ASSUME Exact, pc = "restore",
           UNCHANGED <<fs, snaps, pc, snap, todo, dirs, shown>>,
           held' # None => held'.path = Follow(held'.entry) /\ held'.entry \in todo
    PROVE  Exact'
<1>1. TreesTrue' /\ SnapsGrow
  BY SameTrees DEF Exact
<1>2. FsClosed' /\ Dated'
  BY <1>1, SameFs DEF Exact
<1>3. DirsInv'
  BY DEF Exact, RestInv, DirsInv, Open, Tree
<1>4. \A q \in Paths : Settled(q) => Settled(q)'
  BY DEF Settled, ThroughLink, Lookalike, Tree
<1>5. \A a : Cleared(a) => Cleared(a)'
  BY DEF Cleared, ThroughLink, Present, Tree
<1>6. Open' = Open /\ Tree' = Tree
  BY DEF Open, Tree
<1>7. DoneInv'
  BY <1>4, <1>5, <1>6 DEF Exact, RestInv, DoneInv
<1>8. RestInv'
  BY <1>3, <1>7 DEF Exact, RestInv, Follow
<1> QED BY <1>1, <1>2, <1>8 DEF Exact, WalkInv, Shows

\* The steps of restore_tree but the end of a directory.
LEMMA EntriesExact ==
    ASSUME IInv, Exact, Honest, ~stray, pc = "restore",
           \/ \E p \in Paths : \/ RestoreDir(p) \/ RestoreSkip(p) \/ RestoreMissing(p)
                               \/ RestoreVerify(p) \/ RestoreLink(p)
           \/ HashFile \/ RestoreStow
    PROVE  Exact'
<1>0. /\ snap \in Snaps /\ DoneInv /\ todo \subseteq Paths /\ fs \in [Paths -> Nodes]
      /\ \A p \in todo : Tree[p] # None
      /\ TypeOK /\ FsShape /\ OpShape /\ FsClosed /\ Dated
  BY RestFacts DEF IInv, Shape, Exact
<1>1. ASSUME NEW p \in Paths, RestoreDir(p) PROVE Exact'
  <2>1. /\ p \in todo /\ Parent(p) = dirs[Len(dirs)] /\ Tree[p].kind = "dir" /\ held = None
        /\ fs[p].kind \in {"none", "dir"} /\ fs' = [fs EXCEPT ![p] = DirNode]
        /\ todo' = todo \ {p} /\ dirs' = Append(dirs, p)
        /\ UNCHANGED <<snaps, pc, snap, held, shown>>
    BY <1>1 DEF RestoreDir, Turn
  <2>2. DirExists(p) /\ Len(p) = Len(dirs) /\ Tree[p] # None
    BY <1>0, <2>1, TopIsDir
  <2>3. /\ \A q \in Paths \ {p} : Settled(q) => Settled(q)'
        /\ \A q \in Paths \ {p} : (~Present(q) \/ ThroughLink(Tree, q))
                                    => (~Present(q) \/ ThroughLink(Tree, q))'
    BY <1>0, <2>1, WrittenKeeps
  <2>4. Settled(p)' /\ SnapsGrow
    BY <1>0, <2>1 DEF Settled, Tree, DirNode, SnapsGrow
  <2>5. FsClosed'
    BY <1>0, <2>1, <2>2, PutClosed DEF DirNode
  <2>6. Dated'
    BY <1>0, <2>1, <2>4, DatedKept, NodeTypes
  <2>7. \A q \in Paths \ todo' : Tree[q] # None => Settled(q)'
    BY <1>0, <2>1, <2>3, <2>4 DEF DoneInv
  <2> QED BY <2>1, <2>2, <2>3, <2>5, <2>6, <2>7, TurnExact
<1>2. ASSUME NEW p \in Paths, RestoreSkip(p) PROVE Exact'
  <2>1. /\ p \in todo /\ Tree[p].kind = "file" /\ held = None
        /\ fs[Follow(p)].kind = "file" /\ Unchanged(Tree[p], fs[Follow(p)])
        /\ todo' = todo \ {p}
        /\ UNCHANGED <<fs, snaps, pc, snap, dirs, held, shown>>
    BY <1>2 DEF RestoreSkip, Turn
  <2>2. SnapsGrow /\ Tree' = Tree
    BY <2>1 DEF SnapsGrow, Tree
  <2>3. FsClosed' /\ Dated'
    BY <1>0, <2>1, <2>2, SameFs
  <2>4. Settled(p)
    <3>1. CASE fs[p].kind = "link"
      BY <2>1, <3>1 DEF Settled
    <3>2. CASE fs[p].kind # "link"
      <4>1. fs[p].kind = "file" /\ Unchanged(Tree[p], fs[p])
        BY <2>1, <3>2 DEF Follow
      <4>2. fs[p].data = Tree[p].hash \/ Lookalike(Tree, p)
        BY <1>0, <2>1, <4>1, UnchangedLooks
      <4> QED BY <2>1, <4>1, <4>2 DEF Settled
    <3> QED BY <3>1, <3>2
  <2>5. \A q \in Paths : Settled(q) => Settled(q)'
    BY <2>1 DEF Settled, ThroughLink, Lookalike, Tree
  <2>6. \A q \in Paths : (~Present(q) \/ ThroughLink(Tree, q))
                           => (~Present(q) \/ ThroughLink(Tree, q))'
    BY <2>1 DEF Present, ThroughLink, Tree
  <2>7. \A q \in Paths \ todo' : Tree[q] # None => Settled(q)'
    BY <1>0, <2>1, <2>4, <2>5 DEF DoneInv
  <2> QED BY <2>1, <2>3, <2>6, <2>7, TurnExact
<1>3. ASSUME NEW p \in Paths, RestoreMissing(p) PROVE Exact'
  <2>1. /\ p \in todo /\ Tree[p].kind = "file" /\ held = None
        /\ fs[Follow(p)].kind = "none" /\ DirExists(Follow(p))
        /\ fs' = [fs EXCEPT ![Follow(p)] = Restored(Tree[p])]
        /\ todo' = todo \ {p}
        /\ UNCHANGED <<snaps, pc, snap, dirs, held, shown>>
    BY <1>3 DEF RestoreMissing, Turn
  <2>2. store[Tree[p].hash] = Tree[p].hash
    BY <1>0, <2>1, EntryContent
  <2>3. PICK n : n = Restored(Tree[p])
    OBVIOUS
  <2>4. n.kind = "file" /\ n.data = Tree[p].hash /\ n.sec = Tree[p].sec
    BY <2>2, <2>3 DEF Restored, File
  <2> QED BY <2>1, <2>3, <2>4, FileExact
<1>4. ASSUME NEW p \in Paths, RestoreVerify(p) PROVE Exact'
  <2>1. /\ p \in todo /\ held'.entry = p /\ held'.path = Follow(p)
        /\ UNCHANGED <<fs, snaps, pc, snap, todo, dirs, shown>>
    BY <1>4 DEF RestoreVerify, Turn, Call
  <2> QED BY <2>1, VerifyExact
<1>5. ASSUME NEW p \in Paths, RestoreLink(p) PROVE Exact'
  <2>1. /\ p \in todo /\ Parent(p) = dirs[Len(dirs)] /\ Tree[p].kind = "link" /\ held = None
        /\ fs[p].kind # "dir" /\ fs' = [fs EXCEPT ![p] = Link(store[Tree[p].hash])]
        /\ todo' = todo \ {p}
        /\ UNCHANGED <<snaps, pc, snap, dirs, held, shown>>
    BY <1>5 DEF RestoreLink, Turn
  <2>2. PICK n : n = Link(store[Tree[p].hash])
    OBVIOUS
  <2>3. n.kind = "link" /\ n.data = Tree[p].hash
    BY <1>0, <2>1, <2>2, EntryContent DEF Link
  <2>4. DirExists(p) /\ Tree[p] # None
    BY <1>0, <2>1, TopIsDir
  <2>5. /\ \A q \in Paths \ {p} : Settled(q) => Settled(q)'
        /\ \A q \in Paths \ {p} : (~Present(q) \/ ThroughLink(Tree, q))
                                    => (~Present(q) \/ ThroughLink(Tree, q))'
    BY <1>0, <2>1, WrittenKeeps
  <2>6. Settled(p)' /\ SnapsGrow
    BY <1>0, <2>1, <2>2, <2>3 DEF Settled, Tree, SnapsGrow
  <2>7. FsClosed'
    BY <1>0, <2>1, <2>2, <2>3, <2>4, PutClosed
  <2>8. Dated'
    BY <1>0, <2>1, <2>2, <2>3, <2>6, DatedKept
  <2>9. \A q \in Paths \ todo' : Tree[q] # None => Settled(q)'
    BY <1>0, <2>1, <2>5, <2>6 DEF DoneInv
  <2> QED BY <2>1, <2>4, <2>5, <2>7, <2>8, <2>9, TurnExact
<1>6. ASSUME HashFile PROVE Exact'
  <2>1. /\ held \in Calls /\ held # None
        /\ held' = [held EXCEPT !.hash = fs[held.path].data]
        /\ UNCHANGED <<fs, snaps, pc, snap, todo, dirs, shown>>
    BY <1>0, <1>6 DEF HashFile, TypeOK
  <2>2. held'.entry = held.entry /\ held'.path = held.path
    BY <2>1 DEF Calls
  <2>3. held.path = Follow(held.entry) /\ held.entry \in todo
    BY <2>1 DEF Exact, RestInv
  <2> QED BY <2>1, <2>2, <2>3, VerifyExact
<1>7. ASSUME RestoreStow PROVE Exact'
  <2>0. held # None /\ held.hash # None
    BY <1>7 DEF RestoreStow
  <2>1. PICK p \in todo : p = held.entry /\ held.path = Follow(p)
    BY <2>0 DEF Exact, RestInv
  <2>2. /\ UNCHANGED <<snaps, pc, snap, dirs, shown>> /\ held' = None /\ todo' = todo \ {p}
        /\ Tree[p].kind = "file" /\ fs[Follow(p)].kind = "file"
        /\ held.hash = fs[Follow(p)].data
    BY <1>0, <1>7, <2>0, <2>1 DEF RestoreStow, OpShape, HeldOK, Honest
  <2>3. fs' = [fs EXCEPT ![Follow(p)] =
                 IF held.hash = Tree[p].hash THEN File(fs[Follow(p)].data, Tree[p].sec, FALSE)
                 ELSE Restored(Tree[p])]
    BY <1>7, <2>1 DEF RestoreStow
  <2>4. PICK n : n = IF held.hash = Tree[p].hash
                     THEN File(fs[Follow(p)].data, Tree[p].sec, FALSE)
                     ELSE Restored(Tree[p])
    OBVIOUS
  <2>5. store[Tree[p].hash] = Tree[p].hash
    BY <1>0, <2>2, EntryContent
  <2>6. n.kind = "file" /\ n.data = Tree[p].hash /\ n.sec = Tree[p].sec
    BY <2>2, <2>4, <2>5 DEF Restored, File
  <2>7. DirExists(Follow(p))
    <3>1. Follow(p) \in Paths
      BY <1>0, FollowInPaths DEF IInv
    <3> QED BY <1>0, <2>2, <3>1, PresentInDir DEF Present
  <2> QED BY <2>2, <2>3, <2>4, <2>6, <2>7, FileExact
<1> QED BY <1>1, <1>2, <1>3, <1>4, <1>5, <1>6, <1>7

-----------------------------------------------------------------------------
(* The end of a directory. *)

\* What is settled is what the snapshot says, but for what a restore gets wrong.
LEMMA SettledRestored ==
    ASSUME IInv, Exact, pc = "restore", NEW q \in Paths, Tree[q] # None, Settled(q)
    PROVE  RestoredAt(Tree, q)
<1>1. Tree[q] \in Entries /\ Sized(Tree) /\ FsClosed
  BY EntryToRestore, RestFacts DEF Exact
<1>2. CASE Tree[q].kind = "dir"
  BY <1>1, <1>2 DEF Settled, Sized, FsClosed, RestoredAt, Matches
<1>3. CASE Tree[q].kind = "link"
  BY <1>3 DEF Settled, RestoredAt, Matches
<1>4. CASE Tree[q].kind = "file"
  BY <1>4 DEF Settled, RestoredAt, Matches, ThroughLink
<1> QED BY <1>1, <1>2, <1>3, <1>4 DEF Entries

\* When phase 2 of a directory comes, nothing is left to restore below it, and
\* all of its directories have had theirs.
LEMMA TopIsDone ==
    ASSUME IInv, Exact, pc = "restore", \A p \in todo : Parent(p) # dirs[Len(dirs)],
           NEW d, d = dirs[Len(dirs)]
    PROVE  /\ d \in Paths \cup {Root} /\ todo \cap Inside(d) = {}
           /\ \A c \in Paths : Parent(c) = d => c \notin todo \cup Open
<1>0. /\ dirs \in Seq(Paths \cup {Root}) /\ Len(dirs) \in Nat /\ Len(dirs) > 0
      /\ DirsInv /\ todo \subseteq Paths
  BY RestFacts
<1>1. d \in Paths \cup {Root} /\ Len(d) = Len(dirs) - 1
  BY <1>0, ElementOfSeq DEF DirsInv
<1>2. ASSUME NEW c \in Paths, Parent(c) = d PROVE c \notin todo \cup Open
  <2>1. Len(c) = Len(dirs)
    BY <1>0, <1>1, <1>2, ParentFacts
  <2>2. \A i \in 1 .. Len(dirs) : Len(dirs[i]) # Len(c)
    BY <1>0, <2>1 DEF DirsInv
  <2> QED BY <1>2, <2>2 DEF Open
<1>3. ASSUME NEW q \in todo, q \in Inside(d) PROVE FALSE
  <2>1. PICK c \in Paths : Parent(c) = d /\ (q = c \/ q \in Inside(c))
    BY <1>1, <1>3, EntryAbove
  <2>2. c \notin todo \cup Open
    BY <1>2, <2>1
  <2> QED BY <1>0, <2>1, <2>2 DEF DirsInv
<1> QED BY <1>1, <1>2, <1>3

\* Phase 2 removes nothing that the snapshot has, and no link that a file was
\* written through.
LEMMA CleanKeeps ==
    ASSUME IInv, Exact, pc = "restore", NEW left, fs' = Without(Extras(dirs[Len(dirs)]) \ left),
           UNCHANGED snaps
    PROVE  /\ \A q \in Paths : Tree[q] # None => fs'[q] = fs[q]
           /\ \A q \in Paths : fs'[q] = fs[q] \/ fs'[q] = Absent
           /\ \A t, q : t = Tree /\ ThroughLink(t, q) => ThroughLink(t, q)'
<1>0. Closed(Tree)
  BY RestFacts
<1>1. \A q \in Paths : fs'[q] = IF \E x \in Extras(dirs[Len(dirs)]) \ left : q \in {x} \cup Inside(x)
                               THEN Absent ELSE fs[q]
  BY DEF Without
<1>2. \A x \in Extras(dirs[Len(dirs)]) : x \in Paths /\ Tree[x] = None
  BY DEF Extras, Listed, Children
<1>3. ASSUME NEW q \in Paths, Tree[q] # None PROVE fs'[q] = fs[q]
  <2>1. \A x \in Extras(dirs[Len(dirs)]) : q \notin {x} \cup Inside(x)
    BY <1>0, <1>2, <1>3 DEF Closed
  <2> QED BY <1>1, <2>1
<1>4. ASSUME NEW t, NEW q, t = Tree, ThroughLink(t, q) PROVE ThroughLink(t, q)'
  <2>1. PICK l \in Paths : /\ fs[l].kind = "link" /\ q \in {l, fs[l].data}
                           /\ t[l] # None /\ t[l].kind = "file"
    BY <1>4 DEF ThroughLink
  <2>2. fs'[l] = fs[l]
    BY <1>3, <1>4, <2>1
  <2> QED BY <2>1, <2>2 DEF ThroughLink
<1> QED BY <1>1, <1>3, <1>4

\* With all extras removed the directory is clean.
LEMMA TopIsClean ==
    ASSUME IInv, Exact, pc = "restore", shown # None,
           \A p \in todo : Parent(p) # dirs[Len(dirs)],
           NEW d, d = dirs[Len(dirs)], fs' = Without(Extras(d)), UNCHANGED snaps,
           NEW t, t = Tree, NEW p \in Inside(d), t[p] = None
    PROVE  fs'[p].kind = "none" \/ ThroughLink(t, p)'
<1>0. /\ d \in Paths \cup {Root}
      /\ \A c \in Paths : Parent(c) = d => c \notin todo \cup Open
      /\ p \in Paths /\ Absent.kind = "none" /\ FsClosed
  BY TopIsDone, NodeTypes DEF Inside, Exact
<1>1. PICK c \in Paths : Parent(c) = d /\ (p = c \/ p \in Inside(c))
  BY <1>0, EntryAbove
<1>2. c \notin todo \cup Open
  BY <1>0, <1>1
<1>3. fs' = Without(Extras(dirs[Len(dirs)]) \ {})
  OBVIOUS
<1>4. /\ \A q \in Paths : fs'[q] = fs[q] \/ fs'[q] = Absent
      /\ ThroughLink(t, p) => ThroughLink(t, p)'
  BY <1>3, CleanKeeps
<1>5. CASE ~Present(p) \/ ThroughLink(t, p)
  BY <1>0, <1>4, <1>5 DEF Present
<1>6. CASE Present(p) /\ t[c] = None
  <2>1. Present(c)
    BY <1>0, <1>1, <1>6 DEF FsClosed, Present
  <2>2. c \in Extras(d)
    BY <1>1, <1>6, <2>1 DEF Extras, Listed, Children
  <2>3. fs'[p] = Absent
    BY <1>0, <1>1, <2>2 DEF Without
  <2> QED BY <1>0, <2>3
<1>7. CASE Present(p) /\ t[c] # None
  <2>1. p \in Inside(c) /\ fs[c].kind = "dir" /\ DoneInv
    BY <1>0, <1>1, <1>7, RestFacts DEF FsClosed
  <2>2. Settled(c) /\ Tree[c] \in Entries
    BY <1>2, <1>7, <2>1, EntryToRestore DEF DoneInv
  <2>3. Tree[c].kind = "dir"
    BY <2>1, <2>2 DEF Settled, Entries
  <2>4. Cleared(c)
    BY <1>2, <1>7, <2>1, <2>3 DEF DoneInv
  <2>5. ThroughLink(t, p)
    BY <1>7, <2>1, <2>4 DEF Cleared
  <2> QED BY <1>5, <2>5
<1> QED BY <1>5, <1>6, <1>7

\* Leaving a directory.
LEMMA OpenButLast ==
    ASSUME NEW S, dirs \in Seq(S), Len(dirs) > 1, dirs' = SubSeq(dirs, 1, Len(dirs) - 1)
    PROVE  /\ Len(dirs) \in Nat /\ Len(dirs') = Len(dirs) - 1
           /\ \A i \in 1 .. Len(dirs') : dirs'[i] = dirs[i]
           /\ Open \subseteq Open' \cup {dirs[Len(dirs)]}
<1>1. PICK n \in Nat : n = Len(dirs) - 1 /\ n > 0 /\ Len(dirs) = n + 1
  BY LenProperties
<1>2. \A i \in 1 .. n : dirs[i] \in S
  BY <1>1, ElementOfSeq
<1>3. /\ Len(SubSeq(dirs, 1, n)) = IF 1 <= n THEN n - 1 + 1 ELSE 0
      /\ \A i \in 1 .. n - 1 + 1 : SubSeq(dirs, 1, n)[i] = dirs[1 + i - 1]
  BY <1>1, <1>2, SubSeqProperties
<1>4. Len(dirs') = n /\ \A i \in 1 .. n : dirs'[i] = dirs[i]
  BY <1>1, <1>3
<1>5. ASSUME NEW i \in 1 .. Len(dirs) PROVE dirs[i] \in Open' \cup {dirs[Len(dirs)]}
  <2>1. i \in 1 .. n \/ i = Len(dirs)
    BY <1>1
  <2> QED BY <1>4, <2>1 DEF Open
<1> QED BY <1>1, <1>4, <1>5 DEF Open

\* Phase 2 of a directory: what is restored stays, and with nothing left but
\* what the snapshot has the restore may claim the directory.
LEMMA CleanUpExact ==
    ASSUME IInv, Exact, NEW left \in SUBSET Paths, CleanUp(left)
    PROVE  Exact'
<1> DEFINE n == Len(dirs)
<1>0. PICK d : d = dirs[n]
  OBVIOUS
<1>1. /\ pc = "restore" /\ held' = None /\ UNCHANGED <<snaps, todo>>
      /\ \A p \in todo : Parent(p) # d
      /\ fs' = Without(Extras(d) \ left) /\ dirs' = SubSeq(dirs, 1, n - 1)
      /\ shown' = shown \/ shown' = None
      /\ left # {} => shown' = None
      /\ n = 1 => pc' = "idle"
      /\ n # 1 => pc' = pc /\ snap' = snap
  BY <1>0 DEF CleanUp
<1>2. /\ snap \in Snaps /\ Tree # None /\ Closed(Tree) /\ DirsInv /\ DoneInv
      /\ shown \in {snap, None} /\ todo \subseteq Paths
      /\ dirs \in Seq(Paths \cup {Root}) /\ n \in Nat /\ n > 0
      /\ TypeOK /\ FsClosed /\ Dated /\ None \notin Snaps
  BY <1>1, RestFacts, NoneAssumption DEF IInv, Exact
<1> HIDE DEF n
<1>3. PICK t : t = Tree
  OBVIOUS
<1>4. /\ \A q \in Paths : t[q] # None => fs'[q] = fs[q]
      /\ \A q \in Paths : fs'[q] = fs[q] \/ fs'[q] = Absent
      /\ \A q : ThroughLink(t, q) => ThroughLink(t, q)'
  BY <1>0, <1>1, <1>3, CleanKeeps DEF n
<1>5. Absent.kind = "none" /\ SnapsGrow
  BY <1>1, NodeTypes DEF SnapsGrow
<1>6. FsClosed' /\ Dated' /\ TreesTrue'
  <2>1. Extras(d) \ left \in SUBSET Paths
    BY DEF Extras, Listed, Children
  <2>2. FsClosed'
    BY <1>1, <1>2, <2>1, DropClosed
  <2>3. Dated'
    BY <1>2, <1>4, <1>5, DatedKept
  <2> QED BY <1>1, <2>2, <2>3, SameTrees DEF Exact
<1>7. ASSUME shown' # None, NEW p \in Inside(d), t[p] = None
      PROVE  fs'[p].kind = "none" \/ ThroughLink(t, p)'
  <2>1. left = {} /\ shown # None
    BY <1>1, <1>7
  <2>2. fs' = Without(Extras(d))
    BY <1>1, <2>1
  <2> QED BY <1>0, <1>1, <1>3, <1>7, <2>1, <2>2, TopIsClean DEF n
<1>8. CASE n = 1
  <2>1. d = Root /\ todo = {}
    BY <1>0, <1>1, <1>2, <1>8, TopIsDone, InsideRoot DEF DirsInv, n
  <2>2. ASSUME shown' # None, NEW p \in Paths PROVE RestoredAt(snaps[shown], p)'
    <3>1. shown' = snap /\ snaps'[shown'] = t /\ p \in Inside(d)
      BY <1>1, <1>2, <1>3, <2>1, <2>2, InsideRoot DEF Tree
    <3>2. CASE t[p] # None
      <4>1. RestoredAt(t, p)
        BY <1>1, <1>2, <1>3, <2>1, <3>2, SettledRestored DEF DoneInv
      <4>2. Matches(t[p], fs'[p]) \/ ThroughLink(t, p)' \/ Lookalike(t, p)'
        BY <1>4, <1>5, <3>2, <4>1, LookalikeKept DEF RestoredAt
      <4> QED BY <3>1, <4>2 DEF RestoredAt, ThroughLink, Lookalike, Matches
    <3>3. CASE t[p] = None
      BY <1>7, <2>2, <3>1, <3>3 DEF RestoredAt, ThroughLink, Lookalike, Matches
    <3> QED BY <3>2, <3>3
  <2>3. shown' # None => (snaps[shown] # None)'
    BY <1>1, <1>2 DEF Tree
  <2>4. Shows'
    BY <2>2, <2>3 DEF Shows, RestoredAt, ThroughLink, Lookalike, Matches
  <2> QED BY <1>1, <1>6, <1>8, <2>4 DEF Exact, WalkInv, RestInv
<1>9. CASE n # 1
  <2>0. Tree' = t /\ pc' = "restore"
    BY <1>1, <1>3, <1>9 DEF Tree
  <2>1. /\ Len(dirs') = n - 1 /\ \A i \in 1 .. n - 1 : dirs'[i] = dirs[i]
        /\ Open \subseteq Open' \cup {d}
    <3>1. /\ Len(dirs) > 1 /\ dirs[Len(dirs)] = d
          /\ dirs' = SubSeq(dirs, 1, Len(dirs) - 1)
      <4>1. n > 1
        BY <1>2, <1>9
      <4> QED BY <1>0, <1>1, <4>1 DEF n
    <3>2. /\ Len(dirs') = Len(dirs) - 1 /\ \A i \in 1 .. Len(dirs') : dirs'[i] = dirs[i]
          /\ Open \subseteq Open' \cup {dirs[Len(dirs)]}
      BY <1>2, <3>1, OpenButLast
    <3> QED BY <3>1, <3>2 DEF n
  <2>2. DirsInv'
    <3>1. /\ dirs'[1] = Root
          /\ \A i \in 1 .. Len(dirs') : Len(dirs'[i]) = i - 1
          /\ \A i \in 2 .. Len(dirs') :
               t[dirs'[i]] # None /\ t[dirs'[i]].kind = "dir" /\ dirs'[i] \notin todo'
      BY <1>1, <1>2, <1>3, <1>9, <2>1 DEF DirsInv, n
    <3>2. ASSUME NEW q \in todo', NEW a \in Paths, q \in Inside(a)
          PROVE  a \in todo' \cup Open'
      <4>1. a # d
        BY <1>0, <1>1, <3>2, TopIsDone DEF n
      <4>2. a \in todo \cup Open
        BY <1>1, <1>2, <3>2 DEF DirsInv
      <4> QED BY <1>1, <2>1, <4>1, <4>2
    <3> QED BY <2>0, <3>1, <3>2 DEF DirsInv
  <2>3. ASSUME NEW q \in Paths \ todo', t[q] # None PROVE Settled(q)'
    <3>1. Settled(q) /\ fs'[q] = fs[q]
      BY <1>1, <1>2, <1>3, <1>4, <2>3 DEF DoneInv
    <3>2. ThroughLink(t, q) \/ Lookalike(t, q) => ThroughLink(t, q)' \/ Lookalike(t, q)'
      BY <1>4, <1>5, LookalikeKept
    <3> QED BY <1>3, <2>0, <3>1, <3>2 DEF Settled, ThroughLink, Lookalike
  <2>4. ASSUME shown' # None, NEW a \in Paths, a \notin todo' \cup Open', t[a] # None,
               t[a].kind = "dir"
        PROVE  Cleared(a)'
    <3> SUFFICES ASSUME NEW p \in Inside(a), t[p] = None
                 PROVE  fs'[p].kind = "none" \/ ThroughLink(t, p)'
        BY <2>0 DEF Cleared, Present, Inside, ThroughLink
    <3>1. CASE a = d
      BY <1>7, <2>4, <3>1
    <3>2. CASE a # d
      <4>1. a \notin todo \cup Open /\ shown # None
        BY <1>1, <2>1, <2>4, <3>2
      <4>2. Cleared(a)
        BY <1>2, <1>3, <2>4, <4>1 DEF DoneInv
      <4>3. p \in Paths /\ (fs[p].kind = "none" \/ ThroughLink(t, p))
        BY <1>3, <4>2 DEF Cleared, Present, Inside
      <4> QED BY <1>4, <1>5, <4>3
    <3> QED BY <3>1, <3>2
  <2>5. DoneInv'
    BY <2>0, <2>3, <2>4 DEF DoneInv
  <2>6. RestInv'
    BY <1>1, <1>2, <1>9, <2>2, <2>5 DEF RestInv
  <2> QED BY <1>6, <2>0, <2>6 DEF Exact, WalkInv, Shows
<1> QED BY <1>8, <1>9

-----------------------------------------------------------------------------
(* What a restore restores. *)

\* Operations that end where they are claim nothing.
LEMMA StopsExact ==
    ASSUME IInv, Exact, Abort \/ \E p \in Paths : RestoreClash(p) \/ AbortCopy(p)
    PROVE  Exact'
<1>1. pc' = "idle" /\ shown' = None /\ UNCHANGED snaps
  BY DEF Abort, RestoreClash, AbortCopy, Stop
<1>2. TreesTrue' /\ SnapsGrow
  BY <1>1, SameTrees DEF Exact
<1>3. WalkInv' /\ RestInv' /\ Shows'
  BY <1>1 DEF WalkInv, RestInv, Shows
<1>4. TypeOK /\ FsClosed /\ Dated /\ fs \in [Paths -> Nodes] /\ OpShape
  BY DEF IInv, Exact, TypeOK, Shape
<1>5. ASSUME UNCHANGED fs PROVE FsClosed' /\ Dated'
  BY <1>2, <1>4, <1>5, SameFs
<1>6. ASSUME NEW p \in Paths, AbortCopy(p) PROVE FsClosed' /\ Dated'
  <2>1. PICK w \in Paths : w = Follow(p)
    BY FollowInPaths DEF IInv
  <2>2. PICK n : n = File(Torn, now, TRUE)
    OBVIOUS
  <2>3. n.kind = "file" /\ n.frac
    BY <2>2 DEF File
  <2>4. pc = "restore" /\ fs' = [fs EXCEPT ![w] = n]
    BY <1>6, <2>1, <2>2 DEF AbortCopy
  <2>5. fs[w].kind # "dir" /\ DirExists(w)
    <3>1. CASE fs[w].kind = "none" /\ DirExists(w)
      BY <3>1
    <3>2. CASE held # None /\ held.entry = p
      <4>1. held.path = w /\ fs[w].kind = "file"
        BY <1>4, <2>1, <2>4, <3>2 DEF Exact, RestInv, OpShape, HeldOK
      <4> QED BY <1>4, <4>1, PresentInDir DEF Present
    <3> QED BY <1>6, <2>1, <3>1, <3>2 DEF AbortCopy
  <2>6. FsClosed'
    BY <1>4, <2>3, <2>4, <2>5, PutClosed
  <2>7. \A q \in Paths : fs'[q] = fs[q] \/ fs'[q].frac
    BY <1>4, <2>3, <2>4
  <2>8. Dated'
    BY <1>2, <1>4, <2>7, DatedKept
  <2> QED BY <2>6, <2>8
<1>7. FsClosed' /\ Dated'
  BY <1>5, <1>6 DEF Abort, RestoreClash
<1> QED BY <1>2, <1>3, <1>7 DEF Exact

\* Unless a command writes during an operation every step keeps the invariant.
LEMMA StepSound == IInv /\ Honest /\ Sound /\ [Next]_vars => Sound'
<1> SUFFICES ASSUME IInv, Honest, Sound, [Next]_vars, ~stray' PROVE Exact'
    BY DEF Sound
<1>1. ASSUME NEW p \in Paths, NEW c \in Contents \ {Torn}, Write(p, c) PROVE Exact'
  <2>1. ~stray /\ pc = "idle"
    BY <1>1 DEF Write
  <2> QED BY <1>1, <2>1, CommandsExact DEF Sound
<1>2. ASSUME NEW p \in Paths,
             \/ \E t \in Targets : Place(p, Link(t))
             \/ Place(p, DirNode)
             \/ Remove(p)
      PROVE  Exact'
  <2>1. ~stray /\ pc = "idle"
    BY <1>2 DEF Place, Remove
  <2> QED BY <1>2, <2>1, CommandsExact DEF Sound
<1>3. CASE \/ \E s \in Snaps : Create(s)
           \/ \E p \in Paths : WalkLink(p) \/ WalkDir(p) \/ WalkFile(p)
           \/ WalkStow \/ Publish
  <2>1. ~stray
    BY <1>3 DEF Create, WalkLink, WalkDir, WalkFile, WalkStow, Publish
  <2> QED BY <1>3, <2>1, WalkExact DEF Sound
<1>4. CASE \E s \in Snaps : Restore(s)
  <2>1. ~stray
    BY <1>4 DEF Restore
  <2> QED BY <1>4, <2>1, RestoreExact DEF Sound
<1>5. CASE HashFile
  <2>1. ~stray /\ pc \in {"walk", "restore"}
    BY <1>5 DEF HashFile, IInv, TypeOK, Shape, OpShape, HeldOK
  <2> QED BY <1>5, <2>1, WalkExact, EntriesExact DEF Sound
<1>6. ASSUME NEW p \in Paths, \/ RestoreDir(p) \/ RestoreSkip(p) \/ RestoreMissing(p)
                              \/ RestoreVerify(p) \/ RestoreLink(p)
      PROVE  Exact'
  <2>1. ~stray /\ pc = "restore"
    BY <1>6 DEF RestoreDir, RestoreSkip, RestoreMissing, RestoreVerify, RestoreLink, Turn
  <2> QED BY <1>6, <2>1, EntriesExact DEF Sound
<1>10. CASE RestoreStow
  <2>1. ~stray /\ pc = "restore"
    BY <1>10 DEF RestoreStow
  <2> QED BY <1>10, <2>1, EntriesExact DEF Sound
<1>7. ASSUME NEW left \in SUBSET Paths, CleanUp(left) PROVE Exact'
  <2>1. ~stray
    BY <1>7 DEF CleanUp
  <2> QED BY <1>7, <2>1, CleanUpExact DEF Sound
<1>8. CASE Abort \/ \E p \in Paths : RestoreClash(p) \/ AbortCopy(p)
  <2>1. ~stray
    BY <1>8 DEF Abort, RestoreClash, AbortCopy, Stop
  <2> QED BY <1>8, <2>1, StopsExact DEF Sound
<1>9. CASE UNCHANGED vars
  <2>1. Exact /\ UNCHANGED <<fs, snaps, shown, pc, snap, built, todo, dirs, held>>
    BY <1>9 DEF vars, opVars, Sound
  <2>2. CASE pc = "restore"
    BY <2>1, <2>2, VerifyExact DEF Exact, RestInv
  <2>3. CASE pc = "walk"
    <3>1. WalkInv'
      BY <2>1 DEF Exact, WalkInv, Closed, Sized
    <3> QED BY <2>1, <2>3, <3>1, WalkKeeps
  <2>4. CASE pc = "idle"
    <3>1. TreesTrue' /\ FsClosed' /\ Dated' /\ Shows'
      BY <2>1, <2>4, SameTrees, SameFs, ShowsKept DEF Exact, IInv
    <3> QED BY <2>1, <2>4, <3>1 DEF Exact, WalkInv, RestInv
  <2> QED BY <2>2, <2>3, <2>4 DEF IInv, TypeOK
<1> QED BY <1>1, <1>2, <1>3, <1>4, <1>5, <1>6, <1>7, <1>8, <1>9, <1>10 DEF Next

\* A restore that reported no problem has made the workspace the snapshot's,
\* but for what it writes through a link and for files that look alike
\* (restore_tree, copy_file, set_mtime), however many restores, snapshots and
\* commands there were before, unless one wrote during an operation.
THEOREM RestoresSnapshot == Spec => []RestoredOtherwise
<1>1. Init => Honest /\ Sound
  BY InitExact DEF Init, Honest, Objects, Sound
<1>2. Sound => RestoredOtherwise
  BY DEF Sound, Exact, Shows, RestoredOtherwise
<1> QED BY <1>1, <1>2, InitIInv, StepIInv, StepHonest, StepSound, PTL DEF Spec

\* A restore deletes in phase 2 of a directory alone.
LEMMA CleanUpDeletes ==
    ASSUME IInv, [Next]_vars, pc = "restore",
           NEW p \in Paths, Present(p), fs'[p].kind = "none"
    PROVE  \E left \in SUBSET Paths : CleanUp(left)
<1>0. fs \in [Paths -> Nodes] /\ held \in Calls \cup {None}
  BY DEF IInv, TypeOK
<1>1. ASSUME UNCHANGED fs PROVE FALSE
  BY <1>1 DEF Present
<1>2. ASSUME NEW w \in Paths, NEW n, fs' = [fs EXCEPT ![w] = n], n.kind # "none" PROVE FALSE
  BY <1>0, <1>2 DEF Present
<1>3. \A c, s, f : File(c, s, f).kind # "none"
  BY DEF File
<1>4. \A x \in Paths : Follow(x) \in Paths
  BY FollowInPaths DEF IInv
<1>5. ASSUME NEW x \in Paths, NEW c \in Contents, Write(x, c) PROVE FALSE
  <2>1. PICK n : n = File(c, now', TRUE)
    OBVIOUS
  <2>2. fs' = [fs EXCEPT ![Follow(x)] = n] /\ n.kind # "none"
    BY <1>3, <1>5, <2>1 DEF Write
  <2> QED BY <1>2, <1>4, <2>2
<1>6. ASSUME NEW x \in Paths, Remove(x) \/ \E n : Place(x, n) PROVE FALSE
  BY <1>6 DEF Remove, Place
<1>7. ASSUME NEW x \in Paths,
             \/ WalkLink(x) \/ WalkDir(x) \/ WalkFile(x)
             \/ RestoreSkip(x) \/ RestoreVerify(x) \/ RestoreClash(x)
      PROVE  FALSE
  BY <1>1, <1>7 DEF WalkLink, WalkDir, WalkFile, RestoreSkip, RestoreVerify, RestoreClash
<1>8. ASSUME NEW s \in Snaps, Create(s) \/ Restore(s) PROVE FALSE
  BY <1>1, <1>8 DEF Create, Restore
<1>9. CASE HashFile \/ WalkStow \/ Publish \/ Abort \/ UNCHANGED vars
  BY <1>1, <1>9 DEF HashFile, WalkStow, Publish, Abort, vars
<1>10. ASSUME NEW x \in Paths, RestoreDir(x) \/ RestoreLink(x) PROVE FALSE
  <2>1. PICK n : /\ n \in {DirNode, Link(store[Tree[x].hash])}
                 /\ fs' = [fs EXCEPT ![x] = n]
    BY <1>10 DEF RestoreDir, RestoreLink
  <2>2. n.kind # "none"
    BY <2>1 DEF DirNode, Link
  <2> QED BY <1>2, <2>1, <2>2
<1>11. ASSUME NEW x \in Paths, RestoreMissing(x) \/ AbortCopy(x) PROVE FALSE
  <2>1. PICK n : /\ n \in {Restored(Tree[x]), File(Torn, now, TRUE)}
                 /\ fs' = [fs EXCEPT ![Follow(x)] = n]
    BY <1>11 DEF RestoreMissing, AbortCopy
  <2>2. n.kind # "none"
    BY <1>3, <2>1 DEF Restored
  <2> QED BY <1>2, <1>4, <2>1, <2>2
<1>12. ASSUME RestoreStow PROVE FALSE
  <2>1. held.path \in Paths
    BY <1>0, <1>12 DEF RestoreStow, Calls
  <2>2. PICK n : n = IF held.hash = Tree[held.entry].hash
                     THEN File(fs[held.path].data, Tree[held.entry].sec, FALSE)
                     ELSE Restored(Tree[held.entry])
    OBVIOUS
  <2>3. fs' = [fs EXCEPT ![held.path] = n]
    BY <1>12, <2>2 DEF RestoreStow
  <2>4. n.kind # "none"
    BY <1>3, <2>2 DEF Restored
  <2> QED BY <1>2, <2>1, <2>3, <2>4
<1> QED BY <1>5, <1>6, <1>7, <1>8, <1>9, <1>10, <1>11, <1>12 DEF Next

\* By then whatever the snapshot has below that directory is restored.
LEMMA DeletesLast ==
    ASSUME IInv, Exact, pc = "restore", NEW left \in SUBSET Paths, CleanUp(left),
           NEW p \in Paths, Present(p), fs'[p].kind = "none",
           NEW q \in Inside(Parent(p)), Tree[q] # None
    PROVE  RestoredAt(Tree, q)
<1>0. PICK d : d = dirs[Len(dirs)]
  OBVIOUS
<1>1. /\ \A x \in todo : Parent(x) # d
      /\ fs' = Without(Extras(d) \ left)
  BY <1>0 DEF CleanUp
<1>2. todo \cap Inside(d) = {} /\ Closed(Tree) /\ DoneInv /\ q \in Paths
  BY <1>0, <1>1, TopIsDone, RestFacts DEF Inside
<1>3. PICK x \in Extras(d) : p \in {x} \cup Inside(x)
  BY <1>1 DEF Without, Present
<1>4. x \in Paths /\ Parent(x) = d /\ Tree[x] = None
  BY <1>3 DEF Extras, Listed, Children
<1>5. CASE p = x
  <2>1. Settled(q)
    BY <1>2, <1>4, <1>5 DEF DoneInv
  <2> QED BY <1>2, <2>1, SettledRestored
<1>6. CASE p \in Inside(x)
  <2>1. Parent(p) = x \/ (Parent(p) \in Paths /\ Parent(p) \in Inside(x))
    BY <1>4, <1>6, ParentFacts DEF Inside
  <2>2. q \in Inside(x)
    BY <1>2, <1>4, <2>1, InsideTrans
  <2> QED BY <1>2, <1>4, <2>2 DEF Closed
<1> QED BY <1>3, <1>5, <1>6

\* "Do this FIRST": a restore deletes nothing from a directory before that
\* directory and everything below it hold what the snapshot says (restore_tree,
\* phases 1 and 2).
THEOREM ExtrasGoAfterTheRest == Spec => ExtrasGoLast
<1> DEFINE A == pc = "restore" /\ ~stray =>
             \A p \in Paths : Tree[p] = None /\ Present(p) /\ fs'[p].kind = "none" =>
               \A q \in Inside(Parent(p)) : Tree[q] # None => RestoredAt(Tree, q)
<1>1. Init => Honest /\ Sound
  BY InitExact DEF Init, Honest, Objects, Sound
<1>2. IInv /\ Sound /\ [Next]_vars => A
  <2> SUFFICES ASSUME IInv, Sound, [Next]_vars, pc = "restore", ~stray,
                      NEW p \in Paths, Present(p), fs'[p].kind = "none",
                      NEW q \in Inside(Parent(p)), Tree[q] # None
               PROVE  RestoredAt(Tree, q)
      OBVIOUS
  <2> QED BY CleanUpDeletes, DeletesLast DEF Sound
<1>3. IInv /\ Sound /\ [Next]_vars => [A]_vars
  BY <1>2
<1> QED BY <1>1, <1>3, InitIInv, StepIInv, StepHonest, StepSound, PTL DEF Spec, ExtrasGoLast
=============================================================================
