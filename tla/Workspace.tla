------------------------------ MODULE Workspace ------------------------------
(***************************************************************************)
(* A workspace, the object store and the snapshots between them:           *)
(* put_blob, put_file and copy_file (sandd/src/snapshot/object_store.rs),  *)
(* build_tree and restore_tree (manager.rs).  Tags are in Snapshots.       *)
(*                                                                         *)
(* An object is named by the content it was hashed from; BLAKE3 is taken   *)
(* to be injective.  Tree objects are written from memory, like the links' *)
(* targets, so a snapshot's tree is kept here as one function of paths.    *)
(* The entries of a directory are visited in any order (read_dir's).       *)
(*                                                                         *)
(* Commands write into the workspace between operations.  One that timed   *)
(* out goes on running (executor.rs) and so may write during one.          *)
(***************************************************************************)
EXTENDS Integers, Sequences

CONSTANTS
    Paths,      \* of the workspace, as sequences of names
    Kinds,      \* what each path may be: a set of "file", "dir", "link"
    Targets,    \* what links point to: paths that are no links
    Contents,   \* of files
    Torn,       \* the content of a file whose writing was cut short
    SizeOf,     \* length of a content
    Snaps,      \* snapshot ids
    None,
    SameSecond, \* may two writes fall into one second?
    MaxEdits,   \* bound: changes commands make
    MaxFaults   \* bound: operations cut short, extras that cannot be deleted

ASSUME PathsAssumption ==
    /\ \A p \in Paths : p \in Seq(STRING) /\ Len(p) > 0
    /\ Targets \subseteq Paths
\* With a path there are the directories it is in.
ASSUME PrefixAssumption == \A p \in Paths : \A n \in 1..Len(p) : SubSeq(p, 1, n) \in Paths
ASSUME ContentsAssumption ==
    /\ Torn \in Contents
    /\ SizeOf \in [Contents -> Nat]
    /\ Contents \cap Paths = {}
ASSUME NoneAssumption == None \notin Contents \cup Paths \cup Snaps
ASSUME BoundsAssumption == MaxEdits \in Nat /\ MaxFaults \in Nat /\ SameSecond \in BOOLEAN

VARIABLES
    fs,      \* the workspace: path -> node
    now,     \* the second a file was last written in
    store,   \* the object store: name -> content, or None
    snaps,   \* snapshot -> its tree, or None
    pc,      \* "idle", or what handle_message awaits: "walk" or "restore"
    snap,    \* the snapshot it is about
    built,   \* the tree build_tree has so far
    todo,    \* the entries still to visit
    dirs,    \* the directories restore_tree is inside of
    held,    \* put_file in progress
    edits, faults,
    shown,   \* history: the snapshot the last restore claims to have restored
    stray    \* history: a command has written during an operation

opVars == <<pc, snap, built, todo, dirs, held>>
vars == <<fs, now, store, snaps, opVars, edits, faults, shown, stray>>

Root == <<>>
Parent(p)   == SubSeq(p, 1, Len(p) - 1)
Children(d) == {p \in Paths : Parent(p) = d}
Inside(d)   == {p \in Paths : Len(p) > Len(d) /\ SubSeq(p, 1, Len(d)) = d}

Objects == Contents \cup Paths
Nodes   == [kind : {"none", "file", "dir", "link"}, data : Objects \cup {None},
            sec : Nat, frac : BOOLEAN]
Entries == [kind : {"file", "dir", "link"}, hash : Objects \cup {None},
            len : Nat, sec : Nat]
ASSUME EntriesAssumption == None \notin Entries
Trees   == [Paths -> Entries \cup {None}]
Calls   == [entry : Paths, path : Paths, meta : Nodes, hash : Contents \cup {None}]

\* A file has a fraction of a second in its mtime unless set_mtime wrote it.
File(c, s, f) == [kind |-> "file", data |-> c, sec |-> s, frac |-> f]
Absent  == [kind |-> "none", data |-> None, sec |-> 0, frac |-> FALSE]
DirNode == [kind |-> "dir", data |-> None, sec |-> 0, frac |-> FALSE]
Link(t) == [kind |-> "link", data |-> t, sec |-> 0, frac |-> FALSE]

Present(p)   == fs[p].kind # "none"
DirExists(p) == IF Parent(p) = Root THEN TRUE ELSE fs[Parent(p)].kind = "dir"
\* Opening a file follows a link.
Follow(p)    == IF fs[p].kind = "link" THEN fs[p].data ELSE p

TypeOK ==
    /\ fs \in [Paths -> Nodes]
    /\ now \in Nat
    /\ store \in [Objects -> Objects \cup {None}]
    /\ snaps \in [Snaps -> Trees \cup {None}]
    /\ pc \in {"idle", "walk", "restore"}
    /\ snap \in Snaps \cup {None}
    /\ built \in Trees
    /\ todo \subseteq Paths
    /\ dirs \in Seq(Paths \cup {Root})
    /\ held \in Calls \cup {None}
    /\ edits \in Nat /\ faults \in Nat
    /\ shown \in Snaps \cup {None}
    /\ stray \in BOOLEAN

\* Any workspace of files, directories and links.
Fresh == {Absent, DirNode} \cup {File(c, 0, TRUE) : c \in Contents \ {Torn}}
                          \cup {Link(t) : t \in Targets}
Init ==
    /\ fs \in [Paths -> Fresh]
    /\ \A p \in Paths : Present(p) => fs[p].kind \in Kinds[p] /\ DirExists(p)
    /\ now = 0
    /\ store = [x \in Objects |-> None]
    /\ snaps = [s \in Snaps |-> None]
    /\ pc = "idle" /\ snap = None /\ held = None
    /\ built = [p \in Paths |-> None] /\ todo = {} /\ dirs = <<>>
    /\ edits = 0 /\ faults = 0
    /\ shown = None /\ stray = FALSE

-----------------------------------------------------------------------------
(* Commands *)

Edit ==
    /\ edits < MaxEdits
    /\ edits' = edits + 1
    /\ shown' = None
    /\ UNCHANGED <<store, snaps, opVars, faults>>

Write(p, c) ==
    /\ Edit
    /\ LET q == Follow(p)
       IN  /\ DirExists(q) /\ "file" \in Kinds[q] /\ fs[q].kind \in {"none", "file"}
           /\ now' \in {now + 1} \cup (IF SameSecond THEN {now} ELSE {})
           /\ fs' = [fs EXCEPT ![q] = File(c, now', TRUE)]
    /\ stray' = (stray \/ pc # "idle")

Place(p, n) ==
    /\ Edit /\ pc = "idle"
    /\ ~Present(p) /\ DirExists(p) /\ n.kind \in Kinds[p]
    /\ fs' = [fs EXCEPT ![p] = n]
    /\ UNCHANGED <<now, stray>>

Without(ps) == [p \in Paths |-> IF \E q \in ps : p \in {q} \cup Inside(q) THEN Absent ELSE fs[p]]

Remove(p) ==
    /\ Edit /\ pc = "idle"
    /\ Present(p)
    /\ fs' = Without({p})
    /\ UNCHANGED <<now, stray>>

-----------------------------------------------------------------------------
(* create_snapshot *)

\* Mutant: "." is taken for an entry.
Listed_WithDot(d) == {d} \cup {p \in Children(d) : Present(p)}

Listed(d) == {p \in Children(d) : Present(p)}

Create(s) ==
    /\ pc = "idle" /\ snaps[s] = None
    /\ pc' = "walk" /\ snap' = s
    /\ built' = [p \in Paths |-> None]
    /\ todo' = Listed(Root)
    /\ UNCHANGED <<fs, now, store, snaps, dirs, held, edits, faults, shown, stray>>

\* The mtime goes through serde as whole seconds.
Entry(n, h) == [kind |-> n.kind, hash |-> h, sec |-> n.sec,
                len |-> IF n.kind = "file" THEN SizeOf[n.data] ELSE 0]

Visit(p) == pc = "walk" /\ held = None /\ p \in todo

\* put_blob of a link's target.
WalkLink(p) ==
    /\ Visit(p) /\ fs[p].kind = "link"
    /\ store' = [store EXCEPT ![fs[p].data] = fs[p].data]
    /\ built' = [built EXCEPT ![p] = Entry(fs[p], fs[p].data)]
    /\ todo' = todo \ {p}
    /\ UNCHANGED <<fs, now, snaps, pc, snap, dirs, held, edits, faults, shown, stray>>

WalkDir(p) ==
    /\ Visit(p) /\ fs[p].kind = "dir"
    /\ built' = [built EXCEPT ![p] = Entry(fs[p], None)]
    /\ todo' = (todo \ {p}) \cup Listed(p)
    /\ UNCHANGED <<fs, now, store, snaps, pc, snap, dirs, held, edits, faults, shown, stray>>

Call(e, p) == [entry |-> e, path |-> p, meta |-> fs[p], hash |-> None]

\* The metadata is read before put_file.
WalkFile(p) ==
    /\ Visit(p) /\ fs[p].kind = "file"
    /\ held' = Call(p, p)
    /\ UNCHANGED <<fs, now, store, snaps, pc, snap, built, todo, dirs, edits, faults, shown, stray>>

\* put_file, first half: read the file and hash it.
HashFile ==
    /\ held # None /\ held.hash = None
    /\ held' = [held EXCEPT !.hash = fs[held.path].data]
    /\ UNCHANGED <<fs, now, store, snaps, pc, snap, built, todo, dirs, edits, faults, shown, stray>>

\* Mutant: the object is written although it exists.
Stowed_Overwrites == [store EXCEPT ![held.hash] = fs[held.path].data]

\* Second half: unless the object exists, copy the file (it is read again)
\* to a temporary file and rename that.
Stowed == IF store[held.hash] # None THEN store
          ELSE [store EXCEPT ![held.hash] = fs[held.path].data]

WalkStow ==
    /\ pc = "walk" /\ held # None /\ held.hash # None
    /\ store' = Stowed
    /\ built' = [built EXCEPT ![held.entry] = Entry(held.meta, held.hash)]
    /\ todo' = todo \ {held.entry}
    /\ held' = None
    /\ UNCHANGED <<fs, now, snaps, pc, snap, dirs, edits, faults, shown, stray>>

\* The tree object is stored and <id>.json written.
Publish ==
    /\ pc = "walk" /\ held = None /\ todo = {}
    /\ snaps' = [snaps EXCEPT ![snap] = built]
    /\ pc' = "idle" /\ snap' = None
    /\ built' = [p \in Paths |-> None]
    /\ UNCHANGED <<fs, now, store, todo, dirs, held, edits, faults, shown, stray>>

-----------------------------------------------------------------------------
(* restore_snapshot *)

Tree == snaps[snap]

Restore(s) ==
    /\ pc = "idle" /\ snaps[s] # None
    /\ pc' = "restore" /\ snap' = s
    /\ todo' = {p \in Paths : snaps[s][p] # None}
    /\ dirs' = <<Root>>
    /\ shown' = s
    /\ UNCHANGED <<fs, now, store, snaps, built, held, edits, faults, stray>>

Turn(p, kind) ==
    /\ pc = "restore" /\ held = None
    /\ p \in todo /\ Parent(p) = dirs[Len(dirs)]
    /\ Tree[p].kind = kind

\* create_dir_all, then the directory's own entries.
RestoreDir(p) ==
    /\ Turn(p, "dir")
    /\ fs[p].kind \in {"none", "dir"}
    /\ fs' = [fs EXCEPT ![p] = DirNode]
    /\ todo' = todo \ {p}
    /\ dirs' = Append(dirs, p)
    /\ UNCHANGED <<now, store, snaps, pc, snap, built, held, edits, faults, shown, stray>>

\* Mutant: the size alone decides.
Unchanged_SizeOnly(e, n) == SizeOf[n.data] = e.len

\* "Size and mtime match - likely unchanged, skip copy"
Unchanged(e, n) == SizeOf[n.data] = e.len /\ n.sec = e.sec /\ ~n.frac

RestoreSkip(p) ==
    /\ Turn(p, "file")
    /\ fs[Follow(p)].kind = "file" /\ Unchanged(Tree[p], fs[Follow(p)])
    /\ todo' = todo \ {p}
    /\ UNCHANGED <<fs, now, store, snaps, pc, snap, built, dirs, held, edits, faults, shown, stray>>

\* copy_file, set_mode, set_mtime.
Restored(e) == File(store[e.hash], e.sec, FALSE)

RestoreMissing(p) ==
    /\ Turn(p, "file")
    /\ fs[Follow(p)].kind = "none" /\ DirExists(Follow(p))
    /\ fs' = [fs EXCEPT ![Follow(p)] = Restored(Tree[p])]
    /\ todo' = todo \ {p}
    /\ UNCHANGED <<now, store, snaps, pc, snap, built, dirs, held, edits, faults, shown, stray>>

\* Size or mtime differ: put_file of what is there, for its hash.
RestoreVerify(p) ==
    /\ Turn(p, "file")
    /\ fs[Follow(p)].kind = "file" /\ ~Unchanged(Tree[p], fs[Follow(p)])
    /\ held' = Call(p, Follow(p))
    /\ UNCHANGED <<fs, now, store, snaps, pc, snap, built, todo, dirs, edits, faults, shown, stray>>

RestoreStow ==
    /\ pc = "restore" /\ held # None /\ held.hash # None
    /\ store' = Stowed
    /\ LET e == Tree[held.entry]
       IN  fs' = [fs EXCEPT ![held.path] =
                     IF held.hash = e.hash THEN File(@.data, e.sec, FALSE) ELSE Restored(e)]
    /\ todo' = todo \ {held.entry}
    /\ held' = None
    /\ UNCHANGED <<now, snaps, pc, snap, built, dirs, edits, faults, shown, stray>>

\* Whatever is there but a directory is removed first.
RestoreLink(p) ==
    /\ Turn(p, "link")
    /\ fs[p].kind # "dir"
    /\ fs' = [fs EXCEPT ![p] = Link(store[Tree[p].hash])]
    /\ todo' = todo \ {p}
    /\ UNCHANGED <<now, store, snaps, pc, snap, built, dirs, held, edits, faults, shown, stray>>

Extras(d) == {p \in Listed(d) : Tree[p] = None}

\* Mutant: phase 2 comes first.
CleanUp_First(left) ==
    /\ pc = "restore" /\ held = None
    /\ LET d == dirs[Len(dirs)]
       IN  /\ left \subseteq Extras(d)
           /\ left # Extras(d)
           /\ fs' = Without(Extras(d) \ left)
    /\ UNCHANGED <<now, store, snaps, opVars, edits, faults, shown, stray>>

\* Phase 2 of a directory.  An extra that cannot be deleted is only logged.
CleanUp(left) ==
    /\ pc = "restore" /\ held = None
    /\ LET d == dirs[Len(dirs)]
       IN  /\ \A p \in todo : Parent(p) # d
           /\ left \subseteq Extras(d)
           /\ fs' = Without(Extras(d) \ left)
    /\ IF left = {} THEN UNCHANGED <<faults, shown>>
       ELSE faults < MaxFaults /\ faults' = faults + 1 /\ shown' = None
    /\ dirs' = SubSeq(dirs, 1, Len(dirs) - 1)
    /\ IF Len(dirs) = 1 THEN pc' = "idle" /\ snap' = None ELSE UNCHANGED <<pc, snap>>
    /\ UNCHANGED <<now, store, snaps, built, todo, held, edits, stray>>

-----------------------------------------------------------------------------
\* `?`, or the end of the process: the operation stops where it is.
Stop ==
    /\ pc' = "idle" /\ snap' = None
    /\ built' = [p \in Paths |-> None] /\ todo' = {} /\ dirs' = <<>>
    /\ held' = None
    /\ shown' = None
    /\ UNCHANGED <<now, store, snaps, edits, stray>>

\* A directory where a file or a link should be, or the reverse.
RestoreClash(p) ==
    /\ \/ Turn(p, "file") /\ \/ fs[Follow(p)].kind = "dir"
                             \/ fs[Follow(p)].kind = "none" /\ ~DirExists(Follow(p))
       \/ Turn(p, "dir") /\ fs[p].kind \in {"file", "link"}
       \/ Turn(p, "link") /\ fs[p].kind = "dir"
    /\ Stop
    /\ UNCHANGED <<fs, faults>>

Fault == faults < MaxFaults /\ faults' = faults + 1

\* Mutant: put_file copies to the object itself, not to a temporary file.
Abort_InPlace ==
    /\ pc # "idle"
    /\ Fault
    /\ store' = IF held = None THEN store
                ELSE IF held.hash \notin Objects THEN store
                ELSE IF store[held.hash] # None THEN store
                ELSE [store EXCEPT ![held.hash] = Torn]
    /\ pc' = "idle" /\ snap' = None
    /\ built' = [p \in Paths |-> None] /\ todo' = {} /\ dirs' = <<>>
    /\ held' = None
    /\ shown' = None
    /\ UNCHANGED <<fs, now, snaps, edits, stray>>

Abort ==
    /\ pc # "idle"
    /\ Fault /\ Stop
    /\ UNCHANGED fs

\* Cut short inside fs::copy: part of the content, and an mtime of now.
AbortCopy(p) ==
    /\ pc = "restore"
    /\ \/ Turn(p, "file") /\ fs[Follow(p)].kind = "none" /\ DirExists(Follow(p))
       \/ /\ held # None /\ held.entry = p
          /\ held.hash \notin {None, Tree[p].hash}
    /\ fs' = [fs EXCEPT ![Follow(p)] = File(Torn, now, TRUE)]
    /\ Fault /\ Stop

Next ==
    \/ \E p \in Paths :
         \/ \E c \in Contents \ {Torn} : Write(p, c)
         \/ \E t \in Targets : Place(p, Link(t))
         \/ Place(p, DirNode) \/ Remove(p)
         \/ WalkLink(p) \/ WalkDir(p) \/ WalkFile(p)
         \/ RestoreDir(p) \/ RestoreSkip(p) \/ RestoreMissing(p) \/ RestoreVerify(p)
         \/ RestoreLink(p) \/ RestoreClash(p) \/ AbortCopy(p)
    \/ \E s \in Snaps : Create(s) \/ Restore(s)
    \/ HashFile \/ WalkStow \/ Publish \/ RestoreStow \/ Abort
    \/ \E left \in SUBSET Paths : CleanUp(left)

Spec == Init /\ [][Next]_vars

-----------------------------------------------------------------------------
\* Whatever fails or is killed on the way, a snapshot that is listed has all
\* of its objects in the store, each with the content that names it, unless a
\* command wrote while put_file read.
Restorable ==
    ~stray => \A s \in Snaps : snaps[s] # None => \A p \in Paths :
        LET e == snaps[s][p]
        IN  e # None /\ e.kind # "dir" => store[e.hash] = e.hash

\* "Immutable objects (never modified after creation)", with commands that
\* write at any time (docs/proposals/SNAPSHOTS.md).
ObjectsImmutable == [][\A x \in Objects : store[x] # None => store'[x] = store[x]]_vars

Matches(e, n) == IF e = None THEN n.kind = "none"
                 ELSE n.kind = e.kind /\ n.data = e.hash

\* After a restore that reported no problem the workspace is the snapshot's:
\* every entry with its content and nothing else.
RestoredExactly ==
    pc = "idle" /\ shown # None /\ ~stray =>
        \A p \in Paths : Matches(snaps[shown][p], fs[p])

\* Where the code restores something else: it opens, and so follows, a link
\* that stands where the snapshot t has a file ...
ThroughLink(t, p) ==
    \E l \in Paths : /\ fs[l].kind = "link" /\ p \in {l, fs[l].data}
                     /\ t[l] # None /\ t[l].kind = "file"

\* ... and cannot tell files of one length and one second that it restored
\* itself.
Lookalike(t, p) ==
    \E s \in Snaps, q \in Paths :
        /\ t[p] # None /\ snaps[s] # None /\ snaps[s][q] # None
        /\ snaps[s][q] = [t[p] EXCEPT !.hash = snaps[s][q].hash]
        /\ snaps[s][q] # t[p]

RestoredAt(t, p) == Matches(t[p], fs[p]) \/ ThroughLink(t, p) \/ Lookalike(t, p)

\* These two are all that a restore that reported no problem gets wrong.
RestoredOtherwise ==
    pc = "idle" /\ shown # None /\ ~stray =>
        \A p \in Paths : RestoredAt(snaps[shown], p)

\* "Do this FIRST - if restore fails, extras remain untouched": a restore
\* deletes nothing from a directory before that directory and everything
\* below it hold what the snapshot says.
ExtrasGoLast ==
    [][pc = "restore" /\ ~stray =>
         \A p \in Paths : Tree[p] = None /\ Present(p) /\ fs'[p].kind = "none" =>
            \A q \in Inside(Parent(p)) : Tree[q] # None => RestoredAt(Tree, q)]_vars
=============================================================================
