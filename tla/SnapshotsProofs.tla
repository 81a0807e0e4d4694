--------------------------- MODULE SnapshotsProofs ---------------------------
(***************************************************************************)
(* Proofs about Snapshots, for any sets of ids and tags: crash-safety of   *)
(* the tag refs when one client uses the root, and that operations which   *)
(* run to their end implement the abstract catalogue.                      *)
(***************************************************************************)
EXTENDS Snapshots, TLAPS

-----------------------------------------------------------------------------
(* Types, for any number of clients and any names. *)

\* An operation in progress is about a snapshot.
Typed == TypeOK /\ \A c \in Clients : pc[c] # "idle" => cur[c] \in Ids

\* Every variable keeps its type, whoever shares the root, whatever names share
\* a temporary file and whatever is cut short.
THEOREM TypeCorrect == Spec => []TypeOK
<1>1. Init => Typed
  BY NoneAssumption DEF Init, TypeOK, Typed
<1>2. Typed /\ [Next]_vars => Typed'
  <2> SUFFICES ASSUME Typed, [Next]_vars PROVE Typed'
      OBVIOUS
  <2> USE DEF Begin, End, Typed, TypeOK
  <2>1. ASSUME NEW c \in Clients, NEW i \in Ids, NEW T \in SUBSET Tags, Create(c, i, T)
        PROVE  Typed'
    BY <2>1 DEF Create
  <2>2. ASSUME NEW c \in Clients, NEW i \in Ids, Delete(c, i) PROVE Typed'
    <3>1. snaps[i] \subseteq Tags
      BY <2>2 DEF Delete
    <3> QED BY <2>2, <3>1 DEF Delete
  <2>3. ASSUME NEW c \in Clients, Save(c) \/ Unlink(c) PROVE Typed'
    BY <2>3 DEF Save, Unlink
  <2>4. ASSUME NEW c \in Clients, NEW t \in Tags, WriteTemp(c, t) \/ Untag(c, t)
        PROVE  Typed'
    BY <2>4, NamesAssumption DEF WriteTemp, Untag
  <2>5. ASSUME NEW c \in Clients, NEW t \in Tags, Rename(c, t) PROVE Typed'
    <3>1. TempOf[t] \in Names /\ t \in Names /\ refs[TempOf[t]] \in Ids \cup {None}
      BY NamesAssumption
    <3>2. CASE refs[TempOf[t]] = None
      BY <2>5, <3>2 DEF Rename
    <3>3. CASE refs[TempOf[t]] # None
      <4>1. /\ refs' = [n \in Names |-> IF n = t THEN refs[TempOf[t]]
                                        ELSE IF n = TempOf[t] THEN None ELSE refs[n]]
            /\ todo' = [todo EXCEPT ![c] = @ \ {t}]
            /\ pc' = [pc EXCEPT ![c] = "temp"] /\ pc[c] = "rename"
            /\ UNCHANGED <<snaps, used, cur, aborts, kept>>
        BY <2>5, <3>3 DEF Rename
      <4> QED BY <3>1, <4>1
    <3> QED BY <3>2, <3>3
  <2>6. ASSUME NEW c \in Clients, Created(c) PROVE Typed'
    <3>1. kept' \subseteq Tags \X Ids
      <4>1. cur[c] \in Ids /\ (snaps[cur[c]] # None => snaps[cur[c]] \subseteq Tags)
        BY <2>6 DEF Created
      <4> QED BY <2>6, <4>1 DEF Created
    <3> QED BY <2>6, <3>1 DEF Created
  <2>7. ASSUME NEW c \in Clients, Abort(c) PROVE Typed'
    BY <2>7 DEF Abort
  <2>8. CASE UNCHANGED vars
    BY <2>8 DEF vars
  <2> QED BY <2>1, <2>2, <2>3, <2>4, <2>5, <2>6, <2>7, <2>8 DEF Next
<1>3. Typed => TypeOK
  BY DEF Typed
<1> QED BY <1>1, <1>2, <1>3, PTL DEF Spec

-----------------------------------------------------------------------------
(* Crash-safety. *)

\* No snapshot, no ref, nothing under way.
LEMMA InitIInv == Init => IInv
<1> SUFFICES ASSUME Init PROVE IInv
    OBVIOUS
<1>1. TypeOK
  BY NoneAssumption DEF Init, TypeOK
<1>2. StepsInv /\ RefsResolve
  BY NamesAssumption DEF Init, StepsInv, RefsResolve
<1> QED BY <1>1, <1>2 DEF IInv

\* One step of a client that is alone keeps the invariant.
LEMMA StepIInv == OneClient /\ NoAlias /\ IInv /\ [Next]_vars => IInv'
<1> SUFFICES ASSUME OneClient, NoAlias, IInv, [Next]_vars PROVE IInv'
    OBVIOUS
<1>0. /\ TypeOK /\ StepsInv /\ RefsResolve
      /\ \A c, k \in Clients : c = k
      /\ \A t \in Tags : TempOf[t] \in Names /\ TempOf[t] \notin Tags /\ t \in Names
      /\ None \notin Ids /\ \A T \in SUBSET Tags : T # None
  BY NoneAssumption, NamesAssumption DEF IInv, OneClient, NoAlias
<1> USE DEF Begin, End
<1>1. ASSUME NEW c \in Clients, NEW i \in Ids, NEW T \in SUBSET Tags, Create(c, i, T)
      PROVE  IInv'
  <2>1. TypeOK'
    BY <1>0, <1>1 DEF Create, TypeOK
  <2>2. StepsInv'
    BY <1>0, <1>1 DEF Create, StepsInv, First, TypeOK
  <2>3. RefsResolve'
    BY <1>0, <1>1 DEF Create, RefsResolve
  <2> QED BY <2>1, <2>2, <2>3 DEF IInv
<1>2. ASSUME NEW c \in Clients, Save(c) PROVE IInv'
  <2>0. cur[c] \in Ids /\ todo[c] \subseteq Tags /\ snaps[cur[c]] = None /\ cur[c] \in used
    BY <1>0, <1>2 DEF Save, StepsInv, TypeOK
  <2>1. TypeOK'
    BY <1>0, <1>2, <2>0 DEF Save, TypeOK
  <2>2. StepsInv'
    <3>1. /\ snaps' = [snaps EXCEPT ![cur[c]] = todo[c]] /\ todo[c] # None
          /\ pc' = [pc EXCEPT ![c] = "temp"] /\ UNCHANGED <<refs, used, cur, todo>>
      BY <1>0, <1>2, <2>0 DEF Save, TypeOK
    <3>2. \A i \in Ids \ used' : snaps'[i] = None
      BY <1>0, <2>0, <3>1 DEF StepsInv, TypeOK
    <3>3. pc'[c] = "temp" /\ snaps'[cur'[c]] = todo'[c] /\ cur'[c] \in used'
      BY <1>0, <2>0, <3>1 DEF TypeOK
    <3> QED BY <1>0, <3>1, <3>2, <3>3 DEF StepsInv
  <2>3. RefsResolve'
    BY <1>0, <1>2, <2>0 DEF Save, RefsResolve, TypeOK
  <2> QED BY <2>1, <2>2, <2>3 DEF IInv
<1>3. ASSUME NEW c \in Clients, NEW t \in Tags, WriteTemp(c, t) PROVE IInv'
  <2>0. cur[c] \in Ids /\ TempOf[t] \in Names /\ TempOf[t] \notin Tags
    BY <1>0, <1>3 DEF WriteTemp, StepsInv, TypeOK
  <2>1. TypeOK'
    BY <1>0, <1>3, <2>0 DEF WriteTemp, TypeOK
  <2>2. ASSUME NEW u \in Tags, (First(c, u))' PROVE u = t
    BY <1>3, <2>2, NamesAssumption DEF WriteTemp, First
  <2>3. StepsInv'
    BY <1>0, <1>3, <2>0, <2>2 DEF WriteTemp, StepsInv, TypeOK
  <2>4. RefsResolve'
    BY <1>0, <1>3, <2>0 DEF WriteTemp, RefsResolve, TypeOK
  <2> QED BY <2>1, <2>3, <2>4 DEF IInv
<1>4. ASSUME NEW c \in Clients, NEW t \in Tags, Rename(c, t) PROVE IInv'
  <2>0. /\ cur[c] \in Ids /\ TempOf[t] \in Names /\ TempOf[t] \notin Tags
        /\ refs[TempOf[t]] = cur[c] /\ snaps[cur[c]] # None
        /\ t \in todo[c] /\ todo[c] \subseteq snaps[cur[c]] /\ pc[c] = "rename"
    BY <1>0, <1>4 DEF Rename, StepsInv, TypeOK, First
  <2>1. /\ refs' = [n \in Names |-> IF n = t THEN cur[c]
                                    ELSE IF n = TempOf[t] THEN None ELSE refs[n]]
        /\ todo' = [todo EXCEPT ![c] = @ \ {t}]
        /\ pc' = [pc EXCEPT ![c] = "temp"]
        /\ UNCHANGED <<snaps, used, cur, aborts, kept>>
    BY <1>0, <1>4, <2>0 DEF Rename
  <2>2. TypeOK'
    BY <1>0, <2>0, <2>1 DEF TypeOK
  <2>3. StepsInv'
    BY <1>0, <2>0, <2>1 DEF StepsInv, TypeOK
  <2>4. RefsResolve'
    BY <1>0, <2>0, <2>1 DEF RefsResolve, TypeOK
  <2> QED BY <2>2, <2>3, <2>4 DEF IInv
<1>5. ASSUME NEW c \in Clients, Created(c) PROVE IInv'
  <2>0. cur[c] \in Ids /\ snaps[cur[c]] \subseteq Tags
    BY <1>0, <1>5 DEF Created, StepsInv, TypeOK
  <2>1. TypeOK'
    BY <1>0, <1>5, <2>0 DEF Created, TypeOK
  <2>2. StepsInv'
    BY <1>0, <1>5 DEF Created, StepsInv, First, TypeOK
  <2>3. RefsResolve'
    BY <1>0, <1>5 DEF Created, RefsResolve
  <2> QED BY <2>1, <2>2, <2>3 DEF IInv
<1>6. ASSUME NEW c \in Clients, NEW i \in Ids, Delete(c, i) PROVE IInv'
  <2>0. i \in used /\ snaps[i] \subseteq Tags
    BY <1>0, <1>6 DEF Delete, StepsInv, TypeOK
  <2>1. TypeOK'
    BY <1>0, <1>6, <2>0 DEF Delete, TypeOK
  <2>2. \A t \in Tags : refs[t] = i => t \in snaps[i]
    BY <1>0, <1>6 DEF RefsResolve, TypeOK
  <2>3. StepsInv'
    BY <1>0, <1>6, <2>0, <2>2 DEF Delete, StepsInv, First, TypeOK
  <2>4. RefsResolve'
    BY <1>0, <1>6 DEF Delete, RefsResolve
  <2> QED BY <2>1, <2>3, <2>4 DEF IInv
<1>7. ASSUME NEW c \in Clients, NEW t \in Tags, Untag(c, t) PROVE IInv'
  <2>1. TypeOK'
    BY <1>0, <1>7 DEF Untag, TypeOK
  <2>2. StepsInv'
    BY <1>0, <1>7 DEF Untag, StepsInv, First, TypeOK
  <2>3. RefsResolve'
    BY <1>0, <1>7 DEF Untag, RefsResolve, TypeOK
  <2> QED BY <2>1, <2>2, <2>3 DEF IInv
<1>8. ASSUME NEW c \in Clients, Unlink(c) PROVE IInv'
  <2>0. cur[c] \in Ids /\ cur[c] \in used /\ \A t \in Tags : refs[t] # cur[c]
    BY <1>0, <1>8 DEF Unlink, StepsInv, TypeOK
  <2>1. TypeOK'
    BY <1>0, <1>8, <2>0 DEF Unlink, TypeOK
  <2>2. StepsInv'
    BY <1>0, <1>8, <2>0 DEF Unlink, StepsInv, First, TypeOK
  <2>3. RefsResolve'
    BY <1>0, <1>8, <2>0 DEF Unlink, RefsResolve, TypeOK
  <2> QED BY <2>1, <2>2, <2>3 DEF IInv
<1>9. ASSUME NEW c \in Clients, Abort(c) PROVE IInv'
  <2>1. TypeOK'
    BY <1>0, <1>9 DEF Abort, TypeOK
  <2>2. StepsInv'
    BY <1>0, <1>9 DEF Abort, StepsInv, First, TypeOK
  <2>3. RefsResolve'
    BY <1>0, <1>9 DEF Abort, RefsResolve
  <2> QED BY <2>1, <2>2, <2>3 DEF IInv
<1>10. CASE UNCHANGED vars
  BY <1>0, <1>10 DEF vars, IInv, TypeOK, StepsInv, RefsResolve, First
<1> QED BY <1>1, <1>2, <1>3, <1>4, <1>5, <1>6, <1>7, <1>8, <1>9, <1>10 DEF Next

\* Whatever is cut short, and however often, a tag that is found names a
\* snapshot that exists and lists the tag (manager.rs: the order of the file
\* operations of create_snapshot and delete_snapshot).
THEOREM RefsAlwaysResolve == OneClient /\ NoAlias => (Spec => []RefsResolve)
<1> SUFFICES ASSUME OneClient, NoAlias PROVE Spec => []RefsResolve
    OBVIOUS
<1>1. IInv /\ [Next]_vars => IInv'
  BY StepIInv
<1>2. IInv => RefsResolve
  BY DEF IInv
<1> QED BY InitIInv, <1>1, <1>2, PTL DEF Spec

-----------------------------------------------------------------------------
(* Operations that run to their end. *)

\* No tags and no refs: they agree.
LEMMA InitExact == Init => ExactInv
  BY DEF Init, ExactInv, Busy

\* With one client, Busy is what that client is doing.
LEMMA BusyOf == ASSUME OneClient, NEW c \in Clients
                PROVE  Busy = IF pc[c] = "idle" THEN {} ELSE {cur[c]}
  BY DEF OneClient, Busy

\* A step after which nothing has been cut short follows such a state.
LEMMA UncutBefore ==
    TypeOK /\ [Next]_vars /\ aborts' = 0 => aborts = 0 /\ \A c \in Clients : ~Abort(c)
  BY DEF TypeOK, Next, vars, Create, Save, WriteTemp, Rename, Created, Delete, Untag,
         Unlink, Abort

\* Until an operation is cut short, tag lists and refs agree up to the
\* operation in progress.
LEMMA StepExact ==
    OneClient /\ NoAlias /\ SerialInv /\ [Next]_vars /\ aborts' = 0 => ExactInv'
<1> SUFFICES ASSUME OneClient, NoAlias, SerialInv, [Next]_vars, aborts' = 0
             PROVE  ExactInv'
    OBVIOUS
<1>u. aborts = 0 /\ \A c \in Clients : ~Abort(c)
  BY UncutBefore DEF SerialInv, IInv
<1>0. /\ TypeOK /\ StepsInv /\ RefsResolve /\ ExactInv
      /\ \A c, k \in Clients : c = k
      /\ \A t \in Tags : TempOf[t] \in Names /\ TempOf[t] \notin Tags /\ t \in Names
      /\ None \notin Ids /\ \A T \in SUBSET Tags : T # None
  BY <1>u, NoneAssumption, NamesAssumption DEF SerialInv, IInv, OneClient, NoAlias
<1>a. \A c \in Clients : Busy = IF pc[c] = "idle" THEN {} ELSE {cur[c]}
  BY BusyOf
<1>b. \A c \in Clients : Busy' = IF pc'[c] = "idle" THEN {} ELSE {cur'[c]}
  BY <1>0 DEF Busy
<1> USE DEF Begin, End
<1>1. ASSUME NEW c \in Clients, NEW i \in Ids, NEW T \in SUBSET Tags, Create(c, i, T)
      PROVE  ExactInv'
  <2>1. Busy = {} /\ Busy' = {i}
    BY <1>0, <1>a, <1>b, <1>1 DEF Create, TypeOK
  <2>2. \A p \in kept : p[2] # i
    BY <1>0, <1>1 DEF Create, StepsInv, ExactInv, TypeOK
  <2> QED BY <1>0, <1>1, <2>1, <2>2 DEF Create, ExactInv, TypeOK
<1>2. ASSUME NEW c \in Clients, Save(c) PROVE ExactInv'
  <2>1. /\ cur[c] \in Ids /\ snaps' = [snaps EXCEPT ![cur[c]] = todo[c]]
        /\ pc[c] = "save" /\ pc' = [pc EXCEPT ![c] = "temp"]
        /\ UNCHANGED <<refs, used, cur, todo, kept>>
        /\ todo[c] \in SUBSET Tags
    BY <1>0, <1>2 DEF Save, StepsInv, TypeOK
  <2>2. Busy = {cur[c]} /\ Busy' = {cur[c]}
    BY <1>0, <1>a, <1>b, <2>1 DEF TypeOK
  <2>3. \A j \in Ids \ Busy : snaps'[j] = snaps[j]
    BY <1>0, <2>1, <2>2 DEF TypeOK
  <2>4. \A p \in kept : p[2] \in Ids /\ p[2] \notin Busy' /\ snaps'[p[2]] # None
                          /\ p[1] \in snaps'[p[2]]
    BY <1>0, <2>1, <2>2, <2>3 DEF ExactInv, TypeOK
  <2>5. snaps'[cur[c]] = todo[c]
    BY <1>0, <2>1 DEF TypeOK
  <2> QED BY <1>0, <2>1, <2>2, <2>3, <2>4, <2>5 DEF ExactInv, TypeOK
<1>3. ASSUME NEW c \in Clients, NEW t \in Tags, WriteTemp(c, t) PROVE ExactInv'
  <2>1. /\ pc[c] = "temp" /\ pc' = [pc EXCEPT ![c] = "rename"]
        /\ UNCHANGED <<snaps, used, cur, todo, kept>>
        /\ \A u \in Tags : refs'[u] = refs[u]
    BY <1>0, <1>3 DEF WriteTemp, TypeOK
  <2>2. Busy' = Busy
    BY <1>0, <1>a, <1>b, <2>1 DEF TypeOK
  <2>3. \A j \in Ids : snaps[j] # None => snaps[j] \subseteq Tags
    BY <1>0 DEF TypeOK
  <2> QED BY <1>0, <2>1, <2>2, <2>3 DEF ExactInv, TypeOK
<1>4. ASSUME NEW c \in Clients, NEW t \in Tags, Rename(c, t) PROVE ExactInv'
  <2>1. /\ cur[c] \in Ids /\ refs[TempOf[t]] = cur[c]
        /\ t \in todo[c] /\ pc[c] = "rename" /\ refs[t] = None
    BY <1>0, <1>4 DEF Rename, StepsInv, ExactInv, TypeOK, First
  <2>2. /\ refs' = [n \in Names |-> IF n = t THEN cur[c]
                                    ELSE IF n = TempOf[t] THEN None ELSE refs[n]]
        /\ todo' = [todo EXCEPT ![c] = @ \ {t}]
        /\ pc' = [pc EXCEPT ![c] = "temp"]
        /\ UNCHANGED <<snaps, used, cur, kept>>
    BY <1>0, <1>4, <2>1 DEF Rename
  <2>3. Busy' = Busy
    BY <1>0, <1>a, <1>b, <2>1, <2>2 DEF TypeOK
  <2>4. /\ refs'[t] = cur[c] /\ \A u \in Tags \ {t} : refs'[u] = refs[u]
        /\ \A j \in Ids : snaps[j] # None => snaps[j] \subseteq Tags
    BY <1>0, <2>2 DEF TypeOK
  <2>5. \A j \in Ids \ Busy : snaps[j] # None => t \notin snaps[j]
    BY <1>0, <2>1 DEF ExactInv
  <2>6. todo'[c] = todo[c] \ {t} /\ pc'[c] = "temp"
    BY <1>0, <2>2 DEF TypeOK
  <2> QED BY <1>0, <2>1, <2>2, <2>3, <2>4, <2>5, <2>6 DEF ExactInv
<1>5. ASSUME NEW c \in Clients, Created(c) PROVE ExactInv'
  <2>1. /\ cur[c] \in Ids /\ snaps[cur[c]] # None /\ snaps[cur[c]] \subseteq Tags
        /\ todo[c] = {} /\ pc[c] = "temp"
        /\ kept' = kept \cup (snaps[cur[c]] \X {cur[c]})
        /\ UNCHANGED <<snaps, refs, used>>
    BY <1>0, <1>5 DEF Created, StepsInv, TypeOK
  <2>2. Busy = {cur[c]} /\ Busy' = {} /\ pc'[c] = "idle"
    BY <1>0, <1>a, <1>b, <1>5, <2>1 DEF Created, TypeOK
  <2>3. \A u \in snaps[cur[c]] : refs[u] = cur[c]
    BY <1>0, <2>1 DEF ExactInv
  <2> QED BY <1>0, <2>1, <2>2, <2>3 DEF ExactInv, TypeOK
<1>6. ASSUME NEW c \in Clients, NEW i \in Ids, Delete(c, i) PROVE ExactInv'
  <2>1. Busy = {} /\ Busy' = {i} /\ snaps[i] \subseteq Tags
    BY <1>0, <1>a, <1>b, <1>6 DEF Delete, TypeOK
  <2>2. \A u \in snaps[i] : refs[u] = i
    BY <1>0, <1>6, <2>1 DEF Delete, ExactInv
  <2> QED BY <1>0, <1>6, <2>1, <2>2 DEF Delete, ExactInv, TypeOK
<1>7. ASSUME NEW c \in Clients, NEW t \in Tags, Untag(c, t) PROVE ExactInv'
  <2>1. /\ t \in todo[c] /\ pc[c] = "untag" /\ refs[t] = cur[c] /\ cur[c] \in Ids
        /\ refs' = [refs EXCEPT ![t] = None]
        /\ todo' = [todo EXCEPT ![c] = @ \ {t}]
        /\ UNCHANGED <<snaps, used, pc, cur, kept>>
    BY <1>0, <1>7 DEF Untag, ExactInv, First, StepsInv, TypeOK
  <2>2. Busy' = Busy /\ Busy = {cur[c]}
    BY <1>0, <1>a, <1>b, <2>1 DEF TypeOK
  <2>3. /\ \A u \in Tags \ {t} : refs'[u] = refs[u]
        /\ \A j \in Ids : snaps[j] # None => snaps[j] \subseteq Tags
        /\ todo'[c] = todo[c] \ {t}
    BY <1>0, <2>1 DEF TypeOK
  <2>4. \A j \in Ids \ Busy : snaps[j] # None => t \notin snaps[j]
    BY <1>0, <2>1, <2>2 DEF ExactInv
  <2> QED BY <1>0, <2>1, <2>2, <2>3, <2>4 DEF ExactInv
<1>8. ASSUME NEW c \in Clients, Unlink(c) PROVE ExactInv'
  <2>1. /\ cur[c] \in Ids /\ pc[c] = "untag"
        /\ snaps' = [snaps EXCEPT ![cur[c]] = None]
        /\ UNCHANGED <<refs, used, kept>>
    BY <1>0, <1>8 DEF Unlink, StepsInv, TypeOK
  <2>2. Busy = {cur[c]} /\ Busy' = {} /\ pc'[c] = "idle"
    BY <1>0, <1>a, <1>b, <1>8, <2>1 DEF Unlink, TypeOK
  <2>3. snaps'[cur[c]] = None /\ \A j \in Ids \ Busy : snaps'[j] = snaps[j]
    BY <1>0, <2>1, <2>2 DEF TypeOK
  <2>4. \A p \in kept : p[2] \in Ids
    BY <1>0 DEF TypeOK
  <2> QED BY <1>0, <2>1, <2>2, <2>3, <2>4 DEF ExactInv
<1>9. ASSUME NEW c \in Clients, Abort(c) PROVE ExactInv'
  BY <1>u, <1>9
<1>10. CASE UNCHANGED vars
  BY <1>0, <1>10 DEF vars, ExactInv, Busy
<1> QED BY <1>1, <1>2, <1>3, <1>4, <1>5, <1>6, <1>7, <1>8, <1>9, <1>10 DEF Next

\* The invariant the theorems about uncut operations rest on.
LEMMA SerialInvariance == OneClient /\ NoAlias => (Spec => []SerialInv)
<1> SUFFICES ASSUME OneClient, NoAlias PROVE Spec => []SerialInv
    OBVIOUS
<1>1. Init => SerialInv
  BY InitIInv, InitExact DEF SerialInv
<1>2. SerialInv /\ [Next]_vars => SerialInv'
  BY StepIInv, StepExact DEF SerialInv
<1> QED BY <1>1, <1>2, PTL DEF Spec

\* As long as nothing is cut short, a tag names the snapshot it was created
\* for until that snapshot is deleted (manager.rs: the existence check of
\* create_snapshot, remove_tag from the list in the snapshot file).
THEOREM TagsAreKept == OneClient /\ NoAlias => (Spec => []TagKeptUncut)
<1>1. SerialInv => TagKeptUncut
  BY DEF SerialInv, IInv, TypeOK, ExactInv, TagKept, TagKeptUncut
<1> QED BY <1>1, SerialInvariance, PTL

-----------------------------------------------------------------------------
(* The refinement. *)

Listed == {i \in Ids : snaps[i] # None} \ Busy
TagOf  == [t \in Tags |-> IF refs[t] \in Busy THEN None ELSE refs[t]]

\* Between operations, and until one is cut short, a listing by tags agrees
\* with the tag lists in the snapshots' own files (list_snapshots reads only
\* refs/tags).
THEOREM ListingsAgree == OneClient /\ NoAlias => (Spec => []ListingAgrees)
<1> SUFFICES ASSUME OneClient, NoAlias PROVE Spec => []ListingAgrees
    OBVIOUS
<1>1. SerialInv => ListingAgrees
  <2> SUFFICES ASSUME SerialInv, aborts = 0, Busy = {}, NEW T \in SUBSET Tags
               PROVE  /\ ListSnapshots(T).ok <=>
                           \A t \in T : \E i \in ListAll : t \in snaps[i]
                      /\ ListSnapshots(T).ok =>
                           ListSnapshots(T).ids = {i \in ListAll : snaps[i] \cap T # {}}
      BY Zenon DEF ListingAgrees
  <2>1. /\ None \notin Ids /\ \A t \in Tags : t \in Names
        /\ \A n \in Names : refs[n] \in Ids \cup {None}
    BY NoneAssumption, NamesAssumption DEF SerialInv, IInv, TypeOK
  <2>2. \A t \in T : refs[t] # None => refs[t] \in ListAll /\ t \in snaps[refs[t]]
    BY <2>1 DEF SerialInv, IInv, RefsResolve, ListAll
  <2>3. \A i \in ListAll : \A t \in snaps[i] : refs[t] = i
    BY DEF SerialInv, ExactInv, ListAll
  <2>4. ListSnapshots(T).ok <=> \A t \in T : refs[t] # None
    BY <2>2 DEF ListSnapshots, FindByTag, ListAll
  <2>5. ListSnapshots(T).ids = {refs[t] : t \in T}
    BY DEF ListSnapshots
  <2>6. \A t \in T : refs[t] # None <=> \E i \in ListAll : t \in snaps[i]
    <3> SUFFICES ASSUME NEW t \in T
                 PROVE  refs[t] # None <=> \E i \in ListAll : t \in snaps[i]
        OBVIOUS
    <3>1. ASSUME NEW i \in ListAll, t \in snaps[i] PROVE refs[t] # None
      BY <2>1, <2>3, <3>1 DEF ListAll
    <3> QED BY <2>2, <3>1
  <2>7. ASSUME \A t \in T : refs[t] # None
        PROVE  {refs[t] : t \in T} = {i \in ListAll : snaps[i] \cap T # {}}
    BY <2>2, <2>3, <2>7
  <2> QED BY <2>4, <2>5, <2>6, <2>7
<1> QED BY <1>1, SerialInvariance, PTL

\* Created is the catalogue's Create, Delete its Delete; every other step of
\* an operation is invisible.
LEMMA StepRefines ==
    OneClient /\ NoAlias /\ SerialInv /\ [Next]_vars /\ aborts' = 0
        => Catalog!Next \/ UNCHANGED <<Listed, TagOf>>
<1> SUFFICES ASSUME OneClient, NoAlias, SerialInv, [Next]_vars, aborts' = 0
             PROVE  Catalog!Next \/ UNCHANGED <<Listed, TagOf>>
    OBVIOUS
<1>u. aborts = 0 /\ \A c \in Clients : ~Abort(c)
  BY UncutBefore DEF SerialInv, IInv
<1>0. /\ TypeOK /\ StepsInv /\ RefsResolve /\ ExactInv
      /\ \A t \in Tags : TempOf[t] \in Names /\ TempOf[t] \notin Tags /\ t \in Names
      /\ None \notin Ids /\ \A T \in SUBSET Tags : T # None
      /\ \A c, k \in Clients : c = k
  BY <1>u, NoneAssumption, NamesAssumption DEF SerialInv, IInv, NoAlias, OneClient
<1>a. \A c \in Clients : Busy = IF pc[c] = "idle" THEN {} ELSE {cur[c]}
  BY BusyOf
<1>b. \A c \in Clients : Busy' = IF pc'[c] = "idle" THEN {} ELSE {cur'[c]}
  BY <1>0 DEF Busy
<1>t. \A t \in Tags : refs[t] \in Ids \cup {None}
  BY <1>0 DEF TypeOK
<1> USE DEF Begin, End
<1>1. ASSUME NEW c \in Clients, NEW i \in Ids, NEW T \in SUBSET Tags, Create(c, i, T)
      PROVE  UNCHANGED <<Listed, TagOf>>
  <2>1. Busy = {} /\ Busy' = {i} /\ UNCHANGED <<snaps, refs>>
    BY <1>0, <1>a, <1>b, <1>1 DEF Create, TypeOK
  <2>2. snaps[i] = None /\ \A t \in Tags : refs[t] # i
    BY <1>0, <1>1 DEF Create, StepsInv, RefsResolve
  <2> QED BY <2>1, <2>2 DEF Listed, TagOf
<1>2. ASSUME NEW c \in Clients, Save(c) PROVE UNCHANGED <<Listed, TagOf>>
  <2>1. Busy = {cur[c]} /\ Busy' = {cur[c]} /\ UNCHANGED refs
    BY <1>0, <1>a, <1>b, <1>2 DEF Save, TypeOK
  <2>2. \A j \in Ids \ Busy : snaps'[j] = snaps[j]
    BY <1>0, <1>2, <2>1 DEF Save, TypeOK
  <2> QED BY <2>1, <2>2 DEF Listed, TagOf
<1>3. ASSUME NEW c \in Clients, NEW t \in Tags, WriteTemp(c, t)
      PROVE  UNCHANGED <<Listed, TagOf>>
  <2>1. /\ Busy' = Busy /\ UNCHANGED snaps
        /\ \A u \in Tags : refs'[u] = refs[u]
    BY <1>0, <1>a, <1>b, <1>3 DEF WriteTemp, TypeOK
  <2> QED BY <2>1 DEF Listed, TagOf
<1>4. ASSUME NEW c \in Clients, NEW t \in Tags, Rename(c, t)
      PROVE  UNCHANGED <<Listed, TagOf>>
  <2>1. /\ cur[c] \in Ids /\ refs[TempOf[t]] = cur[c]
        /\ t \in todo[c] /\ pc[c] = "rename" /\ refs[t] = None
    BY <1>0, <1>4 DEF Rename, StepsInv, ExactInv, TypeOK, First
  <2>2. /\ refs' = [n \in Names |-> IF n = t THEN cur[c]
                                    ELSE IF n = TempOf[t] THEN None ELSE refs[n]]
        /\ pc' = [pc EXCEPT ![c] = "temp"] /\ UNCHANGED <<snaps, cur>>
    BY <1>0, <1>4, <2>1 DEF Rename
  <2>3. Busy = {cur[c]} /\ Busy' = {cur[c]}
    BY <1>0, <1>a, <1>b, <2>1, <2>2 DEF TypeOK
  <2>4. refs'[t] = cur[c] /\ \A u \in Tags \ {t} : refs'[u] = refs[u]
    BY <1>0, <2>2 DEF TypeOK
  <2> QED BY <1>0, <2>1, <2>2, <2>3, <2>4 DEF Listed, TagOf
<1>5. ASSUME NEW c \in Clients, Created(c), NEW i \in Ids, i = cur[c],
             NEW T \in SUBSET Tags, T = snaps[i]
      PROVE  Catalog!Create(i, T)
  <2>1. todo[c] = {} /\ pc[c] = "temp" /\ UNCHANGED <<snaps, refs>>
    BY <1>5 DEF Created
  <2>2. Busy = {i} /\ Busy' = {}
    BY <1>0, <1>a, <1>b, <1>5, <2>1 DEF Created, TypeOK
  <2>3. \A t \in Tags : refs[t] = i <=> t \in T
    BY <1>0, <1>5, <2>1 DEF ExactInv, RefsResolve
  <2>4. TagOf' = [t \in Tags |-> IF t \in T THEN i ELSE TagOf[t]]
    BY <2>1, <2>2, <2>3 DEF TagOf
  <2>5. Listed' = Listed \cup {i} /\ i \notin Listed
    BY <1>0, <1>5, <2>1, <2>2 DEF Listed
  <2>6. \A t \in T : TagOf[t] = None
    BY <1>5, <2>1, <2>2, <2>3 DEF TagOf
  <2> QED BY <2>4, <2>5, <2>6 DEF Catalog!Create, Listed, TagOf
<1>6. ASSUME NEW c \in Clients, NEW i \in Ids, Delete(c, i) PROVE Catalog!Delete(i)
  <2>1. Busy = {} /\ Busy' = {i} /\ UNCHANGED <<snaps, refs>> /\ snaps[i] # None
    BY <1>0, <1>a, <1>b, <1>6 DEF Delete, TypeOK
  <2>2. i \in Listed /\ Listed' = Listed \ {i}
    BY <2>1 DEF Listed
  <2>3. TagOf' = [t \in Tags |-> IF TagOf[t] = i THEN None ELSE TagOf[t]]
    BY <2>1 DEF TagOf
  <2>4. Catalog!TagsOf(i) = {t \in Tags : TagOf[t] = i}
    BY DEF Catalog!TagsOf, TagOf
  <2> QED BY <2>2, <2>3, <2>4 DEF Catalog!Delete, Listed, TagOf
<1>7. ASSUME NEW c \in Clients, NEW t \in Tags, Untag(c, t)
      PROVE  UNCHANGED <<Listed, TagOf>>
  <2>1. /\ pc[c] = "untag" /\ refs[t] = cur[c] /\ cur[c] \in Ids
        /\ refs' = [refs EXCEPT ![t] = None]
        /\ UNCHANGED <<snaps, pc, cur>>
    BY <1>0, <1>7 DEF Untag, ExactInv, First, StepsInv, TypeOK
  <2>2. Busy = {cur[c]} /\ Busy' = {cur[c]}
    BY <1>0, <1>a, <1>b, <2>1
  <2>3. refs'[t] = None /\ \A u \in Tags \ {t} : refs'[u] = refs[u]
    BY <1>0, <2>1 DEF TypeOK
  <2> QED BY <1>0, <2>1, <2>2, <2>3 DEF Listed, TagOf
<1>8. ASSUME NEW c \in Clients, Unlink(c) PROVE UNCHANGED <<Listed, TagOf>>
  <2>1. /\ cur[c] \in Ids /\ pc[c] = "untag" /\ UNCHANGED refs
        /\ snaps' = [snaps EXCEPT ![cur[c]] = None]
        /\ \A t \in Tags : refs[t] # cur[c]
    BY <1>0, <1>8 DEF Unlink, StepsInv, TypeOK
  <2>2. Busy = {cur[c]} /\ Busy' = {}
    BY <1>0, <1>a, <1>b, <1>8, <2>1 DEF Unlink, TypeOK
  <2>3. snaps'[cur[c]] = None /\ \A j \in Ids \ Busy : snaps'[j] = snaps[j]
    BY <1>0, <2>1, <2>2 DEF TypeOK
  <2> QED BY <2>1, <2>2, <2>3 DEF Listed, TagOf
<1>9. ASSUME NEW c \in Clients, Abort(c) PROVE FALSE
  BY <1>u, <1>9
<1>10. ASSUME UNCHANGED vars PROVE UNCHANGED <<Listed, TagOf>>
  BY <1>10 DEF vars, Listed, TagOf, Busy
<1>11. ASSUME NEW i \in Ids, NEW T \in SUBSET Tags, Catalog!Create(i, T)
       PROVE  Catalog!Next
  BY <1>11 DEF Catalog!Next
<1>12. ASSUME NEW i \in Ids, Catalog!Delete(i) PROVE Catalog!Next
  BY <1>12 DEF Catalog!Next
<1>13. ASSUME NEW c \in Clients, Created(c) PROVE Catalog!Next
  <2>1. cur[c] \in Ids /\ snaps[cur[c]] \in SUBSET Tags
    BY <1>0, <1>13 DEF Created, StepsInv, TypeOK
  <2>2. PICK i \in Ids, T \in SUBSET Tags : i = cur[c] /\ T = snaps[i]
    BY <2>1
  <2> QED BY <1>5, <1>11, <1>13, <2>2
<1>14. ASSUME NEW c \in Clients, NEW i \in Ids, Delete(c, i) PROVE Catalog!Next
  BY <1>6, <1>12, <1>14
<1>15. CASE Next
  BY <1>1, <1>2, <1>3, <1>4, <1>7, <1>8, <1>9, <1>13, <1>14, <1>15 DEF Next
<1> QED BY <1>10, <1>15

\* One at a time and until one is cut short, the operations implement the
\* catalogue: a snapshot appears with all of its tags, and a deletion takes
\* its own tags and no others (create_snapshot and delete_snapshot).
THEOREM CatalogImplemented == OneClient /\ NoAlias => (Spec => ImplementsCatalog)
<1> SUFFICES ASSUME OneClient, NoAlias PROVE Spec => ImplementsCatalog
    OBVIOUS
<1>1. Init => Catalog!Init
  BY NamesAssumption DEF Init, Catalog!Init, Busy
<1>2. SerialInv /\ [Next]_vars => [aborts' = 0 => Catalog!Next]_<<Listed, TagOf>>
  BY StepRefines
<1>3. SerialInv /\ [Next]_vars => [aborts' = 0 => Catalog!Next]_(Catalog!vars)
  BY <1>2 DEF Catalog!vars, Listed, TagOf
<1> QED BY <1>1, <1>3, SerialInvariance, PTL DEF Spec, ImplementsCatalog
=============================================================================
