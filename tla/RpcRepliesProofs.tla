--------------------------- MODULE RpcRepliesProofs ---------------------------
(***************************************************************************)
(* Proofs about Rpc, for any daemons, sockets, requests and bounds: its    *)
(* types, where a response is lost, what a pending entry says of the       *)
(* daemon it is counted for, what a daemon reads first and that its        *)
(* heartbeats are answered.                                                *)
(***************************************************************************)
EXTENDS RpcProofs, DaemonLinkProofs

CallTypes ==
    /\ target \in [Reqs -> Daemons \cup {None}]
    /\ conn \in [Reqs -> Conns \cup {None}]
    /\ link \in [Reqs -> Sockets \cup {None}]
    /\ pending \subseteq Conns \X Reqs
    /\ procs \in [Daemons -> SUBSET Reqs]
    /\ replied \subseteq Reqs

Open(r) == caller[r] \in {"got", "pending", "waiting"}

\* A request travels on sockets of the daemon it is for only.
Routed ==
    /\ \A r \in Reqs : Open(r) =>
          conn[r] \in Conns /\ link[r] \in Sockets /\ Serves(link[r], target[r])
    /\ \A r \in Reqs, s \in Sockets :
          In(r, chan[s]) \/ In(r, down[s]) \/ In(r, up[s]) => Serves(s, target[r])
    /\ \A d \in Daemons : busy[d] # None =>
          cur[d] # None /\ Serves(cur[d], d) /\ target[busy[d]] = d
    /\ \A r \in Reqs, d \in Daemons :
          Open(r) /\ reg[d] # None /\ reg[d].conn = conn[r] => target[r] = d

\* An entry is made by a call that goes on, and answered when it was sent.
Asked ==
    /\ \A c \in Conns, r \in Reqs :
          <<c, r>> \in pending => caller[r] \notin {"idle", "got", "notfound"}
    /\ \A r \in replied : Issued(r)

RepliesInv ==
    /\ ServerTypes /\ CallTypes /\ Wired /\ Routed /\ Asked
    /\ PendingIsOwed /\ LostOnlyByReplacement

-----------------------------------------------------------------------------
(* Steps that change no call. *)

\* The steps of the control plane are DaemonLink's.
LEMMA ControlSides ==
    /\ \A s \in Sockets :
          TaskStep(s) \/ ForwardFails(s) \/ DropChannel(s) \/ PathBreaks(s) => TaskSide(s)
    /\ \A d \in Daemons : LoopStep(d) \/ Background(d) \/ CrashBusy(d) => DaemonSide(d)
BY DEF TaskStep, ForwardFails, DropChannel, PathBreaks, TaskSide,
       LoopStep, Background, CrashBusy, DaemonSide, SeeReset

\* Where the requests are after a step.
Travels ==
    \A r \in Reqs, s \in Sockets :
        In(r, chan'[s]) \/ In(r, down'[s]) \/ In(r, up'[s]) => Serves(s, target[r])

InHand ==
    \A d \in Daemons : busy'[d] # None =>
        cur'[d] # None /\ Serves(cur'[d], d) /\ target[busy'[d]] = d

CallsKept == UNCHANGED <<caller, target, conn, link, pending, slot, replied>>

\* What a socket serves it goes on to serve.
LEMMA ServesKept ==
    ASSUME SocketsKept, NEW s \in Sockets, NEW d, Serves(s, d)
    PROVE  /\ d \in Daemons /\ net'[s] # "unused" /\ owner'[s] = d
           /\ task'[s] \in {"run", "beat", "cleanup"} => tid'[s] = d
BY DEF SocketsKept, Serves, ServerHolds

\* No request is anywhere it was not.
LEMMA LosesTravels ==
    ASSUME Routed, DownLoses, UpLoses, ChanLoses
    PROVE  Travels
BY LosesIn DEF Routed, DownLoses, UpLoses, ChanLoses, Travels

\* What is in hand stays there, or is let go.
LEMMA HandKept ==
    ASSUME Routed, \A d \in Daemons : busy'[d] # None => busy'[d] = busy[d] /\ cur'[d] = cur[d]
    PROVE  InHand
BY DEF Routed, InHand

\* The requests' part of the invariant after a step that moves sockets and requests.
LEMMA RoutedKept ==
    ASSUME RepliesInv, LinkTypes', SocketsKept, Travels, InHand, CallsKept,
           \A r \in Reqs, d \in Daemons :
               Open(r) /\ reg'[d] # None /\ reg'[d].conn = conn[r] => target[r] = d
    PROVE  Routed'
<1>1. ASSUME NEW r \in Reqs, Open(r)
      PROVE  /\ conn[r] \in Conns /\ link[r] \in Sockets
             /\ target[r] \in Daemons /\ net'[link[r]] # "unused" /\ owner'[link[r]] = target[r]
             /\ task'[link[r]] \in {"run", "beat", "cleanup"} => tid'[link[r]] = target[r]
  BY <1>1, ServesKept DEF RepliesInv, Routed
<1>2. ASSUME NEW r \in Reqs, NEW s \in Sockets, In(r, chan'[s]) \/ In(r, down'[s]) \/ In(r, up'[s])
      PROVE  /\ target[r] \in Daemons /\ net'[s] # "unused" /\ owner'[s] = target[r]
             /\ task'[s] \in {"run", "beat", "cleanup"} => tid'[s] = target[r]
  BY <1>2, ServesKept DEF Travels
<1>3. ASSUME NEW d \in Daemons, busy'[d] # None
      PROVE  /\ cur'[d] # None /\ target[busy'[d]] = d
             /\ net'[cur'[d]] # "unused" /\ owner'[cur'[d]] = d
             /\ task'[cur'[d]] \in {"run", "beat", "cleanup"} => tid'[cur'[d]] = d
  <2>1. cur'[d] \in Sockets /\ Serves(cur'[d], d) /\ cur'[d] # None /\ target[busy'[d]] = d
    BY <1>3 DEF InHand, LinkTypes
  <2> QED BY <2>1, ServesKept
<1>4. \A r \in Reqs : Open(r)' => Open(r)
  BY DEF Open, CallsKept
<1> USE DEF Serves, ServerHolds, CallsKept
<1>5. \A r \in Reqs : Open(r)' => (conn[r] \in Conns /\ link[r] \in Sockets /\ Serves(link[r], target[r]))'
  BY <1>1, <1>4
<1>6. \A r \in Reqs, s \in Sockets :
        (In(r, chan[s]) \/ In(r, down[s]) \/ In(r, up[s]))' => Serves(s, target[r])'
  BY <1>2 DEF In
<1>7. \A d \in Daemons : busy'[d] # None => (cur[d] # None /\ Serves(cur[d], d) /\ target[busy[d]] = d)'
  BY <1>3
<1>8. \A r \in Reqs, d \in Daemons :
        Open(r)' /\ reg'[d] # None /\ reg'[d].conn = conn'[r] => target'[r] = d
  BY <1>4
<1> HIDE DEF Serves, ServerHolds
<1> QED BY <1>5, <1>6, <1>7, <1>8 DEF Routed

\* A step that brings no entry and changes no call keeps the whole invariant.
LEMMA PlainKeep ==
    ASSUME RepliesInv, LinkTypes', Linked, Travels, InHand, CallsKept,
           procs' \in [Daemons -> SUBSET Reqs]
    PROVE  RepliesInv'
<1>1. Routed'
  <2>1. \A r \in Reqs, d \in Daemons :
          Open(r) /\ reg'[d] # None /\ reg'[d].conn = conn[r] => target[r] = d
    BY DEF RepliesInv, Routed, Linked, EntriesKept
  <2> QED BY <2>1, RoutedKept DEF Linked
<1>2. CallTypes' /\ Asked'
  BY DEF RepliesInv, CallTypes, Asked, Issued, CallsKept
<1>3. PendingIsOwed'
  BY DEF RepliesInv, PendingIsOwed, Linked, EntriesKept, CallsKept
<1>4. LostOnlyByReplacement'
  <2>1. ASSUME NEW r \in Reqs, caller[r] = "waiting" PROVE target[r] \in Daemons
    BY <2>1 DEF RepliesInv, Routed, Open, Serves
  <2> QED BY <2>1 DEF RepliesInv, LostOnlyByReplacement, Linked, EntriesKept, CallsKept
<1> QED BY <1>1, <1>2, <1>3, <1>4 DEF RepliesInv, Linked

\* What is in a queue that has grown, and where.
LEMMA GrowsAt ==
    ASSUME NEW P, NEW Q, NEW F, \A t \in Sockets : Q[t] \in Seq(F),
           NEW s, NEW r \in F, Grows(P, Q, s, r), NEW x \in Reqs, NEW t \in Sockets, In(x, P[t])
    PROVE  In(x, Q[t]) \/ (x = r /\ t = s)
BY GrowsIn DEF In

\* The task moves the head of its channel to the socket.
LEMMA ForwardKeeps ==
    ASSUME RepliesInv, FlowInv, LinkTypes, LinkTypes', NEW s \in Sockets, Forward(s)
    PROVE  RepliesInv'
<1> USE DEF serverVars, netVars, daemonVars, callVars
<1> DEFINE r == Head(chan[s])
<1>0. FlowTypes /\ ServerTypes /\ Wired /\ Routed /\ CallTypes
  BY DEF FlowInv, RepliesInv
<1>1. /\ chan[s] # <<>> /\ down' = Sent(down, s, r, DaemonHolds(s))
      /\ chan' = [chan EXCEPT ![s] = Tail(@)]
      /\ UNCHANGED <<reg, task, tid, net, owner, cur, up, busy, procs>> /\ CallsKept
  BY DEF Forward, CallsKept
<1>2. /\ r \in Reqs /\ In(r, chan[s])
      /\ \A t \in Sockets : chan[t] \in Seq(Reqs) /\ down[t] \in Seq(DownFrames \cup Reqs)
  <2>1. \A t \in Sockets : chan[t] \in Seq(Reqs) /\ down[t] \in Seq(DownFrames \cup Reqs)
    BY <1>0 DEF FlowTypes, DownQ
  <2>2. r = chan[s][1] /\ 1 \in 1 .. Len(chan[s])
    BY <1>1, <2>1, LosesHead
  <2>3. r \in Reqs
    BY <1>1, <2>1
  <2> QED BY <2>1, <2>2, <2>3 DEF In
<1> HIDE DEF r
<1>3. Serves(s, target[r])
  BY <1>0, <1>2 DEF Routed
<1>4. Grows(down', down, s, r)
  BY <1>0, <1>1 DEF Grows, Sent, FlowTypes
<1>5. \A x \in Reqs, t \in Sockets : In(x, down'[t]) => In(x, down[t]) \/ (x = r /\ t = s)
  BY <1>2, <1>4, GrowsAt
<1>6. \A x \in Reqs, t \in Sockets : In(x, chan'[t]) => In(x, chan[t])
  <2>1. \A t \in Sockets : Loses(chan'[t], chan[t])
    BY <1>0, <1>1, <1>2, LosesHead, LosesSame DEF FlowTypes
  <2> QED BY <2>1, LosesIn
<1>7. Travels
  BY <1>0, <1>1, <1>3, <1>5, <1>6 DEF Travels, Routed
<1>8. InHand
  BY <1>0, <1>1, HandKept
<1> QED BY <1>0, <1>1, <1>7, <1>8, SameWired, PlainKeep DEF CallTypes

\* A daemon takes up a request that was sent to it.
LEMMA BeginKeeps ==
    ASSUME RepliesInv, FlowInv, LinkTypes, LinkTypes', NEW d \in Daemons, NEW r \in Reqs, Begin(d, r),
           procs' \in [Daemons -> SUBSET Reqs]
    PROVE  RepliesInv'
<1> USE DEF serverVars, netVars, daemonVars, callVars
<1>0. FlowTypes /\ ServerTypes /\ Wired /\ Routed
  BY DEF FlowInv, RepliesInv
<1>1. /\ Receives(d, r) /\ Consume(d) /\ busy' = [busy EXCEPT ![d] = r]
      /\ UNCHANGED <<reg, task, tid, net, owner, cur, up, chan>> /\ CallsKept
  BY DEF Begin, CallsKept
<1>2. /\ cur[d] \in Sockets /\ cur[d] # None /\ In(r, down[cur[d]])
  <2>1. cur[d] \in Sockets /\ cur[d] # None /\ down[cur[d]] # <<>> /\ r = Head(down[cur[d]])
    BY <1>1 DEF Receives, LinkTypes
  <2>2. down[cur[d]] \in Seq(DownFrames \cup Reqs)
    BY <1>0, <2>1 DEF FlowTypes, DownQ
  <2>3. r = down[cur[d]][1] /\ 1 \in 1 .. Len(down[cur[d]])
    BY <2>1, <2>2, LosesHead
  <2> QED BY <2>1, <2>3 DEF In
<1>3. Serves(cur[d], target[r]) /\ owner[cur[d]] = d
  BY <1>0, <1>2 DEF Routed, Wired
<1>4. DownLoses /\ UpLoses /\ ChanLoses
  BY <1>0, <1>1, ReadDown, KeepUp, KeepChan
<1>5. InHand
  <2>1. ASSUME NEW e \in Daemons, busy'[e] # None
        PROVE  cur'[e] # None /\ Serves(cur'[e], e) /\ target[busy'[e]] = e
    <3>1. CASE e = d
      BY <1>0, <1>1, <1>2, <1>3, <3>1 DEF FlowTypes, Serves
    <3>2. CASE e # d
      BY <1>0, <1>1, <2>1, <3>2 DEF FlowTypes, Routed
    <3> QED BY <3>1, <3>2
  <2> QED BY <2>1 DEF InHand
<1> QED BY <1>0, <1>1, <1>4, <1>5, LosesTravels, SameWired, PlainKeep

\* The response goes back on the daemon's socket.
LEMMA RespondKeeps ==
    ASSUME RepliesInv, FlowInv, LinkTypes, LinkTypes', NEW d \in Daemons, busy[d] \in Reqs, Respond(d),
           procs' \in [Daemons -> SUBSET Reqs]
    PROVE  RepliesInv'
<1> USE DEF serverVars, netVars, daemonVars, callVars
<1> DEFINE r == busy[d]
           s == cur[d]
<1>0. FlowTypes /\ ServerTypes /\ Wired /\ Routed
  BY DEF FlowInv, RepliesInv
<1>1. /\ up' = Sent(up, s, r, ServerHolds(s))
      /\ busy' = [busy EXCEPT ![d] = None]
      /\ UNCHANGED <<reg, task, tid, net, owner, cur, down, chan>> /\ CallsKept
  BY DEF Respond, CallsKept
<1>2. Serves(s, target[r]) /\ r \in Reqs
  BY <1>0, FramesAreNoRequests DEF Routed
<1>3. \A e \in Daemons : busy'[e] # None => busy'[e] = busy[e] /\ cur'[e] = cur[e]
  BY <1>0, <1>1 DEF FlowTypes
<1> HIDE DEF r, s
<1>4. Grows(up', up, s, r) /\ \A t \in Sockets : up[t] \in Seq(UpFrames \cup Reqs)
  BY <1>0, <1>1 DEF Grows, Sent, FlowTypes, UpQ
<1>5. \A x \in Reqs, t \in Sockets : In(x, up'[t]) => In(x, up[t]) \/ (x = r /\ t = s)
  BY <1>2, <1>4, GrowsAt
<1>6. Travels
  BY <1>0, <1>1, <1>2, <1>5 DEF Travels, Routed
<1> QED BY <1>0, <1>1, <1>3, <1>6, HandKept, SameWired, PlainKeep

\* A daemon's steps.
LEMMA DaemonKeeps ==
    ASSUME RepliesInv, FlowInv, LinkTypes, LinkTypes', NEW d \in Daemons, DaemonStep(d)
    PROVE  RepliesInv'
<1> USE DEF serverVars, netVars, daemonVars, callVars
<1>0. FlowTypes /\ ServerTypes /\ Wired /\ Routed /\ CallTypes
  BY DEF FlowInv, RepliesInv
<1>1. ASSUME NEW r \in Reqs, StartCommand(d, r) \/ StartSnapshotCall(d, r) PROVE RepliesInv'
  <2>1. Begin(d, r) /\ procs' \in [Daemons -> SUBSET Reqs]
    BY <1>0, <1>1 DEF StartCommand, StartSnapshotCall, CallTypes
  <2> QED BY <2>1, BeginKeeps
<1>2. ASSUME FinishCommand(d) \/ TimeoutCommand(d) \/ AnswerSnapshotCall(d) PROVE RepliesInv'
  <2>1. Respond(d) /\ busy[d] \in Reqs /\ procs' \in [Daemons -> SUBSET Reqs]
    BY <1>0, <1>2, ReqsAssumption
       DEF FinishCommand, TimeoutCommand, AnswerSnapshotCall, SnapshotCalls, CallTypes
  <2> QED BY <2>1, RespondKeeps
<1>3. ASSUME DownLoses, UpLoses, UNCHANGED chan, CallsKept, Linked, procs' \in [Daemons -> SUBSET Reqs],
             \A e \in Daemons : busy'[e] # None => busy'[e] = busy[e] /\ cur'[e] = cur[e]
      PROVE  RepliesInv'
  BY <1>0, <1>3, KeepChan, LosesTravels, HandKept, PlainKeep
<1>4. ASSUME NEW r \in Reqs, StrayExits(d, r) PROVE RepliesInv'
  <2>1. UNCHANGED <<reg, task, tid, net, owner, cur, up, down, chan, busy>> /\ CallsKept
        /\ procs' \in [Daemons -> SUBSET Reqs]
    BY <1>0, <1>4 DEF StrayExits, vars, CallsKept, CallTypes
  <2> QED BY <1>0, <1>3, <2>1, KeepDown, KeepUp, SameWired
<1>5. ASSUME LeaveUnanswered(d) PROVE RepliesInv'
  <2>1. /\ UNCHANGED <<reg, task, tid, net, owner, cur, up, down, chan, procs>> /\ CallsKept
        /\ busy' = [busy EXCEPT ![d] = None]
    BY <1>5 DEF LeaveUnanswered, CallsKept
  <2>2. \A e \in Daemons : busy'[e] # None => busy'[e] = busy[e] /\ cur'[e] = cur[e]
    BY <1>0, <2>1 DEF FlowTypes
  <2> QED BY <1>0, <1>3, <2>1, <2>2, KeepDown, KeepUp, SameWired DEF CallTypes
<1>6. ASSUME LoopStep(d) PROVE RepliesInv'
  <2>1. busy[d] = None /\ UNCHANGED <<chan, busy, procs>> /\ CallsKept
    BY <1>6 DEF LoopStep, rpcVars, CallsKept
  <2>2. Linked /\ \A e \in Daemons : e # d => cur'[e] = cur[e]
    BY <1>0, <1>6, ControlSides, DaemonWired
  <2> QED BY <1>0, <1>3, <1>6, <2>1, <2>2, DaemonSteps DEF CallTypes
<1>7. ASSUME Background(d) PROVE RepliesInv'
  <2>1. UNCHANGED <<chan, busy, procs, cur>> /\ CallsKept
    BY <1>7 DEF Background, Heartbeat, Reap, EntryAges, AckAges, rpcVars, CallsKept
  <2>2. Linked
    BY <1>0, <1>7, ControlSides, DaemonWired
  <2> QED BY <1>0, <1>3, <1>7, <2>1, <2>2, DaemonSteps DEF CallTypes
<1>8. ASSUME CrashBusy(d) PROVE RepliesInv'
  <2>1. /\ DaemonCrash(d) /\ busy' = [busy EXCEPT ![d] = None] /\ procs' = [procs EXCEPT ![d] = {}]
        /\ UNCHANGED chan /\ CallsKept
    BY <1>8 DEF CrashBusy, CallsKept
  <2>2. Linked /\ \A e \in Daemons : e # d => cur'[e] = cur[e]
    BY <1>0, <1>8, ControlSides, DaemonWired
  <2>3. \A e \in Daemons : busy'[e] # None => busy'[e] = busy[e] /\ cur'[e] = cur[e]
    BY <1>0, <2>1, <2>2 DEF FlowTypes
  <2>4. procs' \in [Daemons -> SUBSET Reqs]
    BY <1>0, <2>1 DEF CallTypes
  <2> QED BY <1>0, <1>3, <2>1, <2>2, <2>3, <2>4, DaemonSteps
<1> QED BY <1>1, <1>2, <1>4, <1>5, <1>6, <1>7, <1>8 DEF DaemonStep

-----------------------------------------------------------------------------
(* The controller's steps. *)

\* A response clears its entry on the registered connection; it is lost only
\* when that is another one than the caller's.
LEMMA CompleteKeeps ==
    ASSUME RepliesInv, FlowInv, SenderInv, LinkTypes, LinkTypes',
           NEW s \in Sockets, NEW r \in Reqs, CompleteRequest(s, r)
    PROVE  RepliesInv'
<1> USE DEF serverVars, netVars, daemonVars, callVars
<1>0. FlowTypes /\ ServerTypes /\ Wired /\ Routed /\ CallTypes /\ Asked
  BY DEF FlowInv, RepliesInv
<1> DEFINE d == target[r]
<1>1. /\ task[s] = "run" /\ up[s] # <<>> /\ Head(up[s]) = r
      /\ up' = [up EXCEPT ![s] = Tail(@)] /\ replied' = replied \cup {r}
      /\ UNCHANGED <<reg, task, tid, net, owner, cur, down, chan, busy, procs, caller, target, conn, link>>
  BY DEF CompleteRequest, Reads
<1>2. IF tid[s] # None /\ reg[tid[s]] # None /\ <<reg[tid[s]].conn, r>> \in pending
      THEN /\ pending' = pending \ {<<reg[tid[s]].conn, r>>}
           /\ slot' = IF caller[r] = "waiting" THEN slot \cup {r} ELSE slot
      ELSE UNCHANGED <<pending, slot>>
  BY DEF CompleteRequest
<1>3. In(r, up[s])
  <2>1. up[s] \in Seq(UpFrames \cup Reqs)
    BY <1>0 DEF FlowTypes, UpQ
  <2> QED BY <1>1, <2>1, LosesHead DEF In
<1>4. d \in Daemons /\ tid[s] = d /\ d # None
  BY <1>0, <1>1, <1>3, NoneAssumption DEF Routed, Serves, ServerHolds
<1>5. Issued(r)
  BY <1>3 DEF FlowInv, Causal
<1> HIDE DEF d
<1>6. Linked
  BY <1>0, <1>1, SameWired
<1>7. DownLoses /\ UpLoses /\ ChanLoses
  <2>1. UpLoses
    BY <1>0, <1>1, ReadUp
  <2> QED BY <1>0, <1>1, <2>1, KeepDown, KeepChan
<1>8. Travels /\ InHand
  BY <1>0, <1>1, <1>7, LosesTravels, HandKept
<1>9. pending' \subseteq pending
  BY <1>2
<1>10. CallTypes' /\ Asked'
  BY <1>0, <1>1, <1>5, <1>9 DEF CallTypes, Asked, Issued
<1>11. Routed'
  <2>1. \A x \in Reqs : Open(x)' <=> Open(x)
    BY <1>1 DEF Open
  <2>2. \A x \in Reqs, t \in Sockets : /\ In(x, chan[t])' => In(x, chan'[t])
                                       /\ In(x, down[t])' => In(x, down'[t])
                                       /\ In(x, up[t])' => In(x, up'[t])
    BY DEF In
  <2>3. \A t, e : Serves(t, e)' <=> Serves(t, e)
    BY <1>1 DEF Serves, ServerHolds
  <2> QED BY <1>0, <1>1, <1>8, <2>1, <2>2, <2>3 DEF Routed, Travels, InHand
<1>12. PendingIsOwed'
  <2>1. ASSUME NEW e \in Daemons, NEW x \in Reqs, reg'[e] # None, <<reg'[e].conn, x>> \in pending'
        PROVE  target'[x] = e /\ x \notin replied'
    <3>1. target[x] = e /\ x \notin replied
      BY <1>1, <1>9, <2>1 DEF RepliesInv, PendingIsOwed
    <3>2. x # r
      <4>1. ASSUME x = r PROVE FALSE
        <5>1. e = d /\ tid[s] = e
          BY <1>4, <3>1, <4>1 DEF d
        <5>2. reg[e] # None /\ <<reg[e].conn, r>> \in pending /\ tid[s] # None
          BY <1>1, <1>4, <1>9, <2>1, <4>1, <5>1
        <5>3. pending' = pending \ {<<reg[e].conn, r>>}
          BY <1>2, <5>1, <5>2
        <5> QED BY <1>1, <2>1, <4>1, <5>3
      <4> QED BY <4>1
    <3> QED BY <1>1, <3>1, <3>2
  <2> QED BY <2>1 DEF PendingIsOwed
<1>13. LostOnlyByReplacement'
  <2>1. ASSUME NEW x \in Reqs, caller'[x] = "waiting", x \in replied', x \notin slot'
        PROVE  reg'[target'[x]] = None \/ reg'[target'[x]].conn # conn'[x]
    <3>1. slot \subseteq slot' /\ x \notin slot
      BY <1>2, <2>1
    <3>2. CASE x \in replied
      BY <1>1, <2>1, <3>1, <3>2 DEF RepliesInv, LostOnlyByReplacement
    <3>3. CASE x \notin replied
      <4>1. x = r /\ caller[r] = "waiting"
        BY <1>1, <2>1, <3>3
      <4>2. <<conn[r], r>> \in pending
        BY <3>3, <4>1 DEF SenderInv
      <4>3. ASSUME reg[d] # None, reg[d].conn = conn[r] PROVE FALSE
        <5>1. tid[s] # None /\ reg[tid[s]] # None /\ <<reg[tid[s]].conn, r>> \in pending
          BY <1>4, <4>2, <4>3
        <5>2. slot' = slot \cup {r}
          BY <1>2, <4>1, <5>1
        <5> QED BY <2>1, <4>1, <5>2
      <4> QED BY <1>1, <4>1, <4>3 DEF d
    <3> QED BY <3>2, <3>3
  <2> QED BY <2>1 DEF LostOnlyByReplacement
<1> QED BY <1>6, <1>10, <1>11, <1>12, <1>13 DEF RepliesInv, Linked

\* A registration brings a connection that no call holds, with an empty map.
LEMMA RegisterKeeps ==
    ASSUME RepliesInv, FlowInv, LinkTypes, LinkTypes', NEW s \in Sockets, NEW c \in Conns, Register(s, c)
    PROVE  RepliesInv'
<1> USE DEF serverVars, netVars, daemonVars, callVars
<1>0. FlowTypes /\ ServerTypes /\ Wired /\ Routed /\ CallTypes /\ Asked
  BY DEF FlowInv, RepliesInv
<1>1. /\ HandleRegister(s, c) /\ \A r \in Reqs : conn[r] # c
      /\ pending' = {p \in pending : p[1] # c}
      /\ UNCHANGED <<caller, target, conn, link, slot, chan, busy, procs, runs, replied>>
  BY DEF Register
<1>2. /\ ServerTypes' /\ Wired' /\ SocketsKept
      /\ owner[s] \in Daemons /\ reg'[owner[s]].conn = c
      /\ \A d \in Daemons : d # owner[s] => reg'[d] = reg[d]
  BY <1>0, <1>1, RegisterWired
<1>3. DownLoses /\ UpLoses /\ ChanLoses /\ UNCHANGED cur
  <2>1. DownLoses /\ UpLoses
    BY <1>0, <1>1, TaskSteps
  <2>2. UNCHANGED cur
    BY <1>1 DEF HandleRegister
  <2> QED BY <1>0, <1>1, <2>1, <2>2, KeepChan
<1>4. Travels /\ InHand
  BY <1>0, <1>1, <1>3, LosesTravels, HandKept
<1>5. CallTypes' /\ Asked'
  BY <1>0, <1>1 DEF CallTypes, Asked, Issued
<1>6. Routed'
  <2>1. \A x \in Reqs : Open(x)' <=> Open(x)
    BY <1>1 DEF Open
  <2>2. ASSUME NEW x \in Reqs, NEW t \in Sockets, In(x, chan[t])' \/ In(x, down[t])' \/ In(x, up[t])'
        PROVE  Serves(t, target[x])
    BY <1>4, <2>2 DEF In, Travels
  <2>3. ASSUME NEW t \in Sockets, NEW e, Serves(t, e)
        PROVE  /\ e \in Daemons /\ net'[t] # "unused" /\ owner'[t] = e
               /\ task'[t] \in {"run", "beat", "cleanup"} => tid'[t] = e
    BY <1>2, <2>3, ServesKept
  <2>4. ASSUME NEW x \in Reqs, Open(x)'
        PROVE  (conn[x] \in Conns /\ link[x] \in Sockets /\ Serves(link[x], target[x]))'
    <3>1. conn[x] \in Conns /\ link[x] \in Sockets /\ Serves(link[x], target[x])
      BY <1>0, <2>1, <2>4 DEF Routed
    <3> QED BY <1>1, <2>3, <3>1 DEF Serves, ServerHolds
  <2>5. ASSUME NEW x \in Reqs, NEW t \in Sockets, In(x, chan[t])' \/ In(x, down[t])' \/ In(x, up[t])'
        PROVE  Serves(t, target[x])'
    <3>1. Serves(t, target[x])
      BY <2>2, <2>5
    <3> QED BY <1>1, <2>3, <3>1 DEF Serves, ServerHolds
  <2>6. ASSUME NEW e \in Daemons, busy'[e] # None
        PROVE  (cur[e] # None /\ Serves(cur[e], e) /\ target[busy[e]] = e)'
    <3>1. cur[e] # None /\ Serves(cur[e], e) /\ target[busy[e]] = e /\ cur[e] \in Sockets
      BY <1>0, <1>1, <2>6 DEF Routed, LinkTypes
    <3> QED BY <1>1, <1>3, <2>3, <3>1 DEF Serves, ServerHolds
  <2>7. ASSUME NEW x \in Reqs, NEW e \in Daemons, Open(x)', reg'[e] # None, reg'[e].conn = conn'[x]
        PROVE  target'[x] = e
    <3>1. e # owner[s] /\ reg'[e] = reg[e]
      BY <1>1, <1>2, <2>7
    <3> QED BY <1>0, <1>1, <2>1, <2>7, <3>1 DEF Routed
  <2> QED BY <2>4, <2>5, <2>6, <2>7 DEF Routed
<1>7. PendingIsOwed'
  <2>1. ASSUME NEW e \in Daemons, NEW x \in Reqs, reg'[e] # None, <<reg'[e].conn, x>> \in pending'
        PROVE  target'[x] = e /\ x \notin replied'
    <3>1. reg'[e].conn # c /\ <<reg'[e].conn, x>> \in pending
      BY <1>1, <2>1
    <3>2. reg'[e] = reg[e]
      BY <1>2, <3>1
    <3> QED BY <1>1, <2>1, <3>1, <3>2 DEF RepliesInv, PendingIsOwed
  <2> QED BY <2>1 DEF PendingIsOwed
<1>8. LostOnlyByReplacement'
  <2>1. ASSUME NEW x \in Reqs, caller'[x] = "waiting", x \in replied', x \notin slot'
        PROVE  reg'[target'[x]] = None \/ reg'[target'[x]].conn # conn'[x]
    <3>1. target[x] \in Daemons
      BY <1>0, <1>1, <2>1 DEF Routed, Open, Serves
    <3>2. reg[target[x]] = None \/ reg[target[x]].conn # conn[x]
      BY <1>1, <2>1 DEF RepliesInv, LostOnlyByReplacement
    <3> QED BY <1>1, <1>2, <3>1, <3>2
  <2> QED BY <2>1 DEF LostOnlyByReplacement
<1> QED BY <1>2, <1>5, <1>6, <1>7, <1>8 DEF RepliesInv

\* A task's steps.
LEMMA SocketKeeps ==
    ASSUME RepliesInv, FlowInv, SenderInv, LinkTypes, LinkTypes', NEW s \in Sockets,
           SocketStep(s) \/ PathBreaks(s)
    PROVE  RepliesInv'
<1> USE DEF serverVars, netVars, daemonVars, callVars
<1>0. FlowTypes /\ ServerTypes /\ Wired /\ Routed /\ CallTypes
  BY DEF FlowInv, RepliesInv
<1>1. ASSUME DownLoses, UpLoses, ChanLoses, CallsKept, Linked, UNCHANGED <<busy, cur, procs>>
      PROVE  RepliesInv'
  BY <1>0, <1>1, LosesTravels, HandKept, PlainKeep DEF CallTypes
<1>2. ASSUME ForwardFails(s) PROVE RepliesInv'
  <2>1. /\ task[s] = "run" /\ chan[s] # <<>> /\ LeaveLoop(s) /\ chan' = [chan EXCEPT ![s] = Tail(@)]
        /\ UNCHANGED <<busy, procs, cur>> /\ CallsKept
    BY <1>2 DEF ForwardFails, LeaveLoop, CallsKept
  <2>2. ChanLoses
    BY <1>0, <2>1, LosesHead, LosesSame DEF FlowTypes, ChanLoses
  <2> QED BY <1>0, <1>1, <1>2, <2>1, <2>2, TaskSteps, ControlSides, TaskWired
<1>3. ASSUME DropChannel(s) PROVE RepliesInv'
  <2>1. /\ CleanUp(s) /\ chan' = [chan EXCEPT ![s] = <<>>]
        /\ UNCHANGED <<busy, procs, cur>> /\ CallsKept
    BY <1>3 DEF DropChannel, CleanUp, CallsKept
  <2>2. ChanLoses
    BY <1>0, <2>1, LosesAll, LosesSame DEF FlowTypes, ChanLoses
  <2> QED BY <1>0, <1>1, <1>3, <2>1, <2>2, TaskSteps, ControlSides, TaskWired
<1>4. ASSUME TaskStep(s) PROVE RepliesInv'
  <2>1. UNCHANGED <<chan, busy, procs, cur>> /\ CallsKept
    BY <1>4 DEF TaskStep, RefuseRegister, FindBeat, AckBeat, NackBeat, SeeClose, SeeEof, SeeReset,
                LeaveLoop, rpcVars, CallsKept
  <2>2. ChanLoses
    BY <1>0, <2>1, KeepChan
  <2>3. DownLoses /\ UpLoses
    BY <1>0, <1>4, TaskSteps
  <2>4. Linked
    BY <1>0, <1>4, ControlSides, TaskWired
  <2> QED BY <1>1, <2>1, <2>2, <2>3, <2>4
<1>5. ASSUME PathBreaks(s) PROVE RepliesInv'
  <2>1. Break(s) /\ UNCHANGED <<up, down, chan, busy, procs, cur>> /\ CallsKept
    BY <1>5 DEF PathBreaks, Break, rpcVars, CallsKept
  <2> QED BY <1>0, <1>1, <1>5, <2>1, KeepDown, KeepUp, KeepChan, ControlSides, TaskWired
<1> QED BY <1>2, <1>3, <1>4, <1>5, ForwardKeeps, CompleteKeeps, RegisterKeeps DEF SocketStep

-----------------------------------------------------------------------------
(* The caller's steps. *)

\* One call goes on; what else changes is the end of its own wait, its own
\* entry, and a request it puts into the channel of its own socket.
LEMMA CallGoesOn ==
    ASSUME RepliesInv, FlowInv, NEW r \in Reqs,
           UNCHANGED <<vars, target, busy, procs, replied>>,
           NEW v \in {"pending", "waiting", "answered", "timedout", "sendfailed"},
           Open(r), caller' = [caller EXCEPT ![r] = v],
           v \in {"answered", "timedout"} => caller[r] = "waiting",
           v \in {"waiting", "pending"} => UNCHANGED <<conn, link>>,
           conn' \in [Reqs -> Conns \cup {None}], link' \in [Reqs -> Sockets \cup {None}],
           \A x \in Reqs : x # r => conn'[x] = conn[x] /\ link'[x] = link[x],
           v \notin {"answered", "timedout"} => caller[r] \in {"got", "pending"},
           slot \ {r} \subseteq slot',
           pending' = pending \/ (v = "pending" /\ caller[r] = "got" /\ pending' = pending \cup {<<conn[r], r>>}),
           \A x \in Reqs, t \in Sockets :
               In(x, chan'[t]) => In(x, chan[t]) \/ (x = r /\ t = link[r])
    PROVE  RepliesInv'
<1> USE DEF vars, serverVars, netVars, daemonVars
<1>0. FlowTypes /\ ServerTypes /\ Wired /\ Routed /\ CallTypes /\ Asked
  BY DEF FlowInv, RepliesInv
<1>1. \A x \in Reqs : caller'[x] = IF x = r THEN v ELSE caller[x]
  BY <1>0 DEF FlowTypes
<1>2. \A x \in Reqs : /\ Open(x)' => Open(x) /\ conn'[x] = conn[x] /\ link'[x] = link[x]
                      /\ Issued(x) => Issued(x)'
  BY <1>1 DEF Open, Issued
<1>3. ServerTypes' /\ Wired'
  BY <1>0 DEF ServerTypes, Wired, Serves, ServerHolds
<1>4. conn[r] \in Conns /\ link[r] \in Sockets /\ Serves(link[r], target[r])
  BY <1>0 DEF Routed
<1>5. CallTypes'
  BY <1>0, <1>4 DEF CallTypes
<1>6. \A t, e : Serves(t, e)' <=> Serves(t, e)
  BY DEF Serves, ServerHolds
<1>7. Routed'
  <2>1. \A x \in Reqs : Open(x)' =>
          conn'[x] \in Conns /\ link'[x] \in Sockets /\ Serves(link[x], target[x])'
    <3>1. ASSUME NEW x \in Reqs, Open(x)'
          PROVE  conn'[x] \in Conns /\ link'[x] \in Sockets /\ Serves(link[x], target[x])'
      <4>1. conn[x] \in Conns /\ link[x] \in Sockets /\ Serves(link[x], target[x])
        BY <1>0, <1>2, <3>1 DEF Routed
      <4> QED BY <1>2, <3>1, <4>1 DEF Serves, ServerHolds
    <3> QED BY <3>1
  <2>2. ASSUME NEW x \in Reqs, NEW t \in Sockets, In(x, chan[t])' \/ In(x, down[t])' \/ In(x, up[t])'
        PROVE  Serves(t, target[x])'
    <3>1. In(x, chan'[t]) \/ In(x, down[t]) \/ In(x, up[t])
      BY <2>2 DEF In
    <3>2. Serves(t, target[x])
      BY <1>0, <1>4, <3>1 DEF Routed
    <3> QED BY <3>2 DEF Serves, ServerHolds
  <2>3. \A e \in Daemons : busy'[e] # None => (cur[e] # None /\ Serves(cur[e], e) /\ target[busy[e]] = e)'
    BY <1>0, <1>6 DEF Routed
  <2>4. \A x \in Reqs, e \in Daemons : Open(x)' /\ reg'[e] # None /\ reg'[e].conn = conn'[x] => target'[x] = e
    BY <1>0, <1>2 DEF Routed
  <2> QED BY <2>1, <2>2, <2>3, <2>4 DEF Routed
<1>8. Asked'
  <2>1. \A c \in Conns, x \in Reqs : <<c, x>> \in pending' => caller'[x] \notin {"idle", "got", "notfound"}
    BY <1>0, <1>1 DEF Asked
  <2>2. \A x \in replied' : Issued(x)'
    BY <1>0, <1>2 DEF Asked, CallTypes
  <2> QED BY <2>1, <2>2 DEF Asked
<1>9. PendingIsOwed'
  <2>1. ASSUME NEW e \in Daemons, NEW x \in Reqs, reg'[e] # None, <<reg'[e].conn, x>> \in pending'
        PROVE  target'[x] = e /\ x \notin replied'
    <3>1. CASE <<reg[e].conn, x>> \in pending
      BY <2>1, <3>1 DEF RepliesInv, PendingIsOwed
    <3>2. CASE <<reg[e].conn, x>> \notin pending
      <4>1. x = r /\ reg[e].conn = conn[r] /\ caller[r] = "got"
        BY <2>1, <3>2
      <4>2. target[r] = e
        BY <1>0, <2>1, <4>1 DEF Routed
      <4>3. r \notin replied
        BY <1>0, <4>1 DEF Asked, Issued
      <4> QED BY <4>1, <4>2, <4>3
    <3> QED BY <3>1, <3>2
  <2> QED BY <2>1 DEF PendingIsOwed
<1>10. LostOnlyByReplacement'
  <2>1. ASSUME NEW x \in Reqs, caller'[x] = "waiting", x \in replied', x \notin slot'
        PROVE  reg'[target'[x]] = None \/ reg'[target'[x]].conn # conn'[x]
    <3>1. CASE x = r
      <4>1. caller[r] \in {"got", "pending"} /\ r \in replied
        BY <1>1, <2>1, <3>1
      <4> QED BY <1>0, <4>1 DEF Asked, Issued
    <3>2. CASE x # r
      BY <1>1, <2>1, <3>2 DEF RepliesInv, LostOnlyByReplacement
    <3> QED BY <3>1, <3>2
  <2> QED BY <2>1 DEF LostOnlyByReplacement
<1> QED BY <1>3, <1>5, <1>7, <1>8, <1>9, <1>10 DEF RepliesInv

\* registry.get: the call takes the connection of its daemon, or ends.
LEMMA GetKeeps ==
    ASSUME RepliesInv, FlowInv, NEW r \in Reqs, NEW d \in Daemons, GetConn(r, d)
    PROVE  RepliesInv'
<1> USE DEF vars, serverVars, netVars, daemonVars
<1>0. FlowTypes /\ ServerTypes /\ Wired /\ Routed /\ CallTypes /\ Asked /\ Causal
  BY DEF FlowInv, RepliesInv
<1>1. /\ caller[r] = "idle" /\ target' = [target EXCEPT ![r] = d]
      /\ UNCHANGED <<vars, pending, slot, chan, busy, procs, replied>>
  BY DEF GetConn
<1>2. \/ /\ caller' = [caller EXCEPT ![r] = "notfound"] /\ UNCHANGED <<conn, link>>
      \/ /\ reg[d] # None /\ caller' = [caller EXCEPT ![r] = "got"]
         /\ conn' = [conn EXCEPT ![r] = reg[d].conn] /\ link' = [link EXCEPT ![r] = reg[d].sock]
  BY DEF GetConn
<1>3. /\ reg[d] # None => reg[d].conn \in Conns /\ reg[d].sock \in Sockets /\ Serves(reg[d].sock, d)
  BY <1>0, EntryFacts DEF ServerTypes, Wired
<1>4. ~Issued(r) /\ \A x \in Reqs : Issued(x)' <=> Issued(x)
  BY <1>0, <1>1, <1>2 DEF Issued, FlowTypes
<1>5. \A x \in Reqs : x # r => /\ caller'[x] = caller[x] /\ target'[x] = target[x]
                               /\ conn'[x] = conn[x] /\ link'[x] = link[x]
  BY <1>0, <1>1, <1>2 DEF FlowTypes, CallTypes
<1>6. target'[r] = d /\ caller'[r] \in {"got", "notfound"}
      /\ (caller'[r] = "got" => reg[d] # None /\ conn'[r] = reg[d].conn /\ link'[r] = reg[d].sock)
  BY <1>0, <1>1, <1>2 DEF FlowTypes, CallTypes
<1>7. ServerTypes' /\ Wired'
  BY <1>0, <1>1 DEF ServerTypes, Wired, Serves, ServerHolds
<1>8. CallTypes'
  BY <1>0, <1>1, <1>2, <1>3 DEF CallTypes
<1>9. Asked'
  <2>1. \A c \in Conns, x \in Reqs : <<c, x>> \in pending' => caller'[x] \notin {"idle", "got", "notfound"}
    BY <1>0, <1>1, <1>5 DEF Asked
  <2>2. \A x \in replied' : Issued(x)'
    BY <1>0, <1>1, <1>4 DEF Asked, CallTypes
  <2> QED BY <2>1, <2>2 DEF Asked
<1>10. Routed'
  <2>1. ASSUME NEW x \in Reqs, Open(x)'
        PROVE  conn'[x] \in Conns /\ link'[x] \in Sockets /\ Serves(link[x], target[x])'
    <3>1. CASE x = r
      BY <1>1, <1>3, <1>6, <2>1, <3>1 DEF Open, Serves, ServerHolds
    <3>2. CASE x # r
      <4>1. conn[x] \in Conns /\ link[x] \in Sockets /\ Serves(link[x], target[x])
        BY <1>0, <1>5, <2>1, <3>2 DEF Routed, Open
      <4> QED BY <1>1, <1>5, <3>2, <4>1 DEF Serves, ServerHolds
    <3> QED BY <3>1, <3>2
  <2>2. ASSUME NEW x \in Reqs, NEW t \in Sockets, In(x, chan[t])' \/ In(x, down[t])' \/ In(x, up[t])'
        PROVE  Serves(t, target[x])'
    <3>1. In(x, chan[t]) \/ In(x, down[t]) \/ In(x, up[t])
      BY <1>1, <2>2 DEF In
    <3>2. Issued(x) /\ x # r /\ Serves(t, target[x])
      BY <1>0, <1>4, <3>1 DEF Causal, Routed
    <3> QED BY <1>1, <1>5, <3>2 DEF Serves, ServerHolds
  <2>3. ASSUME NEW e \in Daemons, busy'[e] # None
        PROVE  (cur[e] # None /\ Serves(cur[e], e) /\ target[busy[e]] = e)'
    <3>1. /\ cur[e] # None /\ Serves(cur[e], e) /\ target[busy[e]] = e
          /\ busy[e] \in Reqs /\ Issued(busy[e])
      BY <1>0, <1>1, <2>3 DEF Routed, Causal, FlowTypes
    <3>2. target'[busy[e]] = e
      BY <1>4, <1>5, <3>1
    <3> QED BY <1>1, <3>1, <3>2 DEF Serves, ServerHolds
  <2>4. ASSUME NEW x \in Reqs, NEW e \in Daemons, Open(x)', reg'[e] # None, reg'[e].conn = conn'[x]
        PROVE  target'[x] = e
    <3>1. CASE x = r
      BY <1>0, <1>1, <1>6, <2>4, <3>1 DEF Open, Wired
    <3>2. CASE x # r
      BY <1>0, <1>1, <1>5, <2>4, <3>2 DEF Routed, Open
    <3> QED BY <3>1, <3>2
  <2> QED BY <2>1, <2>2, <2>3, <2>4 DEF Routed
<1>11. PendingIsOwed'
  <2>1. ASSUME NEW e \in Daemons, NEW x \in Reqs, reg'[e] # None, <<reg'[e].conn, x>> \in pending'
        PROVE  target'[x] = e /\ x \notin replied'
    <3>1. target[x] = e /\ x \notin replied /\ reg[e].conn \in Conns
      BY <1>0, <1>1, <2>1, EntryFacts DEF RepliesInv, PendingIsOwed, ServerTypes
    <3>2. x # r
      BY <1>0, <1>1, <2>1, <3>1 DEF Asked
    <3> QED BY <1>1, <1>5, <3>1, <3>2
  <2> QED BY <2>1 DEF PendingIsOwed
<1>12. LostOnlyByReplacement'
  BY <1>1, <1>5, <1>6 DEF RepliesInv, LostOnlyByReplacement
<1> QED BY <1>7, <1>8, <1>9, <1>10, <1>11, <1>12 DEF RepliesInv

\* A caller's step.
LEMMA CallerKeeps ==
    ASSUME RepliesInv, FlowInv, NEW r \in Reqs, Caller(r)
    PROVE  RepliesInv'
<1>0. FlowTypes /\ CallTypes
  BY DEF FlowInv, RepliesInv
<1>1. ASSUME RegisterRequest(r) PROVE RepliesInv'
  <2>1. /\ caller[r] = "got" /\ caller' = [caller EXCEPT ![r] = "pending"]
        /\ pending' = pending \cup {<<conn[r], r>>}
        /\ UNCHANGED <<vars, target, conn, link, slot, chan, busy, procs, runs, replied>>
    BY <1>1 DEF RegisterRequest
  <2> DEFINE v == "pending"
  <2>2. /\ v \in {"pending", "waiting", "answered", "timedout", "sendfailed"} /\ v = "pending"
        /\ Open(r) /\ caller' = [caller EXCEPT ![r] = v]
    BY <2>1 DEF Open
  <2> HIDE DEF v
  <2>3. conn' \in [Reqs -> Conns \cup {None}] /\ link' \in [Reqs -> Sockets \cup {None}]
    BY <1>0, <2>1 DEF CallTypes
  <2> QED BY <2>1, <2>2, <2>3, CallGoesOn
<1>2. ASSUME NEW v \in {"answered", "timedout", "sendfailed"}, Return(r, v), Open(r),
             IF v = "sendfailed" THEN caller[r] = "pending" ELSE caller[r] = "waiting",
             UNCHANGED <<vars, target, pending, chan, busy, procs, replied>>
      PROVE  RepliesInv'
  <2>1. /\ caller' = [caller EXCEPT ![r] = v] /\ conn' = [conn EXCEPT ![r] = None]
        /\ link' = [link EXCEPT ![r] = None] /\ slot' = slot \ {r}
    BY <1>2 DEF Return
  <2>2. /\ conn' \in [Reqs -> Conns \cup {None}] /\ link' \in [Reqs -> Sockets \cup {None}]
        /\ \A x \in Reqs : x # r => conn'[x] = conn[x] /\ link'[x] = link[x]
    BY <1>0, <2>1 DEF CallTypes
  <2> QED BY <1>2, <2>1, <2>2, CallGoesOn
<1>3. ASSUME SendMessage(r) PROVE RepliesInv'
  <2>1. caller[r] = "pending" /\ Open(r) /\ UNCHANGED <<vars, target, pending, busy, procs, runs, replied>>
    BY <1>3 DEF SendMessage, Open
  <2>2. CASE ServerHolds(link[r])
    <3>1. /\ caller' = [caller EXCEPT ![r] = "waiting"] /\ chan' = [chan EXCEPT ![link[r]] = Append(@, r)]
          /\ UNCHANGED <<conn, link, slot>>
      BY <1>3, <2>2 DEF SendMessage
    <3>2. Grows(chan', chan, link[r], r) /\ \A t \in Sockets : chan[t] \in Seq(Reqs)
      BY <1>0, <3>1 DEF Grows, FlowTypes
    <3>3. \A x \in Reqs, t \in Sockets : In(x, chan'[t]) => In(x, chan[t]) \/ (x = r /\ t = link[r])
      BY <3>2, GrowsAt
    <3> DEFINE v == "waiting"
    <3>4. /\ v \in {"pending", "waiting", "answered", "timedout", "sendfailed"} /\ v = "waiting"
          /\ caller' = [caller EXCEPT ![r] = v]
      BY <3>1
    <3> HIDE DEF v
    <3>5. conn' \in [Reqs -> Conns \cup {None}] /\ link' \in [Reqs -> Sockets \cup {None}]
      BY <1>0, <3>1 DEF CallTypes
    <3> QED BY <2>1, <3>1, <3>3, <3>4, <3>5, CallGoesOn
  <2>3. CASE ~ServerHolds(link[r])
    BY <1>2, <1>3, <2>1, <2>3 DEF SendMessage
  <2> QED BY <2>2, <2>3
<1>4. ASSUME TakeResponse(r) \/ CallTimeout(r) PROVE RepliesInv'
  BY <1>2, <1>4 DEF TakeResponse, CallTimeout, Open
<1> QED BY <1>1, <1>3, <1>4, GetKeeps DEF Caller

-----------------------------------------------------------------------------
(* The theorems. *)

\* No connection, entry or request at first.
LEMMA RepliesInit == RpcInit => RepliesInv
<1> SUFFICES ASSUME RpcInit PROVE RepliesInv
  OBVIOUS
<1>1. ServerTypes /\ CallTypes
  BY DEF RpcInit, Init, ServerTypes, CallTypes
<1>2. \A r \in Reqs, s \in Sockets : ~In(r, chan[s]) /\ ~In(r, down[s]) /\ ~In(r, up[s])
  BY DEF RpcInit, Init, In
<1>3. Wired
  BY DEF RpcInit, Init, Wired
<1>4. Routed
  BY <1>2 DEF RpcInit, Init, Routed, Open
<1>5. Asked /\ PendingIsOwed /\ LostOnlyByReplacement
  BY DEF RpcInit, Init, Asked, PendingIsOwed, LostOnlyByReplacement
<1> QED BY <1>1, <1>3, <1>4, <1>5 DEF RepliesInv

\* RepliesInv is inductive.
LEMMA RepliesStep ==
    RepliesInv /\ FlowInv /\ SenderInv /\ LinkTypes /\ LinkTypes' /\ [RpcNext]_allVars => RepliesInv'
<1> SUFFICES ASSUME RepliesInv, FlowInv, SenderInv, LinkTypes, LinkTypes', [RpcNext]_allVars
             PROVE  RepliesInv'
  OBVIOUS
<1>1. CASE RpcNext
  BY <1>1, CallerKeeps, SocketKeeps, DaemonKeeps DEF RpcNext
<1>2. CASE UNCHANGED allVars
  <2>1. UNCHANGED <<reg, task, tid, net, owner, cur, up, down, chan, busy, procs>> /\ CallsKept
    BY <1>2 DEF allVars, vars, serverVars, netVars, daemonVars, rpcVars, callVars, CallsKept
  <2>2. DownLoses /\ UpLoses /\ ChanLoses
    BY <2>1, KeepDown, KeepUp, KeepChan DEF FlowInv
  <2>3. Travels /\ InHand
    BY <2>1, <2>2, LosesTravels, HandKept DEF RepliesInv
  <2> QED BY <2>1, <2>3, SameWired, PlainKeep DEF RepliesInv, CallTypes
<1> QED BY <1>1, <1>2

\* RepliesInv holds in every state, with the invariants of RpcProofs.
LEMMA RepliesAlways == RpcSpec => [](RepliesInv /\ FlowInv)
<1>1. RpcInit => SenderInv
  BY DEF RpcInit, SenderInv
<1>2. RpcInit => LinkTypes
  BY DEF RpcInit, Init, LinkTypes
<1> QED BY <1>1, <1>2, FlowInit, FlowStep, LinkStep, SenderStep, RepliesInit, RepliesStep, PTL DEF RpcSpec

\* Every variable of a call, a pending map and a request channel keeps its type.
THEOREM RpcTypes == RpcSpec => []RpcTypeOK
<1>1. RepliesInv /\ FlowInv => RpcTypeOK
  BY DEF RepliesInv, FlowInv, FlowTypes, CallTypes, RpcTypeOK, DownQ, UpQ
<1> QED BY <1>1, RepliesAlways, PTL

\* complete_request drops a response that is still awaited only when the
\* connection it was asked through is no longer the registered one (it was
\* evicted or replaced): nothing that other calls or daemons do can lose it.
THEOREM LostByReplacementOnly == RpcSpec => []LostOnlyByReplacement
<1>1. RepliesInv => LostOnlyByReplacement
  BY DEF RepliesInv
<1> QED BY <1>1, RepliesAlways, PTL

\* The pending map of a registered connection, which the listing counts, has
\* only requests for that daemon whose response has not been read.
THEOREM PendingAlwaysOwed == RpcSpec => []PendingIsOwed
<1>1. RepliesInv => PendingIsOwed
  BY DEF RepliesInv
<1> QED BY <1>1, RepliesAlways, PTL

-----------------------------------------------------------------------------
(* The registration ack is still first when requests share the queue. *)

\* Only a serving daemon has a request in hand.
LoopInv ==
    /\ pc \in [Daemons -> {"backoff", "regwait", "serving", "stopped"}]
    /\ \A d \in Daemons : busy[d] # None => pc[d] = "serving"

AckFlow == RepliesInv /\ FlowInv /\ LoopInv

\* The queues of requests are such as the lemmas about AckInv ask for.
LEMMA RpcQueues == AckFlow => LinkQueues(DownFrames \cup Reqs, UpFrames \cup Reqs)
BY DEF AckFlow, RepliesInv, FlowInv, FlowTypes, LoopInv, LinkQueues, DownQ, UpQ

\* LoopInv is kept: the loop polls nothing while it handles a request.
LEMMA LoopKept == AckFlow /\ [RpcNext]_allVars => LoopInv'
<1> SUFFICES ASSUME AckFlow, [RpcNext]_allVars PROVE LoopInv'
  OBVIOUS
<1> USE DEF vars, serverVars, netVars, daemonVars, rpcVars, callVars
<1>0. LoopInv /\ FlowTypes
  BY DEF AckFlow, FlowInv
<1>1. CASE UNCHANGED <<pc, busy>>
  BY <1>0, <1>1 DEF LoopInv
<1>2. ASSUME NEW r \in Reqs, Caller(r) PROVE UNCHANGED <<pc, busy>>
  BY <1>2 DEF Caller, GetConn, RegisterRequest, SendMessage, TakeResponse, CallTimeout
<1>3. ASSUME NEW s \in Sockets, SocketStep(s) \/ PathBreaks(s) PROVE UNCHANGED <<pc, busy>>
  <2>1. CASE TaskStep(s)
    BY <2>1 DEF TaskStep, RefuseRegister, FindBeat, AckBeat, NackBeat, SeeClose, SeeEof, SeeReset, LeaveLoop
  <2>2. CASE Forward(s) \/ ForwardFails(s) \/ DropChannel(s) \/ PathBreaks(s)
    BY <2>2 DEF Forward, ForwardFails, LeaveLoop, DropChannel, CleanUp, PathBreaks, Break
  <2>3. CASE \/ \E c \in Conns : Register(s, c)
             \/ \E r \in Reqs : CompleteRequest(s, r)
    BY <2>3 DEF Register, HandleRegister, CompleteRequest
  <2> QED BY <1>3, <2>1, <2>2, <2>3 DEF SocketStep
<1>4. ASSUME NEW d \in Daemons, DaemonStep(d) PROVE LoopInv'
  <2>1. ASSUME NEW r \in Reqs, Begin(d, r) PROVE LoopInv'
    BY <1>0, <2>1 DEF Begin, LoopInv, FlowTypes
  <2>2. CASE Respond(d) \/ LeaveUnanswered(d)
    BY <1>0, <2>2 DEF Respond, LeaveUnanswered, LoopInv, FlowTypes
  <2>3. CASE LoopStep(d)
    <3>1. /\ busy[d] = None /\ busy' = busy
          /\ \E p \in {"backoff", "regwait", "serving", "stopped"} : pc' = [pc EXCEPT ![d] = p] \/ pc' = pc
      BY <2>3 DEF LoopStep, Connect, Registered, Refused, UnexpectedFirst, LoseSocket, AckTimeout,
                  RecvBeatAck, RecvOther, Shutdown, Leave
    <3> QED BY <1>0, <3>1 DEF LoopInv, FlowTypes
  <2>4. CASE CrashBusy(d)
    BY <1>0, <2>4 DEF CrashBusy, DaemonCrash, Leave, LoopInv, FlowTypes
  <2>5. CASE Background(d) \/ \E r \in Reqs : StrayExits(d, r)
    BY <1>1, <2>5 DEF Background, Heartbeat, Reap, EntryAges, AckAges, StrayExits
  <2> QED BY <1>4, <2>1, <2>2, <2>3, <2>4, <2>5
          DEF DaemonStep, StartCommand, StartSnapshotCall, FinishCommand, TimeoutCommand, AnswerSnapshotCall
<1>5. CASE UNCHANGED allVars
  BY <1>1, <1>5 DEF allVars
<1> QED BY <1>1, <1>2, <1>3, <1>4, <1>5 DEF RpcNext

\* No request is forwarded before Register is answered: it was queued for a
\* connection, and the task of the socket has no daemon yet.
LEMMA ForwardAcks ==
    ASSUME AckFlow, AckInv, NEW s \in Sockets, Forward(s)
    PROVE  AckInv'
<1> USE DEF serverVars, netVars, daemonVars
<1> DEFINE F == DownFrames \cup Reqs
           G == UpFrames \cup Reqs
           r == Head(chan[s])
<1>0. LinkQueues(F, G) /\ ServerTypes /\ Wired /\ Routed /\ FlowTypes /\ CallTypes
  BY RpcQueues DEF AckFlow, RepliesInv, FlowInv
<1>1. /\ task[s] = "run" /\ chan[s] # <<>> /\ down' = Sent(down, s, r, DaemonHolds(s))
      /\ UNCHANGED <<reg, task, tid, net, owner, up, pc, cur>>
  BY DEF Forward
<1>2. r \in Reqs /\ In(r, chan[s])
  <2>1. chan[s] \in Seq(Reqs) /\ chan[s] # <<>>
    BY <1>0, <1>1 DEF FlowTypes
  <2>2. r = chan[s][1] /\ 1 \in 1 .. Len(chan[s]) /\ r \in Reqs
    BY <2>1
  <2> QED BY <2>2 DEF In
<1>3. tid[s] # None /\ net[s] # "unused"
  BY <1>0, <1>1, <1>2, NoneFacts DEF Routed, Serves, ServerHolds
<1> HIDE DEF F, G, r
<1>4. down \in [Sockets -> Seq(F)] /\ r \in F
  BY <1>0, <1>2 DEF LinkQueues, F
<1>5. /\ \A t \in Sockets : t # s => down'[t] = down[t]
      /\ down'[s] = down[s] \/ down'[s] = Append(down[s], r)
      /\ net[s] # "up" => down'[s] = down[s]
  <2>1. ASSUME NEW h
        PROVE  /\ \A t \in Sockets : t # s => Sent(down, s, r, h)[t] = down[t]
               /\ Sent(down, s, r, h)[s] = IF net[s] = "up" /\ h THEN Append(down[s], r) ELSE down[s]
    BY <1>4, SentAt
  <2> QED BY <1>1, <2>1
<1>6. ASSUME AckDue(s) PROVE AckEffect(F, s)
  BY <1>1, <1>3, <1>4, <1>5, <1>6 DEF AckDue, AckEffect, ServerHolds
<1>7. ASSUME NEW t \in Sockets, t # s PROVE AckEffect(F, t)
  BY <1>1, <1>5, <1>7 DEF AckEffect
<1>8. \A t \in Sockets : /\ net[t] # "unused" => net'[t] # "unused"
                         /\ net[t] = "unused" => down'[t] = down[t] /\ tid'[t] = tid[t]
                         /\ AckDue(t) => AckEffect(F, t)
  BY <1>1, <1>3, <1>5, <1>6, <1>7
<1>9. UNCHANGED <<pc, cur>>
  BY <1>1
<1> QED BY <1>0, <1>8, <1>9, AckStays

\* AckInv is inductive, given the others.
LEMMA AckStep == AckFlow /\ AckInv /\ [RpcNext]_allVars => AckInv'
<1> SUFFICES ASSUME AckFlow, AckInv, [RpcNext]_allVars PROVE AckInv'
  OBVIOUS
<1> USE DEF vars, serverVars, netVars, daemonVars
<1> DEFINE F == DownFrames \cup Reqs
           G == UpFrames \cup Reqs
<1>0. LinkQueues(F, G) /\ FlowTypes /\ LoopInv /\ LinkTypes
  BY RpcQueues DEF AckFlow, RepliesInv, FlowInv, ServerTypes, LinkTypes
<1> HIDE DEF F, G
<1>1. CASE UNCHANGED vars
  BY <1>1 DEF AckInv, AckDue, ServerHolds
<1>2. ASSUME NEW r \in Reqs, Caller(r) PROVE UNCHANGED vars
  BY <1>2 DEF Caller, GetConn, RegisterRequest, SendMessage, TakeResponse, CallTimeout
<1>3. ASSUME NEW s \in Sockets, SocketStep(s) \/ PathBreaks(s) PROVE AckInv'
  <2>1. CASE TaskStep(s) \/ ForwardFails(s) \/ DropChannel(s) \/ PathBreaks(s)
    BY <1>0, <2>1, ControlSides, AckTask
  <2>2. CASE \E c \in Conns : Register(s, c)
    BY <1>0, <2>2, AckTask DEF Register
  <2>3. ASSUME NEW r \in Reqs, CompleteRequest(s, r) PROVE AckInv'
    <3>1. /\ task[s] = "run" /\ Head(up[s]) = r /\ up' = [up EXCEPT ![s] = Tail(@)]
          /\ UNCHANGED <<task, tid, net, owner, down, pc, cur>>
      BY <2>3 DEF CompleteRequest, Reads
    <3>2. r # "Register"
      BY FramesAreNoRequests DEF UpFrames
    <3>3. AckDue(s) => AckEffect(F, s)
      BY <3>1, <3>2 DEF AckDue, AckEffect, ServerHolds
    <3>4. \A t \in Sockets : t # s => AckEffect(F, t)
      BY <1>0, <3>1 DEF AckEffect, LinkQueues
    <3>5. UNCHANGED <<pc, cur, net, tid, down>>
      BY <3>1
    <3> QED BY <1>0, <3>3, <3>4, <3>5, AckStays
  <2> QED BY <1>3, <2>1, <2>2, <2>3, ForwardAcks DEF SocketStep
<1>4. ASSUME NEW d \in Daemons, DaemonStep(d) PROVE AckInv'
  <2>1. CASE LoopStep(d) \/ Background(d) \/ CrashBusy(d)
    BY <1>0, <2>1, ControlSides, AckDaemon
  <2>2. CASE (\E r \in Reqs : Begin(d, r)) \/ (busy[d] # None /\ Respond(d))
    <3>1. pc[d] = "serving" /\ UNCHANGED <<net, task, tid, pc, cur>>
      BY <1>0, <2>2 DEF Begin, Respond, LoopInv
    <3>2. \A s \in Sockets : s # cur[d] => up'[s] = up[s] /\ down'[s] = down[s]
      BY <1>0, <2>2 DEF Begin, Respond, Consume, Sent, FlowTypes
    <3> QED BY <1>0, <3>1, <3>2, AckElsewhere
  <2>3. CASE LeaveUnanswered(d) \/ \E r \in Reqs : StrayExits(d, r)
    <3>1. UNCHANGED <<task, tid, net, up, down, pc, cur>>
      BY <2>3 DEF LeaveUnanswered, StrayExits
    <3> QED BY <3>1 DEF AckInv, AckDue, ServerHolds
  <2>4. None \notin Reqs /\ Commands \subseteq Reqs /\ SnapshotCalls \subseteq Reqs
    BY ReqsAssumption DEF SnapshotCalls
  <2> QED BY <1>4, <2>1, <2>2, <2>3, <2>4
          DEF DaemonStep, StartCommand, StartSnapshotCall, FinishCommand, TimeoutCommand, AnswerSnapshotCall
<1>5. CASE UNCHANGED allVars
  BY <1>1, <1>5 DEF allVars
<1> QED BY <1>1, <1>2, <1>3, <1>4, <1>5 DEF RpcNext

\* serve() takes the first frame for the registration ack: no request and no
\* other answer overtakes it, although exec finds the connection as soon as it
\* is registered, before the ack is written.
THEOREM AckBeforeRequests == RpcSpec => []AckFirst
<1>1. RpcInit => LoopInv /\ AckInv
  BY DEF RpcInit, Init, LoopInv, AckInv
<1>2. (RepliesInv /\ FlowInv) /\ LoopInv /\ AckInv /\ [RpcNext]_allVars => LoopInv' /\ AckInv'
  BY LoopKept, AckStep DEF AckFlow
<1> QED BY <1>1, <1>2, RepliesAlways, AckInvFirst, PTL DEF RpcSpec

\* A connection the registry hands out for a call is the daemon's own, and its
\* socket has a task that has not finished: also with calls under way.
THEOREM RpcRegistryServed == RpcSpec => []EntryServed
<1>1. RepliesInv => EntryServed
  BY DEF RepliesInv, Wired, Serves, EntryServed
<1> QED BY <1>1, RepliesAlways, PTL

-----------------------------------------------------------------------------
(* Heartbeats are answered also when requests share the queues. *)

\* An ack in flight was sent by a task that has the daemon's id, and so has the
\* task that a serving daemon is connected to.
HeartInv ==
    /\ \A s \in Sockets : tid[s] # None => tid[s] \in Named
    /\ \A s \in Sockets : In("RegisterAck", down[s]) => Serves(s, owner[s])
    /\ \A d \in Daemons : pc[d] = "serving" =>
          cur[d] # None /\ (net[cur[d]] = "up" => Serves(cur[d], d))

\* A step that acks nothing.
NoAck == \A s \in Sockets : In("RegisterAck", down'[s]) => In("RegisterAck", down[s])

\* A step on which nobody is named and nobody starts to serve.
HeartQuiet ==
    /\ \A s \in Sockets : tid'[s] \in {tid[s], None}
    /\ \A s \in Sockets : net[s] # "unused" /\ net'[s] = "up" => net[s] = "up"
    /\ \A d \in Daemons : pc'[d] = "serving" => pc[d] = "serving" /\ cur'[d] = cur[d]

\* Frames that are sent.
LEMMA InAppend ==
    ASSUME NEW F, NEW q \in Seq(F), NEW f \in F, NEW x, In(x, Append(q, f))
    PROVE  In(x, q) \/ x = f
BY AppendFacts DEF In

\* Frames that are read.
LEMMA InTail ==
    ASSUME NEW F, NEW q \in Seq(F), q # <<>>, NEW x, In(x, Tail(q))
    PROVE  In(x, q)
BY LosesHead DEF In

\* The acks in the queue a frame is sent to.
LEMMA SentAcks ==
    ASSUME FlowTypes, NEW s \in Sockets, NEW f \in DownFrames \cup Reqs, NEW h,
           down' = Sent(down, s, f, h), NEW t \in Sockets, In("RegisterAck", down'[t])
    PROVE  In("RegisterAck", down[t]) \/ (t = s /\ f = "RegisterAck")
<1>1. down \in [Sockets -> Seq(DownFrames \cup Reqs)]
  BY DEF FlowTypes, DownQ
<1>2. down'[t] = down[t] \/ (t = s /\ down'[t] = Append(down[t], f))
  BY <1>1 DEF Sent
<1>3. down[t] \in Seq(DownFrames \cup Reqs)
  BY <1>1
<1>4. CASE t = s /\ down'[t] = Append(down[t], f)
  <2>1. In("RegisterAck", Append(down[t], f))
    BY <1>4
  <2>2. In("RegisterAck", down[t]) \/ "RegisterAck" = f
    BY <1>3, <2>1, InAppend
  <2> QED BY <1>4, <2>2
<1> QED BY <1>2, <1>4

\* A frame of another kind, sent by a task or read by a daemon, and a socket left.
LEMMA NoAckSent ==
    ASSUME FlowTypes,
           \/ UNCHANGED down
           \/ \E s \in Sockets, f \in (DownFrames \cup Reqs) \ {"RegisterAck"}, h \in BOOLEAN :
                  down' = Sent(down, s, f, h)
           \/ \E d \in Daemons : down[cur[d]] # <<>> /\ Consume(d)
           \/ \E s : down' = [down EXCEPT ![s] = <<>>]
    PROVE  NoAck
<1>0. down \in [Sockets -> Seq(DownFrames \cup Reqs)]
  BY DEF FlowTypes, DownQ
<1> SUFFICES ASSUME NEW t \in Sockets, In("RegisterAck", down'[t])
             PROVE  In("RegisterAck", down[t])
  BY DEF NoAck
<1>1. ASSUME NEW s \in Sockets, NEW f \in (DownFrames \cup Reqs) \ {"RegisterAck"}, NEW h \in BOOLEAN,
             down' = Sent(down, s, f, h)
      PROVE  In("RegisterAck", down[t])
  BY <1>1, SentAcks
<1>2. ASSUME NEW d \in Daemons, down[cur[d]] # <<>>, Consume(d)
      PROVE  In("RegisterAck", down[t])
  <2>1. down'[t] = down[t] \/ (t = cur[d] /\ down'[t] = Tail(down[t]))
    BY <1>0, <1>2 DEF Consume
  <2>2. down[t] \in Seq(DownFrames \cup Reqs) /\ (t = cur[d] => down[t] # <<>>)
    BY <1>0, <1>2
  <2> QED BY <2>1, <2>2, InTail
<1>3. ASSUME NEW s, down' = [down EXCEPT ![s] = <<>>] PROVE In("RegisterAck", down[t])
  <2>1. down'[t] = down[t] \/ down'[t] = <<>>
    BY <1>0, <1>3
  <2> QED BY <2>1 DEF In
<1> QED BY <1>1, <1>2, <1>3

\* What such a step keeps.
LEMMA HeartKept ==
    ASSUME HeartInv, Wired, LinkTypes, SocketsKept, NoAck, HeartQuiet
    PROVE  HeartInv'
<1>1. \A s \in Sockets : tid'[s] # None => tid'[s] \in Named
  BY DEF HeartInv, HeartQuiet
<1>2. ASSUME NEW s \in Sockets, In("RegisterAck", down'[s]) PROVE Serves(s, owner[s])'
  <2>1. Serves(s, owner[s])
    BY <1>2 DEF NoAck, HeartInv
  <2> QED BY <2>1, ServesKept DEF Serves, ServerHolds
<1>3. ASSUME NEW d \in Daemons, pc'[d] = "serving"
      PROVE  cur'[d] # None /\ (net'[cur'[d]] = "up" => Serves(cur[d], d)')
  <2>1. /\ cur'[d] = cur[d] /\ cur[d] # None /\ cur[d] \in Sockets /\ net[cur[d]] # "unused"
        /\ net[cur[d]] = "up" => Serves(cur[d], d)
    BY <1>3, NoneFacts DEF HeartQuiet, HeartInv, Wired, LinkTypes
  <2>2. ASSUME net'[cur[d]] = "up" PROVE Serves(cur[d], d)'
    <3>1. Serves(cur[d], d)
      BY <2>1, <2>2 DEF HeartQuiet
    <3> QED BY <2>1, <3>1, ServesKept DEF Serves, ServerHolds
  <2> QED BY <2>1, <2>2
<1> QED BY <1>1, <1>2, <1>3 DEF HeartInv, In

\* A task's steps: only a registration names somebody, and it sends the ack.
LEMMA HeartTask ==
    ASSUME FlowTypes, LinkTypes, ServerTypes, Wired, HeartInv, NEW s \in Sockets,
           TaskSide(s) \/ \E c \in Conns : HandleRegister(s, c)
    PROVE  HeartInv'
<1> USE DEF serverVars, netVars, daemonVars
<1>1. CASE TaskSide(s)
  <2>1. SocketsKept
    BY <1>1, TaskWired DEF Linked
  <2>2. \A x : DaemonHolds(x) \in BOOLEAN
    BY DEF DaemonHolds
  <2>3. NoAck
    <3>1. \/ UNCHANGED down
          \/ \E f \in DownFrames \ {"RegisterAck"} : down' = Sent(down, s, f, DaemonHolds(s))
      BY <1>1 DEF TaskSide, RefuseRegister, FindBeat, AckBeat, NackBeat, SeeClose, SeeEof, SeeReset,
                  LeaveLoop, CleanUp, Break, DownFrames
    <3> QED BY <2>2, <3>1, NoAckSent
  <2>4. HeartQuiet
    BY <1>1 DEF HeartQuiet, ServerTypes, TaskSide, RefuseRegister, FindBeat, AckBeat, NackBeat, SeeClose,
                SeeEof, SeeReset, LeaveLoop, CleanUp, Break
  <2> QED BY <2>1, <2>3, <2>4, HeartKept
<1>2. ASSUME NEW c \in Conns, HandleRegister(s, c) PROVE HeartInv'
  <2>1. /\ task[s] = "run" /\ owner[s] \in Named /\ tid' = [tid EXCEPT ![s] = owner[s]]
        /\ down' = Sent(down, s, "RegisterAck", DaemonHolds(s))
        /\ UNCHANGED <<task, net, owner, pc, cur>>
    BY <1>2 DEF HandleRegister, Reads
  <2>2. SocketsKept
    BY <1>2, RegisterWired
  <2>3. /\ tid'[s] = owner[s] /\ \A t \in Sockets : t # s => tid'[t] = tid[t]
        /\ net[s] # "unused" /\ owner[s] \in Daemons
    BY <2>1, NamedAssumption DEF ServerTypes, Wired
  <2>4. Serves(s, owner[s])'
    BY <2>1, <2>3 DEF Serves
  <2>5. ASSUME NEW t \in Sockets, In("RegisterAck", down'[t]) PROVE Serves(t, owner[t])'
    <3>1. CASE t = s
      BY <2>4, <3>1
    <3>2. CASE t # s
      <4>1. In("RegisterAck", down[t])
        BY <2>1, <2>5, <3>2, SentAcks DEF DownFrames
      <4>2. Serves(t, owner[t])
        BY <4>1 DEF HeartInv
      <4> QED BY <2>2, <4>2, ServesKept DEF Serves, ServerHolds
    <3> QED BY <3>1, <3>2
  <2>6. ASSUME NEW d \in Daemons, pc'[d] = "serving"
        PROVE  cur'[d] # None /\ (net'[cur'[d]] = "up" => Serves(cur[d], d)')
    <3>1. cur[d] \in Sockets /\ cur[d] # None /\ (net[cur[d]] = "up" => Serves(cur[d], d))
      BY <2>1, <2>6 DEF HeartInv, LinkTypes
    <3> QED BY <2>1, <2>2, <3>1, ServesKept DEF Serves, ServerHolds
  <2> QED BY <2>1, <2>3, <2>5, <2>6 DEF HeartInv, In
<1> QED BY <1>1, <1>2

\* A daemon's steps: it starts to serve on reading the ack, or on a dead socket.
LEMMA HeartDaemon ==
    ASSUME FlowTypes, LinkTypes, LoopInv, ServerTypes, Wired, AckInv, HeartInv,
           NEW d \in Daemons, DaemonSide(d)
    PROVE  HeartInv'
<1> USE DEF serverVars, netVars, daemonVars
<1>0. /\ pc \in [Daemons -> {"backoff", "regwait", "serving", "stopped"}]
      /\ cur \in [Daemons -> Sockets \cup {None}] /\ SocketsKept
  BY DaemonWired DEF LoopInv, LinkTypes, Linked
<1>1. NoAck
  <2>1. \/ UNCHANGED down
        \/ down[cur[d]] # <<>> /\ Consume(d)
        \/ \E s : down' = [down EXCEPT ![s] = <<>>]
    BY DEF DaemonSide, Connect, Registered, Refused, UnexpectedFirst, LoseSocket, AckTimeout, Shutdown,
           DaemonCrash, RecvBeatAck, RecvOther, Heartbeat, Reap, EntryAges, AckAges, Leave, Receives
  <2> QED BY <2>1, NoAckSent
<1>2. ASSUME UNCHANGED <<tid, net, task, owner, cur>>, pc' = [pc EXCEPT ![d] = "serving"],
             cur[d] # None, net[cur[d]] = "up" => Serves(cur[d], d)
      PROVE  HeartInv'
  <2>1. ASSUME NEW s \in Sockets, In("RegisterAck", down'[s]) PROVE Serves(s, owner[s])'
    BY <1>1, <1>2, <2>1 DEF NoAck, HeartInv, Serves, ServerHolds
  <2>2. ASSUME NEW e \in Daemons, pc'[e] = "serving"
        PROVE  cur'[e] # None /\ (net'[cur'[e]] = "up" => Serves(cur[e], e)')
    <3>1. CASE e = d
      BY <1>2, <3>1 DEF Serves, ServerHolds
    <3>2. CASE e # d
      <4>1. pc[e] = "serving"
        BY <1>0, <1>2, <2>2, <3>2
      <4> QED BY <1>2, <4>1 DEF HeartInv, Serves, ServerHolds
    <3> QED BY <3>1, <3>2
  <2> QED BY <1>2, <2>1, <2>2 DEF HeartInv, In
<1>3. CASE Registered(d)
  <2>1. /\ UNCHANGED <<tid, net, task, owner, cur>> /\ pc' = [pc EXCEPT ![d] = "serving"]
        /\ cur[d] # None /\ down[cur[d]] # <<>> /\ Head(down[cur[d]]) = "RegisterAck"
    BY <1>3 DEF Registered, Receives
  <2>2. cur[d] \in Sockets /\ down[cur[d]] \in DownQ /\ owner[cur[d]] = d
    BY <1>0, <2>1 DEF FlowTypes, Wired
  <2>3. In("RegisterAck", down[cur[d]])
    BY <2>1, <2>2, LosesHead DEF In, DownQ
  <2> QED BY <1>2, <2>1, <2>2, <2>3 DEF HeartInv
<1>4. CASE UnexpectedFirst(d)
  <2>1. /\ UNCHANGED <<tid, net, task, owner, cur>> /\ pc' = [pc EXCEPT ![d] = "serving"]
        /\ pc[d] = "regwait"
    BY <1>4 DEF UnexpectedFirst
  <2>2. cur[d] # None /\ AckDue(cur[d]) /\ cur[d] \in Sockets
    BY <1>0, <2>1 DEF AckInv
  <2>3. net[cur[d]] = "dead" \/ ~ServerHolds(cur[d])
    BY <1>4, <2>2 DEF UnexpectedFirst, Receives, AckDue
  <2>4. net[cur[d]] = "up" => Serves(cur[d], d)
    BY <2>2, <2>3 DEF Wired, Serves
  <2> QED BY <1>2, <2>1, <2>2, <2>4
<1>5. HeartQuiet => HeartInv'
  BY <1>0, <1>1, HeartKept
<1>6. ASSUME NEW s \in Sockets, Connect(d, s) PROVE HeartQuiet
  <2>1. /\ net[s] = "unused" /\ net' = [net EXCEPT ![s] = "up"] /\ UNCHANGED tid
        /\ pc' = [pc EXCEPT ![d] = "regwait"] /\ cur' = [cur EXCEPT ![d] = s]
    BY <1>6 DEF Connect
  <2> QED BY <1>0, <2>1 DEF HeartQuiet, ServerTypes
<1>7. ASSUME NEW to \in {"backoff", "stopped"}, Leave(d, to), UNCHANGED <<tid, net>> PROVE HeartQuiet
  BY <1>0, <1>7 DEF HeartQuiet, Leave
<1>8. CASE Refused(d) \/ LoseSocket(d) \/ AckTimeout(d) \/ Shutdown(d) \/ DaemonCrash(d)
  BY <1>5, <1>7, <1>8 DEF Refused, LoseSocket, AckTimeout, Shutdown, DaemonCrash
<1>9. CASE RecvBeatAck(d) \/ RecvOther(d) \/ Heartbeat(d) \/ Reap(d) \/ EntryAges(d) \/ AckAges(d)
  <2>1. UNCHANGED <<tid, net, pc, cur>>
    BY <1>9 DEF RecvBeatAck, RecvOther, Heartbeat, Reap, EntryAges, AckAges
  <2> QED BY <1>5, <2>1 DEF HeartQuiet
<1> QED BY <1>3, <1>4, <1>5, <1>6, <1>8, <1>9 DEF DaemonSide

\* HeartInv is inductive, given the others.
LEMMA HeartStep == AckFlow /\ AckInv /\ HeartInv /\ [RpcNext]_allVars => HeartInv'
<1> SUFFICES ASSUME AckFlow, AckInv, HeartInv, [RpcNext]_allVars PROVE HeartInv'
  OBVIOUS
<1> USE DEF vars, serverVars, netVars, daemonVars
<1>0. /\ FlowTypes /\ LoopInv /\ LinkTypes /\ ServerTypes /\ Wired /\ Routed
      /\ None \notin Reqs /\ Reqs \cap DownFrames = {} /\ "RegisterAck" \in DownFrames
  BY FramesAreNoRequests DEF AckFlow, RepliesInv, FlowInv, ServerTypes, LinkTypes, DownFrames
<1>1. ASSUME UNCHANGED <<reg, task, tid, net, owner, pc, cur>>, NoAck PROVE HeartInv'
  <2>1. SocketsKept /\ HeartQuiet
    BY <1>1 DEF SocketsKept, Serves, ServerHolds, HeartQuiet
  <2> QED BY <1>0, <1>1, <2>1, HeartKept
<1>2. CASE UNCHANGED vars
  BY <1>0, <1>1, <1>2, NoAckSent
<1>3. ASSUME NEW r \in Reqs, Caller(r) PROVE UNCHANGED vars
  BY <1>3 DEF Caller, GetConn, RegisterRequest, SendMessage, TakeResponse, CallTimeout
<1>4. ASSUME NEW s \in Sockets, SocketStep(s) \/ PathBreaks(s) PROVE HeartInv'
  <2>1. CASE TaskStep(s) \/ ForwardFails(s) \/ DropChannel(s) \/ PathBreaks(s)
    BY <1>0, <2>1, ControlSides, HeartTask
  <2>2. CASE \E c \in Conns : Register(s, c)
    BY <1>0, <2>2, HeartTask DEF Register
  <2>3. ASSUME NEW r \in Reqs, CompleteRequest(s, r) PROVE HeartInv'
    <3>1. UNCHANGED <<reg, task, tid, net, owner, down, pc, cur>>
      BY <2>3 DEF CompleteRequest
    <3> QED BY <1>0, <1>1, <3>1, NoAckSent
  <2>4. CASE Forward(s)
    <3>1. /\ chan[s] # <<>> /\ down' = Sent(down, s, Head(chan[s]), DaemonHolds(s))
          /\ UNCHANGED <<reg, task, tid, net, owner, pc, cur>>
      BY <2>4 DEF Forward
    <3>2. Head(chan[s]) \in (DownFrames \cup Reqs) \ {"RegisterAck"} /\ DaemonHolds(s) \in BOOLEAN
      BY <1>0, <3>1 DEF FlowTypes, DaemonHolds
    <3> QED BY <1>0, <1>1, <3>1, <3>2, NoAckSent
  <2> QED BY <1>4, <2>1, <2>2, <2>3, <2>4 DEF SocketStep
<1>5. ASSUME NEW d \in Daemons, DaemonStep(d) PROVE HeartInv'
  <2>1. CASE LoopStep(d) \/ Background(d) \/ CrashBusy(d)
    BY <1>0, <2>1, ControlSides, HeartDaemon
  <2>2. ASSUME NEW r \in Reqs, Begin(d, r) PROVE HeartInv'
    <3>1. /\ down[cur[d]] # <<>> /\ Consume(d)
          /\ UNCHANGED <<reg, task, tid, net, owner, pc, cur>>
      BY <2>2 DEF Begin, Receives
    <3> QED BY <1>0, <1>1, <3>1, NoAckSent
  <2>3. CASE Respond(d) \/ LeaveUnanswered(d) \/ \E r \in Reqs : StrayExits(d, r)
    <3>1. UNCHANGED <<reg, task, tid, net, owner, down, pc, cur>>
      BY <2>3 DEF Respond, LeaveUnanswered, StrayExits
    <3> QED BY <1>0, <1>1, <3>1, NoAckSent
  <2> QED BY <1>5, <2>1, <2>2, <2>3
          DEF DaemonStep, StartCommand, StartSnapshotCall, FinishCommand, TimeoutCommand, AnswerSnapshotCall
<1>6. CASE UNCHANGED allVars
  BY <1>2, <1>6 DEF allVars
<1> QED BY <1>2, <1>3, <1>4, <1>5, <1>6 DEF RpcNext

\* All of it holds in every state.
LEMMA HeartAlways == RpcSpec => [](RepliesInv /\ HeartInv)
<1>1. RpcInit => LoopInv /\ AckInv /\ HeartInv
  BY DEF RpcInit, Init, LoopInv, AckInv, HeartInv, In
<1>2. (RepliesInv /\ FlowInv) /\ LoopInv /\ AckInv /\ HeartInv /\ [RpcNext]_allVars
        => LoopInv' /\ AckInv' /\ HeartInv'
  BY LoopKept, AckStep, HeartStep DEF AckFlow
<1> QED BY <1>1, <1>2, RepliesAlways, PTL DEF RpcSpec

\* A daemon in the serve loop on a working socket gets an answer to every
\* heartbeat, also while it is asked to run commands.
THEOREM HeartbeatsAnsweredUnderLoad == RpcSpec => []HeartbeatsAnswered
<1>1. RepliesInv /\ HeartInv => HeartbeatsAnswered
  BY DEF HeartInv, Serves, HeartbeatsAnswered
<1> QED BY <1>1, HeartAlways, PTL

\* A daemon without an id is never handed out for a call, and never in the
\* serve loop on a working socket.
THEOREM NamelessUncalled == RpcSpec => []NamelessStaysOut
<1>1. RepliesInv /\ HeartInv => NamelessStaysOut
  <2> SUFFICES ASSUME RepliesInv, HeartInv, NEW d \in Daemons \ Named PROVE NamelessStaysOut!(d)
    BY DEF NamelessStaysOut
  <2>1. ServerTypes /\ Wired /\ \A s \in Sockets : tid[s] # d
    BY NoneFacts DEF RepliesInv, HeartInv
  <2>2. reg[d] = None
    <3>1. reg[d] # None => reg[d].sock \in Sockets /\ tid[reg[d].sock] = d
      BY <2>1, EntryFacts DEF Wired, Serves, ServerTypes
    <3> QED BY <2>1, <3>1
  <2>3. ASSUME pc[d] = "serving" PROVE net[cur[d]] = "dead" \/ ~ServerHolds(cur[d])
    <3>1. cur[d] \in Sockets /\ net[cur[d]] \in {"up", "dead"}
      BY <2>1, <2>3 DEF HeartInv, Wired, ServerTypes
    <3> QED BY <2>1, <2>3, <3>1 DEF HeartInv, Serves
  <2> QED BY <2>2, <2>3
<1> QED BY <1>1, HeartAlways, PTL
=============================================================================
