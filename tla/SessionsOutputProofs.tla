------------------------ MODULE SessionsOutputProofs ------------------------
(***************************************************************************)
(* Proofs about Sessions, for any daemons, sockets, output and bounds: a   *)
(* session travels on the sockets of its own daemon only, and no output is *)
(* lost while the connection it was opened through is the registered one.  *)
(***************************************************************************)
EXTENDS SessionsProofs, DaemonLinkProofs, FiniteSetTheorems, NaturalsInduction, WellFoundedInduction

\* Whatever belongs to the session is on a socket that its daemon dialled.
Hosted ==
    /\ hold # None => sess # "idle" /\ link \in Sockets /\ Serves(link, host)
    /\ \A s \in Sockets : chan[s] # <<>> => sess # "idle" /\ Serves(s, host)
    /\ \A s \in Sockets : NewIn(down[s]) => Serves(s, host)
    /\ rsock # None => Serves(rsock, host)

RouteInv == ServerTypes /\ Wired /\ Hosted

-----------------------------------------------------------------------------
(* Counting the chunks in a queue. *)

\* A set of naturals that is not empty has a least element.
LEMMA LeastNat ==
    ASSUME NEW T, T \subseteq Nat, T # {}
    PROVE  \E n \in T : \A m \in T : n <= m
<1> DEFINE R == OpToRel(<, Nat)
<1>1. IsWellFoundedOn(R, Nat)
  BY NatLessThanWellFounded
<1>2. PICK n \in T : \A m \in T : ~(<<m, n>> \in R)
  <2> HIDE DEF R
  <2> QED BY <1>1, WFMin
<1>3. \A m \in T : ~(m < n)
  BY <1>2 DEF OpToRel
<1> QED BY <1>3

ChunksIn(q, i) == {j \in 1 .. i : q[j] \in Outs}

\* One frame more is one chunk more, or none.
LEMMA ChunksCount ==
    ASSUME NEW q, NEW i \in Nat
    PROVE  /\ IsFiniteSet(ChunksIn(q, i)) /\ Cardinality(ChunksIn(q, i)) \in Nat
           /\ Cardinality(ChunksIn(q, 0)) = 0
           /\ Cardinality(ChunksIn(q, i + 1)) =
                 IF q[i + 1] \in Outs THEN Cardinality(ChunksIn(q, i)) + 1
                 ELSE Cardinality(ChunksIn(q, i))
<1>1. IsFiniteSet(1 .. i) /\ ChunksIn(q, i) \subseteq 1 .. i
  BY FS_Interval DEF ChunksIn
<1>2. IsFiniteSet(ChunksIn(q, i))
  BY <1>1, FS_Subset
<1>3. Cardinality(ChunksIn(q, i)) \in Nat
  BY <1>2, FS_CardinalityType
<1>4. ChunksIn(q, 0) = {}
  BY DEF ChunksIn
<1>5. CASE q[i + 1] \in Outs
  <2>1. ChunksIn(q, i + 1) = ChunksIn(q, i) \cup {i + 1} /\ i + 1 \notin ChunksIn(q, i)
    BY <1>5 DEF ChunksIn
  <2> QED BY <1>2, <1>3, <1>4, <1>5, <2>1, FS_AddElement, FS_EmptySet
<1>6. CASE q[i + 1] \notin Outs
  <2>1. ChunksIn(q, i + 1) = ChunksIn(q, i)
    BY <1>6 DEF ChunksIn
  <2> QED BY <1>2, <1>3, <1>4, <1>6, <2>1, FS_EmptySet
<1> QED BY <1>5, <1>6

\* What Carries says by a function is a matter of counting.
LEMMA CarriesCounts ==
    ASSUME NEW q \in Seq(UpF), NEW a \in Nat, NEW b, Carries(q, a, b)
    PROVE  /\ a + Cardinality(ChunksIn(q, Len(q))) = b
           /\ \A i \in 1 .. Len(q) :
                 q[i] \in Outs => q[i] = Outputs[a + Cardinality(ChunksIn(q, i))]
<1> DEFINE C(i) == Cardinality(ChunksIn(q, i))
<1>1. PICK g \in [0 .. Len(q) -> 0 .. Len(Outputs)] :
        /\ g[0] = a /\ g[Len(q)] = b
        /\ \A i \in 1 .. Len(q) :
              IF q[i] \in Outs THEN g[i] = g[i - 1] + 1 /\ q[i] = Outputs[g[i]]
              ELSE g[i] = g[i - 1]
  BY DEF Carries
<1>2. Len(q) \in Nat
  OBVIOUS
<1>3. \A i \in 0 .. Len(q) : g[i] = a + C(i)
  <2> DEFINE T == {i \in 0 .. Len(q) : g[i] # a + C(i)}
  <2>1. SUFFICES ASSUME T # {} PROVE FALSE
    OBVIOUS
  <2>2. T \subseteq Nat
    OBVIOUS
  <2>3. PICK n \in T : \A m \in T : n <= m
    <3> HIDE DEF T
    <3> QED BY <2>1, <2>2, LeastNat
  <2>4. n \in 0 .. Len(q) /\ g[n] # a + C(n)
    OBVIOUS
  <2>5. C(0) = 0
    BY ChunksCount
  <2>6. n # 0
    BY <1>1, <2>4, <2>5
  <2>7. n - 1 \in 0 .. Len(q) /\ n - 1 \in Nat /\ n \in 1 .. Len(q) /\ (n - 1) + 1 = n
    BY <2>4, <2>6
  <2>8. g[n - 1] = a + C(n - 1)
    BY <2>3, <2>7
  <2>9. C(n) = (IF q[n] \in Outs THEN C(n - 1) + 1 ELSE C(n - 1)) /\ C(n - 1) \in Nat
    BY <2>7, ChunksCount
  <2>10. IF q[n] \in Outs THEN g[n] = g[n - 1] + 1 ELSE g[n] = g[n - 1]
    BY <1>1, <2>7
  <2> HIDE DEF C
  <2> QED BY <2>4, <2>8, <2>9, <2>10
<1> HIDE DEF C
<1>4. a + C(Len(q)) = b
  BY <1>1, <1>2, <1>3
<1>5. \A i \in 1 .. Len(q) : q[i] \in Outs => q[i] = Outputs[a + C(i)]
  BY <1>1, <1>3
<1> QED BY <1>4, <1>5 DEF C

-----------------------------------------------------------------------------
(* The session stays with its daemon. *)

\* A FlowInv state has the types that the lemmas about the link ask for.
LEMMA RouteFacts ==
    ASSUME FlowInv
    PROVE  /\ SessTypeOK /\ LinkTypes /\ Places
           /\ sess = "idle" => rsock = None /\ \A s \in Sockets : ~NewIn(down[s])
           /\ sess \in {"got", "registered"} => hold # None
BY DEF FlowInv, Types, CallTypes, OneStart

\* A step that asks for no connection, queues no call and starts no reader.
LEMMA HostKept ==
    ASSUME FlowInv, Hosted, SocketsKept, UNCHANGED <<sess, host, hold, link, rsock>>,
           \A s \in Sockets : chan'[s] # <<>> => chan[s] # <<>>,
           \A s \in Sockets : NewIn(down'[s]) => NewIn(down[s]) \/ chan[s] # <<>>
    PROVE  Hosted'
<1>1. rsock \in Sockets \cup {None}
  BY RouteFacts DEF SessTypeOK
<1>2. \A s \in Sockets : Serves(s, host) => Serves(s, host)'
  BY DEF SocketsKept, Serves
<1>3. /\ hold' # None => sess' # "idle" /\ link' \in Sockets /\ Serves(link, host)'
      /\ rsock' # None => Serves(rsock, host)'
  BY <1>1, <1>2 DEF Hosted
<1>4. \A s \in Sockets : /\ chan'[s] # <<>> => sess' # "idle" /\ Serves(s, host)'
                         /\ NewIn(down'[s]) => Serves(s, host)'
  BY <1>2 DEF Hosted
<1> QED BY <1>3, <1>4 DEF Hosted, NewIn

\* The steps of the control plane, as a session takes them.
LEMMA RouteKept ==
    ASSUME FlowInv, Hosted, Linked, DownDrops, UNCHANGED <<sess, host, hold, link, rsock>>,
           \A s \in Sockets : chan'[s] # <<>> => chan[s] # <<>>
    PROVE  RouteInv'
<1>1. \A s \in Sockets : NewIn(down'[s]) => NewIn(down[s])
  BY DropsIn DEF DownDrops
<1> QED BY <1>1, HostKept DEF Linked, RouteInv

\* Steps that leave the link alone.
LEMMA LinkSame ==
    ASSUME RouteInv, UNCHANGED <<reg, task, tid, net, owner, cur>>
    PROVE  /\ Linked
           /\ \A s \in Sockets, d \in Daemons : Serves(s, d) => Serves(s, d)'
BY SameWired DEF RouteInv, Linked, SocketsKept

\* The caller's steps: the socket it is given serves the daemon it asked for.
LEMMA CallerRoute == ASSUME FlowInv, RouteInv, Caller PROVE RouteInv'
<1> USE DEF callerVars, mapVars, ptyVars, vars, serverVars, netVars, daemonVars
<1>0. /\ SessTypeOK /\ Hosted /\ Wired /\ ServerTypes
      /\ sess = "idle" => rsock = None /\ \A s \in Sockets : ~NewIn(down[s])
  BY RouteFacts DEF RouteInv
<1>1. UNCHANGED vars
  BY DEF Caller, GetConn, RegisterSession, SendNew, Write, Close, Send
<1>2. Linked /\ \A s \in Sockets, d \in Daemons : Serves(s, d) => Serves(s, d)'
  BY <1>1, LinkSame
<1>3. ASSUME NEW d \in Daemons, GetConn(d) PROVE RouteInv'
  <2>1. /\ hold = None /\ reg[d] # None /\ host' = d /\ link' = reg[d].sock
        /\ UNCHANGED <<chan, down, rsock>>
        /\ sess' # "idle" /\ (sess = "idle" \/ d = host)
    BY <1>3 DEF GetConn
  <2>2. reg[d].sock \in Sockets /\ Serves(reg[d].sock, d)
    BY <1>0, <2>1, EntryFacts DEF ServerTypes, Wired
  <2>3. Serves(link, host)'
    BY <1>1, <2>1, <2>2 DEF Serves, ServerHolds
  <2>4. \A s \in Sockets : /\ chan'[s] # <<>> => Serves(s, host)'
                           /\ NewIn(down'[s]) => Serves(s, host)'
    <3>1. ASSUME NEW s \in Sockets, chan[s] # <<>> \/ NewIn(down[s]) PROVE Serves(s, host)'
      <4>1. Serves(s, host) /\ d = host
        BY <1>0, <2>1, <3>1 DEF Hosted
      <4> QED BY <1>1, <2>1, <4>1 DEF Serves, ServerHolds
    <3> QED BY <2>1, <3>1
  <2>5. rsock' # None => Serves(rsock, host)'
    <3>1. ASSUME rsock # None PROVE Serves(rsock, host) /\ d = host
      BY <1>0, <2>1, <3>1 DEF Hosted
    <3> QED BY <1>1, <2>1, <3>1 DEF Serves, ServerHolds
  <2> QED BY <1>2, <2>1, <2>2, <2>3, <2>4, <2>5 DEF RouteInv, Hosted, Linked, NewIn
<1>4. ASSUME RegisterSession PROVE RouteInv'
  <2>1. UNCHANGED <<host, hold, link, rsock, chan, down>> /\ sess' # "idle"
    BY <1>4 DEF RegisterSession
  <2>2. \A s \in Sockets : Serves(s, host) => Serves(s, host)'
    BY <1>1, <2>1 DEF Serves, ServerHolds
  <2>3. Hosted'
    BY <1>0, <2>1, <2>2 DEF Hosted, NewIn, SessTypeOK
  <2> QED BY <1>2, <2>3 DEF RouteInv, Linked
<1>5. ASSUME NEW f, Send(f), sess' # "idle" PROVE RouteInv'
  <2>1. /\ hold # None /\ hold' = None /\ UNCHANGED <<host, rsock, down>>
        /\ chan' = [chan EXCEPT ![link] = Append(@, f)] \/ chan' = chan
    BY <1>5 DEF Send
  <2>2. \A s \in Sockets : chan'[s] # <<>> => s = link \/ chan[s] # <<>>
    BY <1>0, <2>1 DEF SessTypeOK
  <2>3. \A s \in Sockets : Serves(s, host) => Serves(s, host)'
    BY <1>1, <2>1 DEF Serves, ServerHolds
  <2>4. Hosted'
    BY <1>0, <1>5, <2>1, <2>2, <2>3 DEF Hosted, NewIn, SessTypeOK
  <2> QED BY <1>2, <2>4 DEF RouteInv, Linked
<1>6. SendNew \/ Write \/ Close => sess' # "idle"
  BY DEF SendNew, Write, Close
<1> QED BY <1>3, <1>4, <1>5, <1>6 DEF Caller, SendNew, Write, Close

\* The socket's task: what it forwards came from a call of this session.
LEMMA SocketRoute ==
    ASSUME FlowInv, RouteInv, NEW s \in Sockets, SocketStep(s) \/ PathBreaks(s)
    PROVE  RouteInv'
<1> USE DEF callerVars, mapVars, ptyVars, sessVars
<1>0. /\ SessTypeOK /\ Hosted /\ LinkTypes /\ Places /\ ServerTypes /\ Wired
      /\ down \in [Sockets -> Seq(DownF)]
  BY RouteFacts DEF RouteInv, LinkTypes
<1>1. ASSUME NEW c \in Conns, Register(s, c) PROVE RouteInv'
  <2>1. HandleRegister(s, c) /\ UNCHANGED <<sess, host, hold, link, rsock, chan>>
    BY <1>1 DEF Register
  <2>2. DownDrops
    BY <1>0, <2>1, RegisterLink DEF LinkStep
  <2>3. ServerTypes' /\ Wired' /\ SocketsKept
    BY <1>0, <2>1, RegisterWired
  <2>4. \A t \in Sockets : NewIn(down'[t]) => NewIn(down[t])
    BY <2>2, DropsIn DEF DownDrops
  <2> QED BY <1>0, <2>1, <2>3, <2>4, HostKept DEF RouteInv
<1>2. ASSUME NEW o \in Outs \cup {"SessionExit"}, TakesFrame(s, o),
             UNCHANGED <<sess, host, hold, link, rsock, chan>>
      PROVE  RouteInv'
  <2>1. UNCHANGED <<reg, task, tid, net, owner, cur, down>>
    BY <1>2 DEF TakesFrame, serverVars, daemonVars
  <2> QED BY <1>0, <1>2, <2>1, LinkSame, KeepDown, RouteKept
<1>3. ASSUME Forward(s) PROVE RouteInv'
  <2>1. /\ chan[s] # <<>> /\ chan' = [chan EXCEPT ![s] = Tail(@)]
        /\ UNCHANGED <<sess, host, hold, link, rsock>>
    BY <1>3 DEF Forward
  <2>2. \A t \in Sockets : chan'[t] # <<>> => chan[t] # <<>>
    BY <1>0, <2>1 DEF SessTypeOK
  <2>3. CASE /\ down' = Sent(down, s, Head(chan[s]), DaemonHolds(s))
             /\ UNCHANGED <<serverVars, net, owner, up, daemonVars, faults>>
    <3>1. \A t \in Sockets : t # s => down'[t] = down[t]
      BY <1>0, <2>3, SentAt
    <3>2. \A t \in Sockets : NewIn(down'[t]) => NewIn(down[t]) \/ chan[t] # <<>>
      BY <2>1, <3>1
    <3>3. Linked
      BY <2>3, LinkSame DEF serverVars, daemonVars
    <3> QED BY <1>0, <2>1, <2>2, <3>2, <3>3, HostKept DEF RouteInv, Linked
  <2>4. CASE (net[s] = "dead" \/ ~DaemonHolds(s)) /\ LeaveLoop(s)
    <3>1. SeeReset(s) /\ task[s] = "run"
      BY <1>3, <2>4 DEF Forward, SeeReset
    <3>2. Linked
      BY <1>0, <3>1, TaskWired DEF TaskSide
    <3>3. DownDrops
      BY <1>0, <2>4, KeepDown DEF LeaveLoop, netVars
    <3> QED BY <1>0, <2>1, <2>2, <3>2, <3>3, RouteKept
  <2> QED BY <1>3, <2>3, <2>4 DEF Forward
<1>4. ASSUME DropChannel(s) \/ SeeEnd(s) \/ TaskStep(s) \/ PathBreaks(s) PROVE RouteInv'
  <2>1. TaskSide(s)
    BY <1>4 DEF DropChannel, SeeEnd, TaskStep, PathBreaks, TaskSide
  <2>2. Linked
    BY <1>0, <2>1, TaskWired
  <2>3. DownDrops
    <3>1. CASE PathBreaks(s)
      BY <1>0, <3>1, BreakLink DEF PathBreaks, LinkStep
    <3>2. CASE SeeEnd(s)
      BY <1>0, <3>2, TaskLink DEF SeeEnd, SeeEof, SeeReset, LinkStep
    <3> QED BY <1>0, <1>4, <3>1, <3>2, TaskLink DEF DropChannel, LinkStep
  <2>4. UNCHANGED <<sess, host, hold, link, rsock>> /\ \A t \in Sockets : chan'[t] # <<>> => chan[t] # <<>>
    <3>1. CASE DropChannel(s)
      BY <1>0, <3>1 DEF DropChannel, SessTypeOK
    <3>2. CASE SeeEnd(s) \/ TaskStep(s) \/ PathBreaks(s)
      BY <3>2 DEF SeeEnd, TaskStep, PathBreaks
    <3> QED BY <1>4, <3>1, <3>2
  <2> QED BY <1>0, <2>2, <2>3, <2>4, RouteKept
<1>5. (\E o \in Outs : RecvOutput(s, o)) \/ RecvExit(s) => RouteInv'
  BY <1>2 DEF RecvOutput, RecvExit
<1> QED BY <1>1, <1>3, <1>4, <1>5 DEF SocketStep

\* The daemon: a reader writes to the socket its NewSession came on.
LEMMA DaemonRoute ==
    ASSUME FlowInv, RouteInv, NEW d \in Daemons, DaemonStep(d)
    PROVE  RouteInv'
<1> USE DEF callerVars, mapVars, ptyVars, sessVars
<1>0. /\ SessTypeOK /\ Hosted /\ LinkTypes /\ Places /\ ServerTypes /\ Wired
      /\ down \in [Sockets -> Seq(DownF)]
  BY RouteFacts DEF RouteInv, LinkTypes
<1>1. ASSUME NEW f, Handles(d, f)
      PROVE  /\ Linked /\ DownDrops /\ UNCHANGED <<sess, host, hold, link, chan>>
             /\ \A t \in Sockets, e \in Daemons : Serves(t, e) => Serves(t, e)'
  <2>1. UNCHANGED <<reg, task, tid, net, owner, cur>>
    BY <1>1 DEF Handles, serverVars
  <2> QED BY <1>0, <1>1, <2>1, LinkSame, ReadDown DEF Handles
<1>2. ASSUME StartShell(d) PROVE RouteInv'
  <2>1. Handles(d, "NewSession") /\ rsock' = cur[d]
    BY <1>2 DEF StartShell
  <2>2. cur[d] \in Sockets /\ NewIn(down[cur[d]])
    <3>1. cur[d] \in Sockets /\ down[cur[d]] # <<>> /\ Head(down[cur[d]]) = "NewSession"
      BY <1>0, <2>1 DEF Handles, Receives, ServerTypes
    <3> QED BY <1>0, <3>1, TailFacts DEF NewIn
  <2>3. Serves(cur[d], host) /\ host \in Daemons
    BY <1>0, <2>2 DEF Hosted, Serves
  <2>4. Linked /\ DownDrops /\ UNCHANGED <<sess, host, hold, link, chan>>
        /\ \A t \in Sockets, e \in Daemons : Serves(t, e) => Serves(t, e)'
    BY <1>1, <2>1
  <2>5. \A t \in Sockets : Serves(t, host) => Serves(t, host)'
    BY <2>3, <2>4
  <2>6. \A t \in Sockets : NewIn(down'[t]) => NewIn(down[t])
    BY <2>4, DropsIn DEF DownDrops
  <2>7. Hosted'
    BY <1>0, <2>1, <2>2, <2>3, <2>4, <2>5, <2>6 DEF Hosted, NewIn
  <2> QED BY <2>4, <2>7 DEF RouteInv, Linked
<1>3. ASSUME StartFails(d) \/ CloseShell(d) \/ Type(d) PROVE RouteInv'
  <2>1. (\E f : Handles(d, f)) /\ UNCHANGED rsock
    BY <1>3 DEF StartFails, CloseShell, Type
  <2>2. Linked /\ DownDrops /\ UNCHANGED <<sess, host, hold, link, chan>>
    BY <1>1, <2>1
  <2> QED BY <1>0, <2>1, <2>2, RouteKept
<1>4. ASSUME LoopStep(d) \/ LeaveServe(d) \/ ProcessEnds(d) \/ Background(d) PROVE RouteInv'
  <2>1. DaemonSide(d)
    BY <1>4 DEF LoopStep, LeaveServe, ProcessEnds, Background, DaemonSide
  <2>2. Linked
    BY <1>0, <2>1, DaemonWired
  <2>3. DownDrops
    BY <1>0, <1>4, DaemonLinkStep DEF LeaveServe, ProcessEnds, LinkStep
  <2>4. UNCHANGED <<sess, host, hold, link, rsock, chan>>
    BY <1>4 DEF LoopStep, LeaveServe, ProcessEnds, Background
  <2> QED BY <1>0, <2>2, <2>3, <2>4, RouteKept
<1> QED BY <1>2, <1>3, <1>4 DEF DaemonStep

\* RouteInv is inductive.
LEMMA RouteStep == FlowInv /\ RouteInv /\ [SessNext]_allVars => RouteInv'
<1> SUFFICES ASSUME FlowInv, RouteInv, [SessNext]_allVars PROVE RouteInv'
  OBVIOUS
<1>0. SessTypeOK /\ LinkTypes /\ Hosted
  BY RouteFacts DEF RouteInv
<1>1. ASSUME UNCHANGED <<reg, task, tid, net, owner, cur, down, sess, host, hold, link, rsock, chan>>
      PROVE  RouteInv'
  BY <1>0, <1>1, LinkSame, KeepDown, RouteKept
<1>2. CASE Pty \/ UNCHANGED allVars
  BY <1>1, <1>2 DEF Pty, ReadPty, ReadEof, ShellExits, allVars, vars, sessVars, callerVars, mapVars,
                    ptyVars, serverVars, netVars, daemonVars
<1> QED BY <1>2, CallerRoute, SocketRoute, DaemonRoute DEF SessNext

\* At first no socket is dialled and nothing is asked for.
LEMMA RouteInit == SessInit => RouteInv
<1> SUFFICES ASSUME SessInit PROVE RouteInv
  OBVIOUS
<1>1. ServerTypes
  BY DEF SessInit, Init, ServerTypes
<1>2. Wired
  BY DEF SessInit, Init, Wired
<1>3. \A s \in Sockets : chan[s] = <<>> /\ down[s] = <<>>
  BY DEF SessInit, Init
<1>4. Hosted
  BY <1>3 DEF SessInit, Hosted, NewIn
<1> QED BY <1>1, <1>2, <1>4 DEF RouteInv

-----------------------------------------------------------------------------
(* The theorems. *)

\* Nothing the shell printed is lost while the connection the session was
\* opened through is the registered one and the path works: what was put into
\* the caller's channel and what is in flight are all the chunks the reader
\* task has taken from the PTY, in order and without a gap.
THEOREM NoOutputLost == SessSpec => []OutputKept
<1>1. FlowInv /\ RouteInv => OutputKept
  <2> SUFFICES ASSUME FlowInv, RouteInv, rsock # None,
                      host # None, reg[host] # None, reg[host].conn \in sender,
                      net[rsock] = "up", ServerHolds(rsock)
               PROVE  /\ Passed(rsock, Len(up[rsock])) = out
                      /\ \A i \in 1 .. Len(up[rsock]) : up[rsock][i] \in Outs =>
                            up[rsock][i] = Outputs[Passed(rsock, i)]
    BY DEF OutputKept
  <2>1. rsock \in Sockets /\ up[rsock] \in Seq(UpF) /\ Len(rx) \in Nat
    BY RouteFacts DEF SessTypeOK, LinkTypes
  <2>2. tid[rsock] = host
    BY DEF RouteInv, Hosted, Serves
  <2>3. Known(rsock)
    BY <2>2 DEF Known
  <2>4. Carries(up[rsock], Len(rx), out)
    BY <2>3 DEF FlowInv, InOrder
  <2> QED BY <2>1, <2>4, CarriesCounts DEF Passed, ChunksIn
<1> QED BY <1>1, FlowInit, FlowStep, RouteInit, RouteStep, PTL DEF SessSpec
=============================================================================
