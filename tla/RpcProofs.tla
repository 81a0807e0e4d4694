------------------------------ MODULE RpcProofs ------------------------------
(***************************************************************************)
(* Proofs about Rpc, for any daemons, sockets, requests and bounds: no     *)
(* request is started twice, a caller that waits can still be answered,    *)
(* and exec implements the abstract call of module Call.                   *)
(***************************************************************************)
EXTENDS Rpc, TLAPS

DownQ == Seq(DownFrames \cup Reqs)
UpQ   == Seq(UpFrames \cup Reqs)

\* The types the queues need.
FlowTypes ==
    /\ caller \in [Reqs -> {"idle", "got", "pending", "waiting",
                            "answered", "timedout", "notfound", "sendfailed"}]
    /\ down \in [Sockets -> DownQ]
    /\ up \in [Sockets -> UpQ]
    /\ chan \in [Sockets -> Seq(Reqs)]
    /\ busy \in [Daemons -> Reqs \cup {None}]
    /\ runs \in [Reqs -> Nat]
    /\ slot \subseteq Reqs

In(x, q) == \E i \in 1 .. Len(q) : q[i] = x

Issued(r) == caller[r] \in {"waiting", "answered", "timedout"}

\* Only what was sent travels, and only what ran is answered.
Causal ==
    /\ \A r \in Reqs : ~Issued(r) => runs[r] = 0
    /\ \A r \in Reqs, s \in Sockets : In(r, chan[s]) \/ In(r, down[s]) => Issued(r)
    /\ \A r \in Reqs, s \in Sockets : In(r, up[s]) => runs[r] > 0
    /\ \A r \in Reqs : r \in slot \/ caller[r] = "answered" => runs[r] > 0
    /\ \A d \in Daemons : busy[d] # None => runs[busy[d]] > 0

\* A request is at most once in the queues Q.
Unique(Q) ==
    \A r \in Reqs, s \in Sockets, t \in Sockets :
        \A i \in 1 .. Len(Q[s]), j \in 1 .. Len(Q[t]) :
            Q[s][i] = r /\ Q[t][j] = r => s = t /\ i = j

\* A request that is on its way is in one place and has not been started.
Single ==
    /\ Unique(chan) /\ Unique(down)
    /\ \A r \in Reqs, s \in Sockets, t \in Sockets : In(r, chan[s]) => ~In(r, down[t])
    /\ \A r \in Reqs, s \in Sockets : In(r, chan[s]) \/ In(r, down[s]) => runs[r] = 0

\* The socket of a daemon.
LinkTypes == cur \in [Daemons -> Sockets \cup {None}]

FlowInv == FlowTypes /\ Causal /\ Single /\ AtMostOnce

-----------------------------------------------------------------------------
(* Queues. *)

\* Every request in k is in q, in the same order and as often.
Loses(k, q) ==
    \E n \in {0, 1} : \A i \in 1 .. Len(k) :
        k[i] \in Reqs => i + n \in 1 .. Len(q) /\ q[i + n] = k[i]

\* A frame is not a request id, and neither is None.
LEMMA FramesAreNoRequests == Reqs \cap (UpFrames \cup DownFrames) = {} /\ None \notin Reqs
BY ReqsAssumption

\* A queue that is kept loses nothing, and an emptied one adds nothing.
LEMMA LosesSame == ASSUME NEW F, NEW q \in Seq(F) PROVE Loses(q, q)
<1>1. \A i \in 1 .. Len(q) : i + 0 \in 1 .. Len(q) /\ q[i + 0] = q[i]
  OBVIOUS
<1> QED BY <1>1 DEF Loses

\* See LosesSame.
LEMMA LosesAll == ASSUME NEW q PROVE Loses(<<>>, q)
<1>1. \A i \in 1 .. Len(<<>>) : FALSE
  OBVIOUS
<1> QED BY <1>1 DEF Loses

\* Taking the head off a queue adds nothing.
LEMMA LosesHead ==
    ASSUME NEW F, NEW q \in Seq(F), q # <<>>
    PROVE  /\ Tail(q) \in Seq(F) /\ Loses(Tail(q), q)
           /\ Head(q) = q[1] /\ 1 \in 1 .. Len(q)
           /\ Len(Tail(q)) = Len(q) - 1
           /\ \A i \in 1 .. Len(Tail(q)) : Tail(q)[i] = q[i + 1] /\ i + 1 \in 1 .. Len(q)
<1>1. /\ Tail(q) \in Seq(F) /\ Len(Tail(q)) = Len(q) - 1 /\ Len(q) \in Nat /\ Len(q) > 0
      /\ Head(q) = q[1]
  OBVIOUS
<1>2. \A i \in 1 .. Len(Tail(q)) : Tail(q)[i] = q[i + 1] /\ i + 1 \in 1 .. Len(q)
  BY <1>1
<1>3. Loses(Tail(q), q)
  BY <1>2 DEF Loses
<1> QED BY <1>1, <1>2, <1>3

\* What Append adds, and where.
LEMMA AppendFacts ==
    ASSUME NEW F, NEW q \in Seq(F), NEW f \in F
    PROVE  /\ Append(q, f) \in Seq(F) /\ Len(Append(q, f)) = Len(q) + 1 /\ Len(q) \in Nat
           /\ \A i \in 1 .. Len(q) : Append(q, f)[i] = q[i]
           /\ Append(q, f)[Len(q) + 1] = f
           /\ \A i \in 1 .. Len(Append(q, f)) : i \in 1 .. Len(q) \/ i = Len(q) + 1
OBVIOUS

\* Appending a frame that is no request adds no request.
LEMMA LosesNothing ==
    ASSUME NEW F, NEW q \in Seq(F), NEW f \in F, f \notin Reqs
    PROVE  Loses(Append(q, f), q)
<1>1. \A i \in 1 .. Len(Append(q, f)) : Append(q, f)[i] \in Reqs =>
          i + 0 \in 1 .. Len(q) /\ q[i + 0] = Append(q, f)[i]
  BY AppendFacts
<1> QED BY <1>1 DEF Loses

\* What is left was there before.
LEMMA LosesIn ==
    ASSUME NEW k, NEW q, Loses(k, q), NEW r \in Reqs, In(r, k)
    PROVE  In(r, q)
BY DEF Loses, In

\* A queue of sockets after a step that sends no request.
DownLoses == down' \in [Sockets -> DownQ] /\ \A s \in Sockets : Loses(down'[s], down[s])
UpLoses   == up' \in [Sockets -> UpQ] /\ \A s \in Sockets : Loses(up'[s], up[s])
ChanLoses == chan' \in [Sockets -> Seq(Reqs)] /\ \A s \in Sockets : Loses(chan'[s], chan[s])

\* Queues that a step leaves alone.
LEMMA KeepDown == ASSUME FlowTypes, UNCHANGED down PROVE DownLoses
BY LosesSame DEF FlowTypes, DownQ, DownLoses
\* Likewise.
LEMMA KeepUp == ASSUME FlowTypes, UNCHANGED up PROVE UpLoses
BY LosesSame DEF FlowTypes, UpQ, UpLoses
\* Likewise.
LEMMA KeepChan == ASSUME FlowTypes, UNCHANGED chan PROVE ChanLoses
BY LosesSame DEF FlowTypes, ChanLoses

\* A control frame written to a daemon.
LEMMA SendDown ==
    ASSUME FlowTypes, NEW s, NEW f \in DownFrames, NEW h, down' = Sent(down, s, f, h)
    PROVE  DownLoses
<1>1. CASE UNCHANGED down
  BY <1>1, KeepDown
<1>2. CASE down' = [down EXCEPT ![s] = Append(@, f)]
  <2>1. f \notin Reqs /\ f \in DownFrames \cup Reqs
    BY FramesAreNoRequests
  <2>2. \A t \in Sockets : /\ Append(down[t], f) \in DownQ /\ Loses(Append(down[t], f), down[t])
                           /\ down[t] \in DownQ /\ Loses(down[t], down[t])
    BY <2>1, AppendFacts, LosesNothing, LosesSame DEF FlowTypes, DownQ
  <2> QED BY <1>2, <2>2 DEF DownLoses, FlowTypes
<1> QED BY <1>1, <1>2 DEF Sent

\* A control frame written to the controller.
LEMMA SendUp ==
    ASSUME FlowTypes, NEW s, NEW f \in UpFrames, NEW h, up' = Sent(up, s, f, h)
    PROVE  UpLoses
<1>1. CASE UNCHANGED up
  BY <1>1, KeepUp
<1>2. CASE up' = [up EXCEPT ![s] = Append(@, f)]
  <2>1. f \notin Reqs /\ f \in UpFrames \cup Reqs
    BY FramesAreNoRequests
  <2>2. \A t \in Sockets : /\ Append(up[t], f) \in UpQ /\ Loses(Append(up[t], f), up[t])
                           /\ up[t] \in UpQ /\ Loses(up[t], up[t])
    BY <2>1, AppendFacts, LosesNothing, LosesSame DEF FlowTypes, UpQ
  <2> QED BY <1>2, <2>2 DEF UpLoses, FlowTypes
<1> QED BY <1>1, <1>2 DEF Sent

\* A frame the controller reads.
LEMMA ReadUp ==
    ASSUME FlowTypes, NEW s \in Sockets, up[s] # <<>>, up' = [up EXCEPT ![s] = Tail(@)]
    PROVE  UpLoses
<1>1. \A t \in Sockets : up[t] \in UpQ /\ Loses(up[t], up[t])
  BY LosesSame DEF FlowTypes, UpQ
<1>2. Tail(up[s]) \in UpQ /\ Loses(Tail(up[s]), up[s])
  BY LosesHead DEF FlowTypes, UpQ
<1> QED BY <1>1, <1>2 DEF UpLoses, FlowTypes

\* A frame a daemon reads.
LEMMA ReadDown ==
    ASSUME FlowTypes, NEW d, NEW f, Receives(d, f), Consume(d)
    PROVE  DownLoses
<1>1. \A t \in Sockets : down[t] \in DownQ /\ Loses(down[t], down[t])
  BY LosesSame DEF FlowTypes, DownQ
<1>2. cur[d] \in Sockets =>
        Tail(down[cur[d]]) \in DownQ /\ Loses(Tail(down[cur[d]]), down[cur[d]])
  BY LosesHead DEF FlowTypes, DownQ, Receives
<1> QED BY <1>1, <1>2 DEF DownLoses, FlowTypes, Consume

\* What a daemon drops with its socket.
LEMMA DropDown ==
    ASSUME FlowTypes, NEW s, down' = [down EXCEPT ![s] = <<>>]
    PROVE  DownLoses
<1>1. \A t \in Sockets : down[t] \in DownQ /\ Loses(down[t], down[t]) /\ Loses(<<>>, down[t])
  BY LosesSame, LosesAll DEF FlowTypes, DownQ
<1>2. <<>> \in DownQ
  BY DEF DownQ
<1> QED BY <1>1, <1>2 DEF DownLoses, FlowTypes

\* Queues that only lose keep every request unique.
LEMMA UniqueKept ==
    ASSUME NEW P, NEW Q, Unique(Q), \A s \in Sockets : Loses(P[s], Q[s])
    PROVE  Unique(P)
<1> SUFFICES ASSUME NEW r \in Reqs, NEW s \in Sockets, NEW t \in Sockets,
                    NEW i \in 1 .. Len(P[s]), NEW j \in 1 .. Len(P[t]),
                    P[s][i] = r, P[t][j] = r
             PROVE  s = t /\ i = j
    BY DEF Unique
<1>1. PICK n \in {0, 1} : \A k \in 1 .. Len(P[s]) :
          P[s][k] \in Reqs => k + n \in 1 .. Len(Q[s]) /\ Q[s][k + n] = P[s][k]
  BY DEF Loses
<1>2. PICK m \in {0, 1} : \A k \in 1 .. Len(P[t]) :
          P[t][k] \in Reqs => k + m \in 1 .. Len(Q[t]) /\ Q[t][k + m] = P[t][k]
  BY DEF Loses
<1>3. i + n \in 1 .. Len(Q[s]) /\ Q[s][i + n] = r
  BY <1>1
<1>4. j + m \in 1 .. Len(Q[t]) /\ Q[t][j + m] = r
  BY <1>2
<1>5. s = t
  BY <1>3, <1>4 DEF Unique
<1>6. j + n \in 1 .. Len(Q[t]) /\ Q[t][j + n] = r
  BY <1>1, <1>5
<1>7. i + n = j + n
  BY <1>3, <1>5, <1>6 DEF Unique
<1> QED BY <1>5, <1>7

-----------------------------------------------------------------------------
(* Steps that put no request into a queue. *)

\* The invariant survives every step that sends and starts nothing.
LEMMA LosesStep ==
    ASSUME FlowInv, DownLoses, UpLoses, ChanLoses, UNCHANGED runs,
           busy' \in [Daemons -> Reqs \cup {None}],
           \A d \in Daemons : busy'[d] \in {busy[d], None},
           caller' \in [Reqs -> {"idle", "got", "pending", "waiting",
                                 "answered", "timedout", "notfound", "sendfailed"}],
           \A r \in Reqs : Issued(r)' <=> Issued(r),
           slot' \subseteq Reqs,
           \A r \in Reqs : r \in slot' \/ caller'[r] = "answered" => runs[r] > 0
    PROVE  FlowInv'
<1>1. FlowTypes'
  BY DEF FlowInv, FlowTypes, DownLoses, UpLoses, ChanLoses
<1>2. \A r \in Reqs, s \in Sockets : /\ In(r, chan'[s]) => In(r, chan[s])
                                     /\ In(r, down'[s]) => In(r, down[s])
                                     /\ In(r, up'[s]) => In(r, up[s])
  BY LosesIn DEF DownLoses, UpLoses, ChanLoses
<1>3. Causal'
  <2>1. \A d \in Daemons : busy'[d] # None => runs'[busy'[d]] > 0
    BY DEF FlowInv, Causal
  <2>2. \A r \in Reqs : ~Issued(r)' => runs'[r] = 0
    BY DEF FlowInv, Causal
  <2>3. \A r \in Reqs, s \in Sockets : In(r, chan'[s]) \/ In(r, down'[s]) => Issued(r)'
    BY <1>2 DEF FlowInv, Causal
  <2>4. \A r \in Reqs, s \in Sockets : In(r, up'[s]) => runs'[r] > 0
    BY <1>2 DEF FlowInv, Causal
  <2> QED BY <2>1, <2>2, <2>3, <2>4 DEF Causal, In
<1>4. Unique(chan') /\ Unique(down')
  BY UniqueKept DEF FlowInv, Single, DownLoses, ChanLoses
<1>5. Single'
  <2>1. /\ \A r \in Reqs, s \in Sockets, t \in Sockets : In(r, chan'[s]) => ~In(r, down'[t])
        /\ \A r \in Reqs, s \in Sockets : In(r, chan'[s]) \/ In(r, down'[s]) => runs'[r] = 0
    BY <1>2 DEF FlowInv, Single
  <2> QED BY <1>4, <2>1 DEF Single, In, Unique
<1>6. AtMostOnce'
  BY DEF FlowInv, AtMostOnce
<1> QED BY <1>1, <1>3, <1>5, <1>6 DEF FlowInv

\* A step of the calling thread that sends nothing.
LEMMA CallerStep ==
    ASSUME FlowInv, UNCHANGED <<down, up, chan, busy, runs>>, NEW r \in Reqs,
           NEW c \in {"got", "pending", "answered", "timedout", "notfound", "sendfailed"},
           caller' = [caller EXCEPT ![r] = c], slot' \subseteq slot,
           c \in {"answered", "timedout"} => caller[r] = "waiting",
           c = "answered" => r \in slot,
           c \notin {"answered", "timedout"} => ~Issued(r)
    PROVE  FlowInv'
<1>1. DownLoses /\ UpLoses /\ ChanLoses
  BY KeepDown, KeepUp, KeepChan DEF FlowInv
<1>2. caller' \in [Reqs -> {"idle", "got", "pending", "waiting",
                            "answered", "timedout", "notfound", "sendfailed"}]
  BY DEF FlowInv, FlowTypes
<1>3. \A x \in Reqs : caller'[x] = IF x = r THEN c ELSE caller[x]
  BY DEF FlowInv, FlowTypes
<1>4. \A x \in Reqs : Issued(x)' <=> Issued(x)
  BY <1>3 DEF Issued
<1>5. \A x \in Reqs : x \in slot' \/ caller'[x] = "answered" => runs[x] > 0
  BY <1>3 DEF FlowInv, Causal
<1>6. slot' \subseteq Reqs /\ busy' \in [Daemons -> Reqs \cup {None}]
      /\ \A d \in Daemons : busy'[d] \in {busy[d], None}
  BY DEF FlowInv, FlowTypes
<1> QED BY <1>1, <1>2, <1>4, <1>5, <1>6, LosesStep

\* The control plane's own steps.
LEMMA ControlStep ==
    ASSUME FlowInv, DownLoses, UpLoses, UNCHANGED <<caller, slot, chan, runs>>,
           busy' \in [Daemons -> Reqs \cup {None}],
           \A d \in Daemons : busy'[d] \in {busy[d], None}
    PROVE  FlowInv'
<1>1. ChanLoses
  BY KeepChan DEF FlowInv
<1>2. \A r \in Reqs : Issued(r)' <=> Issued(r)
  BY DEF Issued
<1>3. \A r \in Reqs : r \in slot' \/ caller'[r] = "answered" => runs[r] > 0
  BY DEF FlowInv, Causal
<1>4. /\ slot' \subseteq Reqs
      /\ caller' \in [Reqs -> {"idle", "got", "pending", "waiting",
                               "answered", "timedout", "notfound", "sendfailed"}]
  BY DEF FlowInv, FlowTypes
<1> QED BY <1>1, <1>2, <1>3, <1>4, LosesStep

\* A socket's task sends only frames that are no requests.
LEMMA TaskSteps ==
    ASSUME FlowTypes, NEW s \in Sockets,
           TaskStep(s) \/ (\E c \in Conns : HandleRegister(s, c)) \/ CleanUp(s) \/ LeaveLoop(s)
    PROVE  DownLoses /\ UpLoses
<1> USE DEF serverVars, netVars, daemonVars
<1>0. {"RegisterAck", "RegisterNack", "HeartbeatAck", "HeartbeatNack"} = DownFrames
  BY DEF DownFrames
<1>1. ASSUME NEW c \in Conns, HandleRegister(s, c) PROVE DownLoses /\ UpLoses
  BY <1>0, <1>1, SendDown, ReadUp DEF HandleRegister, Reads
<1>2. ASSUME RefuseRegister(s) \/ NackBeat(s) PROVE DownLoses /\ UpLoses
  BY <1>0, <1>2, SendDown, ReadUp DEF RefuseRegister, NackBeat, Reads
<1>3. ASSUME FindBeat(s) PROVE DownLoses /\ UpLoses
  BY <1>3, KeepDown, ReadUp DEF FindBeat, Reads
<1>4. ASSUME AckBeat(s) PROVE DownLoses /\ UpLoses
  BY <1>0, <1>4, SendDown, KeepUp DEF AckBeat
<1>5. ASSUME LeaveLoop(s) PROVE DownLoses /\ UpLoses
  BY <1>5, KeepDown, KeepUp DEF LeaveLoop
<1>6. ASSUME CleanUp(s) PROVE DownLoses /\ UpLoses
  <2>1. \A t \in Sockets : up[t] \in UpQ /\ Loses(up[t], up[t]) /\ Loses(<<>>, up[t])
    BY LosesSame, LosesAll DEF FlowTypes, UpQ
  <2>2. <<>> \in UpQ
    BY DEF UpQ
  <2>3. up' = [up EXCEPT ![s] = <<>>] /\ UNCHANGED down
    BY <1>6 DEF CleanUp
  <2> QED BY <2>1, <2>2, <2>3, KeepDown DEF UpLoses, FlowTypes
<1> QED BY <1>1, <1>2, <1>3, <1>4, <1>5, <1>6 DEF TaskStep, SeeClose, SeeEof, SeeReset

\* A daemon that leaves serve() drops what it had not read.
LEMMA LeaveSteps ==
    ASSUME FlowTypes, NEW d, NEW to, Leave(d, to)
    PROVE  DownLoses
BY DropDown DEF Leave

\* A daemon's own steps send only frames that are no requests.
LEMMA DaemonSteps ==
    ASSUME FlowTypes, NEW d \in Daemons, LoopStep(d) \/ Background(d) \/ DaemonCrash(d)
    PROVE  DownLoses /\ UpLoses
<1> USE DEF serverVars, netVars, daemonVars
<1>0. {"Register", "Heartbeat", "Close"} = UpFrames
  BY DEF UpFrames
<1>1. ASSUME NEW s \in Sockets, Connect(d, s) PROVE DownLoses /\ UpLoses
  <2>1. up' = [up EXCEPT ![s] = <<"Register">>] /\ UNCHANGED down
    BY <1>1 DEF Connect
  <2>2. \A t \in Sockets : up[t] \in UpQ /\ Loses(up[t], up[t])
    BY LosesSame DEF FlowTypes, UpQ
  <2>3. <<"Register">> \in UpQ
    BY DEF UpQ, UpFrames
  <2>4. Loses(<<"Register">>, up[s])
    <3>1. "Register" \notin Reqs
      BY <1>0, FramesAreNoRequests
    <3>2. Len(<<"Register">>) = 1 /\ <<"Register">>[1] = "Register"
      OBVIOUS
    <3> QED BY <3>1, <3>2 DEF Loses
  <2> QED BY <2>1, <2>2, <2>3, <2>4, KeepDown DEF UpLoses, FlowTypes
<1>2. ASSUME Registered(d) \/ RecvOther(d) PROVE DownLoses /\ UpLoses
  BY <1>2, ReadDown, KeepUp DEF Registered, RecvOther
<1>3. ASSUME Refused(d) \/ LoseSocket(d) \/ AckTimeout(d) PROVE DownLoses /\ UpLoses
  BY <1>3, LeaveSteps, KeepUp DEF Refused, LoseSocket, AckTimeout
<1>4. ASSUME UnexpectedFirst(d) PROVE DownLoses /\ UpLoses
  BY <1>4, ReadDown, KeepDown, KeepUp DEF UnexpectedFirst
<1>5. ASSUME RecvBeatAck(d) PROVE DownLoses /\ UpLoses
  BY <1>0, <1>5, ReadDown, SendUp, KeepUp DEF RecvBeatAck
<1>6. ASSUME Shutdown(d) PROVE DownLoses /\ UpLoses
  BY <1>0, <1>6, LeaveSteps, SendUp DEF Shutdown
<1>7. ASSUME Heartbeat(d) PROVE DownLoses /\ UpLoses
  BY <1>0, <1>7, SendUp, KeepDown DEF Heartbeat
<1>8. ASSUME Reap(d) \/ EntryAges(d) \/ AckAges(d) PROVE DownLoses /\ UpLoses
  BY <1>8, KeepUp, KeepDown DEF Reap, EntryAges, AckAges
<1>9. ASSUME DaemonCrash(d) PROVE DownLoses /\ UpLoses
  BY <1>9, LeaveSteps, KeepUp DEF DaemonCrash
<1> QED BY <1>1, <1>2, <1>3, <1>4, <1>5, <1>6, <1>7, <1>8, <1>9 DEF LoopStep, Background

-----------------------------------------------------------------------------
(* Steps that move a request. *)

\* P is Q with r appended to the queue of s, or Q itself.
Grows(P, Q, s, r) ==
    \A t \in Sockets : P[t] = Q[t] \/ (t = s /\ P[t] = Append(Q[t], r))

\* What is in a queue that has grown.
LEMMA GrowsIn ==
    ASSUME NEW P, NEW Q, NEW F, \A t \in Sockets : Q[t] \in Seq(F),
           NEW s, NEW r \in F, Grows(P, Q, s, r)
    PROVE  /\ \A t \in Sockets : P[t] \in Seq(F)
           /\ \A t \in Sockets : \A i \in 1 .. Len(P[t]) :
                 \/ i \in 1 .. Len(Q[t]) /\ P[t][i] = Q[t][i]
                 \/ t = s /\ P[t][i] = r /\ i = Len(Q[t]) + 1
           /\ \A x \in Reqs, t \in Sockets : In(x, P[t]) => In(x, Q[t]) \/ x = r
<1>1. ASSUME NEW t \in Sockets
      PROVE  /\ P[t] \in Seq(F)
             /\ \A i \in 1 .. Len(P[t]) :
                 \/ i \in 1 .. Len(Q[t]) /\ P[t][i] = Q[t][i]
                 \/ t = s /\ P[t][i] = r /\ i = Len(Q[t]) + 1
  <2>1. CASE P[t] = Q[t]
    BY <2>1
  <2>2. CASE t = s /\ P[t] = Append(Q[t], r)
    BY <2>2, AppendFacts
  <2> QED BY <2>1, <2>2 DEF Grows
<1>2. \A x \in Reqs, t \in Sockets : In(x, P[t]) => In(x, Q[t]) \/ x = r
  BY <1>1 DEF In
<1> QED BY <1>1, <1>2

\* Appending a request that is nowhere keeps every request unique.
LEMMA GrowsUnique ==
    ASSUME NEW P, NEW Q, NEW F, \A t \in Sockets : Q[t] \in Seq(F), Unique(Q),
           NEW s, NEW r \in F, Grows(P, Q, s, r), \A t \in Sockets : ~In(r, Q[t])
    PROVE  Unique(P)
<1> SUFFICES ASSUME NEW x \in Reqs, NEW a \in Sockets, NEW b \in Sockets,
                    NEW i \in 1 .. Len(P[a]), NEW j \in 1 .. Len(P[b]),
                    P[a][i] = x, P[b][j] = x
             PROVE  a = b /\ i = j
    BY DEF Unique
<1>1. /\ \/ i \in 1 .. Len(Q[a]) /\ Q[a][i] = x
         \/ a = s /\ x = r /\ i = Len(Q[a]) + 1
      /\ \/ j \in 1 .. Len(Q[b]) /\ Q[b][j] = x
         \/ b = s /\ x = r /\ j = Len(Q[b]) + 1
  BY GrowsIn
<1>2. CASE x = r
  BY <1>1, <1>2 DEF In
<1>3. CASE x # r
  BY <1>1, <1>3 DEF Unique
<1> QED BY <1>2, <1>3

\* A request taken from the head of its queue is in no queue any more.
LEMMA HeadGone ==
    ASSUME NEW P, NEW Q, NEW F, \A t \in Sockets : Q[t] \in Seq(F), Unique(Q),
           NEW s \in Sockets, Q[s] # <<>>, NEW r \in Reqs, r = Head(Q[s]),
           P[s] = Tail(Q[s]), \A t \in Sockets \ {s} : P[t] = Q[t]
    PROVE  In(r, Q[s]) /\ \A t \in Sockets : ~In(r, P[t])
<1>1. /\ Head(Q[s]) = Q[s][1] /\ 1 \in 1 .. Len(Q[s])
      /\ \A i \in 1 .. Len(P[s]) : P[s][i] = Q[s][i + 1] /\ i + 1 \in 1 .. Len(Q[s])
  BY LosesHead
<1>2. In(r, Q[s])
  BY <1>1 DEF In
<1>3. ASSUME NEW t \in Sockets, t # s, NEW i \in 1 .. Len(P[t]), P[t][i] = r PROVE FALSE
  BY <1>1, <1>3 DEF Unique
<1>4. ASSUME NEW i \in 1 .. Len(P[s]), P[s][i] = r PROVE FALSE
  <2>1. Q[s][i + 1] = r /\ i + 1 \in 1 .. Len(Q[s])
    BY <1>1, <1>4
  <2>2. i + 1 = 1
    BY <1>1, <2>1 DEF Unique
  <2> QED BY <2>2
<1> QED BY <1>2, <1>3, <1>4 DEF In

\* A request enters the channel before it can be anywhere else.
LEMMA SendMessageStep ==
    ASSUME FlowInv, NEW r \in Reqs, SendMessage(r)
    PROVE  FlowInv'
<1> USE DEF vars, serverVars, netVars, daemonVars
<1>1. CASE ServerHolds(link[r])
  <2>1. /\ caller[r] = "pending" /\ caller' = [caller EXCEPT ![r] = "waiting"]
        /\ chan' = [chan EXCEPT ![link[r]] = Append(@, r)]
        /\ UNCHANGED <<down, up, slot, busy, runs>>
    BY <1>1 DEF SendMessage
  <2>2. /\ ~Issued(r) /\ Issued(r)'
        /\ \A x \in Reqs \ {r} : /\ Issued(x)' <=> Issued(x)
                                 /\ caller'[x] = caller[x]
        /\ caller'[r] = "waiting"
    BY <2>1 DEF Issued, FlowInv, FlowTypes
  <2>3. Grows(chan', chan, link[r], r) /\ \A t \in Sockets : chan[t] \in Seq(Reqs)
    BY <2>1 DEF Grows, FlowInv, FlowTypes
  <2>4. /\ runs[r] = 0
        /\ \A s \in Sockets : ~In(r, chan[s]) /\ ~In(r, down[s])
    BY <2>2 DEF FlowInv, Causal
  <2>5. /\ \A t \in Sockets : chan'[t] \in Seq(Reqs)
        /\ \A x \in Reqs, t \in Sockets : In(x, chan'[t]) => In(x, chan[t]) \/ x = r
    BY <2>3, GrowsIn
  <2>6. Unique(chan')
    BY <2>3, <2>4, GrowsUnique DEF FlowInv, Single
  <2>7. FlowTypes'
    BY <2>1, <2>5 DEF FlowInv, FlowTypes
  <2>8. Causal'
    <3>1. \A x \in Reqs : ~Issued(x)' => runs'[x] = 0
      BY <2>1, <2>2 DEF FlowInv, Causal
    <3>2. ASSUME NEW x \in Reqs, NEW s \in Sockets, In(x, chan'[s]) \/ In(x, down'[s])
          PROVE  Issued(x)'
      <4>1. CASE x = r
        BY <2>2, <4>1
      <4>2. CASE x # r
        <5>1. In(x, chan[s]) \/ In(x, down[s])
          BY <2>1, <2>5, <3>2, <4>2
        <5> QED BY <2>2, <4>2, <5>1 DEF FlowInv, Causal
      <4> QED BY <4>1, <4>2
    <3>3. /\ \A x \in Reqs, s \in Sockets : In(x, up'[s]) => runs'[x] > 0
          /\ \A x \in Reqs : x \in slot' \/ caller'[x] = "answered" => runs'[x] > 0
          /\ \A d \in Daemons : busy'[d] # None => runs'[busy'[d]] > 0
      BY <2>1, <2>2 DEF FlowInv, Causal
    <3> QED BY <3>1, <3>2, <3>3 DEF Causal, In
  <2>9. Single'
    <3>1. ASSUME NEW x \in Reqs, NEW s \in Sockets, NEW t \in Sockets
          PROVE  /\ In(x, chan'[s]) => ~In(x, down'[t])
                 /\ In(x, chan'[s]) \/ In(x, down'[s]) => runs'[x] = 0
      <4>1. CASE x = r
        BY <2>1, <2>4, <4>1
      <4>2. CASE x # r
        <5>1. In(x, chan'[s]) => In(x, chan[s])
          BY <2>5, <4>2
        <5> QED BY <2>1, <5>1 DEF FlowInv, Single
      <4> QED BY <4>1, <4>2
    <3>2. Unique(down')
      BY <2>1 DEF FlowInv, Single
    <3> QED BY <2>6, <3>1, <3>2 DEF Single, In, Unique
  <2>10. AtMostOnce'
    BY <2>1 DEF FlowInv, AtMostOnce
  <2> QED BY <2>7, <2>8, <2>9, <2>10 DEF FlowInv
<1>2. CASE ~ServerHolds(link[r])
  <2>1. /\ caller[r] = "pending" /\ caller' = [caller EXCEPT ![r] = "sendfailed"]
        /\ slot' = slot \ {r}
        /\ UNCHANGED <<down, up, chan, busy, runs>>
    BY <1>2 DEF SendMessage, Return
  <2>2. ~Issued(r) /\ slot' \subseteq slot
    BY <2>1 DEF Issued
  <2> DEFINE c == "sendfailed"
  <2>3. /\ c \in {"got", "pending", "answered", "timedout", "notfound", "sendfailed"}
        /\ c \notin {"answered", "timedout"}
        /\ caller' = [caller EXCEPT ![r] = c]
    BY <2>1
  <2> HIDE DEF c
  <2> QED BY <2>1, <2>2, <2>3, CallerStep
<1> QED BY <1>1, <1>2

\* The task moves a request from its channel to the socket, or loses it.
LEMMA ForwardStep ==
    ASSUME FlowInv, NEW s \in Sockets, Forward(s)
    PROVE  FlowInv'
<1> USE DEF serverVars, netVars, daemonVars, callVars
<1> DEFINE r == Head(chan[s])
<1>1. /\ chan[s] # <<>> /\ down' = Sent(down, s, r, DaemonHolds(s))
      /\ chan' = [chan EXCEPT ![s] = Tail(@)]
      /\ UNCHANGED <<up, caller, slot, busy, runs>>
  BY DEF Forward
<1>2. /\ \A t \in Sockets : chan[t] \in Seq(Reqs) /\ down[t] \in Seq(DownFrames \cup Reqs)
      /\ chan'[s] = Tail(chan[s]) /\ \A t \in Sockets \ {s} : chan'[t] = chan[t]
      /\ r \in Reqs
  BY <1>1 DEF FlowInv, FlowTypes, DownQ
<1> HIDE DEF r
<1>3. In(r, chan[s]) /\ \A t \in Sockets : ~In(r, chan'[t])
  <2>1. r = Head(chan[s]) /\ chan[s] # <<>> /\ Unique(chan)
    BY <1>1 DEF FlowInv, Single, r
  <2> QED BY <1>2, <2>1, HeadGone
<1>4. Grows(down', down, s, r)
  BY <1>1, <1>2 DEF Grows, Sent, FlowInv, FlowTypes
<1>5. ChanLoses
  <2>1. \A t \in Sockets : Loses(chan[t], chan[t])
    BY <1>2, LosesSame
  <2>2. Loses(Tail(chan[s]), chan[s]) /\ Tail(chan[s]) \in Seq(Reqs)
    BY <1>1, <1>2, LosesHead
  <2> QED BY <1>1, <1>2, <2>1, <2>2 DEF ChanLoses, FlowInv, FlowTypes
<1>6. /\ Issued(r) /\ runs[r] = 0 /\ \A t \in Sockets : ~In(r, down[t])
  BY <1>2, <1>3 DEF FlowInv, Causal, Single
<1>7. /\ \A t \in Sockets : down'[t] \in Seq(DownFrames \cup Reqs)
      /\ \A x \in Reqs, t \in Sockets : In(x, down'[t]) => In(x, down[t]) \/ x = r
  BY <1>2, <1>4, GrowsIn
<1>8. Unique(chan') /\ Unique(down')
  <2>1. Unique(chan')
    BY <1>5, UniqueKept DEF FlowInv, Single, ChanLoses
  <2>2. Unique(down')
    BY <1>2, <1>4, <1>6, GrowsUnique DEF FlowInv, Single
  <2> QED BY <2>1, <2>2
<1>9. \A x \in Reqs, t \in Sockets : In(x, chan'[t]) => In(x, chan[t]) /\ x # r
  BY <1>3, <1>5, LosesIn DEF ChanLoses
<1>10. FlowTypes'
  <2>1. down' \in [Sockets -> DownQ]
    BY <1>1, <1>7 DEF Sent, FlowInv, FlowTypes, DownQ
  <2> QED BY <1>1, <1>5, <2>1 DEF FlowInv, FlowTypes, ChanLoses
<1>11. Causal'
  <2>1. \A x \in Reqs : Issued(x)' <=> Issued(x)
    BY <1>1 DEF Issued
  <2>2. ASSUME NEW x \in Reqs, NEW t \in Sockets, In(x, chan'[t]) \/ In(x, down'[t])
        PROVE  Issued(x)'
    <3>1. In(x, chan[t]) \/ In(x, down[t]) \/ x = r
      BY <1>7, <1>9, <2>2
    <3> QED BY <1>6, <2>1, <3>1 DEF FlowInv, Causal
  <2>3. /\ \A x \in Reqs : ~Issued(x)' => runs'[x] = 0
        /\ \A x \in Reqs, t \in Sockets : In(x, up'[t]) => runs'[x] > 0
        /\ \A x \in Reqs : x \in slot' \/ caller'[x] = "answered" => runs'[x] > 0
        /\ \A d \in Daemons : busy'[d] # None => runs'[busy'[d]] > 0
    BY <1>1, <2>1 DEF FlowInv, Causal
  <2> QED BY <2>2, <2>3 DEF Causal, In
<1>12. Single'
  <2>1. ASSUME NEW x \in Reqs, NEW a \in Sockets, NEW b \in Sockets
        PROVE  /\ In(x, chan'[a]) => ~In(x, down'[b])
               /\ In(x, chan'[a]) \/ In(x, down'[a]) => runs'[x] = 0
    BY <1>1, <1>6, <1>7, <1>9 DEF FlowInv, Single
  <2> QED BY <1>8, <2>1 DEF Single, In, Unique
<1>13. AtMostOnce'
  BY <1>1 DEF FlowInv, AtMostOnce
<1> QED BY <1>10, <1>11, <1>12, <1>13 DEF FlowInv

\* A request is started as it leaves the socket, and is nowhere else then.
LEMMA BeginStep ==
    ASSUME FlowInv, LinkTypes, NEW d \in Daemons, NEW r \in Reqs, Begin(d, r)
    PROVE  FlowInv'
<1> USE DEF serverVars, netVars, daemonVars, callVars
<1>1. /\ Receives(d, r) /\ Consume(d)
      /\ busy' = [busy EXCEPT ![d] = r] /\ runs' = [runs EXCEPT ![r] = @ + 1]
      /\ UNCHANGED <<up, caller, slot, chan>>
  BY DEF Begin
<1> DEFINE s == cur[d]
<1>2. s \in Sockets /\ down[s] # <<>> /\ r = Head(down[s])
  BY <1>1 DEF Receives, LinkTypes
<1>3. /\ \A t \in Sockets : down[t] \in Seq(DownFrames \cup Reqs)
      /\ down'[s] = Tail(down[s]) /\ \A t \in Sockets \ {s} : down'[t] = down[t]
  BY <1>1, <1>2 DEF FlowInv, FlowTypes, DownQ, Consume
<1>4. DownLoses
  BY <1>1, ReadDown DEF FlowInv
<1> HIDE DEF s
<1>5. In(r, down[s]) /\ \A t \in Sockets : ~In(r, down'[t])
  BY <1>2, <1>3, HeadGone DEF FlowInv, Single
<1>6. Issued(r) /\ runs[r] = 0 /\ \A t \in Sockets : ~In(r, chan[t])
  BY <1>2, <1>5 DEF FlowInv, Causal, Single
<1>7. \A x \in Reqs, t \in Sockets : In(x, down'[t]) => In(x, down[t]) /\ x # r
  BY <1>4, <1>5, LosesIn DEF DownLoses
<1>8. /\ runs'[r] = 1 /\ \A x \in Reqs \ {r} : runs'[x] = runs[x]
      /\ runs' \in [Reqs -> Nat]
  BY <1>1, <1>6 DEF FlowInv, FlowTypes
<1>9. FlowTypes'
  BY <1>1, <1>4, <1>8 DEF FlowInv, FlowTypes, DownLoses
<1>10. Causal'
  <2>1. \A x \in Reqs : Issued(x)' <=> Issued(x)
    BY <1>1 DEF Issued
  <2>2. \A x \in Reqs : ~Issued(x)' => runs'[x] = 0
    BY <1>6, <1>8, <2>1 DEF FlowInv, Causal
  <2>3. ASSUME NEW x \in Reqs, NEW t \in Sockets, In(x, chan'[t]) \/ In(x, down'[t])
        PROVE  Issued(x)'
    BY <1>1, <1>7, <2>1, <2>3 DEF FlowInv, Causal
  <2>4. \A x \in Reqs : runs[x] > 0 => runs'[x] > 0
    BY <1>6, <1>8
  <2>5. /\ \A x \in Reqs, t \in Sockets : In(x, up'[t]) => runs'[x] > 0
        /\ \A x \in Reqs : x \in slot' \/ caller'[x] = "answered" => runs'[x] > 0
    BY <1>1, <2>4 DEF FlowInv, Causal
  <2>6. ASSUME NEW e \in Daemons, busy'[e] # None PROVE runs'[busy'[e]] > 0
    <3>1. CASE e = d
      BY <1>1, <1>8, <3>1 DEF FlowInv, FlowTypes
    <3>2. CASE e # d
      BY <1>1, <2>4, <2>6, <3>2 DEF FlowInv, FlowTypes, Causal
    <3> QED BY <3>1, <3>2
  <2> QED BY <2>2, <2>3, <2>5, <2>6 DEF Causal, In
<1>11. Single'
  <2>1. ASSUME NEW x \in Reqs, NEW a \in Sockets, NEW b \in Sockets
        PROVE  /\ In(x, chan'[a]) => ~In(x, down'[b])
               /\ In(x, chan'[a]) \/ In(x, down'[a]) => runs'[x] = 0
    BY <1>1, <1>6, <1>7, <1>8 DEF FlowInv, Single
  <2>2. Unique(chan')
    BY <1>1 DEF FlowInv, Single
  <2>3. Unique(down')
    BY <1>4, UniqueKept DEF FlowInv, Single, DownLoses
  <2> QED BY <2>1, <2>2, <2>3 DEF Single, In, Unique
<1>12. AtMostOnce'
  BY <1>8 DEF FlowInv, AtMostOnce
<1> QED BY <1>9, <1>10, <1>11, <1>12 DEF FlowInv

\* Only a request that ran is answered.
LEMMA RespondStep ==
    ASSUME FlowInv, NEW d \in Daemons, busy[d] \in Reqs, Respond(d)
    PROVE  FlowInv'
<1> USE DEF serverVars, netVars, daemonVars, callVars
<1> DEFINE r == busy[d]
<1>1. /\ up' = Sent(up, cur[d], r, ServerHolds(cur[d]))
      /\ busy' = [busy EXCEPT ![d] = None]
      /\ UNCHANGED <<down, caller, slot, chan, runs>>
  BY DEF Respond
<1>2. r \in Reqs /\ runs[r] > 0
  BY FramesAreNoRequests DEF FlowInv, Causal
<1>3. busy' \in [Daemons -> Reqs \cup {None}] /\ \A e \in Daemons : busy'[e] \in {busy[e], None}
  BY <1>1 DEF FlowInv, FlowTypes
<1> HIDE DEF r
<1>4. Grows(up', up, cur[d], r) /\ \A t \in Sockets : up[t] \in Seq(UpFrames \cup Reqs)
  BY <1>1 DEF Grows, Sent, FlowInv, FlowTypes, UpQ
<1>5. /\ \A t \in Sockets : up'[t] \in Seq(UpFrames \cup Reqs)
      /\ \A x \in Reqs, t \in Sockets : In(x, up'[t]) => In(x, up[t]) \/ x = r
  BY <1>2, <1>4, GrowsIn
<1>6. up' \in [Sockets -> UpQ]
  BY <1>1, <1>5 DEF Sent, FlowInv, FlowTypes, UpQ
<1>7. FlowTypes'
  BY <1>1, <1>3, <1>6 DEF FlowInv, FlowTypes
<1>8. Causal'
  <2>1. \A x \in Reqs : Issued(x)' <=> Issued(x)
    BY <1>1 DEF Issued
  <2>2. \A x \in Reqs, t \in Sockets : In(x, up'[t]) => runs'[x] > 0
    BY <1>1, <1>2, <1>5 DEF FlowInv, Causal
  <2>3. /\ \A x \in Reqs : ~Issued(x)' => runs'[x] = 0
        /\ \A x \in Reqs, t \in Sockets : In(x, chan'[t]) \/ In(x, down'[t]) => Issued(x)'
        /\ \A x \in Reqs : x \in slot' \/ caller'[x] = "answered" => runs'[x] > 0
    BY <1>1, <2>1 DEF FlowInv, Causal
  <2>4. \A e \in Daemons : busy'[e] # None => runs'[busy'[e]] > 0
    BY <1>1, <1>3 DEF FlowInv, Causal
  <2> QED BY <2>2, <2>3, <2>4 DEF Causal, In
<1>9. Single'
  BY <1>1 DEF FlowInv, Single, In, Unique
<1>10. AtMostOnce'
  BY <1>1 DEF FlowInv, AtMostOnce
<1> QED BY <1>7, <1>8, <1>9, <1>10 DEF FlowInv

-----------------------------------------------------------------------------
(* Every step. *)

\* The calling thread.
LEMMA CallerSteps ==
    ASSUME FlowInv, NEW r \in Reqs, Caller(r)
    PROVE  FlowInv'
<1> USE DEF vars, serverVars, netVars, daemonVars
<1>1. ASSUME NEW d \in Daemons, GetConn(r, d) PROVE FlowInv'
  <2>1. PICK c \in {"got", "notfound"} : caller' = [caller EXCEPT ![r] = c]
    BY <1>1 DEF GetConn
  <2>2. /\ UNCHANGED <<down, up, chan, busy, runs>> /\ slot' \subseteq slot /\ ~Issued(r)
    BY <1>1 DEF GetConn, Issued
  <2> QED BY <2>1, <2>2, CallerStep
<1>2. ASSUME RegisterRequest(r) PROVE FlowInv'
  <2>1. PICK c \in {"pending"} : caller' = [caller EXCEPT ![r] = c]
    BY <1>2 DEF RegisterRequest
  <2>2. /\ UNCHANGED <<down, up, chan, busy, runs>> /\ slot' \subseteq slot /\ ~Issued(r)
    BY <1>2 DEF RegisterRequest, Issued
  <2> QED BY <2>1, <2>2, CallerStep
<1>3. ASSUME TakeResponse(r) \/ CallTimeout(r) PROVE FlowInv'
  <2>1. PICK c \in {"answered", "timedout"} :
            /\ caller' = [caller EXCEPT ![r] = c]
            /\ c = "answered" => r \in slot
    BY <1>3 DEF TakeResponse, CallTimeout, Return
  <2>2. /\ UNCHANGED <<down, up, chan, busy, runs>> /\ slot' \subseteq slot
        /\ caller[r] = "waiting"
    BY <1>3 DEF TakeResponse, CallTimeout, Return
  <2> QED BY <2>1, <2>2, CallerStep
<1> QED BY <1>1, <1>2, <1>3, SendMessageStep DEF Caller

\* The sockets' tasks.
LEMMA SocketSteps ==
    ASSUME FlowInv, NEW s \in Sockets, SocketStep(s) \/ PathBreaks(s)
    PROVE  FlowInv'
<1> USE DEF serverVars, netVars, daemonVars, callVars, rpcVars
<1>0. FlowTypes
  BY DEF FlowInv
<1>00. /\ busy \in [Daemons -> Reqs \cup {None}] /\ \A d \in Daemons : busy[d] \in {busy[d], None}
  BY <1>0 DEF FlowTypes
<1>1. ASSUME NEW c \in Conns, Register(s, c) PROVE FlowInv'
  <2>1. HandleRegister(s, c) /\ UNCHANGED <<caller, slot, chan, runs, busy>>
    BY <1>1 DEF Register
  <2>2. DownLoses /\ UpLoses
    BY <1>0, <2>1, TaskSteps
  <2> QED BY <1>00, <2>1, <2>2, ControlStep
<1>2. ASSUME TaskStep(s) PROVE FlowInv'
  <2>1. UNCHANGED <<caller, slot, chan, runs, busy>>
    BY <1>2 DEF TaskStep
  <2>2. DownLoses /\ UpLoses
    BY <1>0, <1>2, TaskSteps
  <2> QED BY <1>00, <2>1, <2>2, ControlStep
<1>3. ASSUME PathBreaks(s) PROVE FlowInv'
  <2>1. UNCHANGED <<caller, slot, chan, runs, busy, up, down>>
    BY <1>3 DEF PathBreaks, Break
  <2>2. DownLoses /\ UpLoses
    BY <1>0, <2>1, KeepDown, KeepUp
  <2> QED BY <1>00, <2>1, <2>2, ControlStep
<1>4. ASSUME DownLoses /\ UpLoses, UNCHANGED <<caller, slot, runs, busy>>,
             NEW q \in {<<>>, Tail(chan[s])}, chan' = [chan EXCEPT ![s] = q],
             q = <<>> \/ chan[s] # <<>>
      PROVE  FlowInv'
  <2>1. \A t \in Sockets : /\ chan[t] \in Seq(Reqs) /\ Loses(chan[t], chan[t])
                           /\ Loses(<<>>, chan[t])
    BY <1>0, LosesSame, LosesAll DEF FlowTypes
  <2>2. q \in Seq(Reqs) /\ Loses(q, chan[s])
    <3>1. CASE q = <<>>
      BY <2>1, <3>1
    <3>2. CASE chan[s] # <<>> /\ q = Tail(chan[s])
      BY <2>1, <3>2, LosesHead
    <3> QED BY <1>4, <3>1, <3>2
  <2>3. ChanLoses
    BY <1>0, <1>4, <2>1, <2>2 DEF ChanLoses, FlowTypes
  <2>4. \A r \in Reqs : Issued(r)' <=> Issued(r)
    BY <1>4 DEF Issued
  <2>5. /\ slot' \subseteq Reqs
        /\ caller' \in [Reqs -> {"idle", "got", "pending", "waiting",
                                 "answered", "timedout", "notfound", "sendfailed"}]
        /\ \A r \in Reqs : r \in slot' \/ caller'[r] = "answered" => runs[r] > 0
    BY <1>4 DEF FlowInv, FlowTypes, Causal
  <2> QED BY <1>00, <1>4, <2>3, <2>4, <2>5, LosesStep
<1>5. ASSUME DropChannel(s) PROVE FlowInv'
  <2>1. UNCHANGED <<caller, slot, runs, busy>> /\ CleanUp(s)
    BY <1>5 DEF DropChannel
  <2>2. DownLoses /\ UpLoses
    BY <1>0, <2>1, TaskSteps
  <2>3. PICK q \in {<<>>, Tail(chan[s])} :
            chan' = [chan EXCEPT ![s] = q] /\ q = <<>>
    BY <1>5 DEF DropChannel
  <2> QED BY <1>4, <2>1, <2>2, <2>3
<1>6. ASSUME ForwardFails(s) PROVE FlowInv'
  <2>1. UNCHANGED <<caller, slot, runs, busy>> /\ LeaveLoop(s) /\ chan[s] # <<>>
    BY <1>6 DEF ForwardFails
  <2>2. DownLoses /\ UpLoses
    BY <1>0, <2>1, TaskSteps
  <2>3. PICK q \in {<<>>, Tail(chan[s])} : chan' = [chan EXCEPT ![s] = q]
    BY <1>6 DEF ForwardFails
  <2> QED BY <1>4, <2>1, <2>2, <2>3
<1>7. ASSUME NEW r \in Reqs, CompleteRequest(s, r) PROVE FlowInv'
  <2>1. /\ up[s] # <<>> /\ Head(up[s]) = r /\ up' = [up EXCEPT ![s] = Tail(@)]
        /\ UNCHANGED <<down, chan, caller, busy, runs>>
        /\ slot' \subseteq slot \cup {r}
    BY <1>7 DEF CompleteRequest, Reads
  <2>2. runs[r] > 0
    <3>1. up[s] \in Seq(UpFrames \cup Reqs)
      BY <1>0 DEF FlowTypes, UpQ
    <3>2. r = up[s][1] /\ 1 \in 1 .. Len(up[s])
      BY <2>1, <3>1, LosesHead
    <3> QED BY <3>2 DEF FlowInv, Causal, In
  <2>3. DownLoses /\ UpLoses /\ ChanLoses
    BY <1>0, <2>1, KeepDown, KeepChan, ReadUp
  <2>4. \A x \in Reqs : Issued(x)' <=> Issued(x)
    BY <2>1 DEF Issued
  <2>5. /\ slot' \subseteq Reqs
        /\ caller' \in [Reqs -> {"idle", "got", "pending", "waiting",
                                 "answered", "timedout", "notfound", "sendfailed"}]
        /\ \A x \in Reqs : x \in slot' \/ caller'[x] = "answered" => runs[x] > 0
    BY <2>1, <2>2 DEF FlowInv, FlowTypes, Causal
  <2> QED BY <1>00, <2>1, <2>3, <2>4, <2>5, LosesStep
<1> QED BY <1>1, <1>2, <1>3, <1>5, <1>6, <1>7, ForwardStep DEF SocketStep

\* The daemons.
LEMMA DaemonStepsKeep ==
    ASSUME FlowInv, LinkTypes, NEW d \in Daemons, DaemonStep(d)
    PROVE  FlowInv'
<1> USE DEF serverVars, netVars, daemonVars, callVars, rpcVars
<1>0. FlowTypes
  BY DEF FlowInv
<1>00. /\ busy \in [Daemons -> Reqs \cup {None}] /\ \A e \in Daemons : busy[e] \in {busy[e], None}
  BY <1>0 DEF FlowTypes
<1>01. LET b == [busy EXCEPT ![d] = None] IN
         b \in [Daemons -> Reqs \cup {None}] /\ \A e \in Daemons : b[e] \in {busy[e], None}
  BY <1>0 DEF FlowTypes
<1>1. ASSUME NEW r \in Reqs, StartCommand(d, r) \/ StartSnapshotCall(d, r) PROVE FlowInv'
  BY <1>1, BeginStep DEF StartCommand, StartSnapshotCall
<1>2. ASSUME FinishCommand(d) \/ TimeoutCommand(d) \/ AnswerSnapshotCall(d) PROVE FlowInv'
  BY <1>2, RespondStep, ReqsAssumption
     DEF FinishCommand, TimeoutCommand, AnswerSnapshotCall, SnapshotCalls
<1>3. ASSUME NEW r \in Reqs, StrayExits(d, r) PROVE FlowInv'
  <2>1. UNCHANGED <<caller, slot, chan, runs, busy, up, down>>
    BY <1>3 DEF StrayExits, vars
  <2>2. DownLoses /\ UpLoses
    BY <1>0, <2>1, KeepDown, KeepUp
  <2> QED BY <1>00, <2>1, <2>2, ControlStep
<1>4. ASSUME LeaveUnanswered(d) PROVE FlowInv'
  <2>1. UNCHANGED <<caller, slot, chan, runs, up, down>> /\ busy' = [busy EXCEPT ![d] = None]
    BY <1>4 DEF LeaveUnanswered
  <2>2. DownLoses /\ UpLoses
    BY <1>0, <2>1, KeepDown, KeepUp
  <2> QED BY <1>01, <2>1, <2>2, ControlStep
<1>5. ASSUME LoopStep(d) \/ Background(d) PROVE FlowInv'
  <2>1. UNCHANGED <<caller, slot, chan, runs, busy>>
    BY <1>5 DEF LoopStep, Background
  <2>2. DownLoses /\ UpLoses
    BY <1>0, <1>5, DaemonSteps
  <2> QED BY <1>00, <2>1, <2>2, ControlStep
<1>6. ASSUME CrashBusy(d) PROVE FlowInv'
  <2>1. UNCHANGED <<caller, slot, chan, runs>> /\ busy' = [busy EXCEPT ![d] = None]
    BY <1>6 DEF CrashBusy
  <2>2. DownLoses /\ UpLoses
    BY <1>0, <1>6, DaemonSteps DEF CrashBusy
  <2> QED BY <1>01, <2>1, <2>2, ControlStep
<1> QED BY <1>1, <1>2, <1>3, <1>4, <1>5, <1>6 DEF DaemonStep

\* Nothing travels at the start.
LEMMA FlowInit == RpcInit => FlowInv
<1> SUFFICES ASSUME RpcInit PROVE FlowInv
  OBVIOUS
<1>1. FlowTypes
  BY DEF RpcInit, Init, FlowTypes, DownQ, UpQ
<1>2. \A s \in Sockets : chan[s] = <<>> /\ down[s] = <<>> /\ up[s] = <<>>
  BY DEF RpcInit, Init
<1>3. \A r \in Reqs, s \in Sockets : ~In(r, chan[s]) /\ ~In(r, down[s]) /\ ~In(r, up[s])
  BY <1>2 DEF In
<1>4. Causal
  BY <1>3 DEF Causal, RpcInit
<1>5. Unique(chan) /\ Unique(down)
  BY <1>2 DEF Unique
<1>6. Single
  BY <1>3, <1>5 DEF Single
<1>7. AtMostOnce
  BY DEF AtMostOnce, RpcInit
<1> QED BY <1>1, <1>4, <1>6, <1>7 DEF FlowInv

\* The invariant is inductive.
LEMMA FlowStep == FlowInv /\ LinkTypes /\ [RpcNext]_allVars => FlowInv'
<1> SUFFICES ASSUME FlowInv, LinkTypes, [RpcNext]_allVars PROVE FlowInv'
  OBVIOUS
<1>1. CASE RpcNext
  BY <1>1, CallerSteps, SocketSteps, DaemonStepsKeep DEF RpcNext
<1>2. CASE UNCHANGED allVars
  BY <1>2 DEF allVars, vars, netVars, rpcVars, callVars, FlowInv, FlowTypes, Causal, Single,
              AtMostOnce, Issued, In, Unique
<1> QED BY <1>1, <1>2

\* A daemon's socket is a socket.
LEMMA LinkStep == LinkTypes /\ [RpcNext]_allVars => LinkTypes'
<1> SUFFICES ASSUME LinkTypes, [RpcNext]_allVars PROVE LinkTypes'
  OBVIOUS
<1> USE DEF LinkTypes, vars, serverVars, netVars, daemonVars, rpcVars, callVars, allVars
<1>1. ASSUME NEW r \in Reqs, Caller(r) PROVE LinkTypes'
  BY <1>1 DEF Caller, GetConn, RegisterRequest, SendMessage, TakeResponse, CallTimeout
<1>2. ASSUME NEW s \in Sockets, SocketStep(s) \/ PathBreaks(s) PROVE LinkTypes'
  <2>1. ASSUME Forward(s) \/ ForwardFails(s) \/ DropChannel(s) \/ PathBreaks(s) PROVE LinkTypes'
    BY <2>1 DEF Forward, ForwardFails, LeaveLoop, DropChannel, CleanUp, PathBreaks, Break
  <2>2. ASSUME TaskStep(s) PROVE LinkTypes'
    BY <2>2 DEF TaskStep, RefuseRegister, FindBeat, AckBeat, NackBeat, SeeClose, SeeEof,
                SeeReset, LeaveLoop
  <2>3. ASSUME NEW c \in Conns, Register(s, c) PROVE LinkTypes'
    BY <2>3 DEF Register, HandleRegister
  <2>4. ASSUME NEW r \in Reqs, CompleteRequest(s, r) PROVE LinkTypes'
    BY <2>4 DEF CompleteRequest
  <2> QED BY <1>2, <2>1, <2>2, <2>3, <2>4 DEF SocketStep
<1>3. ASSUME NEW d \in Daemons, DaemonStep(d) PROVE LinkTypes'
  <2>1. ASSUME NEW r \in Reqs, StartCommand(d, r) \/ StartSnapshotCall(d, r) \/ StrayExits(d, r)
        PROVE  LinkTypes'
    BY <2>1 DEF StartCommand, StartSnapshotCall, StrayExits, Begin
  <2>2. ASSUME FinishCommand(d) \/ TimeoutCommand(d) \/ AnswerSnapshotCall(d) \/ LeaveUnanswered(d)
        PROVE  LinkTypes'
    BY <2>2 DEF FinishCommand, TimeoutCommand, AnswerSnapshotCall, LeaveUnanswered, Respond
  <2>3. ASSUME NEW s \in Sockets, Connect(d, s) PROVE LinkTypes'
    BY <2>3 DEF Connect
  <2>4. ASSUME NEW to, Leave(d, to) PROVE LinkTypes'
    BY <2>4 DEF Leave
  <2>5. ASSUME LoopStep(d) PROVE LinkTypes'
    BY <2>3, <2>4, <2>5 DEF LoopStep, Registered, Refused, UnexpectedFirst, LoseSocket, AckTimeout,
                            RecvBeatAck, RecvOther, Shutdown
  <2>6. ASSUME Background(d) \/ CrashBusy(d) PROVE LinkTypes'
    BY <2>4, <2>6 DEF Background, Heartbeat, Reap, EntryAges, AckAges, CrashBusy, DaemonCrash
  <2> QED BY <1>3, <2>1, <2>2, <2>5, <2>6 DEF DaemonStep
<1>4. CASE UNCHANGED allVars
  BY <1>4
<1> QED BY <1>1, <1>2, <1>3, <1>4 DEF RpcNext

\* The invariant holds in every state.
LEMMA FlowAlways == RpcSpec => [](FlowInv /\ LinkTypes)
<1>1. RpcInit => LinkTypes
  BY DEF RpcInit, Init, LinkTypes
<1> QED BY <1>1, FlowInit, FlowStep, LinkStep, PTL DEF RpcSpec

-----------------------------------------------------------------------------
(* What the requests' flow gives. *)

\* No request is started twice: of exec and of the snapshot calls, on any
\* number of daemons and sockets, across losses, crashes and reconnections.
THEOREM AtMostOnceAlways == RpcSpec => []AtMostOnce
<1>1. FlowInv => AtMostOnce
  BY DEF FlowInv
<1> QED BY <1>1, FlowAlways, PTL

\* What has become of a call, from where its thread is.
LEMMA StatusCases ==
    ASSUME FlowTypes
    PROVE  \A r \in Reqs :
             /\ caller[r] = "idle" => Status(r) = "idle"
             /\ caller[r] \in {"got", "pending", "waiting"} => Status(r) = "open"
             /\ caller[r] \in {"notfound", "sendfailed"} => Status(r) = "rejected"
             /\ caller[r] \in {"answered", "timedout"} => Status(r) = caller[r]
BY DEF FlowTypes, Status

StatusOf == [r \in Reqs |-> Status(r)]
Ran == {r \in Reqs : runs[r] > 0}

\* A step of one call's thread changes that call's status alone.
LEMMA OneStatus ==
    ASSUME FlowTypes, FlowTypes', NEW r \in Reqs, \A x \in Reqs \ {r} : caller'[x] = caller[x]
    PROVE  StatusOf' = [StatusOf EXCEPT ![r] = Status(r)']
<1>1. \A x \in Reqs \ {r} : Status(x)' = Status(x)
  BY DEF Status
<1> QED BY <1>1 DEF StatusOf

\* The caller's steps map to Start, Reject, Answer and TimeOut.
LEMMA CallerMaps ==
    ASSUME FlowInv, FlowInv', NEW r \in Reqs, Caller(r)
    PROVE  AbstractCall!Next \/ UNCHANGED <<StatusOf, Ran>>
<1>1. FlowTypes /\ FlowTypes'
  BY DEF FlowInv
<1>2. \A x \in Reqs \ {r} : caller'[x] = caller[x]
  BY <1>1 DEF FlowTypes, Caller, GetConn, RegisterRequest, SendMessage, TakeResponse, CallTimeout, Return
<1>3. runs' = runs
  BY DEF Caller, GetConn, RegisterRequest, SendMessage, TakeResponse, CallTimeout
<1>4. Ran' = Ran
  BY <1>3 DEF Ran
<1>5. StatusOf' = [StatusOf EXCEPT ![r] = Status(r)'] /\ StatusOf[r] = Status(r)
  BY <1>1, <1>2, OneStatus DEF StatusOf
<1>6. /\ caller[r] = "idle" => Status(r) = "idle"
      /\ caller[r] \in {"got", "pending", "waiting"} => Status(r) = "open"
      /\ caller'[r] \in {"got", "pending", "waiting"} => Status(r)' = "open"
      /\ caller'[r] \in {"notfound", "sendfailed"} => Status(r)' = "rejected"
      /\ caller'[r] \in {"answered", "timedout"} => Status(r)' = caller'[r]
  BY <1>1 DEF FlowTypes, Status
<1>7. /\ caller[r] \in {"idle", "pending"} => r \notin Ran
      /\ r \in slot => r \in Ran
  BY DEF FlowInv, Causal, Issued, Ran
<1>8. \/ caller[r] = "idle" /\ caller'[r] = "notfound"
      \/ caller[r] = "idle" /\ caller'[r] = "got"
      \/ caller[r] = "got" /\ caller'[r] = "pending"
      \/ caller[r] = "pending" /\ caller'[r] \in {"waiting", "sendfailed"}
      \/ caller[r] = "waiting" /\ caller'[r] = "answered" /\ r \in slot
      \/ caller[r] = "waiting" /\ caller'[r] = "timedout"
  BY <1>1 DEF FlowTypes, Caller, GetConn, RegisterRequest, SendMessage, TakeResponse, CallTimeout, Return
<1>9. CASE caller[r] = "idle" /\ caller'[r] = "got"
  <2>1. AbstractCall!Start(r)
    BY <1>4, <1>5, <1>6, <1>9 DEF AbstractCall!Start, StatusOf, Ran
  <2> QED BY <2>1 DEF AbstractCall!Next
<1>10. CASE caller[r] \in {"idle", "pending"} /\ caller'[r] \in {"notfound", "sendfailed"}
  <2>1. AbstractCall!Reject(r)
    BY <1>4, <1>5, <1>6, <1>7, <1>10 DEF AbstractCall!Reject, StatusOf, Ran
  <2> QED BY <2>1 DEF AbstractCall!Next
<1>11. CASE caller[r] = "waiting" /\ caller'[r] = "answered" /\ r \in slot
  <2>1. AbstractCall!Answer(r)
    BY <1>4, <1>5, <1>6, <1>7, <1>11 DEF AbstractCall!Answer, StatusOf, Ran
  <2> QED BY <2>1 DEF AbstractCall!Next
<1>12. CASE caller[r] = "waiting" /\ caller'[r] = "timedout"
  <2>1. AbstractCall!TimeOut(r)
    BY <1>4, <1>5, <1>6, <1>12 DEF AbstractCall!TimeOut, StatusOf, Ran
  <2> QED BY <2>1 DEF AbstractCall!Next
<1>13. CASE /\ caller[r] \in {"got", "pending"}
            /\ caller'[r] \in {"pending", "waiting"}
  BY <1>4, <1>5, <1>6, <1>13 DEF StatusOf
<1> QED BY <1>8, <1>9, <1>10, <1>11, <1>12, <1>13

\* A request that starts maps to Run.
LEMMA BeginMaps ==
    ASSUME FlowInv, FlowInv', LinkTypes, NEW d \in Daemons, NEW r \in Reqs, Begin(d, r)
    PROVE  AbstractCall!Next
<1>1. /\ caller' = caller /\ runs' = [runs EXCEPT ![r] = @ + 1]
      /\ runs \in [Reqs -> Nat] /\ cur[d] \in Sockets /\ FlowTypes
      /\ down[cur[d]] # <<>> /\ Head(down[cur[d]]) = r
  BY DEF Begin, callVars, Receives, LinkTypes, FlowInv, FlowTypes
<1>2. In(r, down[cur[d]])
  <2>1. down[cur[d]] \in Seq(DownFrames \cup Reqs)
    BY <1>1 DEF FlowTypes, DownQ
  <2>2. r = down[cur[d]][1] /\ 1 \in 1 .. Len(down[cur[d]])
    BY <1>1, <2>1, LosesHead
  <2> QED BY <2>2 DEF In
<1>3. Issued(r) /\ runs[r] = 0
  BY <1>1, <1>2 DEF FlowInv, Causal, Single
<1>4. caller[r] \in {"waiting", "timedout"}
  BY <1>3 DEF FlowInv, Causal, Issued
<1>5. Status(r) \in {"open", "timedout"}
  BY <1>1, <1>4, StatusCases
<1>6. r \notin Ran /\ Ran' = Ran \cup {r} /\ StatusOf' = StatusOf
  BY <1>1, <1>3 DEF Ran, StatusOf, Status
<1>7. AbstractCall!Run(r)
  BY <1>5, <1>6 DEF AbstractCall!Run, StatusOf, Ran
<1> QED BY <1>7 DEF AbstractCall!Next

\* Every step of the detailed specification is one of the abstract call, or
\* none.
LEMMA CallStep ==
    FlowInv /\ FlowInv' /\ LinkTypes /\ [RpcNext]_allVars
        => AbstractCall!Next \/ UNCHANGED <<StatusOf, Ran>>
<1> SUFFICES ASSUME FlowInv, FlowInv', LinkTypes, [RpcNext]_allVars
             PROVE  AbstractCall!Next \/ UNCHANGED <<StatusOf, Ran>>
  OBVIOUS
<1>1. ASSUME UNCHANGED <<caller, runs>> PROVE UNCHANGED <<StatusOf, Ran>>
  BY <1>1 DEF StatusOf, Ran, Status
<1> USE DEF callVars, rpcVars
<1>2. ASSUME NEW s \in Sockets, SocketStep(s) \/ PathBreaks(s) PROVE UNCHANGED <<caller, runs>>
  BY <1>2 DEF SocketStep, PathBreaks, Register, CompleteRequest, Forward, ForwardFails,
              DropChannel, TaskStep
<1>3. ASSUME NEW d \in Daemons, DaemonStep(d)
      PROVE  UNCHANGED <<caller, runs>> \/ \E r \in Reqs : Begin(d, r)
  BY <1>3 DEF DaemonStep, StartCommand, StartSnapshotCall, StrayExits, FinishCommand,
              TimeoutCommand, AnswerSnapshotCall, LeaveUnanswered, Respond, LoopStep,
              Background, CrashBusy
<1>4. CASE UNCHANGED allVars
  BY <1>1, <1>4 DEF allVars
<1>5. CASE RpcNext
  BY <1>1, <1>2, <1>3, <1>5, CallerMaps, BeginMaps DEF RpcNext
<1> QED BY <1>4, <1>5

\* exec and the snapshot calls implement the abstract call: a request runs at
\* most once, an answer is given only for a request that ran, and one that was
\* refused never runs.
THEOREM CallImplemented == RpcSpec => ImplementsCall
<1>1. RpcInit => AbstractCall!Init
  BY DEF RpcInit, AbstractCall!Init, Status
<1>2. FlowInv /\ FlowInv' /\ LinkTypes /\ [RpcNext]_allVars
        => [AbstractCall!Next]_<<StatusOf, Ran>>
  BY CallStep
<1>3. FlowInv /\ FlowInv' /\ LinkTypes /\ [RpcNext]_allVars
        => [AbstractCall!Next]_<<[r \in Reqs |-> Status(r)], {r \in Reqs : runs[r] > 0}>>
  BY <1>2 DEF StatusOf, Ran
<1> QED BY <1>1, <1>3, FlowAlways, PTL DEF RpcSpec, ImplementsCall, AbstractCall!Spec

-----------------------------------------------------------------------------
(* The waiting caller's sender. *)

SenderInv ==
    /\ DOMAIN caller = Reqs /\ caller = [r \in Reqs |-> caller[r]]
    /\ DOMAIN conn = Reqs /\ conn = [r \in Reqs |-> conn[r]]
    /\ \A r \in Reqs :
         caller[r] \in {"pending", "waiting"} /\ r \notin replied => <<conn[r], r>> \in pending

\* Nothing but the response removes a pending entry of a caller that waits.
LEMMA SenderStep == SenderInv /\ [RpcNext]_allVars => SenderInv'
<1> SUFFICES ASSUME SenderInv, [RpcNext]_allVars PROVE SenderInv'
  OBVIOUS
<1> USE DEF SenderInv
<1>1. ASSUME UNCHANGED <<caller, conn, replied>>, pending \subseteq pending' PROVE SenderInv'
  BY <1>1
<1>2. ASSUME NEW r \in Reqs, Caller(r) PROVE SenderInv'
  <2>1. ASSUME NEW d \in Daemons, GetConn(r, d) PROVE SenderInv'
    BY <2>1 DEF GetConn
  <2>2. ASSUME RegisterRequest(r) PROVE SenderInv'
    BY <2>2 DEF RegisterRequest
  <2>3. ASSUME SendMessage(r) PROVE SenderInv'
    BY <2>3 DEF SendMessage, Return
  <2>4. ASSUME TakeResponse(r) \/ CallTimeout(r) PROVE SenderInv'
    BY <2>4 DEF TakeResponse, CallTimeout, Return
  <2> QED BY <1>2, <2>1, <2>2, <2>3, <2>4 DEF Caller
<1>3. ASSUME NEW s \in Sockets, SocketStep(s) \/ PathBreaks(s) PROVE SenderInv'
  <2>1. ASSUME NEW c \in Conns, Register(s, c) PROVE SenderInv'
    BY <2>1 DEF Register, callVars
  <2>2. ASSUME NEW r \in Reqs, CompleteRequest(s, r) PROVE SenderInv'
    <3>1. /\ UNCHANGED <<caller, conn>> /\ replied' = replied \cup {r}
          /\ \A c : \A x \in Reqs \ {r} : <<c, x>> \in pending => <<c, x>> \in pending'
      BY <2>2 DEF CompleteRequest, callVars
    <3> QED BY <3>1
  <2>3. ASSUME Forward(s) \/ ForwardFails(s) \/ DropChannel(s) \/ TaskStep(s) \/ PathBreaks(s)
        PROVE  SenderInv'
    BY <1>1, <2>3 DEF Forward, ForwardFails, DropChannel, TaskStep, PathBreaks, callVars, rpcVars
  <2> QED BY <1>3, <2>1, <2>2, <2>3 DEF SocketStep
<1>4. ASSUME NEW d \in Daemons, DaemonStep(d) PROVE SenderInv'
  <2>1. UNCHANGED <<caller, conn, replied, pending>>
    BY <1>4 DEF DaemonStep, StartCommand, StartSnapshotCall, Begin, StrayExits, FinishCommand,
                TimeoutCommand, AnswerSnapshotCall, LeaveUnanswered, Respond, LoopStep,
                Background, CrashBusy, callVars, rpcVars
  <2> QED BY <1>1, <2>1
<1>5. CASE UNCHANGED allVars
  BY <1>1, <1>5 DEF allVars, rpcVars, callVars
<1> QED BY <1>2, <1>3, <1>4, <1>5 DEF RpcNext

\* A caller whose response has not been read keeps its oneshot sender in the
\* pending map it registered with, whatever happens to the registry: exec
\* never fails with "Command channel closed".
THEOREM SenderAliveAlways == RpcSpec => []SenderAlive
<1>1. RpcInit => SenderInv
  BY DEF RpcInit, SenderInv
<1>2. SenderInv => SenderAlive
  BY DEF SenderInv, SenderAlive
<1> QED BY <1>1, <1>2, SenderStep, PTL DEF RpcSpec
=============================================================================
