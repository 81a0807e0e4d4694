-------------------------- MODULE DaemonLinkProofs --------------------------
(***************************************************************************)
(* Proofs about DaemonLink for any daemons, sockets and connection objects *)
(* and any bounds: its types, and the safety invariants TLC checks on      *)
(* small instances, by way of the inductive invariant IInv.                *)
(***************************************************************************)
EXTENDS DaemonLink, TLAPS

\* Writing a frame to a queue leaves a function into sequences of frames.
LEMMA SentType ==
    ASSUME NEW F, NEW q \in [Sockets -> Seq(F)], NEW s,
           NEW f \in F, NEW holds
    PROVE  Sent(q, s, f, holds) \in [Sockets -> Seq(F)]
<1>1. [q EXCEPT ![s] = Append(@, f)] \in [Sockets -> Seq(F)]
  <2>1. CASE s \in Sockets
    <3>1. q[s] \in Seq(F)
      BY <2>1
    <3>2. Append(q[s], f) \in Seq(F)
      BY <3>1
    <3> QED BY <3>2
  <2>2. CASE s \notin Sockets
    BY <2>2
  <2> QED BY <2>1, <2>2
<1> QED BY <1>1 DEF Sent

\* Every action keeps every variable in its type.
LEMMA TypeStep == TypeOK /\ [Next]_vars => TypeOK'
<1> SUFFICES ASSUME TypeOK, [Next]_vars PROVE TypeOK'
    OBVIOUS
<1> USE DEF serverVars, netVars, daemonVars
<1>1. ASSUME NEW s \in Sockets, SocketTask(s) PROVE TypeOK'
  <2>0. /\ \A f \in DownFrames : \A h : Sent(down, s, f, h) \in [Sockets -> Seq(DownFrames)]
        /\ "RegisterAck" \in DownFrames /\ "RegisterNack" \in DownFrames
        /\ "HeartbeatAck" \in DownFrames /\ "HeartbeatNack" \in DownFrames
    BY SentType DEF TypeOK, DownFrames
  <2>1. ASSUME NEW c \in Conns, HandleRegister(s, c) PROVE TypeOK'
    <3>1. owner[s] \in Daemons /\ Entry(c, s, TRUE) \in Entries
      BY <2>1, NamedAssumption DEF HandleRegister, TypeOK, Entries, Entry
    <3>2. up' \in [Sockets -> Seq(UpFrames)]
      BY <2>1 DEF HandleRegister, Reads, TypeOK
    <3> QED BY <2>0, <2>1, <3>1, <3>2 DEF HandleRegister, TypeOK
  <2>2. ASSUME RefuseRegister(s) PROVE TypeOK'
    <3>1. up' \in [Sockets -> Seq(UpFrames)]
      BY <2>2 DEF RefuseRegister, Reads, TypeOK
    <3> QED BY <2>0, <2>2, <3>1 DEF RefuseRegister, TypeOK
  <2>3. ASSUME FindBeat(s) PROVE TypeOK'
    <3>1. up' \in [Sockets -> Seq(UpFrames)]
      BY <2>3 DEF FindBeat, Reads, TypeOK
    <3>2. reg[tid[s]].conn \in Conns
      BY <2>3 DEF FindBeat, TypeOK, Entries
    <3> QED BY <2>3, <3>1, <3>2 DEF FindBeat, TypeOK
  <2>4. ASSUME AckBeat(s) PROVE TypeOK'
    <3>1. reg' \in [Daemons -> Entries \cup {None}]
      BY <2>4 DEF AckBeat, TypeOK, Entries, Entry
    <3> QED BY <2>0, <2>4, <3>1 DEF AckBeat, TypeOK
  <2>5. ASSUME NackBeat(s) PROVE TypeOK'
    <3>1. up' \in [Sockets -> Seq(UpFrames)]
      BY <2>5 DEF NackBeat, Reads, TypeOK
    <3> QED BY <2>0, <2>5, <3>1 DEF NackBeat, TypeOK
  <2>6. ASSUME LeaveLoop(s) PROVE TypeOK'
    BY <2>6 DEF LeaveLoop, TypeOK
  <2>7. ASSUME CleanUp(s) PROVE TypeOK'
    <3>1. <<>> \in Seq(UpFrames)
      OBVIOUS
    <3> QED BY <2>7, <3>1 DEF CleanUp, TypeOK
  <2> QED BY <1>1, <2>1, <2>2, <2>3, <2>4, <2>5, <2>6, <2>7
          DEF SocketTask, OnRegister, SeeClose, SeeEof, SeeReset
<1>2. ASSUME NEW d \in Daemons, Reap(d) PROVE TypeOK'
  BY <1>2 DEF Reap, TypeOK
<1>3. ASSUME NEW d \in Daemons, Daemon(d) PROVE TypeOK'
  <2>0. ASSUME NEW f \in UpFrames, NEW h
        PROVE  Sent(up, cur[d], f, h) \in [Sockets -> Seq(UpFrames)]
    BY SentType DEF TypeOK
  <2>1. ASSUME NEW to \in {"backoff", "stopped"}, Leave(d, to)
        PROVE  /\ pc' \in [Daemons -> {"backoff", "regwait", "serving", "stopped"}]
               /\ cur' \in [Daemons -> Sockets \cup {None}]
               /\ acked' \in [Daemons -> BOOLEAN]
               /\ down' \in [Sockets -> Seq(DownFrames)]
    <3>1. <<>> \in Seq(DownFrames)
      OBVIOUS
    <3> QED BY <2>1, <3>1 DEF Leave, TypeOK
  <2>2. ASSUME NEW s \in Sockets, Connect(d, s) PROVE TypeOK'
    <3>1. <<"Register">> \in Seq(UpFrames)
      BY DEF UpFrames
    <3> QED BY <2>2, <3>1 DEF Connect, TypeOK
  <2>3. ASSUME NEW f, Receives(d, f), Consume(d)
        PROVE  cur[d] \in Sockets /\ down' \in [Sockets -> Seq(DownFrames)]
    BY <2>3 DEF Receives, Consume, TypeOK
  <2>4. ASSUME Registered(d) PROVE TypeOK'
    BY <2>3, <2>4 DEF Registered, TypeOK
  <2>5. ASSUME Refused(d) PROVE TypeOK'
    BY <2>1, <2>5 DEF Refused, TypeOK
  <2>6. ASSUME UnexpectedFirst(d) PROVE TypeOK'
    BY <2>3, <2>6 DEF UnexpectedFirst, TypeOK
  <2>7. ASSUME Heartbeat(d) PROVE TypeOK'
    <3>1. "Heartbeat" \in UpFrames
      BY DEF UpFrames
    <3> QED BY <2>0, <2>7, <3>1 DEF Heartbeat, TypeOK
  <2>8. ASSUME LoseSocket(d) \/ AckTimeout(d) PROVE TypeOK'
    BY <2>1, <2>8 DEF LoseSocket, AckTimeout, TypeOK
  <2>9. ASSUME RecvBeatAck(d) PROVE TypeOK'
    <3>1. "Register" \in UpFrames
      BY DEF UpFrames
    <3> QED BY <2>0, <2>3, <2>9, <3>1 DEF RecvBeatAck, TypeOK
  <2>10. ASSUME RecvOther(d) PROVE TypeOK'
    BY <2>3, <2>10 DEF RecvOther, TypeOK
  <2>11. ASSUME Shutdown(d) PROVE TypeOK'
    <3>1. "Close" \in UpFrames
      BY DEF UpFrames
    <3> QED BY <2>0, <2>1, <2>11, <3>1 DEF Shutdown, TypeOK
  <2> QED BY <1>3, <2>2, <2>4, <2>5, <2>6, <2>7, <2>8, <2>9, <2>10, <2>11 DEF Daemon, Answered
<1>4. CASE Environment
  <2>1. ASSUME NEW d \in Daemons, EntryAges(d) PROVE TypeOK'
    <3>1. faults' \in Nat
      BY <2>1 DEF EntryAges, Fault, TypeOK
    <3>2. reg' \in [Daemons -> Entries \cup {None}]
      BY <2>1 DEF EntryAges, Entry, Entries, TypeOK
    <3> QED BY <2>1, <3>1, <3>2 DEF EntryAges, TypeOK
  <2>2. ASSUME NEW d \in Daemons, AckAges(d) PROVE TypeOK'
    BY <2>2 DEF AckAges, Fault, TypeOK
  <2>3. ASSUME NEW d \in Daemons, DaemonCrash(d) PROVE TypeOK'
    <3>1. <<>> \in Seq(DownFrames) /\ faults' \in Nat
      BY <2>3 DEF DaemonCrash, Fault, TypeOK
    <3> QED BY <2>3, <3>1 DEF DaemonCrash, Leave, TypeOK
  <2>4. ASSUME NEW s \in Sockets, Break(s) PROVE TypeOK'
    BY <2>4 DEF Break, Fault, TypeOK
  <2>5. ASSUME ControllerRestart PROVE TypeOK'
    <3>1. <<>> \in Seq(UpFrames)
      OBVIOUS
    <3> QED BY <2>5, <3>1 DEF ControllerRestart, Fault, TypeOK
  <2> QED BY <1>4, <2>1, <2>2, <2>3, <2>4, <2>5 DEF Environment
<1>5. CASE UNCHANGED vars
  BY <1>5 DEF vars, TypeOK
<1> QED BY <1>1, <1>2, <1>3, <1>4, <1>5 DEF Next

-----------------------------------------------------------------------------
\* None is no daemon and no socket.
LEMMA NoneFacts ==
    /\ \A d \in Daemons : d # None
    /\ \A s \in Sockets : s # None
BY NoneAssumption

\* Every step keeps sockets, their owners and their tasks consistent.
LEMMA SocketsInvStep == IInv /\ [Next]_vars => SocketsInv'
<1> SUFFICES ASSUME IInv, [Next]_vars, NEW t \in Sockets
             PROVE  SocketsInv!(t)'
    BY DEF SocketsInv
<1> USE DEF serverVars, netVars, daemonVars
<1>0. TypeOK /\ SocketsInv!(t)
  BY DEF IInv, SocketsInv
<1>1. ASSUME NEW s \in Sockets, SocketTask(s) PROVE SocketsInv!(t)'
  <2>0. net[s] # "unused" \/ task[s] = "none"
    BY DEF IInv, SocketsInv
  <2>1. ASSUME NEW c \in Conns, HandleRegister(s, c) PROVE SocketsInv!(t)'
    BY <1>0, <2>0, <2>1 DEF HandleRegister, Reads, Sent, TypeOK
  <2>2. ASSUME RefuseRegister(s) \/ NackBeat(s) PROVE SocketsInv!(t)'
    BY <1>0, <2>0, <2>2 DEF RefuseRegister, NackBeat, Reads, Sent, TypeOK
  <2>3. ASSUME FindBeat(s) \/ AckBeat(s) PROVE SocketsInv!(t)'
    BY <1>0, <2>0, <2>3 DEF FindBeat, AckBeat, Reads, Sent, TypeOK
  <2>4. ASSUME LeaveLoop(s), task[s] = "run" PROVE SocketsInv!(t)'
    BY <1>0, <2>0, <2>4 DEF LeaveLoop, TypeOK
  <2>5. ASSUME CleanUp(s) PROVE SocketsInv!(t)'
    BY <1>0, <2>0, <2>5 DEF CleanUp, TypeOK
  <2> QED BY <1>1, <2>1, <2>2, <2>3, <2>4, <2>5
          DEF SocketTask, OnRegister, SeeClose, SeeEof, SeeReset, Reads
<1>2. ASSUME NEW d \in Daemons, Reap(d) PROVE SocketsInv!(t)'
  BY <1>0, <1>2 DEF Reap
<1>3. ASSUME NEW d \in Daemons, Daemon(d) PROVE SocketsInv!(t)'
  <2>0. cur[d] \in Sockets => net[cur[d]] # "unused"
    BY NoneFacts DEF IInv, HoldingInv
  <2>1. ASSUME NEW s \in Sockets, Connect(d, s) PROVE SocketsInv!(t)'
    <3>1. tid[s] = None
      BY <2>1, NoneFacts DEF Connect, IInv, SocketsInv, TypeOK
    <3> QED BY <1>0, <2>1, <3>1 DEF Connect, TypeOK
  <2>2. ASSUME Registered(d) \/ UnexpectedFirst(d) \/ RecvOther(d) PROVE SocketsInv!(t)'
    BY <1>0, <2>0, <2>2 DEF Registered, UnexpectedFirst, RecvOther, Consume, TypeOK
  <2>3. ASSUME Refused(d) \/ LoseSocket(d) \/ AckTimeout(d) PROVE SocketsInv!(t)'
    BY <1>0, <2>3 DEF Refused, LoseSocket, AckTimeout, Leave, TypeOK
  <2>4. ASSUME NEW q, up' = [up EXCEPT ![cur[d]] = q] \/ up' = up
        PROVE  net[t] = "unused" => up'[t] = up[t]
    BY <1>0, <2>0, <2>4 DEF TypeOK
  <2>5. ASSUME NEW q, down' = [down EXCEPT ![cur[d]] = q] \/ down' = down
        PROVE  net[t] = "unused" => down'[t] = down[t]
    BY <1>0, <2>0, <2>5 DEF TypeOK
  <2>6. ASSUME UNCHANGED <<serverVars, net, owner>>,
               net[t] = "unused" => up'[t] = up[t] /\ down'[t] = down[t]
        PROVE  SocketsInv!(t)'
    BY <1>0, <2>6
  <2>7. ASSUME Heartbeat(d) \/ RecvBeatAck(d) PROVE SocketsInv!(t)'
    <3>1. UNCHANGED <<serverVars, net, owner>> /\ (net[t] = "unused" => up'[t] = up[t])
      BY <2>4, <2>7 DEF Heartbeat, RecvBeatAck, Sent
    <3>2. net[t] = "unused" => down'[t] = down[t]
      BY <2>5, <2>7 DEF Heartbeat, RecvBeatAck, Consume
    <3> QED BY <2>6, <3>1, <3>2
  <2>8. ASSUME Shutdown(d) PROVE SocketsInv!(t)'
    <3>1. UNCHANGED <<serverVars, net, owner>> /\ (net[t] = "unused" => up'[t] = up[t])
      BY <2>4, <2>8 DEF Shutdown, Sent
    <3>2. net[t] = "unused" => down'[t] = down[t]
      BY <2>5, <2>8 DEF Shutdown, Leave
    <3> QED BY <2>6, <3>1, <3>2
  <2> QED BY <1>3, <2>1, <2>2, <2>3, <2>7, <2>8 DEF Daemon, Answered
<1>4. CASE Environment
  <2>1. ASSUME NEW d \in Daemons, EntryAges(d) \/ AckAges(d) PROVE SocketsInv!(t)'
    BY <1>0, <2>1 DEF EntryAges, AckAges
  <2>2. ASSUME NEW d \in Daemons, DaemonCrash(d) PROVE SocketsInv!(t)'
    BY <1>0, <2>2 DEF DaemonCrash, Leave, TypeOK
  <2>3. ASSUME NEW s \in Sockets, Break(s) PROVE SocketsInv!(t)'
    BY <1>0, <2>3 DEF Break, TypeOK
  <2>4. CASE ControllerRestart
    BY <1>0, <2>4 DEF ControllerRestart, TypeOK
  <2> QED BY <1>4, <2>1, <2>2, <2>3, <2>4 DEF Environment
<1>5. CASE UNCHANGED vars
  BY <1>0, <1>5 DEF vars
<1> QED BY <1>1, <1>2, <1>3, <1>4, <1>5 DEF Next

\* Every step keeps each daemon on a socket of its own exactly while its main
\* loop is inside connect_and_serve.
LEMMA HoldingStep == IInv /\ [Next]_vars => HoldingInv'
<1> SUFFICES ASSUME IInv, [Next]_vars, NEW e \in Daemons
             PROVE  HoldingInv!(e)'
    BY DEF HoldingInv
<1> USE DEF serverVars, netVars, daemonVars
<1>0. TypeOK /\ HoldingInv!(e)
  BY DEF IInv, HoldingInv
<1>1. ASSUME NEW s \in Sockets, SocketTask(s) PROVE HoldingInv!(e)'
  BY <1>0, <1>1 DEF SocketTask, OnRegister, HandleRegister, RefuseRegister, FindBeat, AckBeat,
                    NackBeat, SeeClose, SeeEof, SeeReset, LeaveLoop, CleanUp
<1>2. ASSUME NEW d \in Daemons, Reap(d) PROVE HoldingInv!(e)'
  BY <1>0, <1>2 DEF Reap
<1>3. ASSUME NEW d \in Daemons, Daemon(d) PROVE HoldingInv!(e)'
  <2>1. ASSUME NEW s \in Sockets, Connect(d, s) PROVE HoldingInv!(e)'
    <3>1. owner[s] = None
      BY <2>1 DEF Connect, IInv, SocketsInv
    <3>2. cur[e] # s
      BY <1>0, <3>1, NoneFacts
    <3> QED BY <1>0, <2>1, <3>2, NoneFacts DEF Connect, TypeOK
  <2>2. ASSUME Registered(d) \/ UnexpectedFirst(d) \/ Heartbeat(d)
                 \/ RecvBeatAck(d) \/ RecvOther(d)
        PROVE  HoldingInv!(e)'
    BY <1>0, <2>2 DEF Registered, UnexpectedFirst, Heartbeat, RecvBeatAck, RecvOther,
                      TypeOK
  <2>3. ASSUME Refused(d) \/ LoseSocket(d) \/ AckTimeout(d) \/ Shutdown(d)
        PROVE  HoldingInv!(e)'
    BY <1>0, <2>3 DEF Refused, LoseSocket, AckTimeout, Shutdown, Leave, TypeOK
  <2> QED BY <1>3, <2>1, <2>2, <2>3 DEF Daemon, Answered
<1>4. CASE Environment
  <2>1. ASSUME NEW d \in Daemons, EntryAges(d) \/ AckAges(d) PROVE HoldingInv!(e)'
    BY <1>0, <2>1 DEF EntryAges, AckAges
  <2>2. ASSUME NEW d \in Daemons, DaemonCrash(d) PROVE HoldingInv!(e)'
    BY <1>0, <2>2 DEF DaemonCrash, Leave, TypeOK
  <2>3. ASSUME NEW s \in Sockets, Break(s) PROVE HoldingInv!(e)'
    BY <1>0, <2>3 DEF Break, TypeOK
  <2>4. ASSUME ControllerRestart PROVE HoldingInv!(e)'
    BY <1>0, <2>4 DEF ControllerRestart, TypeOK
  <2> QED BY <1>4, <2>1, <2>2, <2>3, <2>4 DEF Environment
<1>5. CASE UNCHANGED vars
  BY <1>0, <1>5 DEF vars
<1> QED BY <1>1, <1>2, <1>3, <1>4, <1>5 DEF Next

\* Every step keeps each entry on a socket whose task still serves it.
LEMMA ServedStep == IInv /\ [Next]_vars => EntryServed'
<1> SUFFICES ASSUME IInv, [Next]_vars, NEW e \in Daemons, reg'[e] # None
             PROVE  EntryServed!(e)'
    BY DEF EntryServed
<1> USE DEF serverVars, netVars, daemonVars
<1>0. /\ TypeOK
      /\ EntryServed!(e)
      /\ reg[e] # None => reg[e].sock \in Sockets
  BY DEF IInv, EntryServed, TypeOK, Entries
<1>1. ASSUME NEW s \in Sockets, SocketTask(s) PROVE EntryServed!(e)'
  <2>1. ASSUME NEW c \in Conns, HandleRegister(s, c) PROVE EntryServed!(e)'
    <3>1. CASE owner[s] = e
      BY <1>0, <2>1, <3>1 DEF HandleRegister, Reads, ServerHolds, Entry, TypeOK
    <3>2. CASE owner[s] # e
      BY <1>0, <2>1, <3>2 DEF HandleRegister, ServerHolds, TypeOK
    <3> QED BY <3>1, <3>2
  <2>2. ASSUME RefuseRegister(s) \/ NackBeat(s) PROVE EntryServed!(e)'
    BY <1>0, <2>2 DEF RefuseRegister, NackBeat, ServerHolds
  <2>3. ASSUME FindBeat(s) PROVE EntryServed!(e)'
    BY <1>0, <2>3 DEF FindBeat, ServerHolds, TypeOK
  <2>4. ASSUME AckBeat(s) PROVE EntryServed!(e)'
    <3>1. reg[e] # None /\ reg'[e].sock = reg[e].sock
      BY <2>4 DEF AckBeat, Entry
    <3> QED BY <1>0, <2>4, <3>1 DEF AckBeat, ServerHolds, TypeOK
  <2>5. ASSUME LeaveLoop(s) PROVE EntryServed!(e)'
    BY <1>0, <2>5 DEF LeaveLoop, ServerHolds, TypeOK
  <2>6. ASSUME CleanUp(s) PROVE EntryServed!(e)'
    <3>1. reg[e] # None /\ reg'[e] = reg[e] /\ tid[s] # e
      BY <1>0, <2>6, NoneFacts DEF CleanUp, TypeOK
    <3>2. reg[e].sock # s
      BY <1>0, <3>1
    <3> QED BY <1>0, <2>6, <3>1, <3>2 DEF CleanUp, ServerHolds, TypeOK
  <2> QED BY <1>1, <2>1, <2>2, <2>3, <2>4, <2>5, <2>6
          DEF SocketTask, OnRegister, SeeClose, SeeEof, SeeReset
<1>2. ASSUME NEW d \in Daemons, Reap(d) PROVE EntryServed!(e)'
  BY <1>0, <1>2 DEF Reap, ServerHolds, TypeOK
<1>3. ASSUME NEW d \in Daemons, Daemon(d) PROVE EntryServed!(e)'
  <2>1. ASSUME NEW s \in Sockets, Connect(d, s) PROVE EntryServed!(e)'
    <3>1. owner[s] = None
      BY <2>1 DEF Connect, IInv, SocketsInv
    <3>2. reg[e] # None /\ reg'[e] = reg[e] /\ reg[e].sock # s
      BY <1>0, <2>1, <3>1, NoneFacts DEF Connect
    <3> QED BY <1>0, <2>1, <3>2 DEF Connect, ServerHolds, TypeOK
  <2> QED BY <1>0, <1>3, <2>1
          DEF Daemon, Answered, Registered, Refused, UnexpectedFirst, Heartbeat, LoseSocket,
              AckTimeout, RecvBeatAck, RecvOther, Shutdown, ServerHolds
<1>4. CASE Environment
  <2>1. ASSUME NEW d \in Daemons, EntryAges(d) PROVE EntryServed!(e)'
    <3>1. reg[e] # None /\ reg'[e].sock = reg[e].sock
      BY <1>0, <2>1 DEF EntryAges, Entry, TypeOK
    <3> QED BY <1>0, <2>1, <3>1 DEF EntryAges, ServerHolds
  <2>2. ASSUME ControllerRestart PROVE FALSE
    BY <2>2 DEF ControllerRestart
  <2> QED BY <1>0, <1>4, <2>1, <2>2
          DEF Environment, AckAges, DaemonCrash, Break, ServerHolds
<1>5. CASE UNCHANGED vars
  BY <1>0, <1>5 DEF vars, ServerHolds
<1> QED BY <1>1, <1>2, <1>3, <1>4, <1>5 DEF Next

\* Appending leaves the head of a non-empty queue alone.
LEMMA AppendHead ==
    ASSUME NEW F, NEW q \in Seq(F), NEW f \in F
    PROVE  /\ Append(q, f) # <<>>
           /\ Head(Append(q, f)) = IF q = <<>> THEN f ELSE Head(q)
<1>1. /\ Len(Append(q, f)) = Len(q) + 1 /\ Len(q) \in Nat
      /\ Append(q, f) # <<>> /\ Head(Append(q, f)) = Append(q, f)[1]
  OBVIOUS
<1>2. CASE q = <<>>
  BY <1>1, <1>2
<1>3. CASE q # <<>>
  <2>1. Len(q) >= 1 /\ Head(q) = q[1]
    BY <1>3
  <2>2. Append(q, f)[1] = q[1]
    BY <2>1
  <2> QED BY <1>1, <1>3, <2>1, <2>2
<1> QED BY <1>2, <1>3

\* What a step does to a queue it writes one frame to, seen from another
\* socket and from that socket.
LEMMA SentFacts ==
    ASSUME TypeOK, NEW s \in Sockets, NEW f \in DownFrames
    PROVE  LET q == Sent(down, s, f, DaemonHolds(s))
           IN  /\ \A t \in Sockets : t # s => q[t] = down[t]
               /\ (net[s] = "up" /\ DaemonHolds(s)) =>
                    /\ q[s] # <<>>
                    /\ Head(q[s]) = IF down[s] = <<>> THEN f ELSE Head(down[s])
               /\ net[s] # "up" => q[s] = down[s]
<1>1. down[s] \in Seq(DownFrames) /\ down \in [Sockets -> Seq(DownFrames)]
  BY DEF TypeOK
<1>2. /\ Append(down[s], f) # <<>>
      /\ Head(Append(down[s], f)) = IF down[s] = <<>> THEN f ELSE Head(down[s])
  BY <1>1, AppendHead
<1> QED BY <1>1, <1>2 DEF Sent

\* A waiting daemon still has Register in flight or its answer in front.
LEMMA RegwaitStep == IInv /\ [Next]_vars => RegwaitInv'
<1> SUFFICES ASSUME IInv, [Next]_vars, NEW e \in Daemons, pc'[e] = "regwait"
             PROVE  Awaiting(e, cur[e])'
    BY DEF RegwaitInv
<1> USE DEF serverVars, netVars, daemonVars
<1>0. /\ TypeOK
      /\ pc[e] = "regwait" =>
           /\ Awaiting(e, cur[e])
           /\ cur[e] \in Sockets
           /\ owner[cur[e]] = e
           /\ DaemonHolds(cur[e])
           /\ net[cur[e]] \in {"up", "dead"}
  BY NoneFacts DEF IInv, RegwaitInv, HoldingInv, TypeOK, DaemonHolds
<1>1. ASSUME NEW s \in Sockets, SocketTask(s) PROVE Awaiting(e, cur[e])'
  <2>0. pc[e] = "regwait" /\ cur' = cur /\ cur[e] \in Sockets
    BY <1>0, <1>1 DEF SocketTask, OnRegister, HandleRegister, RefuseRegister, FindBeat, AckBeat,
                      NackBeat, SeeClose, SeeEof, SeeReset, LeaveLoop, CleanUp
  <2>1. CASE s # cur[e]
    <3>1. /\ up'[cur[e]] = up[cur[e]] /\ net' = net
          /\ task'[cur[e]] = task[cur[e]] /\ tid'[cur[e]] = tid[cur[e]]
      BY <1>0, <1>1, <2>0, <2>1
         DEF SocketTask, OnRegister, HandleRegister, RefuseRegister, FindBeat, AckBeat, NackBeat,
             SeeClose, SeeEof, SeeReset, LeaveLoop, CleanUp, TypeOK
    <3>2. down'[cur[e]] = down[cur[e]]
      <4>1. \A f \in DownFrames : Sent(down, s, f, DaemonHolds(s))[cur[e]] = down[cur[e]]
        BY <1>0, <2>0, <2>1, SentFacts
      <4>2. \/ down' = down
            \/ \E f \in DownFrames : down' = Sent(down, s, f, DaemonHolds(s))
        BY <1>1
           DEF SocketTask, OnRegister, HandleRegister, RefuseRegister, FindBeat, AckBeat, NackBeat,
               SeeClose, SeeEof, SeeReset, LeaveLoop, CleanUp, DownFrames
      <4> QED BY <4>1, <4>2
    <3> QED BY <1>0, <2>0, <3>1, <3>2 DEF Awaiting, ServerHolds
  <2>2. CASE s = cur[e]
    <3>0. /\ Awaiting(e, s) /\ owner[s] = e /\ DaemonHolds(s)
          /\ net[s] \in {"up", "dead"}
      BY <1>0, <2>0, <2>2
    <3>1. ASSUME NEW c \in Conns, HandleRegister(s, c) PROVE Awaiting(e, s)'
      <4>1. tid'[s] = e /\ net' = net
        BY <1>0, <3>0, <3>1 DEF HandleRegister, TypeOK
      <4> QED BY <1>0, <3>0, <3>1, <4>1, SentFacts
              DEF HandleRegister, Reads, Awaiting, ServerHolds, DownFrames
    <3>2. ASSUME RefuseRegister(s) PROVE Awaiting(e, s)'
      BY <1>0, <3>0, <3>2, SentFacts
         DEF RefuseRegister, Reads, Awaiting, ServerHolds, DownFrames
    <3>3. ASSUME FindBeat(s) PROVE Awaiting(e, s)'
      <4>1. task'[s] = "beat"
        BY <1>0, <3>3 DEF FindBeat, TypeOK
      <4> QED BY <1>0, <3>0, <3>3, <4>1 DEF FindBeat, Reads, Awaiting, ServerHolds
    <3>4. ASSUME AckBeat(s) PROVE Awaiting(e, s)'
      BY <1>0, <3>0, <3>4, SentFacts DEF AckBeat, Awaiting, ServerHolds, DownFrames
    <3>5. ASSUME NackBeat(s) PROVE Awaiting(e, s)'
      <4>1. /\ down' = Sent(down, s, "HeartbeatNack", DaemonHolds(s))
            /\ UNCHANGED <<net, task, tid>>
            /\ Head(up[s]) = "Heartbeat" /\ task[s] = "run"
        BY <3>5 DEF NackBeat, Reads
      <4>2. CASE down[s] = <<>>
        <5>1. net[s] = "dead"
          BY <3>0, <4>1, <4>2 DEF Awaiting, ServerHolds
        <5> QED BY <3>0, <4>1, <4>2, <5>1, SentFacts, <1>0 DEF Awaiting, DownFrames
      <4>3. CASE down[s] # <<>>
        BY <1>0, <3>0, <4>1, <4>3, SentFacts DEF Awaiting, ServerHolds, DownFrames
      <4> QED BY <4>2, <4>3
    <3>6. ASSUME SeeClose(s) \/ SeeEof(s) \/ SeeReset(s) PROVE Awaiting(e, s)'
      <4>1. LeaveLoop(s) /\ task[s] = "run"
        BY <3>6 DEF SeeClose, SeeEof, SeeReset, Reads
      <4>2. net[s] = "dead" \/ Head(up[s]) = "Close"
        BY <3>0, <3>6 DEF SeeClose, SeeEof, SeeReset, Reads
      <4>3. task'[s] = "cleanup"
        BY <1>0, <4>1 DEF LeaveLoop, TypeOK
      <4> QED BY <1>0, <3>0, <4>1, <4>2, <4>3 DEF LeaveLoop, Awaiting, ServerHolds
    <3>7. ASSUME CleanUp(s) PROVE Awaiting(e, s)'
      <4>1. task'[s] = "done"
        BY <1>0, <3>7 DEF CleanUp, TypeOK
      <4> QED BY <3>0, <3>7, <4>1 DEF CleanUp, Awaiting, ServerHolds
    <3> QED BY <1>1, <2>0, <2>2, <3>1, <3>2, <3>3, <3>4, <3>5, <3>6, <3>7
            DEF SocketTask, OnRegister
  <2> QED BY <2>1, <2>2
<1>2. ASSUME NEW d \in Daemons, Reap(d) PROVE Awaiting(e, cur[e])'
  BY <1>0, <1>2 DEF Reap, Awaiting, ServerHolds
<1>3. ASSUME NEW d \in Daemons, Daemon(d) PROVE Awaiting(e, cur[e])'
  <2>1. CASE d = e
    <3>1. PICK s \in Sockets : Connect(e, s)
      BY <1>0, <1>3, <2>1
         DEF Daemon, Answered, Registered, Refused, UnexpectedFirst, Heartbeat, LoseSocket,
             AckTimeout, RecvBeatAck, RecvOther, Shutdown, Leave, TypeOK
    <3>2. down[s] = <<>>
      BY <3>1 DEF Connect, IInv, SocketsInv
    <3> QED BY <1>0, <3>1, <3>2 DEF Connect, Awaiting, TypeOK
  <2>2. CASE d # e
    <3>1. pc[e] = "regwait" /\ cur'[e] = cur[e] /\ cur[e] \in Sockets
      BY <1>0, <1>3, <2>2
         DEF Daemon, Answered, Connect, Registered, Refused, UnexpectedFirst, Heartbeat, LoseSocket,
             AckTimeout, RecvBeatAck, RecvOther, Shutdown, Leave, TypeOK
    <3>2. cur[d] # cur[e]
      BY <1>0, <2>2, <3>1, NoneFacts DEF IInv, HoldingInv
    <3>3. ASSUME NEW s \in Sockets, Connect(d, s) PROVE Awaiting(e, cur[e])'
      <4>1. s # cur[e]
        BY <1>0, <3>1, <3>3 DEF Connect
      <4> QED BY <1>0, <3>1, <3>3, <4>1 DEF Connect, Awaiting, ServerHolds, TypeOK
    <3>4. ASSUME ~ \E s \in Sockets : Connect(d, s)
          PROVE  /\ up'[cur[e]] = up[cur[e]] /\ down'[cur[e]] = down[cur[e]]
                 /\ net' = net /\ task' = task /\ tid' = tid
      BY <1>0, <1>3, <3>1, <3>2, <3>4
         DEF Daemon, Answered, Registered, Refused, UnexpectedFirst, Heartbeat, LoseSocket,
             AckTimeout, RecvBeatAck, RecvOther, Shutdown, Leave, Consume, Sent, TypeOK
    <3> QED BY <1>0, <3>1, <3>3, <3>4 DEF Awaiting, ServerHolds
  <2> QED BY <2>1, <2>2
<1>4. CASE Environment
  <2>1. ASSUME NEW d \in Daemons, EntryAges(d) \/ AckAges(d) PROVE Awaiting(e, cur[e])'
    BY <1>0, <2>1 DEF EntryAges, AckAges, Awaiting, ServerHolds
  <2>2. ASSUME NEW d \in Daemons, DaemonCrash(d) PROVE Awaiting(e, cur[e])'
    <3>1. d # e /\ pc[e] = "regwait" /\ cur'[e] = cur[e]
      BY <1>0, <2>2 DEF DaemonCrash, Leave, TypeOK
    <3>2. cur[d] # cur[e]
      BY <1>0, <3>1, NoneFacts DEF IInv, HoldingInv
    <3>3. down'[cur[e]] = down[cur[e]]
      BY <1>0, <2>2, <3>1, <3>2 DEF DaemonCrash, Leave, TypeOK
    <3> QED BY <1>0, <2>2, <3>1, <3>3 DEF DaemonCrash, Awaiting, ServerHolds
  <2>3. ASSUME NEW s \in Sockets, Break(s) PROVE Awaiting(e, cur[e])'
    BY <1>0, <2>3 DEF Break, Awaiting, ServerHolds, TypeOK
  <2>4. ASSUME ControllerRestart PROVE Awaiting(e, cur[e])'
    BY <1>0, <2>4 DEF ControllerRestart, Awaiting, ServerHolds, TypeOK
  <2> QED BY <1>4, <2>1, <2>2, <2>3, <2>4 DEF Environment
<1>5. CASE UNCHANGED vars
  BY <1>0, <1>5 DEF vars, Awaiting, ServerHolds
<1> QED BY <1>1, <1>2, <1>3, <1>4, <1>5 DEF Next

\* A daemon that leaves connect_and_serve takes nobody else's answers away.
LEMMA LeaveKeepsAnswered ==
    ASSUME TypeOK, NEW d \in Daemons, NEW e \in Daemons, HeartbeatsAnswered!(e),
           NEW to \in {"backoff", "stopped"}, Leave(d, to), UNCHANGED <<task, tid>>,
           \A s \in Sockets : net'[s] = "up" => net[s] = "up",
           pc[e] = "serving" => cur[e] \in Sockets
    PROVE  HeartbeatsAnswered!(e)'
<1>1. CASE d = e
  <2>1. pc'[e] # "serving"
    BY <1>1 DEF Leave, TypeOK
  <2> QED BY <2>1
<1>2. CASE d # e
  <2>1. pc'[e] = pc[e] /\ cur'[e] = cur[e]
    BY <1>2 DEF Leave, TypeOK
  <2> QED BY <2>1 DEF ServerHolds
<1> QED BY <1>1, <1>2

\* A serving daemon's heartbeats keep reaching a task that knows its id.
LEMMA AnsweredStep == IInv /\ [Next]_vars => HeartbeatsAnswered'
<1> SUFFICES ASSUME IInv, [Next]_vars, NEW e \in Daemons
             PROVE  HeartbeatsAnswered!(e)'
    BY DEF HeartbeatsAnswered
<1> USE DEF serverVars, netVars, daemonVars
<1>0. /\ TypeOK /\ HeartbeatsAnswered!(e)
      /\ pc[e] \in {"regwait", "serving"} =>
           cur[e] \in Sockets /\ owner[cur[e]] = e
      /\ pc[e] = "regwait" => Awaiting(e, cur[e])
  BY NoneFacts DEF IInv, HeartbeatsAnswered, HoldingInv, RegwaitInv, TypeOK
<1>1. ASSUME NEW s \in Sockets, SocketTask(s) PROVE HeartbeatsAnswered!(e)'
  <2>1. ASSUME NEW c \in Conns, HandleRegister(s, c) PROVE HeartbeatsAnswered!(e)'
    BY <1>0, <2>1 DEF HandleRegister, ServerHolds, TypeOK
  <2>2. ASSUME RefuseRegister(s) \/ NackBeat(s)
        PROVE  HeartbeatsAnswered!(e)'
    BY <1>0, <2>2 DEF RefuseRegister, NackBeat, ServerHolds
  <2>3. ASSUME FindBeat(s) \/ AckBeat(s) PROVE HeartbeatsAnswered!(e)'
    <3>1. ServerHolds(s) /\ UNCHANGED <<pc, cur, net, tid>>
      BY <2>3 DEF FindBeat, AckBeat, Reads, ServerHolds
    <3>2. \A t \in Sockets : t # s => task'[t] = task[t]
      BY <1>0, <2>3 DEF FindBeat, AckBeat, TypeOK
    <3>3. cur[e] # s => (ServerHolds(cur[e])' <=> ServerHolds(cur[e])) \/ pc[e] # "serving"
      BY <1>0, <3>1, <3>2 DEF ServerHolds
    <3> QED BY <1>0, <3>1, <3>3
  <2>4. ASSUME LeaveLoop(s), task[s] = "run" PROVE HeartbeatsAnswered!(e)'
    BY <1>0, <2>4 DEF LeaveLoop, ServerHolds, TypeOK
  <2>5. ASSUME CleanUp(s) PROVE HeartbeatsAnswered!(e)'
    BY <1>0, <2>5 DEF CleanUp, ServerHolds, TypeOK
  <2> QED BY <1>1, <2>1, <2>2, <2>3, <2>4, <2>5
          DEF SocketTask, OnRegister, SeeClose, SeeEof, SeeReset, Reads
<1>2. ASSUME NEW d \in Daemons, Reap(d) PROVE HeartbeatsAnswered!(e)'
  BY <1>0, <1>2 DEF Reap, ServerHolds
<1>3. ASSUME NEW d \in Daemons, Daemon(d) PROVE HeartbeatsAnswered!(e)'
  <2>1. ASSUME NEW s \in Sockets, Connect(d, s) PROVE HeartbeatsAnswered!(e)'
    <3>1. CASE d = e
      BY <1>0, <2>1, <3>1 DEF Connect, TypeOK
    <3>2. CASE d # e
      <4>1. pc[e] = "serving" => s # cur[e]
        BY <1>0, <2>1, NoneFacts DEF Connect, IInv, SocketsInv
      <4> QED BY <1>0, <2>1, <3>2, <4>1 DEF Connect, ServerHolds, TypeOK
    <3> QED BY <3>1, <3>2
  <2>2. ASSUME Registered(d) PROVE HeartbeatsAnswered!(e)'
    BY <1>0, <2>2 DEF Registered, Receives, Awaiting, ServerHolds, TypeOK
  <2>3. ASSUME UnexpectedFirst(d) PROVE HeartbeatsAnswered!(e)'
    BY <1>0, <2>3 DEF UnexpectedFirst, Receives, Awaiting, ServerHolds, TypeOK
  <2>4. ASSUME Refused(d) \/ LoseSocket(d) \/ AckTimeout(d) \/ Shutdown(d)
        PROVE  HeartbeatsAnswered!(e)'
    <3>1. \E to \in {"backoff", "stopped"} : Leave(d, to)
      BY <2>4 DEF Refused, LoseSocket, AckTimeout, Shutdown
    <3>2. UNCHANGED <<task, tid>> /\ \A s \in Sockets : net'[s] = "up" => net[s] = "up"
      BY <1>0, <2>4 DEF Refused, LoseSocket, AckTimeout, Shutdown, TypeOK
    <3> QED BY <1>0, <3>1, <3>2, LeaveKeepsAnswered
  <2>5. ASSUME Heartbeat(d) \/ RecvBeatAck(d) \/ RecvOther(d)
        PROVE  HeartbeatsAnswered!(e)'
    BY <1>0, <2>5 DEF Heartbeat, RecvBeatAck, RecvOther, ServerHolds
  <2> QED BY <1>3, <2>1, <2>2, <2>3, <2>4, <2>5 DEF Daemon, Answered
<1>4. CASE Environment
  <2>1. ASSUME NEW d \in Daemons, EntryAges(d) \/ AckAges(d)
        PROVE  HeartbeatsAnswered!(e)'
    <3>1. UNCHANGED <<pc, cur, net, task, tid>>
      BY <2>1 DEF EntryAges, AckAges
    <3> QED BY <1>0, <3>1 DEF ServerHolds
  <2>2. ASSUME NEW d \in Daemons, DaemonCrash(d) PROVE HeartbeatsAnswered!(e)'
    <3>1. Leave(d, "backoff") /\ UNCHANGED <<net, task, tid>>
      BY <2>2 DEF DaemonCrash
    <3> QED BY <1>0, <3>1, LeaveKeepsAnswered
  <2>3. ASSUME NEW s \in Sockets, Break(s) PROVE HeartbeatsAnswered!(e)'
    BY <1>0, <2>3 DEF Break, ServerHolds, TypeOK
  <2>4. ASSUME ControllerRestart PROVE HeartbeatsAnswered!(e)'
    BY <1>0, <2>4 DEF ControllerRestart, ServerHolds, TypeOK
  <2> QED BY <1>4, <2>1, <2>2, <2>3, <2>4 DEF Environment
<1>5. CASE UNCHANGED vars
  BY <1>0, <1>5 DEF vars, ServerHolds
<1> QED BY <1>1, <1>2, <1>3, <1>4, <1>5 DEF Next

-----------------------------------------------------------------------------
\* Nobody has dialled and the registry is empty.
LEMMA InitInv == Init => IInv
<1> SUFFICES ASSUME Init PROVE IInv
    OBVIOUS
<1>1. TypeOK
  BY DEF Init, TypeOK
<1> QED BY <1>1, NoneFacts
        DEF Init, IInv, SocketsInv, HoldingInv, EntryServed, RegwaitInv, HeartbeatsAnswered

\* IInv holds in every reachable state.
THEOREM Invariance == Spec => []IInv
<1>1. IInv /\ [Next]_vars => IInv'
  <2> SUFFICES ASSUME IInv, [Next]_vars PROVE IInv'
      OBVIOUS
  <2>1. TypeOK'
    BY TypeStep DEF IInv
  <2> QED BY <2>1, SocketsInvStep, HoldingStep, ServedStep, RegwaitStep, AnsweredStep
          DEF IInv
<1> QED BY InitInv, <1>1, PTL DEF Spec

\* The state of controller and daemons is always well-formed.
THEOREM TypeCorrect == Spec => []TypeOK
<1>1. IInv => TypeOK
  BY DEF IInv
<1> QED BY Invariance, <1>1, PTL

\* registry.get never hands out a connection whose handle_websocket task has
\* finished, does not know the daemon's id, or serves another daemon's socket.
THEOREM RegistryServed == Spec => []EntryServed
<1>1. IInv => EntryServed
  BY DEF IInv
<1> QED BY Invariance, <1>1, PTL

\* The first frame a daemon reads on a new socket is the answer to Register.
THEOREM AckComesFirst == Spec => []AckFirst
<1>1. IInv => AckFirst
  BY DEF IInv, RegwaitInv, Awaiting, AckFirst
<1> QED BY Invariance, <1>1, PTL

\* A daemon in the serve loop on a working socket gets an answer to every
\* heartbeat, the only way an evicted daemon learns that it must register.
THEOREM EvictionIsNoticed == Spec => []HeartbeatsAnswered
<1>1. IInv => HeartbeatsAnswered
  BY DEF IInv
<1> QED BY Invariance, <1>1, PTL

\* A daemon without an id is never registered and never served.
THEOREM NamelessRefused == Spec => []NamelessStaysOut
<1>1. IInv => NamelessStaysOut
  <2> SUFFICES ASSUME IInv, NEW d \in Daemons \ Named PROVE NamelessStaysOut!(d)
      BY DEF NamelessStaysOut
  <2>1. \A s \in Sockets : tid[s] # d
    BY NoneFacts DEF IInv, SocketsInv
  <2>2. reg[d] = None
    BY <2>1 DEF IInv, EntryServed, TypeOK, Entries
  <2>3. pc[d] = "serving" => cur[d] \in Sockets /\ net[cur[d]] # "unused"
    BY NoneFacts DEF IInv, HoldingInv, TypeOK
  <2>4. pc[d] = "serving" => (net[cur[d]] = "dead" \/ ~ServerHolds(cur[d]))
    BY <2>1, <2>3 DEF IInv, HeartbeatsAnswered, TypeOK
  <2> QED BY <2>2, <2>4
<1> QED BY Invariance, <1>1, PTL

-----------------------------------------------------------------------------
(* What every system built on these actions keeps, whatever else travels in  *)
(* the queues: Rpc and Sessions add their frames to up and down, so nothing  *)
(* below says what a queue holds.                                            *)

\* The variables that hold no frames.
ServerTypes ==
    /\ reg \in [Daemons -> Entries \cup {None}]
    /\ task \in [Sockets -> {"none", "run", "beat", "cleanup", "done"}]
    /\ tid \in [Sockets -> Daemons \cup {None}]
    /\ net \in [Sockets -> {"unused", "up", "dead"}]
    /\ owner \in [Sockets -> Daemons \cup {None}]
    /\ cur \in [Daemons -> Sockets \cup {None}]

\* The socket s was dialled by d, and its task, if there is one, knows.
Serves(s, d) ==
    d \in Daemons /\ net[s] # "unused" /\ owner[s] = d /\ (ServerHolds(s) => tid[s] = d)

\* Daemons, entries and sockets belong together; no two entries share a connection.
Wired ==
    /\ \A s \in Sockets : task[s] # "none" => net[s] # "unused"
    /\ \A d \in Daemons : cur[d] # None => owner[cur[d]] = d /\ net[cur[d]] # "unused"
    /\ \A d \in Daemons : reg[d] # None => Serves(reg[d].sock, d) /\ ServerHolds(reg[d].sock)
    /\ \A d \in Daemons, e \in Daemons :
          reg[d] # None /\ reg[e] # None /\ reg[d].conn = reg[e].conn => d = e

\* A step of a socket's task that registers nobody, or of its path.
TaskSide(s) ==
    \/ RefuseRegister(s) \/ FindBeat(s) \/ AckBeat(s) \/ NackBeat(s)
    \/ SeeClose(s) \/ SeeEof(s) \/ SeeReset(s) \/ CleanUp(s) \/ Break(s)

\* A step of a daemon, of the reaper or of a clock.
DaemonSide(d) ==
    \/ \E s \in Sockets : Connect(d, s)
    \/ Registered(d) \/ Refused(d) \/ UnexpectedFirst(d)
    \/ LoseSocket(d) \/ AckTimeout(d) \/ Shutdown(d) \/ DaemonCrash(d)
    \/ RecvBeatAck(d) \/ RecvOther(d) \/ Heartbeat(d)
    \/ Reap(d) \/ EntryAges(d) \/ AckAges(d)

\* A socket keeps its daemon.
SocketsKept == \A s \in Sockets, d \in Daemons : Serves(s, d) => Serves(s, d)'

\* No daemon gets another entry.
EntriesKept ==
    \A d \in Daemons : reg'[d] # None =>
        reg[d] # None /\ reg'[d].conn = reg[d].conn /\ reg'[d].sock = reg[d].sock

Linked == ServerTypes' /\ Wired' /\ SocketsKept /\ EntriesKept

\* An entry is no None, and has a connection and a socket.
LEMMA EntryFacts ==
    ASSUME NEW e \in Entries
    PROVE  e # None /\ e.conn \in Conns /\ e.sock \in Sockets
BY NoneAssumption DEF Entries

\* A step that dials nothing and registers nobody.
LEMMA QuietWired ==
    ASSUME ServerTypes, Wired, EntriesKept, ServerTypes',
           UNCHANGED owner,
           \A s \in Sockets : net[s] # "unused" => net'[s] # "unused",
           \A s \in Sockets : task'[s] # "none" => task[s] # "none",
           \A s \in Sockets : ServerHolds(s)' => ServerHolds(s) /\ tid'[s] = tid[s],
           \A d \in Daemons : reg'[d] # None => ServerHolds(reg[d].sock)',
           \A d \in Daemons : cur'[d] \in {cur[d], None}
    PROVE  Linked
<1>1. SocketsKept
  BY DEF SocketsKept, Serves
<1>2. Wired'
  <2>1. \A s \in Sockets : task'[s] # "none" => net'[s] # "unused"
    BY DEF Wired
  <2>2. \A d \in Daemons : cur'[d] # None => owner'[cur'[d]] = d /\ net'[cur'[d]] # "unused"
    BY DEF Wired, ServerTypes
  <2>3. ASSUME NEW d \in Daemons, reg'[d] # None
        PROVE  (Serves(reg[d].sock, d) /\ ServerHolds(reg[d].sock))'
    <3>1. /\ reg[d] # None /\ reg'[d].sock = reg[d].sock /\ reg[d].sock \in Sockets
          /\ Serves(reg[d].sock, d)
      BY <2>3, EntryFacts DEF EntriesKept, Wired, ServerTypes
    <3>2. Serves(reg[d].sock, d) /\ ServerHolds(reg[d].sock)' =>
            ServerHolds(reg[d].sock) /\ tid'[reg'[d].sock] = tid[reg[d].sock]
      BY <3>1 DEF ServerHolds
    <3>3. ServerHolds(reg[d].sock)'
      BY <2>3
    <3> QED BY <3>1, <3>2, <3>3 DEF Serves
  <2>4. \A d \in Daemons, e \in Daemons :
          reg'[d] # None /\ reg'[e] # None /\ reg'[d].conn = reg'[e].conn => d = e
    BY DEF EntriesKept, Wired
  <2> QED BY <2>1, <2>2, <2>3, <2>4 DEF Wired
<1> QED BY <1>1, <1>2 DEF Linked

\* As long as no task leaves its socket, those of the entries have not.
LEMMA EntriesHeld ==
    ASSUME ServerTypes, Wired, EntriesKept,
           \A s \in Sockets : ServerHolds(s) => ServerHolds(s)'
    PROVE  \A d \in Daemons : reg'[d] # None => ServerHolds(reg[d].sock)'
<1> SUFFICES ASSUME NEW d \in Daemons, reg'[d] # None PROVE ServerHolds(reg[d].sock)'
  OBVIOUS
<1>1. reg[d] # None /\ reg'[d].sock = reg[d].sock /\ reg[d].sock \in Sockets
  BY EntryFacts DEF EntriesKept, ServerTypes
<1>2. ServerHolds(reg[d].sock)
  BY <1>1 DEF Wired
<1> QED BY <1>1, <1>2 DEF ServerHolds

\* Nothing of the control plane changes but queues, clocks and faults.
LEMMA SameWired ==
    ASSUME ServerTypes, Wired, UNCHANGED <<reg, task, tid, net, owner, cur>>
    PROVE  Linked
<1>1. ServerTypes' /\ EntriesKept
  BY DEF ServerTypes, EntriesKept
<1>2. \A s \in Sockets : ServerHolds(s)' <=> ServerHolds(s)
  BY DEF ServerHolds
<1> QED BY <1>1, <1>2, QuietWired, EntriesHeld

\* A task's step, but for a registration; or a path that dies.
LEMMA TaskWired ==
    ASSUME ServerTypes, Wired, NEW s \in Sockets, TaskSide(s)
    PROVE  Linked
<1> USE DEF serverVars, netVars, daemonVars
<1>1. CASE RefuseRegister(s) \/ NackBeat(s)
  BY <1>1, SameWired DEF RefuseRegister, NackBeat
<1>2. CASE FindBeat(s)
  <2>1. task[s] = "run" /\ task' = [task EXCEPT ![s] = "beat"] /\ UNCHANGED <<reg, tid, net, owner, cur>>
    BY <1>2 DEF FindBeat, Reads
  <2>2. ServerTypes' /\ EntriesKept
    BY <2>1 DEF ServerTypes, EntriesKept
  <2> QED BY <2>1, <2>2, QuietWired, EntriesHeld DEF ServerHolds, ServerTypes
<1>3. CASE AckBeat(s)
  <2>1. /\ task[s] = "beat" /\ task' = [task EXCEPT ![s] = "run"] /\ UNCHANGED <<tid, net, owner, cur>>
        /\ reg' = [d \in Daemons |->
                     IF reg[d] # None /\ reg[d].conn = beat[s]
                     THEN Entry(reg[d].conn, reg[d].sock, TRUE) ELSE reg[d]]
    BY <1>3 DEF AckBeat
  <2>2. ASSUME NEW d \in Daemons
        PROVE  /\ reg'[d] \in Entries \cup {None}
               /\ reg'[d] # None =>
                    reg[d] # None /\ reg'[d].conn = reg[d].conn /\ reg'[d].sock = reg[d].sock
    <3>1. CASE reg[d] # None /\ reg[d].conn = beat[s]
      <4>1. reg[d] \in Entries /\ reg[d].conn \in Conns /\ reg[d].sock \in Sockets
        BY <3>1, EntryFacts DEF ServerTypes
      <4>2. reg'[d] = Entry(reg[d].conn, reg[d].sock, TRUE)
        BY <2>1, <3>1
      <4> QED BY <3>1, <4>1, <4>2 DEF Entry, Entries
    <3>2. CASE ~(reg[d] # None /\ reg[d].conn = beat[s])
      <4>1. reg'[d] = reg[d]
        BY <2>1, <3>2
      <4> QED BY <4>1 DEF ServerTypes
    <3> QED BY <3>1, <3>2
  <2>3. ServerTypes' /\ EntriesKept
    BY <2>1, <2>2 DEF ServerTypes, EntriesKept
  <2> QED BY <2>1, <2>3, QuietWired, EntriesHeld DEF ServerHolds, ServerTypes
<1>4. CASE SeeClose(s) \/ SeeEof(s) \/ SeeReset(s)
  <2>1. task[s] = "run" /\ task' = [task EXCEPT ![s] = "cleanup"] /\ UNCHANGED <<reg, tid, net, owner, cur>>
    BY <1>4 DEF SeeClose, SeeEof, SeeReset, LeaveLoop, Reads
  <2>2. ServerTypes' /\ EntriesKept
    BY <2>1 DEF ServerTypes, EntriesKept
  <2> QED BY <2>1, <2>2, QuietWired, EntriesHeld DEF ServerHolds, ServerTypes
<1>5. CASE CleanUp(s)
  <2>1. /\ task[s] = "cleanup" /\ task' = [task EXCEPT ![s] = "done"]
        /\ reg' = (IF tid[s] = None THEN reg ELSE [reg EXCEPT ![tid[s]] = None])
        /\ tid' = [tid EXCEPT ![s] = None] /\ UNCHANGED <<net, owner, cur>>
    BY <1>5 DEF CleanUp
  <2>2. ServerTypes' /\ EntriesKept
    BY <2>1 DEF ServerTypes, EntriesKept
  <2>3. \A x \in Sockets : x # s => task'[x] = task[x] /\ tid'[x] = tid[x]
    BY <2>1 DEF ServerTypes
  <2>4. ASSUME NEW d \in Daemons, reg'[d] # None PROVE ServerHolds(reg[d].sock)'
    <3>1. /\ reg[d] # None /\ reg'[d].sock = reg[d].sock /\ reg[d].sock \in Sockets
          /\ tid[reg[d].sock] = d /\ ServerHolds(reg[d].sock)
      BY <2>2, <2>4, EntryFacts DEF EntriesKept, ServerTypes, Wired, Serves
    <3>2. tid[s] # d
      BY <2>1, <2>4, NoneFacts DEF ServerTypes
    <3> QED BY <2>3, <3>1, <3>2 DEF ServerHolds
  <2>5. \A x \in Sockets : ServerHolds(x)' => ServerHolds(x) /\ tid'[x] = tid[x]
    BY <2>1, <2>3 DEF ServerHolds, ServerTypes
  <2>6. \A x \in Sockets : task'[x] # "none" => task[x] # "none"
    BY <2>1, <2>3
  <2> QED BY <2>1, <2>2, <2>4, <2>5, <2>6, QuietWired
<1>6. CASE Break(s)
  <2>1. net' = [net EXCEPT ![s] = "dead"] /\ UNCHANGED <<reg, task, tid, owner, cur>>
    BY <1>6 DEF Break
  <2>2. ServerTypes' /\ EntriesKept
    BY <2>1 DEF ServerTypes, EntriesKept
  <2> QED BY <2>1, <2>2, QuietWired, EntriesHeld DEF ServerHolds, ServerTypes
<1> QED BY <1>1, <1>2, <1>3, <1>4, <1>5, <1>6 DEF TaskSide

\* A registration: the entry is the dialler's, its connection is new.
LEMMA RegisterWired ==
    ASSUME ServerTypes, Wired, NEW s \in Sockets, NEW c \in Conns, HandleRegister(s, c)
    PROVE  /\ ServerTypes' /\ Wired' /\ SocketsKept
           /\ owner[s] \in Daemons /\ reg'[owner[s]].conn = c
           /\ \A d \in Daemons : d # owner[s] => reg'[d] = reg[d]
<1> USE DEF serverVars, netVars, daemonVars
<1> DEFINE o == owner[s]
<1>1. /\ task[s] = "run" /\ o \in Daemons /\ c \in FreeConns
      /\ tid' = [tid EXCEPT ![s] = o] /\ reg' = [reg EXCEPT ![o] = Entry(c, s, TRUE)]
      /\ UNCHANGED <<task, net, owner, cur>>
  BY NamedAssumption DEF HandleRegister, Reads
<1>2. net[s] # "unused"
  BY <1>1 DEF Wired
<1>3. Entry(c, s, TRUE) \in Entries /\ Entry(c, s, TRUE).conn = c /\ Entry(c, s, TRUE).sock = s
  BY DEF Entry, Entries
<1> HIDE DEF o
<1>4. ServerTypes'
  BY <1>1, <1>3 DEF ServerTypes
<1>5. /\ reg'[o] = Entry(c, s, TRUE) /\ \A d \in Daemons : d # o => reg'[d] = reg[d]
      /\ tid'[s] = o /\ \A x \in Sockets : x # s => tid'[x] = tid[x]
  BY <1>1 DEF ServerTypes
<1>6. SocketsKept
  <2>1. ASSUME NEW x \in Sockets, NEW d \in Daemons, Serves(x, d) PROVE Serves(x, d)'
    <3>1. CASE x = s
      BY <1>1, <1>5, <2>1, <3>1 DEF Serves, ServerHolds, o
    <3>2. CASE x # s
      BY <1>1, <1>5, <2>1, <3>2 DEF Serves, ServerHolds
    <3> QED BY <3>1, <3>2
  <2> QED BY <2>1 DEF SocketsKept
<1>7. Wired'
  <2>1. /\ \A x \in Sockets : task'[x] # "none" => net'[x] # "unused"
        /\ \A d \in Daemons : cur'[d] # None => owner'[cur'[d]] = d /\ net'[cur'[d]] # "unused"
    BY <1>1 DEF Wired
  <2>2. ASSUME NEW d \in Daemons, reg'[d] # None PROVE (Serves(reg[d].sock, d) /\ ServerHolds(reg[d].sock))'
    <3>1. CASE d = o
      <4>1. reg'[d].sock = s /\ ServerHolds(s)'
        BY <1>1, <1>3, <1>5, <3>1 DEF ServerHolds
      <4>2. ServerHolds(reg[d].sock)' /\ tid'[s] = d /\ net'[s] # "unused" /\ owner'[s] = d
        BY <1>1, <1>2, <1>5, <3>1, <4>1 DEF ServerHolds, o
      <4> QED BY <4>1, <4>2 DEF Serves
    <3>2. CASE d # o
      <4>1. reg'[d] = reg[d] /\ reg[d] # None /\ reg[d].sock \in Sockets
        BY <1>5, <2>2, <3>2, EntryFacts DEF ServerTypes
      <4>2. /\ Serves(reg[d].sock, d) /\ ServerHolds(reg[d].sock)
            /\ \A x \in Sockets : Serves(x, d) => Serves(x, d)'
        BY <1>6, <4>1 DEF Wired, SocketsKept
      <4>3. Serves(reg[d].sock, d)' <=>
              (/\ net'[reg[d].sock] # "unused" /\ owner'[reg[d].sock] = d
               /\ task'[reg[d].sock] \in {"run", "beat", "cleanup"} => tid'[reg[d].sock] = d)
        BY <4>1 DEF Serves, ServerHolds
      <4>4. ServerHolds(reg[d].sock)'
        BY <1>1, <4>1, <4>2 DEF ServerHolds
      <4>5. Serves(reg[d].sock, d)'
        BY <4>1, <4>2, <4>3 DEF Serves, ServerHolds
      <4> QED BY <4>4, <4>5
    <3> QED BY <3>1, <3>2
  <2>3. ASSUME NEW d \in Daemons, NEW e \in Daemons,
               reg'[d] # None, reg'[e] # None, reg'[d].conn = reg'[e].conn
        PROVE  d = e
    <3>1. \A x \in Daemons : reg[x] # None => reg[x].conn # c
      BY <1>1 DEF FreeConns
    <3>2. \A x \in Daemons : reg'[x] # None => IF x = o THEN reg'[x].conn = c
                                               ELSE reg[x] # None /\ reg'[x] = reg[x]
      BY <1>3, <1>5
    <3> QED BY <2>3, <3>1, <3>2 DEF Wired
  <2> QED BY <2>1, <2>2, <2>3 DEF Wired
<1> QED BY <1>1, <1>3, <1>4, <1>5, <1>6, <1>7 DEF o

\* A daemon's steps; Connect is the one that dials.
LEMMA DaemonWired ==
    ASSUME ServerTypes, Wired, NEW d \in Daemons, DaemonSide(d)
    PROVE  Linked /\ \A e \in Daemons : e # d => cur'[e] = cur[e]
<1> USE DEF serverVars, netVars, daemonVars
<1>1. ASSUME NEW s \in Sockets, Connect(d, s) PROVE Linked /\ \A e \in Daemons : e # d => cur'[e] = cur[e]
  <2>1. /\ net[s] = "unused" /\ net' = [net EXCEPT ![s] = "up"] /\ owner' = [owner EXCEPT ![s] = d]
        /\ task' = [task EXCEPT ![s] = "run"] /\ cur' = [cur EXCEPT ![d] = s]
        /\ UNCHANGED <<reg, tid>>
    BY <1>1 DEF Connect
  <2>2. ServerTypes' /\ EntriesKept
    BY <2>1 DEF ServerTypes, EntriesKept
  <2>3. \A x \in Sockets : x # s => /\ net'[x] = net[x] /\ owner'[x] = owner[x]
                                    /\ task'[x] = task[x] /\ tid'[x] = tid[x]
    BY <2>1 DEF ServerTypes
  <2>4. SocketsKept
    BY <2>1, <2>3 DEF SocketsKept, Serves, ServerHolds
  <2>5. Wired'
    <3>1. \A x \in Sockets : task'[x] # "none" => net'[x] # "unused"
      BY <2>1, <2>3 DEF Wired, ServerTypes
    <3>2. ASSUME NEW e \in Daemons, cur'[e] # None
          PROVE  owner'[cur'[e]] = e /\ net'[cur'[e]] # "unused"
      <4>1. CASE e = d
        BY <2>1, <4>1 DEF ServerTypes
      <4>2. CASE e # d
        <5>1. cur'[e] = cur[e] /\ cur[e] \in Sockets /\ net[cur[e]] # "unused" /\ owner[cur[e]] = e
          BY <2>1, <3>2, <4>2 DEF ServerTypes, Wired
        <5> QED BY <2>1, <2>3, <5>1
      <4> QED BY <4>1, <4>2
    <3>3. ASSUME NEW e \in Daemons, reg'[e] # None
          PROVE  (Serves(reg[e].sock, e) /\ ServerHolds(reg[e].sock))'
      <4>1. /\ reg'[e] = reg[e] /\ reg[e] # None /\ reg[e].sock \in Sockets
            /\ Serves(reg[e].sock, e) /\ ServerHolds(reg[e].sock)
        BY <2>1, <3>3, EntryFacts DEF ServerTypes, Wired
      <4>2. reg[e].sock # s
        BY <2>1, <4>1 DEF Serves
      <4> QED BY <2>1, <2>3, <4>1, <4>2 DEF Serves, ServerHolds
    <3> QED BY <2>1, <3>1, <3>2, <3>3 DEF Wired
  <2>6. \A e \in Daemons : e # d => cur'[e] = cur[e]
    BY <2>1 DEF ServerTypes
  <2> QED BY <2>2, <2>4, <2>5, <2>6 DEF Linked
<1>2. CASE Registered(d) \/ UnexpectedFirst(d) \/ RecvBeatAck(d) \/ RecvOther(d) \/ Heartbeat(d) \/ AckAges(d)
  BY <1>2, SameWired DEF Registered, UnexpectedFirst, RecvBeatAck, RecvOther, Heartbeat, AckAges
<1>3. CASE Refused(d) \/ LoseSocket(d) \/ AckTimeout(d) \/ Shutdown(d) \/ DaemonCrash(d)
  <2>1. cur' = [cur EXCEPT ![d] = None] /\ UNCHANGED <<reg, task, tid, net, owner>>
    BY <1>3 DEF Refused, LoseSocket, AckTimeout, Shutdown, DaemonCrash, Leave
  <2>2. ServerTypes' /\ EntriesKept
    BY <2>1 DEF ServerTypes, EntriesKept
  <2>3. \A e \in Daemons : cur'[e] \in {cur[e], None} /\ (e # d => cur'[e] = cur[e])
    BY <2>1 DEF ServerTypes
  <2> QED BY <2>1, <2>2, <2>3, QuietWired, EntriesHeld DEF ServerHolds
<1>4. CASE Reap(d) \/ EntryAges(d)
  <2>1. UNCHANGED <<task, tid, net, owner, cur>>
    BY <1>4 DEF Reap, EntryAges
  <2>2. ServerTypes' /\ EntriesKept
    <3>1. CASE Reap(d)
      BY <2>1, <3>1 DEF Reap, ServerTypes, EntriesKept
    <3>2. CASE EntryAges(d)
      <4>1. reg[d] # None /\ reg' = [reg EXCEPT ![d] = Entry(reg[d].conn, reg[d].sock, FALSE)]
        BY <3>2 DEF EntryAges, ServerTypes
      <4>2. reg[d] \in Entries /\ reg[d].conn \in Conns /\ reg[d].sock \in Sockets
        BY <4>1, EntryFacts DEF ServerTypes
      <4>3. /\ Entry(reg[d].conn, reg[d].sock, FALSE) \in Entries
            /\ Entry(reg[d].conn, reg[d].sock, FALSE).conn = reg[d].conn
            /\ Entry(reg[d].conn, reg[d].sock, FALSE).sock = reg[d].sock
        BY <4>2 DEF Entry, Entries
      <4> QED BY <2>1, <4>1, <4>3 DEF ServerTypes, EntriesKept
    <3> QED BY <1>4, <3>1, <3>2
  <2> QED BY <2>1, <2>2, QuietWired, EntriesHeld DEF ServerHolds
<1> QED BY <1>1, <1>2, <1>3, <1>4 DEF DaemonSide

-----------------------------------------------------------------------------
(* The registration ack comes first, whatever else is sent later. *)

\* A socket on which nothing but the answer to Register can arrive next.
AckDue(s) ==
    \/ /\ down[s] = <<>>
       /\ (net[s] = "up" /\ ServerHolds(s)) =>
             up[s] = <<"Register">> /\ task[s] = "run" /\ tid[s] = None
    \/ down[s] # <<>> /\ Head(down[s]) \in {"RegisterAck", "RegisterNack"}

AckInv ==
    /\ \A s \in Sockets : net[s] = "unused" => down[s] = <<>> /\ tid[s] = None
    /\ \A d \in Daemons : pc[d] = "regwait" => cur[d] # None /\ AckDue(cur[d])

\* The types the lemmas below rest on, with the frames F down and G up.
LinkQueues(F, G) ==
    /\ ServerTypes /\ Wired /\ DownFrames \subseteq F
    /\ down \in [Sockets -> Seq(F)] /\ up \in [Sockets -> Seq(G)]
    /\ pc \in [Daemons -> {"backoff", "regwait", "serving", "stopped"}]

\* AckInv says what it is for.
LEMMA AckInvFirst == AckInv => AckFirst
<1> SUFFICES ASSUME AckInv, NEW d \in Daemons, pc[d] = "regwait", down[cur[d]] # <<>>
             PROVE  Head(down[cur[d]]) \in {"RegisterAck", "RegisterNack"}
  BY DEF AckFirst
<1> QED BY DEF AckInv, AckDue

\* What a step may do to a socket that waits for its ack.
AckEffect(F, s) ==
    \/ /\ down'[s] = down[s]
       /\ \/ down[s] # <<>> \/ net'[s] # "up" \/ ~ServerHolds(s)'
          \/ /\ up'[s] = up[s] /\ net'[s] = net[s]
             /\ task'[s] = task[s] /\ tid'[s] = tid[s]
    \/ \E f \in F : /\ down'[s] = Append(down[s], f)
                    /\ down[s] # <<>> \/ f \in {"RegisterAck", "RegisterNack"}

\* The ack stays due through such a step.
LEMMA AckDueKept ==
    ASSUME NEW F, NEW s \in Sockets, down[s] \in Seq(F), AckDue(s), AckEffect(F, s)
    PROVE  AckDue(s)'
<1>1. ASSUME NEW f \in F, down'[s] = Append(down[s], f),
             down[s] # <<>> \/ f \in {"RegisterAck", "RegisterNack"}
      PROVE  AckDue(s)'
  BY <1>1, AppendHead DEF AckDue
<1>2. CASE down'[s] = down[s]
  BY <1>2 DEF AckEffect, AckDue, ServerHolds
<1> QED BY <1>1, <1>2 DEF AckEffect

\* Steps that move no daemon.
LEMMA AckStays ==
    ASSUME NEW F, NEW G, LinkQueues(F, G), AckInv, UNCHANGED <<pc, cur>>,
           \A s \in Sockets : net[s] # "unused" => net'[s] # "unused",
           \A s \in Sockets : net[s] = "unused" => down'[s] = down[s] /\ tid'[s] = tid[s],
           \A s \in Sockets : AckDue(s) /\ DaemonHolds(s) /\ net[s] # "unused" => AckEffect(F, s)
    PROVE  AckInv'
<1>1. ASSUME NEW d \in Daemons, pc'[d] = "regwait" PROVE cur'[d] # None /\ AckDue(cur[d])'
  <2>1. /\ cur[d] \in Sockets /\ cur'[d] = cur[d] /\ AckDue(cur[d])
        /\ owner[cur[d]] = d /\ net[cur[d]] # "unused"
    BY <1>1, NoneFacts DEF AckInv, LinkQueues, ServerTypes, Wired
  <2>2. DaemonHolds(cur[d])
    BY <2>1, NoneFacts DEF DaemonHolds
  <2>3. AckEffect(F, cur[d]) /\ down[cur[d]] \in Seq(F)
    BY <2>1, <2>2 DEF LinkQueues
  <2>4. \A s \in Sockets : AckDue(s) /\ AckEffect(F, s) /\ down[s] \in Seq(F) => AckDue(s)'
    BY AckDueKept
  <2>5. \A s \in Sockets : s = cur'[d] /\ AckDue(s)' => AckDue(cur[d])'
    BY DEF AckDue, ServerHolds
  <2> QED BY <2>1, <2>3, <2>4, <2>5, NoneFacts
<1>2. \A s \in Sockets : net'[s] = "unused" => down'[s] = <<>> /\ tid'[s] = None
  BY DEF AckInv
<1> QED BY <1>1, <1>2 DEF AckInv

\* A queue that a frame is sent to.
LEMMA SentAt ==
    ASSUME NEW F, NEW q \in [Sockets -> Seq(F)], NEW s \in Sockets, NEW f, NEW h
    PROVE  /\ \A t \in Sockets : t # s => Sent(q, s, f, h)[t] = q[t]
           /\ Sent(q, s, f, h)[s] = IF net[s] = "up" /\ h THEN Append(q[s], f) ELSE q[s]
BY DEF Sent

\* The steps of a task: the first frame it answers is Register.
LEMMA AckTask ==
    ASSUME NEW F, NEW G, LinkQueues(F, G), AckInv, NEW s \in Sockets,
           TaskSide(s) \/ \E c \in Conns : HandleRegister(s, c)
    PROVE  AckInv'
<1> USE DEF serverVars, netVars, daemonVars
<1>s. ASSUME NEW f, NEW h
      PROVE  /\ \A t \in Sockets \ {s} : Sent(down, s, f, h)[t] = down[t]
             /\ Sent(down, s, f, h)[s] = IF net[s] = "up" /\ h THEN Append(down[s], f) ELSE down[s]
  BY SentAt DEF LinkQueues
<1>0. /\ UNCHANGED <<pc, cur, owner>>
      /\ task[s] # "none" \/ Break(s)
      /\ \A t \in Sockets \ {s} : /\ up'[t] = up[t] /\ net'[t] = net[t] /\ task'[t] = task[t]
                                  /\ tid'[t] = tid[t] /\ down'[t] = down[t]
  <2> USE DEF LinkQueues, ServerTypes
  <2>1. CASE \E c \in Conns : HandleRegister(s, c)
    BY <1>s, <2>1 DEF HandleRegister, Reads
  <2>2. CASE RefuseRegister(s) \/ NackBeat(s)
    BY <1>s, <2>2 DEF RefuseRegister, NackBeat, Reads
  <2>3. CASE FindBeat(s)
    BY <1>s, <2>3 DEF FindBeat, Reads
  <2>6. CASE AckBeat(s)
    BY <1>s, <2>6 DEF AckBeat
  <2>4. CASE LeaveLoop(s) /\ task[s] = "run"
    BY <2>4 DEF LeaveLoop
  <2>5. CASE CleanUp(s) \/ Break(s)
    BY <2>5 DEF CleanUp, Break
  <2> QED BY <2>1, <2>2, <2>3, <2>4, <2>5, <2>6 DEF TaskSide, SeeClose, SeeEof, SeeReset, Reads
<1>1. net[s] # "unused" /\ net'[s] # "unused"
  BY <1>0 DEF Wired, TaskSide, LinkQueues, ServerTypes, HandleRegister, RefuseRegister, FindBeat,
              AckBeat, NackBeat, SeeClose, SeeEof, SeeReset, LeaveLoop, CleanUp, Break
<1>2. ASSUME AckDue(s), DaemonHolds(s) PROVE AckEffect(F, s)
  <2>0. /\ down[s] \in Seq(F) /\ down \in [Sockets -> Seq(F)]
        /\ {"RegisterAck", "RegisterNack", "HeartbeatAck", "HeartbeatNack"} \subseteq F
        /\ task \in [Sockets -> {"none", "run", "beat", "cleanup", "done"}]
        /\ net \in [Sockets -> {"unused", "up", "dead"}]
    BY DEF LinkQueues, ServerTypes, DownFrames
  <2>1. ASSUME NEW f \in {"RegisterAck", "RegisterNack"}, net' = net,
               down' = Sent(down, s, f, DaemonHolds(s))
        PROVE  AckEffect(F, s)
    <3>1. net[s] \in {"up", "dead"} /\ f \in F
      BY <1>1, <2>0
    <3>2. down'[s] = IF net[s] = "up" THEN Append(down[s], f) ELSE down[s]
      BY <1>s, <1>2, <2>1
    <3> QED BY <2>1, <3>1, <3>2 DEF AckEffect
  <2>2. CASE RefuseRegister(s) \/ \E c \in Conns : HandleRegister(s, c)
    BY <2>1, <2>2 DEF RefuseRegister, HandleRegister
  <2>3. ASSUME net[s] = "up", down[s] = <<>>
        PROVE  ServerHolds(s) => Head(up[s]) = "Register" /\ task[s] = "run"
    BY <1>2, <2>3 DEF AckDue
  <2>4. CASE NackBeat(s) \/ AckBeat(s)
    <3>1. ServerHolds(s) /\ net' = net /\ (Head(up[s]) # "Register" \/ task[s] # "run")
      BY <2>4 DEF NackBeat, AckBeat, Reads, ServerHolds
    <3>2. net[s] # "up" \/ down[s] # <<>>
      BY <2>3, <3>1
    <3>3. PICK f \in F : down' = Sent(down, s, f, DaemonHolds(s))
      BY <2>0, <2>4 DEF NackBeat, AckBeat
    <3>4. down'[s] = IF net[s] = "up" THEN Append(down[s], f) ELSE down[s]
      BY <1>s, <1>2, <3>3
    <3> QED BY <3>1, <3>2, <3>4 DEF AckEffect
  <2>5. CASE FindBeat(s)
    <3>1. /\ ServerHolds(s) /\ net' = net /\ down' = down /\ Head(up[s]) # "Register"
      BY <2>5 DEF FindBeat, Reads, ServerHolds
    <3>2. net[s] # "up" \/ down[s] # <<>>
      BY <2>3, <3>1
    <3> QED BY <3>1, <3>2 DEF AckEffect
  <2>6. CASE SeeClose(s)
    <3>1. /\ ServerHolds(s) /\ net' = net /\ down' = down /\ Head(up[s]) # "Register"
      BY <2>6 DEF SeeClose, LeaveLoop, Reads, ServerHolds
    <3>2. net[s] # "up" \/ down[s] # <<>>
      BY <2>3, <3>1
    <3> QED BY <3>1, <3>2 DEF AckEffect
  <2>7. CASE SeeEof(s) \/ SeeReset(s)
    <3>1. net[s] = "dead" /\ net' = net /\ down' = down
      BY <1>2, <2>7 DEF SeeEof, SeeReset, LeaveLoop
    <3> QED BY <3>1 DEF AckEffect
  <2>8. CASE CleanUp(s) \/ Break(s)
    <3>1. down' = down /\ (net'[s] = "dead" \/ task'[s] = "done")
      BY <2>0, <2>8 DEF CleanUp, Break
    <3> QED BY <3>1 DEF AckEffect, ServerHolds
  <2> QED BY <2>2, <2>4, <2>5, <2>6, <2>7, <2>8 DEF TaskSide
<1>3. ASSUME NEW t \in Sockets, t # s
      PROVE  net'[t] = net[t] /\ down'[t] = down[t] /\ tid'[t] = tid[t] /\ AckEffect(F, t)
  BY <1>0, <1>3 DEF AckEffect
<1>4. ASSUME NEW t \in Sockets
      PROVE  /\ net[t] # "unused" => net'[t] # "unused"
             /\ net[t] = "unused" => down'[t] = down[t] /\ tid'[t] = tid[t]
             /\ AckDue(t) /\ DaemonHolds(t) => AckEffect(F, t)
  <2>1. CASE t = s
    BY <1>1, <1>2, <2>1
  <2>2. CASE t # s
    BY <1>3, <2>2
  <2> QED BY <2>1, <2>2
<1>5. /\ UNCHANGED <<pc, cur>>
      /\ \A t \in Sockets : net[t] # "unused" => net'[t] # "unused"
      /\ \A t \in Sockets : net[t] = "unused" => down'[t] = down[t] /\ tid'[t] = tid[t]
      /\ \A t \in Sockets : AckDue(t) /\ DaemonHolds(t) /\ net[t] # "unused" => AckEffect(F, t)
  BY <1>0, <1>4
<1> HIDE DEF serverVars, netVars, daemonVars
<1> QED BY <1>5, AckStays

\* Steps of a daemon that does not wait, on the socket it holds.
LEMMA AckElsewhere ==
    ASSUME NEW F, NEW G, LinkQueues(F, G), AckInv, NEW d \in Daemons,
           UNCHANGED <<net, task, tid>>,
           \A s \in Sockets : s # cur[d] => up'[s] = up[s] /\ down'[s] = down[s],
           \A e \in Daemons : e # d => pc'[e] = pc[e] /\ cur'[e] = cur[e],
           pc'[d] # "regwait"
    PROVE  AckInv'
<1>1. \A e \in Daemons : cur[e] # None => net[cur[e]] # "unused" /\ owner[cur[e]] = e
  BY DEF LinkQueues, Wired
<1>2. \A s \in Sockets : net'[s] = "unused" => down'[s] = <<>> /\ tid'[s] = None
  BY <1>1, NoneFacts DEF AckInv
<1>3. ASSUME NEW e \in Daemons, pc'[e] = "regwait" PROVE cur'[e] # None /\ AckDue(cur[e])'
  <2>1. e # d /\ cur[e] # None /\ cur[e] \in Sockets /\ cur'[e] = cur[e] /\ AckDue(cur[e])
    BY <1>3 DEF AckInv, LinkQueues, ServerTypes
  <2>2. cur[e] # cur[d]
    BY <1>1, <2>1
  <2>3. up'[cur[e]] = up[cur[e]] /\ down'[cur[e]] = down[cur[e]]
    BY <2>1, <2>2
  <2> QED BY <2>1, <2>3 DEF AckDue, ServerHolds
<1> QED BY <1>2, <1>3 DEF AckInv

\* A daemon's steps: it waits from the moment it has sent Register.
LEMMA AckDaemon ==
    ASSUME NEW F, NEW G, LinkQueues(F, G), AckInv, NEW d \in Daemons, DaemonSide(d)
    PROVE  AckInv'
<1> USE DEF serverVars, netVars, daemonVars
<1>0. /\ ServerTypes /\ down \in [Sockets -> Seq(F)] /\ up \in [Sockets -> Seq(G)]
      /\ pc \in [Daemons -> {"backoff", "regwait", "serving", "stopped"}]
      /\ cur \in [Daemons -> Sockets \cup {None}]
  BY DEF LinkQueues, ServerTypes
<1>1. ASSUME NEW s \in Sockets, Connect(d, s) PROVE AckInv'
  <2>1. /\ net[s] = "unused" /\ net' = [net EXCEPT ![s] = "up"] /\ task' = [task EXCEPT ![s] = "run"]
        /\ up' = [up EXCEPT ![s] = <<"Register">>] /\ UNCHANGED <<tid, down>>
        /\ pc' = [pc EXCEPT ![d] = "regwait"] /\ cur' = [cur EXCEPT ![d] = s]
    BY <1>1 DEF Connect
  <2>2. \A t \in Sockets : t # s => net'[t] = net[t] /\ task'[t] = task[t] /\ up'[t] = up[t]
    BY <1>0, <2>1 DEF ServerTypes
  <2>3. AckDue(s)'
    BY <1>0, <2>1 DEF AckInv, AckDue, ServerTypes
  <2>4. ASSUME NEW e \in Daemons, pc'[e] = "regwait" PROVE cur'[e] # None /\ AckDue(cur[e])'
    <3>1. CASE e = d
      <4>1. cur'[e] = s
        BY <1>0, <2>1, <3>1
      <4> QED BY <2>3, <4>1, NoneFacts DEF AckDue, ServerHolds
    <3>2. CASE e # d
      <4>1. cur'[e] = cur[e] /\ cur[e] # None /\ cur[e] \in Sockets /\ AckDue(cur[e])
        BY <1>0, <2>1, <2>4, <3>2 DEF AckInv
      <4>2. cur[e] # s
        BY <2>1, <4>1 DEF LinkQueues, Wired
      <4> QED BY <2>1, <2>2, <4>1, <4>2 DEF AckDue, ServerHolds
    <3> QED BY <3>1, <3>2
  <2>5. \A t \in Sockets : net'[t] = "unused" => down'[t] = <<>> /\ tid'[t] = None
    BY <1>0, <2>1, <2>2 DEF AckInv, ServerTypes
  <2> QED BY <2>4, <2>5 DEF AckInv
<1>2. CASE Reap(d) \/ EntryAges(d) \/ AckAges(d)
  <2>1. UNCHANGED <<net, task, tid, up, down, pc, cur>>
    BY <1>2 DEF Reap, EntryAges, AckAges
  <2> QED BY <2>1 DEF AckInv, AckDue, ServerHolds
<1>3. ASSUME UNCHANGED <<net, task, tid, cur>>,
             pc' = [pc EXCEPT ![d] = "serving"] \/ (pc' = pc /\ pc[d] = "serving"),
             \A s \in Sockets : s # cur[d] => up'[s] = up[s] /\ down'[s] = down[s]
      PROVE  AckInv'
  <2>1. pc'[d] # "regwait" /\ \A e \in Daemons : e # d => pc'[e] = pc[e] /\ cur'[e] = cur[e]
    BY <1>0, <1>3
  <2> QED BY <1>3, <2>1, AckElsewhere
<1>4. ASSUME NEW to \in {"backoff", "stopped"}, Leave(d, to), UNCHANGED <<net, task, tid>>,
             \A s \in Sockets : s # cur[d] => up'[s] = up[s]
      PROVE  AckInv'
  <2>1. \A s \in Sockets : s # cur[d] => down'[s] = down[s]
    BY <1>0, <1>4 DEF Leave
  <2>2. pc'[d] # "regwait" /\ \A e \in Daemons : e # d => pc'[e] = pc[e] /\ cur'[e] = cur[e]
    BY <1>0, <1>4 DEF Leave
  <2> QED BY <1>4, <2>1, <2>2, AckElsewhere
<1>5. \A f, h : \A s \in Sockets : s # cur[d] => Sent(up, cur[d], f, h)[s] = up[s]
  BY <1>0 DEF Sent
<1>6. CASE Registered(d) \/ UnexpectedFirst(d) \/ RecvOther(d)
  <2>1. \A s \in Sockets : s # cur[d] => down'[s] = down[s]
    BY <1>0, <1>6 DEF Registered, UnexpectedFirst, RecvOther, Consume
  <2> QED BY <1>3, <1>6, <2>1 DEF Registered, UnexpectedFirst, RecvOther
<1>7. CASE Heartbeat(d) \/ RecvBeatAck(d)
  <2>1. \A s \in Sockets : s # cur[d] => down'[s] = down[s] /\ up'[s] = up[s]
    BY <1>0, <1>5, <1>7 DEF Heartbeat, RecvBeatAck, Consume
  <2> QED BY <1>3, <1>7, <2>1 DEF Heartbeat, RecvBeatAck
<1>8. CASE Refused(d) \/ LoseSocket(d) \/ AckTimeout(d) \/ DaemonCrash(d)
  BY <1>4, <1>8 DEF Refused, LoseSocket, AckTimeout, DaemonCrash
<1>9. CASE Shutdown(d)
  BY <1>4, <1>5, <1>9 DEF Shutdown
<1> QED BY <1>1, <1>2, <1>6, <1>7, <1>8, <1>9 DEF DaemonSide
=============================================================================
