--------------------------- MODULE SessionsProofs ---------------------------
(***************************************************************************)
(* Proofs about Sessions, for any daemons, sockets, output and bounds: its *)
(* types, and that what the caller of a session reads is a prefix of what  *)
(* the shell printed.                                                      *)
(***************************************************************************)
EXTENDS Sessions, TLAPS

DownF == DownFrames \cup {"NewSession", "SessionInput", "SessionClose"}
UpF   == UpFrames \cup Outs \cup {"SessionExit"}
ChanF == {"NewSession", "SessionInput", "SessionClose"}

\* The variables of DaemonLink, with the frames of a session in the queues.
LinkTypes ==
    /\ reg \in [Daemons -> Entries \cup {None}]
    /\ task \in [Sockets -> {"none", "run", "beat", "cleanup", "done"}]
    /\ tid \in [Sockets -> Daemons \cup {None}]
    /\ net \in [Sockets -> {"unused", "up", "dead"}]
    /\ up \in [Sockets -> Seq(UpF)]
    /\ down \in [Sockets -> Seq(DownF)]
    /\ cur \in [Daemons -> Sockets \cup {None}]

\* A call that has found its daemon holds the connection.
CallTypes == SessTypeOK /\ (sess \in {"got", "registered"} => hold # None)

Types == LinkTypes /\ CallTypes

\* A daemon holds a socket that was dialled, and the locals of a task go with it.
Places ==
    /\ \A d \in Daemons : cur[d] # None => net[cur[d]] # "unused"
    /\ \A s \in Sockets : task[s] \in {"none", "done"} => tid[s] = None

NewIn(q) == \E i \in 1 .. Len(q) : q[i] = "NewSession"

\* NewSession is at most once in the queues Q.
Once(Q) ==
    \A s \in Sockets, t \in Sockets :
        \A i \in 1 .. Len(Q[s]), j \in 1 .. Len(Q[t]) :
            Q[s][i] = "NewSession" /\ Q[t][j] = "NewSession" => s = t /\ i = j

\* The session is asked for once, and its reader task starts once.
OneStart ==
    /\ Once(chan) /\ Once(down)
    /\ \A s \in Sockets, t \in Sockets : ~(NewIn(chan[s]) /\ NewIn(down[t]))
    /\ \A s \in Sockets : NewIn(chan[s]) \/ NewIn(down[s]) => sess = "open" /\ rsock = None
    /\ rsock # None => sess = "open"
    /\ reader = "none" <=> rsock = None

\* The chunks in q are those after the first a and up to b, in order: g[i] is
\* how many have passed with the first i frames.
Carries(q, a, b) ==
    \E g \in [0 .. Len(q) -> 0 .. Len(Outputs)] :
        /\ g[0] = a /\ g[Len(q)] = b
        /\ \A i \in 0 .. Len(q) : g[i] <= b
        /\ \A i \in 1 .. Len(q) :
              IF q[i] \in Outs THEN g[i] = g[i - 1] + 1 /\ q[i] = Outputs[g[i]]
              ELSE g[i] = g[i - 1]

\* The chunks between the PTY and the caller: all that is missing is behind
\* what is in flight, as long as the session can be reached at all.
InOrder ==
    /\ \A s \in Sockets : \A i \in 1 .. Len(up[s]) : up[s][i] \in Outs => s = rsock
    /\ rsock # None => net[rsock] # "unused"
    /\ rsock = None => out = 0 /\ rx = <<>>
    /\ (rsock # None /\ Known(rsock)) =>
          \E b \in 0 .. out :
              /\ Carries(up[rsock], Len(rx), b)
              /\ net[rsock] = "up" /\ ServerHolds(rsock) => b = out

FlowInv == Types /\ Places /\ OneStart /\ InOrder /\ ReadsPrefix

-----------------------------------------------------------------------------
(* Sequences. *)

\* The head of a queue and what is left of it.
LEMMA TailFacts ==
    ASSUME NEW F, NEW q \in Seq(F), q # <<>>
    PROVE  /\ Tail(q) \in Seq(F) /\ Len(Tail(q)) = Len(q) - 1
           /\ Len(q) \in Nat /\ Len(q) > 0
           /\ Head(q) = q[1] /\ Head(q) \in F
           /\ \A i \in 1 .. Len(Tail(q)) : Tail(q)[i] = q[i + 1] /\ i + 1 \in 1 .. Len(q)
<1>1. /\ Tail(q) \in Seq(F) /\ Len(Tail(q)) = Len(q) - 1 /\ Len(q) \in Nat /\ Len(q) > 0
      /\ Head(q) = q[1] /\ Head(q) \in F
  OBVIOUS
<1>2. \A i \in 1 .. Len(Tail(q)) : Tail(q)[i] = q[i + 1] /\ i + 1 \in 1 .. Len(q)
  BY <1>1
<1> QED BY <1>1, <1>2

\* What Append adds, and where.
LEMMA AppendFacts ==
    ASSUME NEW F, NEW q \in Seq(F), NEW f \in F
    PROVE  /\ Append(q, f) \in Seq(F) /\ Len(Append(q, f)) = Len(q) + 1 /\ Len(q) \in Nat
           /\ \A i \in 1 .. Len(q) : Append(q, f)[i] = q[i]
           /\ Append(q, f)[Len(q) + 1] = f
           /\ \A i \in 1 .. Len(Append(q, f)) : i \in 1 .. Len(q) \/ i = Len(q) + 1
OBVIOUS

\* What is in the empty queue, and in the queue of one frame.
LEMMA ShortFacts ==
    ASSUME NEW F, NEW f \in F
    PROVE  /\ <<>> \in Seq(F) /\ Len(<<>>) = 0
           /\ <<f>> \in Seq(F) /\ Len(<<f>>) = 1 /\ <<f>>[1] = f
OBVIOUS

\* A chunk of output is no frame of the control plane and no SessionExit.
LEMMA ChunkFacts ==
    /\ Outputs \in Seq(Outs) /\ Len(Outputs) \in Nat
    /\ \A i \in 1 .. Len(Outputs) : Outputs[i] \in Outs
    /\ "Register" \notin Outs /\ "Heartbeat" \notin Outs /\ "Close" \notin Outs
    /\ "SessionExit" \notin Outs
<1>1. Len(Outputs) \in Nat /\ DOMAIN Outputs = 1 .. Len(Outputs)
  BY OutputsAssumption
<1>2. {Outputs[i] : i \in DOMAIN Outputs} = Outs
  BY <1>1 DEF Outs
<1> QED BY <1>1, <1>2, OutputsAssumption DEF Outs, UpFrames

-----------------------------------------------------------------------------
(* What Carries says of a queue that grows or shrinks. *)

\* Nothing is carried by a queue without output.
LEMMA CarriesNone ==
    ASSUME NEW q \in Seq(UpF), \A i \in 1 .. Len(q) : q[i] \notin Outs
    PROVE  Carries(q, 0, 0)
<1> DEFINE g == [i \in 0 .. Len(q) |-> 0]
<1>1. Len(q) \in Nat /\ g \in [0 .. Len(q) -> 0 .. Len(Outputs)]
  BY ChunkFacts
<1>2. g[0] = 0 /\ g[Len(q)] = 0 /\ \A i \in 0 .. Len(q) : g[i] <= 0
  BY <1>1
<1>3. \A i \in 1 .. Len(q) : g[i] = g[i - 1]
  BY <1>1
<1> QED BY <1>1, <1>2, <1>3 DEF Carries

\* A frame that is no output changes nothing.
LEMMA CarriesFrame ==
    ASSUME NEW q \in Seq(UpF), NEW a \in Nat, NEW b \in Nat, Carries(q, a, b),
           NEW f \in UpF, f \notin Outs
    PROVE  Carries(Append(q, f), a, b)
<1>1. PICK g \in [0 .. Len(q) -> 0 .. Len(Outputs)] :
        /\ g[0] = a /\ g[Len(q)] = b
        /\ \A i \in 0 .. Len(q) : g[i] <= b
        /\ \A i \in 1 .. Len(q) :
              IF q[i] \in Outs THEN g[i] = g[i - 1] + 1 /\ q[i] = Outputs[g[i]]
              ELSE g[i] = g[i - 1]
  BY DEF Carries
<1> DEFINE n == Len(q)
           p == Append(q, f)
           h == [i \in 0 .. n + 1 |-> IF i = n + 1 THEN b ELSE g[i]]
<1>2. /\ n \in Nat /\ Len(p) = n + 1 /\ p[n + 1] = f
      /\ \A i \in 1 .. n : p[i] = q[i]
  BY AppendFacts
<1> HIDE DEF p
<1>3. h \in [0 .. n + 1 -> 0 .. Len(Outputs)]
  BY <1>1, <1>2
<1>4. h[0] = a /\ h[n + 1] = b /\ \A i \in 0 .. n + 1 : h[i] <= b
  BY <1>1, <1>2
<1>5. ASSUME NEW i \in 1 .. n + 1
      PROVE  IF p[i] \in Outs THEN h[i] = h[i - 1] + 1 /\ p[i] = Outputs[h[i]]
             ELSE h[i] = h[i - 1]
  <2>1. CASE i \in 1 .. n
    <3>1. h[i] = g[i] /\ h[i - 1] = g[i - 1] /\ p[i] = q[i]
      BY <1>2, <2>1
    <3> QED BY <1>1, <2>1, <3>1
  <2>2. CASE i = n + 1
    <3>1. h[i] = b /\ h[i - 1] = g[n] /\ p[i] = f
      BY <1>2, <2>2
    <3> QED BY <1>1, <3>1
  <2> QED BY <1>2, <2>1, <2>2
<1> HIDE DEF h
<1> QED BY <1>2, <1>3, <1>4, <1>5 DEF Carries, p

\* The next chunk goes behind the others.
LEMMA CarriesChunk ==
    ASSUME NEW q \in Seq(UpF), NEW a \in Nat, NEW b \in Nat, Carries(q, a, b),
           b < Len(Outputs)
    PROVE  Carries(Append(q, Outputs[b + 1]), a, b + 1)
<1>1. PICK g \in [0 .. Len(q) -> 0 .. Len(Outputs)] :
        /\ g[0] = a /\ g[Len(q)] = b
        /\ \A i \in 0 .. Len(q) : g[i] <= b
        /\ \A i \in 1 .. Len(q) :
              IF q[i] \in Outs THEN g[i] = g[i - 1] + 1 /\ q[i] = Outputs[g[i]]
              ELSE g[i] = g[i - 1]
  BY DEF Carries
<1> DEFINE n == Len(q)
           f == Outputs[b + 1]
           p == Append(q, f)
           h == [i \in 0 .. n + 1 |-> IF i = n + 1 THEN b + 1 ELSE g[i]]
<1>0. f \in Outs /\ f \in UpF /\ Len(Outputs) \in Nat /\ b + 1 \in 0 .. Len(Outputs)
  BY ChunkFacts DEF UpF
<1> HIDE DEF f
<1>2. /\ n \in Nat /\ Len(p) = n + 1 /\ p[n + 1] = f
      /\ \A i \in 1 .. n : p[i] = q[i]
  BY <1>0, AppendFacts
<1> HIDE DEF p
<1>3. h \in [0 .. n + 1 -> 0 .. Len(Outputs)]
  BY <1>0, <1>1, <1>2
<1>4. h[0] = a /\ h[n + 1] = b + 1 /\ \A i \in 0 .. n + 1 : h[i] <= b + 1
  <2>1. ASSUME NEW i \in 0 .. n + 1 PROVE h[i] <= b + 1
    <3>1. CASE i = n + 1
      BY <3>1
    <3>2. CASE i \in 0 .. n
      <4>1. h[i] = g[i] /\ g[i] <= b /\ g[i] \in 0 .. Len(Outputs)
        BY <1>1, <1>2, <3>2
      <4> QED BY <1>0, <4>1
    <3> QED BY <1>2, <3>1, <3>2
  <2> QED BY <1>1, <1>2, <2>1
<1>5. ASSUME NEW i \in 1 .. n + 1
      PROVE  IF p[i] \in Outs THEN h[i] = h[i - 1] + 1 /\ p[i] = Outputs[h[i]]
             ELSE h[i] = h[i - 1]
  <2>1. CASE i \in 1 .. n
    <3>1. h[i] = g[i] /\ h[i - 1] = g[i - 1] /\ p[i] = q[i]
      BY <1>2, <2>1
    <3> QED BY <1>1, <2>1, <3>1
  <2>2. CASE i = n + 1
    <3>1. h[i] = b + 1 /\ h[i - 1] = g[n] /\ p[i] = f
      BY <1>2, <2>2
    <3> QED BY <1>0, <1>1, <3>1 DEF f
  <2> QED BY <1>2, <2>1, <2>2
<1> HIDE DEF h
<1> QED BY <1>2, <1>3, <1>4, <1>5 DEF Carries, p, f

\* The frame in front is the next chunk, or none.
LEMMA CarriesTail ==
    ASSUME NEW q \in Seq(UpF), q # <<>>, NEW a \in Nat, NEW b \in Nat, Carries(q, a, b)
    PROVE  /\ Head(q) \notin Outs => Carries(Tail(q), a, b)
           /\ Head(q) \in Outs => /\ Carries(Tail(q), a + 1, b)
                                  /\ Head(q) = Outputs[a + 1]
                                  /\ a + 1 <= b /\ a + 1 <= Len(Outputs)
<1>1. PICK g \in [0 .. Len(q) -> 0 .. Len(Outputs)] :
        /\ g[0] = a /\ g[Len(q)] = b
        /\ \A i \in 0 .. Len(q) : g[i] <= b
        /\ \A i \in 1 .. Len(q) :
              IF q[i] \in Outs THEN g[i] = g[i - 1] + 1 /\ q[i] = Outputs[g[i]]
              ELSE g[i] = g[i - 1]
  BY DEF Carries
<1> DEFINE p == Tail(q)
           m == Len(p)
           h == [i \in 0 .. m |-> g[i + 1]]
<1>2. /\ p \in Seq(UpF) /\ m \in Nat /\ Len(q) = m + 1 /\ Head(q) = q[1]
      /\ \A i \in 1 .. m : p[i] = q[i + 1]
  BY TailFacts
<1> HIDE DEF p, m
<1>3. h \in [0 .. m -> 0 .. Len(Outputs)]
  BY <1>1, <1>2
<1>4. h[0] = g[1] /\ h[m] = b /\ \A i \in 0 .. m : h[i] <= b
  BY <1>1, <1>2
<1>5. ASSUME NEW i \in 1 .. m
      PROVE  IF p[i] \in Outs THEN h[i] = h[i - 1] + 1 /\ p[i] = Outputs[h[i]]
             ELSE h[i] = h[i - 1]
  <2>1. h[i] = g[i + 1] /\ h[i - 1] = g[i] /\ p[i] = q[i + 1] /\ i + 1 \in 1 .. Len(q)
    BY <1>2
  <2>2. IF q[i + 1] \in Outs THEN g[i + 1] = g[(i + 1) - 1] + 1 /\ q[i + 1] = Outputs[g[i + 1]]
        ELSE g[i + 1] = g[(i + 1) - 1]
    BY <1>1, <2>1
  <2> QED BY <2>1, <2>2
<1> HIDE DEF h
<1>6. Carries(p, g[1], b)
  BY <1>3, <1>4, <1>5 DEF Carries, m
<1>7. IF q[1] \in Outs THEN g[1] = a + 1 /\ q[1] = Outputs[g[1]] ELSE g[1] = a
  <2>1. 1 \in 1 .. Len(q) /\ 1 - 1 = 0
    BY <1>2
  <2> QED BY <1>1, <2>1
<1>8. g[1] <= b /\ g[1] \in 0 .. Len(Outputs) /\ Len(Outputs) \in Nat
  BY <1>1, <1>2, ChunkFacts
<1> QED BY <1>2, <1>6, <1>7, <1>8 DEF p

\* One chunk more of the prefix.
LEMMA PrefixGrows ==
    ASSUME NEW n \in Nat, n + 1 <= Len(Outputs)
    PROVE  Append(SubSeq(Outputs, 1, n), Outputs[n + 1]) = SubSeq(Outputs, 1, n + 1)
<1>1. Outputs \in Seq(Outs) /\ Len(Outputs) \in Nat
  BY ChunkFacts
<1> QED BY <1>1

-----------------------------------------------------------------------------
(* NewSession in a queue that grows or shrinks. *)

\* Every NewSession in k is in q, as often.
Drops(k, q) ==
    \E n \in {0, 1} : \A i \in 1 .. Len(k) :
        k[i] = "NewSession" => i + n \in 1 .. Len(q) /\ q[i + n] = "NewSession"

\* A queue that is kept drops nothing.
LEMMA DropsSame == ASSUME NEW F, NEW q \in Seq(F) PROVE Drops(q, q)
<1>1. \A i \in 1 .. Len(q) : i + 0 \in 1 .. Len(q) /\ q[i + 0] = q[i]
  OBVIOUS
<1> QED BY <1>1 DEF Drops

\* An emptied queue adds nothing.
LEMMA DropsAll == ASSUME NEW q PROVE Drops(<<>>, q)
<1>1. \A i \in 1 .. Len(<<>>) : FALSE
  OBVIOUS
<1> QED BY <1>1 DEF Drops

\* Taking the head off a queue adds nothing.
LEMMA DropsHead ==
    ASSUME NEW F, NEW q \in Seq(F), q # <<>>
    PROVE  Tail(q) \in Seq(F) /\ Drops(Tail(q), q)
BY TailFacts DEF Drops

\* Appending another frame adds no NewSession.
LEMMA DropsFrame ==
    ASSUME NEW F, NEW q \in Seq(F), NEW f \in F, f # "NewSession"
    PROVE  Append(q, f) \in Seq(F) /\ Drops(Append(q, f), q)
<1>1. \A i \in 1 .. Len(Append(q, f)) : Append(q, f)[i] = "NewSession" =>
          i + 0 \in 1 .. Len(q) /\ q[i + 0] = "NewSession"
  BY AppendFacts
<1> QED BY <1>1, AppendFacts DEF Drops

\* What is left was there before.
LEMMA DropsIn ==
    ASSUME NEW k, NEW q, Drops(k, q), NewIn(k)
    PROVE  NewIn(q)
BY DEF Drops, NewIn

\* Queues that only drop keep NewSession unique.
LEMMA OnceKept ==
    ASSUME NEW P, NEW Q, Once(Q), \A s \in Sockets : Drops(P[s], Q[s])
    PROVE  Once(P)
<1> SUFFICES ASSUME NEW s \in Sockets, NEW t \in Sockets,
                    NEW i \in 1 .. Len(P[s]), NEW j \in 1 .. Len(P[t]),
                    P[s][i] = "NewSession", P[t][j] = "NewSession"
             PROVE  s = t /\ i = j
    BY DEF Once
<1>1. PICK n \in {0, 1} : \A k \in 1 .. Len(P[s]) :
          P[s][k] = "NewSession" => k + n \in 1 .. Len(Q[s]) /\ Q[s][k + n] = "NewSession"
  BY DEF Drops
<1>2. PICK m \in {0, 1} : \A k \in 1 .. Len(P[t]) :
          P[t][k] = "NewSession" => k + m \in 1 .. Len(Q[t]) /\ Q[t][k + m] = "NewSession"
  BY DEF Drops
<1>3. i + n \in 1 .. Len(Q[s]) /\ Q[s][i + n] = "NewSession"
  BY <1>1
<1>4. j + m \in 1 .. Len(Q[t]) /\ Q[t][j + m] = "NewSession"
  BY <1>2
<1>5. s = t
  BY <1>3, <1>4 DEF Once
<1>6. j + n \in 1 .. Len(Q[t]) /\ Q[t][j + n] = "NewSession"
  BY <1>1, <1>5
<1>7. i + n = j + n
  BY <1>3, <1>5, <1>6 DEF Once
<1> QED BY <1>5, <1>7

-----------------------------------------------------------------------------
(* What the steps of DaemonLink do to the queues. *)

\* The queues to the daemons get no NewSession.
DownDrops ==
    down' \in [Sockets -> Seq(DownF)] /\ \A s \in Sockets : Drops(down'[s], down[s])

\* The queues to the controller get and lose no output, except with the socket.
UpEffect(s) ==
    \/ up'[s] = up[s]
    \/ \E f \in UpF \ Outs : up'[s] = Append(up[s], f)
    \/ up[s] # <<>> /\ Head(up[s]) \notin Outs /\ up'[s] = Tail(up[s])
    \/ up'[s] = <<>> /\ tid'[s] = None
    \/ net[s] = "unused" /\ up'[s] = <<"Register">>

UpQuiet == up' \in [Sockets -> Seq(UpF)] /\ \A s \in Sockets : UpEffect(s)

\* A socket that can deliver could before, or is new.
PathsOnlyFail ==
    \A s \in Sockets :
        /\ net'[s] = "up" /\ ServerHolds(s)' =>
              net[s] = "unused" \/ (net[s] = "up" /\ ServerHolds(s))
        /\ net[s] # "unused" => net'[s] # "unused"

LinkStep == LinkTypes' /\ Places' /\ DownDrops /\ UpQuiet /\ PathsOnlyFail

\* No socket gets another connection.
ConnsKept ==
    \A s \in Sockets : tid'[s] # None /\ reg'[tid'[s]] # None =>
        /\ tid[s] = tid'[s] /\ reg[tid[s]] # None
        /\ reg[tid[s]].conn = reg'[tid[s]].conn

\* The frames of the control plane.
LEMMA FrameFacts ==
    /\ {"Register", "Heartbeat", "Close", "SessionExit"} \subseteq UpF \ Outs
    /\ {"RegisterAck", "RegisterNack", "HeartbeatAck", "HeartbeatNack"} \subseteq DownF
    /\ ChanF \subseteq DownF /\ UpFrames = {"Register", "Heartbeat", "Close"}
BY ChunkFacts DEF UpF, DownF, ChanF, UpFrames, DownFrames

\* Queues that a step leaves alone.
LEMMA KeepDown == ASSUME LinkTypes, UNCHANGED down PROVE DownDrops
BY DropsSame DEF LinkTypes, DownDrops
\* Likewise.
LEMMA KeepUp == ASSUME LinkTypes, UNCHANGED up PROVE UpQuiet
BY DEF LinkTypes, UpQuiet, UpEffect

\* A frame other than NewSession written to a daemon.
LEMMA SendDown ==
    ASSUME LinkTypes, NEW s, NEW f \in DownF, f # "NewSession", NEW h,
           down' = Sent(down, s, f, h)
    PROVE  DownDrops
<1>0. UNCHANGED down \/ down' = [down EXCEPT ![s] = Append(@, f)]
  BY DEF Sent
<1>1. CASE UNCHANGED down
  BY <1>1, KeepDown
<1>2. CASE down' = [down EXCEPT ![s] = Append(@, f)]
  <2>1. \A t \in Sockets : /\ Append(down[t], f) \in Seq(DownF) /\ Drops(Append(down[t], f), down[t])
                           /\ down[t] \in Seq(DownF) /\ Drops(down[t], down[t])
    BY DropsFrame, DropsSame DEF LinkTypes
  <2>2. \A t \in Sockets : down'[t] = down[t] \/ down'[t] = Append(down[t], f)
    BY <1>2 DEF LinkTypes
  <2>3. down' \in [Sockets -> Seq(DownF)]
    BY <1>2, <2>1 DEF LinkTypes
  <2> QED BY <2>1, <2>2, <2>3 DEF DownDrops
<1> QED BY <1>0, <1>1, <1>2

\* A frame a daemon reads.
LEMMA ReadDown ==
    ASSUME LinkTypes, NEW d \in Daemons, NEW f, Receives(d, f), Consume(d)
    PROVE  DownDrops
<1>1. \A t \in Sockets : down[t] \in Seq(DownF) /\ Drops(down[t], down[t])
  BY DropsSame DEF LinkTypes
<1>2. cur[d] \in Sockets /\ down[cur[d]] # <<>>
  BY DEF Receives, LinkTypes
<1>3. Tail(down[cur[d]]) \in Seq(DownF) /\ Drops(Tail(down[cur[d]]), down[cur[d]])
  BY <1>1, <1>2, DropsHead
<1> QED BY <1>1, <1>2, <1>3 DEF DownDrops, LinkTypes, Consume

\* What a daemon drops with its socket.
LEMMA DropDown ==
    ASSUME LinkTypes, NEW s, down' = [down EXCEPT ![s] = <<>>]
    PROVE  DownDrops
<1>1. \A t \in Sockets : down[t] \in Seq(DownF) /\ Drops(down[t], down[t]) /\ Drops(<<>>, down[t])
  BY DropsSame, DropsAll DEF LinkTypes
<1>2. <<>> \in Seq(DownF)
  OBVIOUS
<1> QED BY <1>1, <1>2 DEF DownDrops, LinkTypes

\* A frame other than output written to the controller.
LEMMA SendUp ==
    ASSUME LinkTypes, NEW s, NEW f \in UpF \ Outs, NEW h, up' = Sent(up, s, f, h)
    PROVE  UpQuiet
<1>0. UNCHANGED up \/ up' = [up EXCEPT ![s] = Append(@, f)]
  BY DEF Sent
<1>1. CASE UNCHANGED up
  BY <1>1, KeepUp
<1>2. CASE up' = [up EXCEPT ![s] = Append(@, f)]
  <2>1. \A t \in Sockets : Append(up[t], f) \in Seq(UpF) /\ up[t] \in Seq(UpF)
    BY AppendFacts DEF LinkTypes
  <2>2. \A t \in Sockets : up'[t] = up[t] \/ up'[t] = Append(up[t], f)
    BY <1>2 DEF LinkTypes
  <2>3. up' \in [Sockets -> Seq(UpF)]
    BY <1>2, <2>1 DEF LinkTypes
  <2> QED BY <2>1, <2>2, <2>3 DEF UpQuiet, UpEffect
<1> QED BY <1>0, <1>1, <1>2

\* A frame other than output that the controller reads.
LEMMA ReadUp ==
    ASSUME LinkTypes, NEW s \in Sockets, NEW f, f \notin Outs, Reads(s, f),
           up' = [up EXCEPT ![s] = Tail(@)]
    PROVE  UpQuiet
<1>1. up[s] \in Seq(UpF) /\ up[s] # <<>> /\ Head(up[s]) \notin Outs
  BY DEF LinkTypes, Reads
<1>2. Tail(up[s]) \in Seq(UpF)
  BY <1>1, TailFacts
<1> QED BY <1>1, <1>2 DEF UpQuiet, UpEffect, LinkTypes

-----------------------------------------------------------------------------
(* Every step of DaemonLink that is part of a session's step. *)

\* The variables a LinkStep is about, when only queues change.
LEMMA QueueStep ==
    ASSUME LinkTypes, Places, DownDrops, UpQuiet, UNCHANGED <<reg, task, tid, net, cur>>
    PROVE  LinkStep /\ ConnsKept
<1>1. LinkTypes'
  BY DEF LinkTypes, DownDrops, UpQuiet
<1>2. Places'
  BY DEF Places
<1>3. PathsOnlyFail
  BY DEF PathsOnlyFail, ServerHolds
<1>4. ConnsKept
  BY DEF ConnsKept
<1> QED BY <1>1, <1>2, <1>3, <1>4 DEF LinkStep

\* A task's step; HandleRegister is the one that changes a connection.
LEMMA TaskLink ==
    ASSUME LinkTypes, Places, NEW s \in Sockets,
           TaskStep(s) \/ (LeaveLoop(s) /\ task[s] = "run") \/ CleanUp(s)
    PROVE  LinkStep /\ ConnsKept
<1> USE DEF serverVars, netVars, daemonVars
<1>1. ASSUME RefuseRegister(s) \/ NackBeat(s) PROVE LinkStep /\ ConnsKept
  <2>1. DownDrops
    BY <1>1, FrameFacts, SendDown DEF RefuseRegister, NackBeat
  <2>2. UpQuiet
    BY <1>1, FrameFacts, ReadUp DEF RefuseRegister, NackBeat
  <2> QED BY <1>1, <2>1, <2>2, QueueStep DEF RefuseRegister, NackBeat
<1>2. ASSUME FindBeat(s) PROVE LinkStep /\ ConnsKept
  <2>1. DownDrops /\ UpQuiet
    BY <1>2, FrameFacts, ReadUp, KeepDown DEF FindBeat
  <2>2. /\ task[s] = "run" /\ task' = [task EXCEPT ![s] = "beat"]
        /\ UNCHANGED <<reg, tid, net, cur>>
    BY <1>2 DEF FindBeat, Reads
  <2>3. LinkTypes' /\ Places'
    BY <2>1, <2>2 DEF LinkTypes, Places, DownDrops, UpQuiet
  <2>4. PathsOnlyFail /\ ConnsKept
    BY <2>2 DEF PathsOnlyFail, ConnsKept, ServerHolds, LinkTypes
  <2> QED BY <2>1, <2>3, <2>4 DEF LinkStep
<1>3. ASSUME AckBeat(s) PROVE LinkStep /\ ConnsKept
  <2>1. DownDrops /\ UpQuiet
    BY <1>3, FrameFacts, SendDown, KeepUp DEF AckBeat
  <2>2. /\ task[s] = "beat" /\ task' = [task EXCEPT ![s] = "run"]
        /\ UNCHANGED <<tid, net, cur>>
    BY <1>3 DEF AckBeat
  <2>3. /\ reg' \in [Daemons -> Entries \cup {None}]
        /\ \A d \in Daemons : /\ reg'[d] = None <=> reg[d] = None
                              /\ reg[d] # None => reg'[d].conn = reg[d].conn
    <3>1. ASSUME NEW e \in Entries
          PROVE  /\ Entry(e.conn, e.sock, TRUE) \in Entries
                 /\ Entry(e.conn, e.sock, TRUE).conn = e.conn
      BY DEF Entries, Entry
    <3>2. None \notin Entries
      BY NoneAssumption DEF Entries
    <3>3. reg' = [d \in Daemons |-> IF reg[d] # None /\ reg[d].conn = beat[s]
                                    THEN Entry(reg[d].conn, reg[d].sock, TRUE) ELSE reg[d]]
      BY <1>3 DEF AckBeat
    <3>4. ASSUME NEW d \in Daemons
          PROVE  /\ reg'[d] \in Entries \cup {None}
                 /\ reg'[d] = None <=> reg[d] = None
                 /\ reg[d] # None => reg'[d].conn = reg[d].conn
      <4>1. CASE reg[d] = None
        BY <3>3, <4>1
      <4>2. CASE reg[d] \in Entries
        <5>1. /\ Entry(reg[d].conn, reg[d].sock, TRUE) \in Entries
              /\ Entry(reg[d].conn, reg[d].sock, TRUE).conn = reg[d].conn
          BY <3>1, <4>2
        <5>2. reg'[d] \in {Entry(reg[d].conn, reg[d].sock, TRUE), reg[d]}
          BY <3>3
        <5> QED BY <3>2, <4>2, <5>1, <5>2
      <4> QED BY <4>1, <4>2 DEF LinkTypes
    <3> QED BY <3>3, <3>4
  <2>4. LinkTypes' /\ Places'
    BY <2>1, <2>2, <2>3 DEF LinkTypes, Places, DownDrops, UpQuiet
  <2>5. PathsOnlyFail
    BY <2>2 DEF PathsOnlyFail, ServerHolds, LinkTypes
  <2>6. ConnsKept
    BY <2>2, <2>3 DEF ConnsKept, LinkTypes
  <2> QED BY <2>1, <2>4, <2>5, <2>6 DEF LinkStep
<1>4. ASSUME LeaveLoop(s), task[s] = "run" PROVE LinkStep /\ ConnsKept
  <2>1. DownDrops /\ UpQuiet
    BY <1>4, KeepDown, KeepUp DEF LeaveLoop
  <2>2. task' = [task EXCEPT ![s] = "cleanup"] /\ UNCHANGED <<reg, tid, net, cur>>
    BY <1>4 DEF LeaveLoop
  <2>3. LinkTypes' /\ Places'
    BY <2>1, <2>2 DEF LinkTypes, Places, DownDrops, UpQuiet
  <2>4. PathsOnlyFail /\ ConnsKept
    BY <1>4, <2>2 DEF PathsOnlyFail, ConnsKept, ServerHolds, LinkTypes
  <2> QED BY <2>1, <2>3, <2>4 DEF LinkStep
<1>5. ASSUME CleanUp(s) PROVE LinkStep /\ ConnsKept
  <2>1. /\ task[s] = "cleanup" /\ task' = [task EXCEPT ![s] = "done"]
        /\ reg' = IF tid[s] = None THEN reg ELSE [reg EXCEPT ![tid[s]] = None]
        /\ tid' = [tid EXCEPT ![s] = None]
        /\ up' = [up EXCEPT ![s] = <<>>]
        /\ UNCHANGED <<net, down, cur>>
    BY <1>5 DEF CleanUp
  <2>2. DownDrops
    BY <2>1, KeepDown
  <2>3. UpQuiet
    <3>1. <<>> \in Seq(UpF)
      OBVIOUS
    <3> QED BY <2>1, <3>1 DEF UpQuiet, UpEffect, LinkTypes
  <2>4. LinkTypes' /\ Places'
    BY <2>1, <2>2, <2>3 DEF LinkTypes, Places, DownDrops, UpQuiet
  <2>5. PathsOnlyFail /\ ConnsKept
    BY <2>1, NoneAssumption DEF PathsOnlyFail, ConnsKept, ServerHolds, LinkTypes
  <2> QED BY <2>2, <2>3, <2>4, <2>5 DEF LinkStep
<1> QED BY <1>1, <1>2, <1>3, <1>4, <1>5 DEF TaskStep, SeeClose, Reads

\* A registration puts a new connection in the place of the daemon's old one.
LEMMA RegisterLink ==
    ASSUME LinkTypes, Places, NEW s \in Sockets, NEW c \in Conns, HandleRegister(s, c)
    PROVE  /\ LinkStep
           /\ owner[s] \in Daemons
           /\ tid' = [tid EXCEPT ![s] = owner[s]]
           /\ reg' = [reg EXCEPT ![owner[s]] = Entry(c, s, TRUE)]
<1> USE DEF serverVars, netVars, daemonVars
<1>1. /\ owner[s] \in Daemons /\ task[s] = "run"
      /\ tid' = [tid EXCEPT ![s] = owner[s]]
      /\ reg' = [reg EXCEPT ![owner[s]] = Entry(c, s, TRUE)]
      /\ UNCHANGED <<task, net, cur>>
  BY NamedAssumption DEF HandleRegister, Reads
<1>2. DownDrops
  BY FrameFacts, SendDown DEF HandleRegister
<1>3. UpQuiet
  BY FrameFacts, ReadUp DEF HandleRegister
<1>4. Entry(c, s, TRUE) \in Entries
  BY DEF Entry, Entries
<1>5. LinkTypes' /\ Places'
  BY <1>1, <1>2, <1>3, <1>4 DEF LinkTypes, Places, DownDrops, UpQuiet
<1>6. PathsOnlyFail
  BY <1>1 DEF PathsOnlyFail, ServerHolds
<1> QED BY <1>1, <1>2, <1>3, <1>5, <1>6 DEF LinkStep

\* A daemon that leaves serve() drops its socket, after a last frame or none.
LEMMA LeaveLink ==
    ASSUME LinkTypes, Places, NEW d \in Daemons, NEW to, Leave(d, to), UpQuiet,
           UNCHANGED <<reg, task, tid, net>>
    PROVE  LinkStep /\ ConnsKept
<1>1. DownDrops
  BY DropDown DEF Leave
<1>2. cur' = [cur EXCEPT ![d] = None]
  BY DEF Leave
<1>3. LinkTypes' /\ Places'
  BY <1>1, <1>2 DEF LinkTypes, Places, DownDrops, UpQuiet
<1>4. PathsOnlyFail /\ ConnsKept
  BY DEF PathsOnlyFail, ConnsKept, ServerHolds
<1> QED BY <1>1, <1>3, <1>4 DEF LinkStep

\* The steps of a daemon.
LEMMA DaemonLinkStep ==
    ASSUME LinkTypes, Places, NEW d \in Daemons,
           \/ LoopStep(d) \/ LoseSocket(d) \/ AckTimeout(d)
           \/ Shutdown(d) \/ DaemonCrash(d) \/ Background(d)
    PROVE  LinkStep /\ ConnsKept
<1> USE DEF serverVars, netVars, daemonVars
<1>1. ASSUME NEW s \in Sockets, Connect(d, s) PROVE LinkStep /\ ConnsKept
  <2>1. /\ net[s] = "unused" /\ net' = [net EXCEPT ![s] = "up"]
        /\ up' = [up EXCEPT ![s] = <<"Register">>]
        /\ task' = [task EXCEPT ![s] = "run"]
        /\ cur' = [cur EXCEPT ![d] = s]
        /\ UNCHANGED <<reg, tid, down>>
    BY <1>1 DEF Connect
  <2>2. DownDrops
    BY <2>1, KeepDown
  <2>3. UpQuiet
    <3>1. <<"Register">> \in Seq(UpF)
      BY FrameFacts, ShortFacts
    <3> QED BY <2>1, <3>1 DEF UpQuiet, UpEffect, LinkTypes
  <2>4. LinkTypes'
    BY <2>1, <2>2, <2>3 DEF LinkTypes, DownDrops, UpQuiet
  <2>5. Places'
    BY <2>1 DEF LinkTypes, Places
  <2>6. PathsOnlyFail /\ ConnsKept
    BY <2>1 DEF PathsOnlyFail, ConnsKept, ServerHolds, LinkTypes
  <2> QED BY <2>2, <2>3, <2>4, <2>5, <2>6 DEF LinkStep
<1>2. ASSUME Registered(d) \/ RecvOther(d) PROVE LinkStep /\ ConnsKept
  BY <1>2, ReadDown, KeepUp, QueueStep DEF Registered, RecvOther
<1>3. ASSUME Refused(d) \/ LoseSocket(d) \/ AckTimeout(d) \/ DaemonCrash(d)
      PROVE  LinkStep /\ ConnsKept
  BY <1>3, LeaveLink, KeepUp DEF Refused, LoseSocket, AckTimeout, DaemonCrash
<1>4. ASSUME UnexpectedFirst(d) PROVE LinkStep /\ ConnsKept
  <2>1. DownDrops
    BY <1>4, ReadDown, KeepDown DEF UnexpectedFirst
  <2> QED BY <1>4, <2>1, KeepUp, QueueStep DEF UnexpectedFirst
<1>5. ASSUME RecvBeatAck(d) PROVE LinkStep /\ ConnsKept
  <2>1. DownDrops
    BY <1>5, ReadDown DEF RecvBeatAck
  <2>2. UpQuiet
    BY <1>5, FrameFacts, SendUp, KeepUp DEF RecvBeatAck
  <2> QED BY <1>5, <2>1, <2>2, QueueStep DEF RecvBeatAck
<1>6. ASSUME Shutdown(d) PROVE LinkStep /\ ConnsKept
  <2>1. UpQuiet
    BY <1>6, FrameFacts, SendUp DEF Shutdown
  <2> QED BY <1>6, <2>1, LeaveLink DEF Shutdown
<1>7. ASSUME Heartbeat(d) PROVE LinkStep /\ ConnsKept
  <2>1. UpQuiet
    BY <1>7, FrameFacts, SendUp DEF Heartbeat
  <2> QED BY <1>7, <2>1, KeepDown, QueueStep DEF Heartbeat
<1>8. ASSUME Reap(d) \/ EntryAges(d) PROVE LinkStep /\ ConnsKept
  <2>1. DownDrops /\ UpQuiet
    BY <1>8, KeepDown, KeepUp DEF Reap, EntryAges
  <2>2. UNCHANGED <<task, tid, net, cur>>
    BY <1>8 DEF Reap, EntryAges
  <2>3. /\ reg' \in [Daemons -> Entries \cup {None}]
        /\ \A e \in Daemons : reg'[e] # None => reg[e] # None /\ reg'[e].conn = reg[e].conn
    <3>1. CASE Reap(d)
      BY <3>1 DEF Reap, LinkTypes
    <3>2. CASE EntryAges(d)
      <4>1. reg[d] \in Entries /\ reg' = [reg EXCEPT ![d] = Entry(reg[d].conn, reg[d].sock, FALSE)]
        BY <3>2 DEF EntryAges, LinkTypes
      <4>2. /\ Entry(reg[d].conn, reg[d].sock, FALSE) \in Entries
            /\ Entry(reg[d].conn, reg[d].sock, FALSE).conn = reg[d].conn
        BY <4>1 DEF Entry, Entries
      <4> QED BY <3>2, <4>1, <4>2 DEF EntryAges, LinkTypes
    <3> QED BY <1>8, <3>1, <3>2
  <2>4. LinkTypes' /\ Places'
    BY <2>1, <2>2, <2>3 DEF LinkTypes, Places, DownDrops, UpQuiet
  <2>5. PathsOnlyFail
    BY <2>2 DEF PathsOnlyFail, ServerHolds
  <2>6. ConnsKept
    BY <2>2, <2>3 DEF ConnsKept, LinkTypes
  <2> QED BY <2>1, <2>4, <2>5, <2>6 DEF LinkStep
<1>9. ASSUME AckAges(d) PROVE LinkStep /\ ConnsKept
  BY <1>9, KeepDown, KeepUp, QueueStep DEF AckAges
<1> QED BY <1>1, <1>2, <1>3, <1>4, <1>5, <1>6, <1>7, <1>8, <1>9 DEF LoopStep, Background

\* A path that dies.
LEMMA BreakLink ==
    ASSUME LinkTypes, Places, NEW s \in Sockets, Break(s)
    PROVE  LinkStep /\ ConnsKept
<1> USE DEF serverVars, netVars, daemonVars
<1>1. DownDrops /\ UpQuiet
  BY KeepDown, KeepUp DEF Break
<1>2. net' = [net EXCEPT ![s] = "dead"] /\ UNCHANGED <<reg, task, tid, cur>>
  BY DEF Break
<1>3. LinkTypes' /\ Places'
  BY <1>1, <1>2 DEF LinkTypes, Places, DownDrops, UpQuiet
<1>4. PathsOnlyFail /\ ConnsKept
  BY <1>2 DEF PathsOnlyFail, ConnsKept, ServerHolds, LinkTypes
<1> QED BY <1>1, <1>3, <1>4 DEF LinkStep

-----------------------------------------------------------------------------
(* The parts of the invariant. *)

ChanDrops == \A s \in Sockets : Drops(chan'[s], chan[s])

\* No step makes a session known again.
LEMMA KnownKept ==
    ASSUME ConnsKept, sender' \subseteq sender
    PROVE  \A s \in Sockets : Known(s)' => Known(s)
BY DEF ConnsKept, Known

\* The order of the chunks survives every step that moves none of them.
LEMMA QuietKeeps ==
    ASSUME FlowInv, LinkTypes', UpQuiet, PathsOnlyFail, UNCHANGED <<rx, out, rsock>>,
           rsock # None /\ Known(rsock)' => Known(rsock)
    PROVE  InOrder' /\ ReadsPrefix'
<1>0. /\ up \in [Sockets -> Seq(UpF)] /\ rx \in Seq(Outs) /\ out \in Nat
      /\ rsock \in Sockets \cup {None} /\ Len(rx) \in Nat
  BY ChunkFacts DEF FlowInv, Types, LinkTypes, CallTypes, SessTypeOK
<1>1. ASSUME NEW s \in Sockets, NEW i \in 1 .. Len(up'[s]), up'[s][i] \in Outs
      PROVE  s = rsock
  <2>0. up[s] \in Seq(UpF) /\ \A j \in 1 .. Len(up[s]) : up[s][j] \in Outs => s = rsock
    BY <1>0 DEF FlowInv, InOrder
  <2>1. CASE up'[s] = up[s]
    BY <1>1, <2>0, <2>1
  <2>2. ASSUME NEW f \in UpF \ Outs, up'[s] = Append(up[s], f) PROVE s = rsock
    BY <1>1, <2>0, <2>2, AppendFacts
  <2>3. CASE up[s] # <<>> /\ up'[s] = Tail(up[s])
    BY <1>1, <2>0, <2>3, TailFacts
  <2>4. CASE up'[s] = <<>>
    BY <1>1, <2>4, ShortFacts
  <2>5. CASE up'[s] = <<"Register">>
    BY <1>1, <2>5, ShortFacts, ChunkFacts
  <2> QED BY <2>1, <2>2, <2>3, <2>4, <2>5 DEF UpQuiet, UpEffect
<1>2. ASSUME rsock # None, Known(rsock)'
      PROVE  \E b \in 0 .. out : /\ Carries(up'[rsock], Len(rx), b)
                                 /\ net'[rsock] = "up" /\ ServerHolds(rsock)' => b = out
  <2>1. PICK b \in 0 .. out : /\ Carries(up[rsock], Len(rx), b)
                              /\ net[rsock] = "up" /\ ServerHolds(rsock) => b = out
    BY <1>2 DEF FlowInv, InOrder
  <2>2. rsock \in Sockets /\ up[rsock] \in Seq(UpF) /\ b \in Nat
    BY <1>0, <1>2
  <2>3. tid'[rsock] # None /\ net[rsock] # "unused"
    BY <1>2 DEF Known, FlowInv, InOrder
  <2>4. Carries(up'[rsock], Len(rx), b)
    <3>1. CASE up'[rsock] = up[rsock]
      BY <2>1, <3>1
    <3>2. ASSUME NEW f \in UpF \ Outs, up'[rsock] = Append(up[rsock], f)
          PROVE  Carries(up'[rsock], Len(rx), b)
      BY <1>0, <2>1, <2>2, <3>2, CarriesFrame
    <3>3. CASE up[rsock] # <<>> /\ Head(up[rsock]) \notin Outs /\ up'[rsock] = Tail(up[rsock])
      BY <1>0, <2>1, <2>2, <3>3, CarriesTail
    <3> QED BY <2>2, <2>3, <3>1, <3>2, <3>3 DEF UpQuiet, UpEffect
  <2>5. net'[rsock] = "up" /\ ServerHolds(rsock)' => b = out
    BY <2>1, <2>2, <2>3 DEF PathsOnlyFail
  <2> QED BY <2>4, <2>5
<1>3. rsock # None => net'[rsock] # "unused"
  BY <1>0 DEF FlowInv, InOrder, PathsOnlyFail
<1>4. rsock = None => out = 0 /\ rx = <<>>
  BY DEF FlowInv, InOrder
<1>5. InOrder'
  <2>1. rsock' = rsock /\ rx' = rx /\ out' = out
    OBVIOUS
  <2> QED BY <1>1, <1>2, <1>3, <1>4, <2>1 DEF InOrder
<1>6. ReadsPrefix'
  BY DEF FlowInv, ReadsPrefix
<1> QED BY <1>5, <1>6

\* One start survives every step that neither asks for the session nor starts it.
LEMMA StartKeeps ==
    ASSUME FlowInv, DownDrops, ChanDrops, UNCHANGED rsock,
           sess = "open" => sess' = "open", reader' = "none" <=> reader = "none"
    PROVE  OneStart'
<1>1. \A s \in Sockets : /\ NewIn(chan'[s]) => NewIn(chan[s])
                         /\ NewIn(down'[s]) => NewIn(down[s])
  BY DropsIn DEF DownDrops, ChanDrops
<1>2. Once(chan') /\ Once(down')
  BY OnceKept DEF FlowInv, OneStart, DownDrops, ChanDrops
<1>3. /\ \A s \in Sockets, t \in Sockets : ~(NewIn(chan'[s]) /\ NewIn(down'[t]))
      /\ \A s \in Sockets : NewIn(chan'[s]) \/ NewIn(down'[s]) => sess' = "open" /\ rsock' = None
      /\ rsock' # None => sess' = "open"
      /\ reader' = "none" <=> rsock' = None
  BY <1>1 DEF FlowInv, OneStart
<1> QED BY <1>2, <1>3 DEF OneStart, Once, NewIn

\* Both, for the steps that do neither.
LEMMA PlainStep ==
    ASSUME FlowInv, LinkStep, CallTypes', ChanDrops, UNCHANGED <<rx, out, rsock>>,
           sess = "open" => sess' = "open", reader' = "none" <=> reader = "none",
           rsock # None /\ Known(rsock)' => Known(rsock)
    PROVE  FlowInv'
<1>1. OneStart'
  BY StartKeeps DEF LinkStep
<1>2. InOrder' /\ ReadsPrefix'
  BY QuietKeeps DEF LinkStep
<1> QED BY <1>1, <1>2 DEF FlowInv, Types, LinkStep

\* The queues of the sockets' tasks, when a step leaves them alone.
LEMMA KeepChan == ASSUME FlowInv, UNCHANGED chan PROVE ChanDrops
BY DropsSame DEF FlowInv, Types, CallTypes, SessTypeOK, ChanDrops

\* Steps of the control plane that leave the session alone.
LEMMA SameSession ==
    ASSUME FlowInv, LinkStep, ConnsKept, UNCHANGED sessVars
    PROVE  FlowInv'
<1> USE DEF sessVars, callerVars, mapVars, ptyVars
<1>1. CallTypes'
  BY DEF FlowInv, Types, CallTypes, SessTypeOK
<1>2. rsock # None /\ Known(rsock)' => Known(rsock)
  BY KnownKept DEF FlowInv, Types, CallTypes, SessTypeOK
<1> QED BY <1>1, <1>2, KeepChan, PlainStep

\* Steps that change neither the link nor its queues.
LEMMA LinkKept ==
    ASSUME FlowInv, UNCHANGED vars
    PROVE  LinkStep /\ ConnsKept
<1> USE DEF vars, serverVars, netVars, daemonVars
<1>1. DownDrops /\ UpQuiet
  BY KeepDown, KeepUp DEF FlowInv, Types
<1> QED BY <1>1, QueueStep DEF FlowInv, Types

-----------------------------------------------------------------------------
(* The steps of a session. *)

\* A queue of a socket's task with one frame more.
LEMMA ChanGrows ==
    ASSUME FlowInv, NEW f \in ChanF, chan' = [chan EXCEPT ![link] = Append(@, f)]
    PROVE  chan' \in [Sockets -> Seq(ChanF)]
<1>1. \A s \in Sockets : chan[s] \in Seq(ChanF) /\ Append(chan[s], f) \in Seq(ChanF)
  BY AppendFacts DEF FlowInv, Types, CallTypes, SessTypeOK, ChanF
<1> QED BY <1>1 DEF FlowInv, Types, CallTypes, SessTypeOK, ChanF

\* The calling thread.
LEMMA CallerStep == ASSUME FlowInv, Caller PROVE FlowInv'
<1> USE DEF callerVars, mapVars, ptyVars
<1>0. SessTypeOK /\ LinkTypes /\ (sess \in {"got", "registered"} => hold # None)
  BY DEF FlowInv, Types, CallTypes
<1>1. ASSUME NEW d \in Daemons, GetConn(d) PROVE FlowInv'
  <2>1. reg[d] \in Entries
    BY <1>0, <1>1 DEF GetConn, LinkTypes
  <2>2. hold' \in Conns /\ hold' # None
        /\ link' \in Sockets \cup {None} /\ host' \in Daemons \cup {None}
    BY <1>1, <2>1, NoneAssumption DEF GetConn, Entries
  <2>3. calls' \in 0 .. MaxCalls /\ sess' \in {"idle", "got", "registered", "open", "failed"}
    BY <1>0, <1>1, OutputsAssumption DEF GetConn, SessTypeOK
  <2>4. CallTypes'
    BY <1>0, <1>1, <2>2, <2>3 DEF GetConn, CallTypes, SessTypeOK
  <2>5. LinkStep /\ ConnsKept
    BY <1>1, LinkKept DEF GetConn
  <2>6. rsock # None /\ Known(rsock)' => Known(rsock)
    BY <1>0, <1>1, <2>5, KnownKept DEF GetConn, SessTypeOK
  <2>7. ChanDrops
    BY <1>1, KeepChan DEF GetConn
  <2>8. sess = "open" => sess' = "open"
    BY <1>1 DEF GetConn
  <2>9. UNCHANGED <<rx, out, rsock, reader>>
    BY <1>1 DEF GetConn
  <2> QED BY <2>4, <2>5, <2>6, <2>7, <2>8, <2>9, PlainStep
<1>2. ASSUME RegisterSession PROVE FlowInv'
  <2>1. LinkStep
    BY <1>2, LinkKept DEF RegisterSession
  <2>2. ChanDrops
    BY <1>2, KeepChan DEF RegisterSession
  <2>3. sess # "open" /\ rsock = None
    BY <1>2 DEF RegisterSession, FlowInv, OneStart
  <2>4. hold \in Conns
    BY <1>2, <1>0 DEF RegisterSession, SessTypeOK
  <2>5. CallTypes'
    BY <1>0, <1>2, <2>4 DEF RegisterSession, CallTypes, SessTypeOK
  <2>6. UNCHANGED <<rx, out, rsock, reader>>
    BY <1>2 DEF RegisterSession
  <2> QED BY <2>1, <2>2, <2>3, <2>5, <2>6, PlainStep
<1>3. ASSUME NEW f \in ChanF, Send(f), sess' = sess \/ sess = "registered", sess' \in {"open", "failed"}
      PROVE  /\ LinkStep /\ CallTypes' /\ UNCHANGED <<rx, out, rsock, reader, down, up>>
             /\ rsock # None /\ Known(rsock)' => Known(rsock)
  <2>1. LinkStep /\ ConnsKept
    BY <1>3, LinkKept DEF Send
  <2>2. UNCHANGED <<rx, out, rsock, reader, sender, down, up>>
    BY <1>3 DEF Send, vars, netVars
  <2>3. chan' \in [Sockets -> Seq(ChanF)]
    BY <1>0, <1>3, ChanGrows DEF Send, SessTypeOK, ChanF
  <2>4. CallTypes'
    BY <1>0, <1>3, <2>3 DEF Send, CallTypes, SessTypeOK, ChanF
  <2>5. rsock # None /\ Known(rsock)' => Known(rsock)
    BY <1>0, <2>1, <2>2, KnownKept DEF SessTypeOK
  <2> QED BY <2>1, <2>2, <2>4, <2>5
<1>4. ASSUME Write \/ Close PROVE FlowInv'
  <2>1. PICK f \in {"SessionInput", "SessionClose"} : Send(f) /\ sess = "open" /\ UNCHANGED sess
    BY <1>4 DEF Write, Close
  <2>2. f \in ChanF /\ f # "NewSession"
    BY DEF ChanF
  <2>3. ChanDrops
    <3>1. CASE UNCHANGED chan
      BY <3>1, KeepChan
    <3>2. CASE chan' = [chan EXCEPT ![link] = Append(@, f)]
      <4>1. \A s \in Sockets : Drops(Append(chan[s], f), chan[s]) /\ Drops(chan[s], chan[s])
        BY <1>0, <2>2, DropsFrame, DropsSame DEF SessTypeOK, ChanF
      <4>2. \A s \in Sockets : chan'[s] = chan[s] \/ chan'[s] = Append(chan[s], f)
        BY <1>0, <3>2 DEF SessTypeOK
      <4> QED BY <4>1, <4>2 DEF ChanDrops
    <3> QED BY <2>1, <3>1, <3>2 DEF Send
  <2> QED BY <1>3, <2>1, <2>2, <2>3, PlainStep
<1>5. ASSUME SendNew PROVE FlowInv'
  <2>1. Send("NewSession") /\ sess = "registered" /\ sess' \in {"open", "failed"}
    BY <1>5 DEF SendNew
  <2>2. "NewSession" \in ChanF
    BY DEF ChanF
  <2>3. /\ LinkStep /\ CallTypes' /\ UNCHANGED <<rx, out, rsock, reader, down, up>>
        /\ rsock # None /\ Known(rsock)' => Known(rsock)
    BY <1>3, <2>1, <2>2
  <2>4. rsock = None /\ reader = "none" /\ \A s \in Sockets : ~NewIn(chan[s]) /\ ~NewIn(down[s])
    BY <2>1 DEF FlowInv, OneStart
  <2>5. CASE UNCHANGED chan
    BY <2>1, <2>3, <2>5, KeepChan, PlainStep
  <2>6. CASE sess' = "open" /\ chan' = [chan EXCEPT ![link] = Append(@, "NewSession")]
    <3>1. ASSUME NEW s \in Sockets, NEW i \in 1 .. Len(chan'[s]), chan'[s][i] = "NewSession"
          PROVE  s = link /\ i = Len(chan[s]) + 1
      <4>1. chan[s] \in Seq(ChanF)
        BY <1>0 DEF SessTypeOK, ChanF
      <4>2. ~(chan'[s] = chan[s])
        BY <2>4, <3>1 DEF NewIn
      <4>3. s = link /\ chan'[s] = Append(chan[s], "NewSession")
        BY <1>0, <2>6, <4>2 DEF SessTypeOK
      <4> QED BY <2>2, <2>4, <3>1, <4>1, <4>3, AppendFacts DEF NewIn
    <3>2. Once(chan')
      BY <3>1 DEF Once
    <3>3. Once(down') /\ \A s \in Sockets : ~NewIn(down'[s])
      BY <2>3, <2>4 DEF FlowInv, OneStart
    <3>4. OneStart'
      BY <2>3, <2>4, <2>6, <3>2, <3>3 DEF OneStart, Once, NewIn
    <3>5. InOrder' /\ ReadsPrefix'
      BY <2>3, QuietKeeps DEF LinkStep
    <3> QED BY <2>3, <3>4, <3>5 DEF FlowInv, Types, LinkStep
  <2> QED BY <1>5, <2>1, <2>5, <2>6 DEF SendNew, Send
<1> QED BY <1>1, <1>2, <1>4, <1>5 DEF Caller

\* The request queued first goes to the daemon.
LEMMA ForwardStep == ASSUME FlowInv, NEW s \in Sockets, Forward(s) PROVE FlowInv'
<1> USE DEF callerVars, mapVars, ptyVars, serverVars, netVars, daemonVars
<1>0. SessTypeOK /\ LinkTypes /\ Places /\ \A t \in Sockets : chan[t] \in Seq(ChanF)
  BY DEF FlowInv, Types, CallTypes, SessTypeOK, ChanF
<1> DEFINE f == Head(chan[s])
<1>1. /\ chan[s] # <<>> /\ chan' = [chan EXCEPT ![s] = Tail(@)] /\ task[s] = "run"
      /\ UNCHANGED <<callerVars, sender, rx, ptyVars>>
  BY DEF Forward
<1>2. f = chan[s][1] /\ 1 \in 1 .. Len(chan[s]) /\ f \in ChanF /\ Tail(chan[s]) \in Seq(ChanF)
  BY <1>0, <1>1, TailFacts
<1>3. chan' \in [Sockets -> Seq(ChanF)]
  BY <1>0, <1>1, <1>2 DEF SessTypeOK, ChanF
<1>4. CallTypes'
  BY <1>0, <1>1, <1>3 DEF FlowInv, Types, CallTypes, SessTypeOK, ChanF
<1>5. ChanDrops
  <2>1. \A t \in Sockets : Drops(chan[t], chan[t]) /\ (t = s => Drops(Tail(chan[t]), chan[t]))
    BY <1>0, <1>1, DropsSame, DropsHead
  <2> QED BY <1>0, <1>1, <2>1 DEF ChanDrops, SessTypeOK
<1>6. CASE LeaveLoop(s)
  <2>1. LinkStep /\ ConnsKept
    BY <1>0, <1>1, <1>6, TaskLink
  <2>2. rsock # None /\ Known(rsock)' => Known(rsock)
    BY <1>0, <1>1, <2>1, KnownKept DEF SessTypeOK
  <2> QED BY <1>1, <1>4, <1>5, <2>1, <2>2, PlainStep
<1>7. CASE /\ down' = Sent(down, s, f, DaemonHolds(s))
           /\ UNCHANGED <<serverVars, net, owner, up, daemonVars, faults>>
  <2>1. f \in DownF
    BY <1>2, FrameFacts
  <2>2. UpQuiet
    BY <1>0, <1>7, KeepUp
  <2>3. CASE f # "NewSession"
    <3>1. DownDrops
      BY <1>0, <1>7, <2>1, <2>3, SendDown
    <3>2. LinkStep /\ ConnsKept
      BY <1>0, <1>7, <2>2, <3>1, QueueStep
    <3>3. rsock # None /\ Known(rsock)' => Known(rsock)
      BY <1>0, <1>1, <3>2, KnownKept DEF SessTypeOK
    <3> QED BY <1>1, <1>4, <1>5, <3>2, <3>3, PlainStep
  <2>4. CASE f = "NewSession"
    <3>1. NewIn(chan[s]) /\ \A t \in Sockets : ~NewIn(down[t])
      BY <1>2, <2>4 DEF NewIn, FlowInv, OneStart
    <3>2. sess = "open" /\ rsock = None
      BY <3>1 DEF FlowInv, OneStart
    <3>3. \A t \in Sockets : down[t] \in Seq(DownF) /\ Append(down[t], f) \in Seq(DownF)
      BY <1>0, <2>1, AppendFacts DEF LinkTypes
    <3>4. \A t \in Sockets : down'[t] = down[t] \/ (t = s /\ down'[t] = Append(down[t], f))
      BY <1>0, <1>7 DEF Sent, LinkTypes
    <3>5. down' \in [Sockets -> Seq(DownF)]
      <4>1. UNCHANGED down \/ down' = [down EXCEPT ![s] = Append(@, f)]
        BY <1>7 DEF Sent
      <4> QED BY <1>0, <3>3, <4>1 DEF LinkTypes
    <3>6. LinkTypes' /\ Places'
      BY <1>0, <1>7, <3>5 DEF LinkTypes, Places
    <3>7. PathsOnlyFail
      BY <1>7 DEF PathsOnlyFail, ServerHolds
    <3>8. InOrder' /\ ReadsPrefix'
      BY <1>1, <2>2, <3>2, <3>6, <3>7, QuietKeeps
    <3>9. \A t \in Sockets : ~NewIn(chan'[t])
      <4>1. ASSUME NEW t \in Sockets, NEW i \in 1 .. Len(chan'[t]), chan'[t][i] = "NewSession"
            PROVE  FALSE
        <5>1. CASE t = s
          <6>1. chan'[t] = Tail(chan[s])
            BY <1>0, <1>1, <5>1 DEF SessTypeOK
          <6>2. i \in 1 .. Len(Tail(chan[s])) /\ Tail(chan[s])[i] = "NewSession"
            BY <4>1, <6>1
          <6>3. chan[s] \in Seq(ChanF)
            BY <1>0
          <6>4. i + 1 \in 1 .. Len(chan[s]) /\ chan[s][i + 1] = "NewSession"
            BY <1>1, <6>2, <6>3, TailFacts
          <6>5. i + 1 = 1
            BY <1>2, <2>4, <6>4 DEF FlowInv, OneStart, Once
          <6> QED BY <4>1, <6>5
        <5>2. CASE t # s
          <6>1. chan'[t] = chan[t]
            BY <1>0, <1>1, <5>2 DEF SessTypeOK
          <6> QED BY <1>2, <2>4, <4>1, <5>2, <6>1 DEF FlowInv, OneStart, Once
        <5> QED BY <5>1, <5>2
      <4> QED BY <4>1 DEF NewIn
    <3>10. ASSUME NEW t \in Sockets, NEW i \in 1 .. Len(down'[t]), down'[t][i] = "NewSession"
           PROVE  t = s /\ i = Len(down[t]) + 1
      <4>1. down'[t] # down[t]
        BY <3>1, <3>10 DEF NewIn
      <4>2. t = s /\ down'[t] = Append(down[t], f)
        BY <3>4, <4>1
      <4> QED BY <2>1, <3>1, <3>3, <3>10, <4>2, AppendFacts DEF NewIn
    <3>11. Once(down')
      BY <3>10 DEF Once
    <3>12. Once(chan')
      BY <3>9 DEF Once, NewIn
    <3>13. OneStart'
      BY <1>1, <3>2, <3>9, <3>11, <3>12 DEF FlowInv, OneStart, Once, NewIn
    <3> QED BY <1>4, <3>6, <3>8, <3>13 DEF FlowInv, Types
  <2> QED BY <2>3, <2>4
<1> QED BY <1>6, <1>7 DEF Forward

\* A chunk that reaches the registered connection is the next the caller has
\* not got; one that does not leaves the session unknown for good.
LEMMA OutputStep ==
    ASSUME FlowInv, NEW s \in Sockets, NEW o \in Outs, RecvOutput(s, o)
    PROVE  FlowInv'
<1> USE DEF callerVars, mapVars, ptyVars, serverVars, netVars, daemonVars
<1>0. SessTypeOK /\ LinkTypes /\ Places /\ rx \in Seq(Outs) /\ Len(rx) \in Nat /\ out \in Nat
  BY ChunkFacts DEF FlowInv, Types, CallTypes, SessTypeOK
<1>1. /\ up[s] # <<>> /\ Head(up[s]) = o /\ up' = [up EXCEPT ![s] = Tail(@)]
      /\ rx' = IF Known(s) THEN Append(rx, o) ELSE rx
      /\ UNCHANGED <<serverVars, net, owner, down, daemonVars, faults>>
      /\ UNCHANGED <<callerVars, sender, chan, ptyVars>>
  BY DEF RecvOutput, TakesFrame, Reads
<1>2. /\ up[s] \in Seq(UpF) /\ Tail(up[s]) \in Seq(UpF) /\ Len(Tail(up[s])) \in Nat
      /\ up[s][1] = o /\ 1 \in 1 .. Len(up[s])
      /\ \A i \in 1 .. Len(Tail(up[s])) : Tail(up[s])[i] = up[s][i + 1] /\ i + 1 \in 1 .. Len(up[s])
  BY <1>0, <1>1, TailFacts DEF LinkTypes
<1>3. s = rsock /\ rsock # None
  BY <1>2, NoneAssumption DEF FlowInv, InOrder
<1>4. LinkTypes'
  BY <1>0, <1>1, <1>2 DEF LinkTypes
<1>5. Places'
  BY <1>0, <1>1 DEF Places
<1>6. rx' \in Seq(Outs)
  BY <1>0, <1>1, AppendFacts
<1>7. CallTypes'
  BY <1>1, <1>6 DEF FlowInv, Types, CallTypes, SessTypeOK
<1>8. OneStart'
  <2>1. DownDrops /\ ChanDrops
    BY <1>0, <1>1, KeepDown, KeepChan
  <2> QED BY <1>1, <2>1, StartKeeps
<1>9. \A t \in Sockets : \A i \in 1 .. Len(up'[t]) : up'[t][i] \in Outs => t = rsock
  <2>1. \A t \in Sockets : t # s => up'[t] = up[t]
    BY <1>0, <1>1 DEF LinkTypes
  <2> QED BY <1>3, <2>1 DEF FlowInv, InOrder
<1>10. Known(s)' <=> Known(s)
  BY <1>1 DEF Known
<1>11. CASE ~Known(s)
  <2>1. InOrder'
    BY <1>1, <1>3, <1>9, <1>10, <1>11 DEF FlowInv, InOrder
  <2>2. ReadsPrefix'
    BY <1>1, <1>11 DEF FlowInv, ReadsPrefix
  <2> QED BY <1>4, <1>5, <1>7, <1>8, <2>1, <2>2 DEF FlowInv, Types
<1>12. CASE Known(s)
  <2>1. PICK b \in 0 .. out : /\ Carries(up[s], Len(rx), b)
                              /\ net[s] = "up" /\ ServerHolds(s) => b = out
    BY <1>3, <1>12 DEF FlowInv, InOrder
  <2>2. /\ Carries(Tail(up[s]), Len(rx) + 1, b) /\ o = Outputs[Len(rx) + 1]
        /\ Len(rx) + 1 <= b /\ Len(rx) + 1 <= Len(Outputs)
    BY <1>0, <1>1, <1>2, <2>1, CarriesTail
  <2>3. rx' = Append(rx, o) /\ Len(rx') = Len(rx) + 1
    BY <1>0, <1>1, <1>12, AppendFacts
  <2>4. up'[s] = Tail(up[s])
    BY <1>0, <1>1 DEF LinkTypes
  <2>5. net'[s] = "up" /\ ServerHolds(s)' => b = out
    BY <1>1, <2>1 DEF ServerHolds
  <2>6. Carries(up'[s], Len(rx'), b)
    BY <2>2, <2>3, <2>4
  <2>7. InOrder'
    <3>1. out' = out /\ rsock' = s /\ net' = net
      BY <1>1, <1>3
    <3> QED BY <1>3, <1>9, <2>5, <2>6, <3>1 DEF FlowInv, InOrder
  <2>8. rx = SubSeq(Outputs, 1, Len(rx)) /\ Len(rx) <= out
    BY DEF FlowInv, ReadsPrefix
  <2>9. rx' = SubSeq(Outputs, 1, Len(rx) + 1)
    BY <1>0, <2>2, <2>3, <2>8, PrefixGrows
  <2>10. ReadsPrefix'
    BY <1>0, <1>1, <2>1, <2>2, <2>3, <2>9 DEF ReadsPrefix
  <2> QED BY <1>4, <1>5, <1>7, <1>8, <2>7, <2>10 DEF FlowInv, Types
<1> QED BY <1>11, <1>12

\* The task of a socket.
LEMMA SocketsStep ==
    ASSUME FlowInv, NEW s \in Sockets, SocketStep(s) \/ PathBreaks(s) PROVE FlowInv'
<1> USE DEF callerVars, mapVars, ptyVars
<1>0. SessTypeOK /\ LinkTypes /\ Places
  BY DEF FlowInv, Types, CallTypes
<1>1. ASSUME NEW c \in Conns, Register(s, c) PROVE FlowInv'
  <2>1. HandleRegister(s, c) /\ sender' = sender \ {c} /\ UNCHANGED <<callerVars, rx, chan, ptyVars>>
    BY <1>1 DEF Register
  <2>2. /\ LinkStep /\ owner[s] \in Daemons
        /\ tid' = [tid EXCEPT ![s] = owner[s]]
        /\ reg' = [reg EXCEPT ![owner[s]] = Entry(c, s, TRUE)]
    BY <1>0, <2>1, RegisterLink
  <2>3. Entry(c, s, TRUE).conn = c
    BY DEF Entry
  <2>4. ASSUME rsock # None, Known(rsock)' PROVE Known(rsock)
    <3>1. rsock \in Sockets /\ tid'[rsock] # None /\ reg'[tid'[rsock]].conn \in sender \ {c}
          /\ reg'[tid'[rsock]] # None
      BY <1>0, <2>1, <2>4 DEF Known, SessTypeOK
    <3>2. tid'[rsock] # owner[s]
      BY <1>0, <2>2, <2>3, <3>1 DEF LinkTypes
    <3>3. tid'[rsock] = tid[rsock] /\ tid[rsock] \in Daemons /\ reg'[tid[rsock]] = reg[tid[rsock]]
      BY <1>0, <2>2, <3>1, <3>2 DEF LinkTypes
    <3> QED BY <3>1, <3>3 DEF Known
  <2>5. CallTypes'
    BY <2>1 DEF FlowInv, Types, CallTypes, SessTypeOK
  <2> QED BY <2>1, <2>2, <2>4, <2>5, KeepChan, PlainStep
<1>2. ASSUME RecvExit(s) PROVE FlowInv'
  <2>1. /\ Reads(s, "SessionExit") /\ up' = [up EXCEPT ![s] = Tail(@)]
        /\ UNCHANGED <<serverVars, net, owner, down, daemonVars, faults>>
        /\ sender' \subseteq sender
        /\ UNCHANGED <<callerVars, rx, chan, ptyVars>>
    BY <1>2 DEF RecvExit, TakesFrame
  <2>2. UpQuiet /\ DownDrops
    BY <1>0, <2>1, FrameFacts, ReadUp, KeepDown
  <2>3. LinkStep /\ ConnsKept
    BY <1>0, <2>1, <2>2, QueueStep DEF serverVars, daemonVars
  <2>4. rsock # None /\ Known(rsock)' => Known(rsock)
    BY <1>0, <2>1, <2>3, KnownKept DEF SessTypeOK
  <2>5. CallTypes'
    BY <2>1 DEF FlowInv, Types, CallTypes, SessTypeOK
  <2> QED BY <2>1, <2>3, <2>4, <2>5, KeepChan, PlainStep
<1>3. ASSUME DropChannel(s) PROVE FlowInv'
  <2>1. CleanUp(s) /\ chan' = [chan EXCEPT ![s] = <<>>] /\ UNCHANGED <<callerVars, sender, rx, ptyVars>>
    BY <1>3 DEF DropChannel
  <2>2. LinkStep /\ ConnsKept
    BY <1>0, <2>1, TaskLink
  <2>3. <<>> \in Seq(ChanF) /\ \A t \in Sockets : Drops(<<>>, chan[t]) /\ Drops(chan[t], chan[t])
    BY <1>0, DropsAll, DropsSame DEF SessTypeOK
  <2>4. ChanDrops
    BY <1>0, <2>1, <2>3 DEF ChanDrops, SessTypeOK
  <2>5. CallTypes'
    BY <2>1, <2>3 DEF FlowInv, Types, CallTypes, SessTypeOK, ChanF
  <2>6. rsock # None /\ Known(rsock)' => Known(rsock)
    BY <1>0, <2>1, <2>2, KnownKept DEF SessTypeOK
  <2> QED BY <2>1, <2>2, <2>4, <2>5, <2>6, PlainStep
<1>4. ASSUME TaskStep(s) \/ SeeEnd(s) PROVE FlowInv'
  <2>1. LinkStep /\ ConnsKept
    <3>1. CASE TaskStep(s)
      BY <1>0, <3>1, TaskLink
    <3>2. CASE SeeEnd(s)
      <4>1. LeaveLoop(s) /\ task[s] = "run"
        BY <3>2 DEF SeeEnd, SeeEof, SeeReset
      <4> QED BY <1>0, <4>1, TaskLink
    <3> QED BY <1>4, <3>1, <3>2
  <2> QED BY <1>4, <2>1, SameSession DEF TaskStep, SeeEnd
<1>5. ASSUME PathBreaks(s) PROVE FlowInv'
  BY <1>0, <1>5, BreakLink, SameSession DEF PathBreaks
<1> QED BY <1>1, <1>2, <1>3, <1>4, <1>5, ForwardStep, OutputStep DEF SocketStep

\* The shell starts on the socket that brought NewSession, with nothing printed.
LEMMA StartStep == ASSUME FlowInv, NEW d \in Daemons, StartShell(d) PROVE FlowInv'
<1> USE DEF callerVars, mapVars, ptyVars, serverVars, netVars, daemonVars
<1>0. SessTypeOK /\ LinkTypes /\ Places /\ None \notin Sockets
  BY NoneAssumption DEF FlowInv, Types, CallTypes
<1> DEFINE s == cur[d]
<1>1. /\ Receives(d, "NewSession") /\ Consume(d)
      /\ UNCHANGED <<reg, task, tid, net, owner, up, cur, callerVars, mapVars>>
      /\ UNCHANGED <<eof, out>>
      /\ mgr' = TRUE /\ shell' = "running" /\ reader' = "run" /\ rsock' = s
  BY DEF StartShell, Handles
<1>2. s \in Sockets /\ down[s] # <<>> /\ Head(down[s]) = "NewSession" /\ net[s] # "unused"
  BY <1>0, <1>1 DEF Receives, LinkTypes, Places
<1>3. /\ down[s] \in Seq(DownF) /\ down[s][1] = "NewSession" /\ 1 \in 1 .. Len(down[s])
      /\ \A i \in 1 .. Len(Tail(down[s])) :
            Tail(down[s])[i] = down[s][i + 1] /\ i + 1 \in 1 .. Len(down[s])
  BY <1>0, <1>2, TailFacts DEF LinkTypes
<1>4. down'[s] = Tail(down[s]) /\ \A t \in Sockets : t # s => down'[t] = down[t]
  BY <1>0, <1>1, <1>2 DEF Consume, LinkTypes
<1>5. NewIn(down[s])
  BY <1>3 DEF NewIn
<1>6. sess = "open" /\ rsock = None /\ \A t \in Sockets : ~NewIn(chan[t])
  BY <1>2, <1>5 DEF FlowInv, OneStart
<1>7. DownDrops /\ UpQuiet
  BY <1>0, <1>1, ReadDown, KeepUp
<1>8. LinkTypes' /\ Places' /\ PathsOnlyFail
  BY <1>0, <1>1, <1>7, QueueStep DEF LinkStep
<1> HIDE DEF s
<1>9. \A t \in Sockets : ~NewIn(down'[t])
  <2>1. ASSUME NEW t \in Sockets, NEW i \in 1 .. Len(down'[t]), down'[t][i] = "NewSession"
        PROVE  FALSE
    <3>1. CASE t = s
      <4>1. i \in 1 .. Len(Tail(down[s])) /\ Tail(down[s])[i] = "NewSession"
        BY <1>4, <2>1, <3>1
      <4>2. i + 1 \in 1 .. Len(down[s]) /\ down[s][i + 1] = "NewSession"
        BY <1>3, <4>1
      <4>3. i + 1 = 1
        BY <1>2, <1>3, <4>2 DEF FlowInv, OneStart, Once
      <4> QED BY <2>1, <4>3
    <3>2. CASE t # s
      BY <1>2, <1>3, <1>4, <2>1, <3>2 DEF FlowInv, OneStart, Once
    <3> QED BY <3>1, <3>2
  <2> QED BY <2>1 DEF NewIn
<1>10. OneStart'
  BY <1>0, <1>1, <1>2, <1>6, <1>9 DEF OneStart, Once, NewIn
<1>11. CallTypes'
  BY <1>1, <1>2 DEF FlowInv, Types, CallTypes, SessTypeOK
<1>12. out = 0 /\ rx = <<>> /\ Len(rx) = 0
  BY <1>6, ShortFacts DEF FlowInv, InOrder
<1>13. \A t \in Sockets : \A i \in 1 .. Len(up[t]) : up[t][i] \notin Outs
  BY <1>0, <1>6 DEF FlowInv, InOrder
<1>14. Carries(up[s], 0, 0)
  BY <1>0, <1>2, <1>13, CarriesNone DEF LinkTypes
<1>15. InOrder'
  <2>1. 0 \in 0 .. out /\ rsock' = s /\ up' = up /\ rx' = rx /\ out' = out /\ net' = net
    BY <1>1, <1>12
  <2> QED BY <1>0, <1>2, <1>12, <1>13, <1>14, <2>1 DEF InOrder
<1>16. ReadsPrefix'
  BY <1>1 DEF FlowInv, ReadsPrefix
<1> QED BY <1>8, <1>10, <1>11, <1>15, <1>16 DEF FlowInv, Types

\* The reader task's next chunk goes behind what is in flight, or is lost with
\* the path.
LEMMA ReadStep == ASSUME FlowInv, ReadPty PROVE FlowInv'
<1> USE DEF callerVars, mapVars, ptyVars, serverVars, netVars, daemonVars
<1>0. SessTypeOK /\ LinkTypes /\ Places /\ None \notin Sockets
  BY NoneAssumption DEF FlowInv, Types, CallTypes
<1> DEFINE s == rsock
           o == Outputs[out + 1]
<1>1. /\ reader = "run" /\ out < Len(Outputs) /\ out' = out + 1
      /\ UNCHANGED <<reg, task, tid, net, owner, down, cur, callerVars, mapVars, mgr, shell, eof, rsock>>
      /\ \/ up' = Sent(up, s, o, ServerHolds(s)) /\ UNCHANGED reader
         \/ ReaderGone(s) /\ reader' = "done" /\ UNCHANGED up
  BY DEF ReadPty
<1>2. s \in Sockets /\ s # None
  BY <1>0, <1>1 DEF FlowInv, OneStart, SessTypeOK
<1>3. /\ out \in Nat /\ out + 1 \in 1 .. Len(Outputs) /\ o \in Outs /\ o \in UpF
      /\ rx \in Seq(Outs) /\ Len(rx) \in Nat
  BY <1>0, <1>1, ChunkFacts DEF SessTypeOK, UpF
<1>4. up[s] \in Seq(UpF) /\ Append(up[s], o) \in Seq(UpF)
  BY <1>0, <1>2, <1>3, AppendFacts DEF LinkTypes
<1>5. \/ net[s] = "up" /\ ServerHolds(s) /\ up' = [up EXCEPT ![s] = Append(@, o)]
      \/ ~(net[s] = "up" /\ ServerHolds(s)) /\ UNCHANGED up
  BY <1>1 DEF Sent, ReaderGone
<1> HIDE DEF s, o
<1>6. up' \in [Sockets -> Seq(UpF)]
  BY <1>0, <1>2, <1>4, <1>5 DEF LinkTypes
<1>7. LinkTypes' /\ Places'
  BY <1>0, <1>1, <1>6 DEF LinkTypes, Places
<1>8. CallTypes'
  BY <1>1, <1>3, ChunkFacts DEF FlowInv, Types, CallTypes, SessTypeOK
<1>9. OneStart'
  <2>1. DownDrops /\ ChanDrops
    BY <1>0, <1>1, KeepDown, KeepChan
  <2>2. reader' = "none" <=> reader = "none"
    BY <1>1
  <2> QED BY <1>1, <2>1, <2>2, StartKeeps
<1>10. ReadsPrefix'
  BY <1>1, <1>3 DEF FlowInv, ReadsPrefix
<1>11. ASSUME NEW t \in Sockets, NEW i \in 1 .. Len(up'[t]), up'[t][i] \in Outs PROVE t = s
  <2>1. CASE t = s
    BY <2>1
  <2>2. CASE t # s
    <3>1. up'[t] = up[t]
      BY <1>0, <1>5, <2>2 DEF LinkTypes
    <3> QED BY <1>11, <3>1 DEF FlowInv, InOrder, s
  <2> QED BY <2>1, <2>2
<1>12. ASSUME Known(rsock)'
       PROVE  \E b \in 0 .. out + 1 : /\ Carries(up'[s], Len(rx), b)
                                      /\ net[s] = "up" /\ ServerHolds(s) => b = out + 1
  <2>1. Known(s)
    BY <1>1, <1>12 DEF Known, s
  <2>2. PICK b \in 0 .. out : /\ Carries(up[s], Len(rx), b)
                              /\ net[s] = "up" /\ ServerHolds(s) => b = out
    BY <1>2, <2>1 DEF FlowInv, InOrder, s
  <2>3. CASE net[s] = "up" /\ ServerHolds(s)
    <3>1. b = out /\ b < Len(Outputs)
      BY <1>1, <2>2, <2>3
    <3>2. up'[s] = Append(up[s], o)
      BY <1>0, <1>2, <1>5, <2>3 DEF LinkTypes
    <3>3. Carries(Append(up[s], o), Len(rx), out + 1)
      BY <1>3, <1>4, <2>2, <3>1, CarriesChunk DEF o
    <3>4. out + 1 \in 0 .. out + 1
      BY <1>3
    <3> QED BY <3>2, <3>3, <3>4
  <2>4. CASE ~(net[s] = "up" /\ ServerHolds(s))
    <3>1. up'[s] = up[s] /\ b \in 0 .. out + 1
      BY <1>3, <1>5, <2>4
    <3> QED BY <2>2, <2>4, <3>1
  <2> QED BY <2>3, <2>4
<1>13. InOrder'
  <2>1. /\ out' = out + 1 /\ rsock' = s /\ rx' = rx /\ net' = net
        /\ ServerHolds(rsock)' <=> ServerHolds(s)
    BY <1>1 DEF s, ServerHolds
  <2>2. net[s] # "unused"
    BY <1>2 DEF FlowInv, InOrder, s
  <2>3. (\A t \in Sockets : \A i \in 1 .. Len(up[t]) : up[t][i] \in Outs => t = rsock)'
    <3>1. ASSUME NEW t \in Sockets, NEW i \in 1 .. Len(up'[t]), up'[t][i] \in Outs PROVE t = rsock'
      BY <1>11, <2>1, <3>1
    <3> QED BY <3>1
  <2>4. (rsock # None => net[rsock] # "unused")' /\ (rsock = None => out = 0 /\ rx = <<>>)'
    BY <1>2, <2>1, <2>2
  <2>5. ASSUME Known(rsock)'
        PROVE  (\E b \in 0 .. out : /\ Carries(up[rsock], Len(rx), b)
                                    /\ net[rsock] = "up" /\ ServerHolds(rsock) => b = out)'
    <3>1. PICK b \in 0 .. out + 1 : /\ Carries(up'[s], Len(rx), b)
                                    /\ net[s] = "up" /\ ServerHolds(s) => b = out + 1
      BY <1>12, <2>5
    <3>2. b \in 0 .. out' /\ up'[rsock'] = up'[s] /\ net'[rsock'] = net[s]
      BY <2>1
    <3>3. Carries(up[rsock], Len(rx), b)'
      BY <2>1, <3>1 DEF Carries
    <3> QED BY <2>1, <3>1, <3>2, <3>3
  <2> QED BY <2>3, <2>4, <2>5 DEF InOrder
<1> QED BY <1>7, <1>8, <1>9, <1>10, <1>13 DEF FlowInv, Types

\* The daemon and the PTY.
LEMMA DaemonsStep ==
    ASSUME FlowInv, NEW d \in Daemons, DaemonStep(d)
    PROVE  FlowInv'
<1> USE DEF callerVars, mapVars, ptyVars
<1>0. SessTypeOK /\ LinkTypes /\ Places
  BY DEF FlowInv, Types, CallTypes
<1>1. ASSUME NEW f, Handles(d, f), UNCHANGED <<shell, out, reader, rsock>>, mgr' \in BOOLEAN, eof' \in BOOLEAN
      PROVE  FlowInv'
  <2>1. DownDrops /\ UpQuiet
    BY <1>0, <1>1, ReadDown, KeepUp DEF Handles
  <2>2. LinkStep /\ ConnsKept
    BY <1>0, <1>1, <2>1, QueueStep DEF Handles, serverVars
  <2>3. CallTypes'
    BY <1>1 DEF Handles, FlowInv, Types, CallTypes, SessTypeOK
  <2>4. rsock # None /\ Known(rsock)' => Known(rsock)
    BY <1>0, <1>1, <2>2, KnownKept DEF Handles, SessTypeOK
  <2>5. ChanDrops /\ UNCHANGED <<rx, out, rsock, sess, reader>>
    BY <1>1, KeepChan DEF Handles
  <2> QED BY <2>2, <2>3, <2>4, <2>5, PlainStep
<1>2. ASSUME StartFails(d) \/ Type(d) \/ CloseShell(d) PROVE FlowInv'
  <2>1. /\ \E f : Handles(d, f)
        /\ UNCHANGED <<shell, out, reader, rsock>>
    BY <1>2 DEF StartFails, Type, CloseShell
  <2>2. mgr' \in BOOLEAN /\ eof' \in BOOLEAN
    <3>1. mgr \in BOOLEAN /\ eof \in BOOLEAN
      BY <1>0 DEF SessTypeOK
    <3>2. CASE CloseShell(d)
      BY <3>1, <3>2 DEF CloseShell, DropHandle
    <3>3. CASE UNCHANGED <<mgr, eof>>
      BY <3>1, <3>3
    <3> QED BY <1>2, <3>2, <3>3 DEF StartFails, Type
  <2> QED BY <1>1, <2>1, <2>2
<1>3. ASSUME LoopStep(d) \/ Background(d) PROVE FlowInv'
  <2>1. LinkStep /\ ConnsKept
    BY <1>0, <1>3, DaemonLinkStep
  <2> QED BY <1>3, <2>1, SameSession DEF LoopStep, Background
<1>4. ASSUME LeaveServe(d) \/ ProcessEnds(d) PROVE FlowInv'
  <2>1. LinkStep /\ ConnsKept
    BY <1>0, <1>4, DaemonLinkStep DEF LeaveServe, ProcessEnds
  <2>2. /\ UNCHANGED <<callerVars, mapVars, out, rsock>>
        /\ reader' \in {reader, "done"} /\ (reader' # reader => reader = "run")
        /\ shell' \in {shell, "exited"}
    BY <1>4 DEF LeaveServe, ProcessEnds
  <2>3. mgr' \in BOOLEAN /\ eof' \in BOOLEAN
    <3>1. mgr \in BOOLEAN /\ eof \in BOOLEAN
      BY <1>0 DEF SessTypeOK
    <3>2. DropHandle \/ UNCHANGED <<mgr, eof>>
      BY <1>4 DEF LeaveServe, ProcessEnds
    <3> QED BY <3>1, <3>2 DEF DropHandle
  <2>4. CallTypes'
    BY <2>2, <2>3 DEF FlowInv, Types, CallTypes, SessTypeOK
  <2>5. rsock # None /\ Known(rsock)' => Known(rsock)
    BY <1>0, <2>1, <2>2, KnownKept DEF SessTypeOK
  <2>6. ChanDrops /\ (reader' = "none" <=> reader = "none")
    BY <2>2, KeepChan
  <2> QED BY <2>1, <2>2, <2>4, <2>5, <2>6, PlainStep
<1> QED BY <1>2, <1>3, <1>4, StartStep DEF DaemonStep

\* The PTY's own steps.
LEMMA PtyStep == ASSUME FlowInv, Pty PROVE FlowInv'
<1> USE DEF callerVars, mapVars, ptyVars
<1>0. SessTypeOK /\ LinkTypes /\ Places
  BY DEF FlowInv, Types, CallTypes
<1>1. ASSUME ReadEof PROVE FlowInv'
  <2>1. /\ reader = "run" /\ reader' = "done"
        /\ up' = Sent(up, rsock, "SessionExit", ServerHolds(rsock))
        /\ UNCHANGED <<serverVars, net, owner, down, daemonVars, faults>>
        /\ UNCHANGED <<callerVars, mapVars, mgr, shell, eof, out, rsock>>
    BY <1>1 DEF ReadEof
  <2>2. UpQuiet /\ DownDrops
    BY <1>0, <2>1, FrameFacts, SendUp, KeepDown
  <2>3. LinkStep /\ ConnsKept
    BY <1>0, <2>1, <2>2, QueueStep DEF serverVars, daemonVars
  <2>4. rsock # None /\ Known(rsock)' => Known(rsock)
    BY <1>0, <2>1, <2>3, KnownKept DEF SessTypeOK
  <2>5. CallTypes'
    BY <2>1 DEF FlowInv, Types, CallTypes, SessTypeOK
  <2> QED BY <2>1, <2>3, <2>4, <2>5, KeepChan, PlainStep
<1>2. ASSUME ShellExits PROVE FlowInv'
  <2>1. UNCHANGED <<vars, callerVars, mapVars, mgr, eof, out, reader, rsock>> /\ shell' = "exited"
    BY <1>2 DEF ShellExits
  <2>2. LinkStep /\ ConnsKept
    BY <2>1, LinkKept
  <2>3. rsock # None /\ Known(rsock)' => Known(rsock)
    BY <1>0, <2>1, <2>2, KnownKept DEF SessTypeOK
  <2>4. CallTypes'
    BY <2>1 DEF FlowInv, Types, CallTypes, SessTypeOK
  <2> QED BY <2>1, <2>2, <2>3, <2>4, KeepChan, PlainStep
<1> QED BY <1>1, <1>2, ReadStep DEF Pty

-----------------------------------------------------------------------------
(* The theorems. *)

\* Nothing is asked for, in flight or read at first.
LEMMA FlowInit == SessInit => FlowInv
<1> SUFFICES ASSUME SessInit PROVE FlowInv
  OBVIOUS
<1>1. Types
  <2>1. <<>> \in Seq(UpF) /\ <<>> \in Seq(DownF) /\ <<>> \in Seq(ChanF) /\ <<>> \in Seq(Outs)
    OBVIOUS
  <2>2. LinkTypes
    BY <2>1 DEF SessInit, Init, LinkTypes
  <2>3. 0 \in 0 .. Len(Outputs) /\ 0 \in 0 .. MaxCalls
    BY OutputsAssumption, ChunkFacts
  <2>4. CallTypes
    BY <2>1, <2>3 DEF SessInit, CallTypes, SessTypeOK, ChanF
  <2> QED BY <2>2, <2>4 DEF Types
<1>2. Places
  BY DEF SessInit, Init, Places
<1>3. \A s \in Sockets : chan[s] = <<>> /\ down[s] = <<>> /\ up[s] = <<>>
  BY DEF SessInit, Init
<1>4. OneStart
  BY <1>3 DEF SessInit, OneStart, Once, NewIn
<1>5. InOrder
  BY <1>3 DEF SessInit, InOrder
<1>6. ReadsPrefix
  <2>1. rx = <<>> /\ out = 0 /\ Len(rx) = 0
    BY ShortFacts DEF SessInit
  <2>2. SubSeq(Outputs, 1, 0) = <<>>
    BY ChunkFacts
  <2> QED BY <2>1, <2>2 DEF ReadsPrefix
<1> QED BY <1>1, <1>2, <1>4, <1>5, <1>6 DEF FlowInv

\* FlowInv is inductive.
LEMMA FlowStep == FlowInv /\ [SessNext]_allVars => FlowInv'
<1> SUFFICES ASSUME FlowInv, [SessNext]_allVars PROVE FlowInv'
  OBVIOUS
<1>1. CASE UNCHANGED allVars
  <2>1. LinkStep /\ ConnsKept
    BY <1>1, LinkKept DEF allVars
  <2> QED BY <1>1, <2>1, SameSession DEF allVars
<1> QED BY <1>1, CallerStep, PtyStep, SocketsStep, DaemonsStep DEF SessNext

\* Every variable of a session keeps its type: in particular the caller's
\* channel holds output and nothing else, and no more is read from the PTY
\* than the shell prints.
THEOREM SessTypes == SessSpec => []SessTypeOK
<1>1. FlowInv => SessTypeOK
  BY DEF FlowInv, Types, CallTypes
<1> QED BY <1>1, FlowInit, FlowStep, PTL DEF SessSpec

\* What Session.read returns is a prefix of what the shell printed, whatever
\* becomes of sockets, connections and daemons on the way, and however many
\* of each there are.
THEOREM SessionReadsPrefix == SessSpec => []ReadsPrefix
<1>1. FlowInv => ReadsPrefix
  BY DEF FlowInv
<1> QED BY <1>1, FlowInit, FlowStep, PTL DEF SessSpec
=============================================================================
