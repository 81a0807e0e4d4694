-------------------------------- MODULE Rpc ---------------------------------
(***************************************************************************)
(* Calls over the control plane of DaemonLink: exec and the snapshot calls *)
(* of the Python binding (server/src/python.rs), the pending map of a      *)
(* DaemonConnection and the request channel of a socket's task             *)
(* (server/src/registry.rs, server.rs), and the daemon's inline            *)
(* handle_message with its executor (sandd/src/main.rs, executor.rs).      *)
(*                                                                         *)
(* A request travels as its id: r in down[s] is the request, r in up[s]    *)
(* the response that answers it (CommandOutput, SnapshotCreated, ...Error).*)
(***************************************************************************)
EXTENDS DaemonLink

CONSTANTS
    Reqs,      \* request ids (UUIDs), each used by one call
    Commands   \* those of exec; the others are snapshot calls

ASSUME ReqsAssumption ==
    /\ Commands \subseteq Reqs
    /\ None \notin Reqs
    /\ Reqs \cap (UpFrames \cup DownFrames) = {}

VARIABLES
    caller,   \* where the thread inside exec is
    target,   \* the daemon_id it was called with
    conn,     \* the Arc<DaemonConnection> it holds ...
    link,     \* ... and the socket that connection's request_tx leads to
    pending,  \* pending_requests of all connections: pairs <<connection, request>>
    slot,     \* the oneshot channels that hold a response
    chan,     \* request_rx of a socket's task
    busy,     \* the request a daemon's serve loop awaits inline
    procs,    \* child processes that run on a daemon's host
    runs,     \* history: how often a request was started
    replied   \* history: requests whose response the controller has read

callVars == <<caller, target, conn, link>>
rpcVars  == <<callVars, pending, slot, chan, busy, procs, runs, replied>>
allVars  == <<vars, rpcVars>>

RpcTypeOK ==
    /\ up \in [Sockets -> Seq(UpFrames \cup Reqs)]
    /\ down \in [Sockets -> Seq(DownFrames \cup Reqs)]
    /\ caller \in [Reqs -> {"idle", "got", "pending", "waiting",
                            "answered", "timedout", "notfound", "sendfailed"}]
    /\ target \in [Reqs -> Daemons \cup {None}]
    /\ conn \in [Reqs -> Conns \cup {None}]
    /\ link \in [Reqs -> Sockets \cup {None}]
    /\ pending \subseteq Conns \X Reqs
    /\ slot \subseteq Reqs
    /\ chan \in [Sockets -> Seq(Reqs)]
    /\ busy \in [Daemons -> Reqs \cup {None}]
    /\ procs \in [Daemons -> SUBSET Reqs]
    /\ runs \in [Reqs -> Nat]
    /\ replied \subseteq Reqs

RpcInit ==
    /\ Init
    /\ caller = [r \in Reqs |-> "idle"]
    /\ target = [r \in Reqs |-> None]
    /\ conn = [r \in Reqs |-> None]
    /\ link = [r \in Reqs |-> None]
    /\ pending = {}
    /\ slot = {}
    /\ chan = [s \in Sockets |-> <<>>]
    /\ busy = [d \in Daemons |-> None]
    /\ procs = [d \in Daemons |-> {}]
    /\ runs = [r \in Reqs |-> 0]
    /\ replied = {}

-----------------------------------------------------------------------------
(* The calling thread: exec and the snapshot calls in python.rs. *)

\* The six snapshot calls repeat exec's steps with a timeout of their own.
SnapshotCalls == Reqs \ Commands

\* registry.get: the Arc is held until the call returns.
GetConn(r, d) ==
    /\ caller[r] = "idle"
    /\ target' = [target EXCEPT ![r] = d]
    /\ IF reg[d] = None
       THEN /\ caller' = [caller EXCEPT ![r] = "notfound"]
            /\ UNCHANGED <<conn, link>>
       ELSE /\ caller' = [caller EXCEPT ![r] = "got"]
            /\ conn' = [conn EXCEPT ![r] = reg[d].conn]
            /\ link' = [link EXCEPT ![r] = reg[d].sock]
    /\ UNCHANGED <<vars, pending, slot, chan, busy, procs, runs, replied>>

\* Mutant: no check that the daemon was found.
RegisterRequest_Unchecked(r) ==
    /\ caller[r] \in {"got", "notfound"}
    /\ caller' = [caller EXCEPT ![r] = "pending"]
    /\ pending' = pending \cup {<<conn[r], r>>}
    /\ UNCHANGED <<vars, target, conn, link, slot, chan, busy, procs, runs, replied>>

RegisterRequest(r) ==
    /\ caller[r] = "got"
    /\ caller' = [caller EXCEPT ![r] = "pending"]
    /\ pending' = pending \cup {<<conn[r], r>>}
    /\ UNCHANGED <<vars, target, conn, link, slot, chan, busy, procs, runs, replied>>

\* The call returns: the Arc and the oneshot receiver go, the pending entry stays.
Return(r, result) ==
    /\ caller' = [caller EXCEPT ![r] = result]
    /\ conn' = [conn EXCEPT ![r] = None]
    /\ link' = [link EXCEPT ![r] = None]
    /\ slot' = slot \ {r}

\* Mutant: an error after queueing, when the connection was replaced meanwhile.
SendMessage_LateError(r) ==
    /\ caller[r] = "pending"
    /\ ServerHolds(link[r])
    /\ chan' = [chan EXCEPT ![link[r]] = Append(@, r)]
    /\ IF reg[target[r]] # None /\ reg[target[r]].conn = conn[r]
       THEN /\ caller' = [caller EXCEPT ![r] = "waiting"]
            /\ UNCHANGED <<conn, link, slot>>
       ELSE Return(r, "sendfailed")
    /\ UNCHANGED <<vars, target, pending, busy, procs, runs, replied>>

\* send_message: an error exactly when the socket's task has finished.
SendMessage(r) ==
    /\ caller[r] = "pending"
    /\ IF ServerHolds(link[r])
       THEN /\ caller' = [caller EXCEPT ![r] = "waiting"]
            /\ chan' = [chan EXCEPT ![link[r]] = Append(@, r)]
            /\ UNCHANGED <<conn, link, slot>>
       ELSE Return(r, "sendfailed") /\ UNCHANGED chan
    /\ UNCHANGED <<vars, target, pending, busy, procs, runs, replied>>

TakeResponse(r) ==
    /\ caller[r] = "waiting"
    /\ r \in slot
    /\ Return(r, "answered")
    /\ UNCHANGED <<vars, target, pending, chan, busy, procs, runs, replied>>

CallTimeout(r) ==
    /\ caller[r] = "waiting"
    /\ Return(r, "timedout")
    /\ UNCHANGED <<vars, target, pending, chan, busy, procs, runs, replied>>

-----------------------------------------------------------------------------
(* The socket's task: the request branch and the response arm. *)

\* Mutant: the request stays queued.
Forward_Peeks(s) ==
    /\ task[s] = "run" /\ chan[s] # <<>>
    /\ down' = Sent(down, s, Head(chan[s]), DaemonHolds(s))
    /\ UNCHANGED <<serverVars, net, owner, up, daemonVars, faults>>
    /\ UNCHANGED rpcVars

\* ws_tx.send succeeds: the frame is on the socket, or lost on a dead path.
Forward(s) ==
    /\ task[s] = "run" /\ chan[s] # <<>>
    /\ down' = Sent(down, s, Head(chan[s]), DaemonHolds(s))
    /\ chan' = [chan EXCEPT ![s] = Tail(@)]
    /\ UNCHANGED <<serverVars, net, owner, up, daemonVars, faults>>
    /\ UNCHANGED <<callVars, pending, slot, busy, procs, runs, replied>>

\* ws_tx.send fails: the request is dropped and the loop left.
ForwardFails(s) ==
    /\ task[s] = "run" /\ chan[s] # <<>>
    /\ net[s] = "dead" \/ ~DaemonHolds(s)
    /\ LeaveLoop(s)
    /\ chan' = [chan EXCEPT ![s] = Tail(@)]
    /\ UNCHANGED <<callVars, pending, slot, busy, procs, runs, replied>>

\* Mutant: the sender is removed but nothing is sent through it.
CompleteRequest_Mute(s, r) ==
    /\ Reads(s, r)
    /\ up' = [up EXCEPT ![s] = Tail(@)]
    /\ replied' = replied \cup {r}
    /\ pending' = {p \in pending : p[2] # r}
    /\ UNCHANGED <<serverVars, net, owner, down, daemonVars, faults>>
    /\ UNCHANGED <<callVars, slot, chan, busy, procs, runs>>

\* Mutant: only a waiting caller's entry is removed.
CompleteRequest_Waiting(s, r) ==
    /\ Reads(s, r)
    /\ up' = [up EXCEPT ![s] = Tail(@)]
    /\ replied' = replied \cup {r}
    /\ IF /\ tid[s] # None /\ reg[tid[s]] # None
          /\ <<reg[tid[s]].conn, r>> \in pending /\ caller[r] = "waiting"
       THEN /\ pending' = pending \ {<<reg[tid[s]].conn, r>>}
            /\ slot' = slot \cup {r}
       ELSE UNCHANGED <<pending, slot>>
    /\ UNCHANGED <<serverVars, net, owner, down, daemonVars, faults>>
    /\ UNCHANGED <<callVars, chan, busy, procs, runs>>

\* complete_request on the connection that is registered NOW, which need not
\* be the one the request was sent through.
CompleteRequest(s, r) ==
    /\ Reads(s, r)
    /\ up' = [up EXCEPT ![s] = Tail(@)]
    /\ replied' = replied \cup {r}
    /\ IF tid[s] # None /\ reg[tid[s]] # None /\ <<reg[tid[s]].conn, r>> \in pending
       THEN /\ pending' = pending \ {<<reg[tid[s]].conn, r>>}
            /\ slot' = IF caller[r] = "waiting" THEN slot \cup {r} ELSE slot
       ELSE UNCHANGED <<pending, slot>>
    /\ UNCHANGED <<serverVars, net, owner, down, daemonVars, faults>>
    /\ UNCHANGED <<callVars, chan, busy, procs, runs>>

-----------------------------------------------------------------------------
(* The daemon: handle_message is awaited inside the serve loop. *)

Begin(d, r) ==
    /\ pc[d] = "serving" /\ busy[d] = None
    /\ Receives(d, r)
    /\ Consume(d)
    /\ busy' = [busy EXCEPT ![d] = r]
    /\ runs' = [runs EXCEPT ![r] = @ + 1]
    /\ UNCHANGED <<serverVars, net, owner, up, daemonVars, faults>>
    /\ UNCHANGED <<callVars, pending, slot, chan, replied>>

StartCommand(d, r) ==
    /\ r \in Commands
    /\ Begin(d, r)
    /\ procs' = [procs EXCEPT ![d] = @ \cup {r}]

\* The snapshot arms of handle_message work on the disk, in the loop itself.
StartSnapshotCall(d, r) ==
    /\ r \in SnapshotCalls
    /\ Begin(d, r)
    /\ UNCHANGED procs

\* The response is written and last_ack refreshed; the loop goes on.
Respond(d) ==
    /\ up' = Sent(up, cur[d], busy[d], ServerHolds(cur[d]))
    /\ busy' = [busy EXCEPT ![d] = None]
    /\ acked' = [acked EXCEPT ![d] = TRUE]
    /\ UNCHANGED <<serverVars, net, owner, down, pc, cur, faults>>
    /\ UNCHANGED <<callVars, pending, slot, chan, runs, replied>>

FinishCommand(d) ==
    /\ busy[d] \in Commands
    /\ Respond(d)
    /\ procs' = [procs EXCEPT ![d] = @ \ {busy[d]}]

\* Mutant: a timed-out command is not answered.
TimeoutCommand_Silent(d) ==
    /\ busy[d] \in Commands
    /\ busy' = [busy EXCEPT ![d] = None]
    /\ UNCHANGED <<vars, callVars, pending, slot, chan, procs, runs, replied>>

\* tokio::time::timeout drops wait_with_output; without kill_on_drop the
\* child runs on.
TimeoutCommand(d) ==
    /\ busy[d] \in Commands
    /\ Respond(d)
    /\ UNCHANGED procs

\* Success or SnapshotError alike.
AnswerSnapshotCall(d) ==
    /\ busy[d] \in SnapshotCalls
    /\ Respond(d)
    /\ UNCHANGED procs

\* The snapshot was created or restored, but the read of its file that the
\* response needs fails: `?` leaves handle_message without any response, and
\* the loop logs the error and goes on.
LeaveUnanswered(d) ==
    /\ busy[d] \in SnapshotCalls
    /\ Fault
    /\ busy' = [busy EXCEPT ![d] = None]
    /\ acked' = [acked EXCEPT ![d] = TRUE]
    /\ UNCHANGED <<serverVars, netVars, pc, cur>>
    /\ UNCHANGED <<callVars, pending, slot, chan, procs, runs, replied>>

StrayExits(d, r) ==
    /\ r \in procs[d] \ {busy[d]}
    /\ procs' = [procs EXCEPT ![d] = @ \ {r}]
    /\ UNCHANGED <<vars, callVars, pending, slot, chan, busy, runs, replied>>

-----------------------------------------------------------------------------
(* The control plane's steps, with what they do to requests. *)

\* Mutant: replacing a connection empties the old one's pending map.
Register_Clears(s, c) ==
    /\ c \notin {conn[r] : r \in Reqs}
    /\ HandleRegister(s, c)
    /\ pending' = {p \in pending : p[1] # c /\ target[p[2]] # owner[s]}
    /\ UNCHANGED <<callVars, slot, chan, busy, procs, runs, replied>>

\* DaemonConnection::new starts with empty maps; the Arcs held by callers keep
\* their connections alive.
Register(s, c) ==
    /\ c \notin {conn[r] : r \in Reqs}
    /\ HandleRegister(s, c)
    /\ pending' = {p \in pending : p[1] # c}
    /\ UNCHANGED <<callVars, slot, chan, busy, procs, runs, replied>>

\* The task's request_rx is dropped with what is still queued.
DropChannel(s) ==
    /\ CleanUp(s)
    /\ chan' = [chan EXCEPT ![s] = <<>>]
    /\ UNCHANGED <<callVars, pending, slot, busy, procs, runs, replied>>

TaskStep(s) ==
    /\ \/ RefuseRegister(s)
       \/ FindBeat(s) \/ AckBeat(s) \/ NackBeat(s)
       \/ SeeClose(s) \/ SeeEof(s) \/ SeeReset(s)
    /\ UNCHANGED rpcVars

\* The serve loop polls nothing while a command runs; the heartbeat task does.
LoopStep(d) ==
    /\ \/ \E s \in Sockets : Connect(d, s)
       \/ Registered(d) \/ Refused(d) \/ UnexpectedFirst(d)
       \/ LoseSocket(d) \/ AckTimeout(d)
       \/ RecvBeatAck(d) \/ RecvOther(d) \/ Shutdown(d)
    /\ busy[d] = None
    /\ UNCHANGED rpcVars

Background(d) ==
    /\ Heartbeat(d) \/ Reap(d) \/ EntryAges(d) \/ AckAges(d)
    /\ UNCHANGED rpcVars

\* The container goes with its processes.
CrashBusy(d) ==
    /\ DaemonCrash(d)
    /\ busy' = [busy EXCEPT ![d] = None]
    /\ procs' = [procs EXCEPT ![d] = {}]
    /\ UNCHANGED <<callVars, pending, slot, chan, runs, replied>>

PathBreaks(s) == Break(s) /\ UNCHANGED rpcVars

-----------------------------------------------------------------------------
Caller(r) ==
    \/ \E d \in Daemons : GetConn(r, d)
    \/ RegisterRequest(r) \/ SendMessage(r) \/ TakeResponse(r) \/ CallTimeout(r)

SocketStep(s) ==
    \/ \E c \in Conns : Register(s, c)
    \/ \E r \in Reqs : CompleteRequest(s, r)
    \/ Forward(s) \/ ForwardFails(s) \/ DropChannel(s) \/ TaskStep(s)

DaemonStep(d) ==
    \/ \E r \in Reqs : StartCommand(d, r) \/ StartSnapshotCall(d, r) \/ StrayExits(d, r)
    \/ FinishCommand(d) \/ TimeoutCommand(d)
    \/ AnswerSnapshotCall(d) \/ LeaveUnanswered(d)
    \/ LoopStep(d) \/ Background(d) \/ CrashBusy(d)

RpcNext ==
    \/ \E r \in Reqs : Caller(r)
    \/ \E s \in Sockets : SocketStep(s) \/ PathBreaks(s)
    \/ \E d \in Daemons : DaemonStep(d)

RpcSpec == RpcInit /\ [][RpcNext]_allVars

\* The tasks run and a working path delivers.  tokio's select! picks among the
\* ready branches at random, so queued requests are not starved by heartbeats.
\* Nobody need ever time out.
RpcFairness ==
    /\ \A s \in Sockets :
         /\ WF_allVars(net[s] = "up" /\ \E c \in Conns : Register(s, c))
         /\ WF_allVars(net[s] = "up" /\ \E r \in Reqs : CompleteRequest(s, r))
         /\ WF_allVars(net[s] = "up" /\ TaskStep(s))
         /\ SF_allVars(Forward(s))
    /\ \A d \in Daemons :
         /\ WF_allVars(LoopStep(d) /\ DaemonReads(d))
         /\ WF_allVars(\E r \in Reqs : StartCommand(d, r) \/ StartSnapshotCall(d, r))
         /\ WF_allVars(FinishCommand(d) \/ TimeoutCommand(d))
         /\ WF_allVars(AnswerSnapshotCall(d))

RpcFairSpec == RpcSpec /\ RpcFairness

-----------------------------------------------------------------------------
(* Safety. *)

\* No command is ever started twice: nothing on the way retries or keeps a
\* copy, not even across reconnections.
AtMostOnce == \A r \in Reqs : runs[r] <= 1

\* A caller that still waits can still be answered: its oneshot sender is in
\* the pending map it registered with, whatever happened to the registry.
\* ("Command channel closed" is unreachable.)
SenderAlive ==
    \A r \in Reqs :
        (caller[r] = "waiting" /\ r \notin slot /\ r \notin replied)
            => <<conn[r], r>> \in pending

\* The controller drops a response only when the connection it was asked
\* through is no longer the registered one.
LostOnlyByReplacement ==
    \A r \in Reqs :
        (caller[r] = "waiting" /\ r \in replied /\ r \notin slot)
            => \/ reg[target[r]] = None
               \/ reg[target[r]].conn # conn[r]

\* "each request gets exactly one response Message" (registry.rs): a caller
\* that still waits when the response has been read gets it.
ResponseDelivered ==
    \A r \in Reqs :
        (caller[r] = "waiting" /\ r \in replied) => r \in slot

\* A daemon is shown busy only on account of requests it was sent and has not
\* answered: a response clears its pending entry even when the caller gave up
\* long before (python.rs removes nothing on a timeout).
PendingIsOwed ==
    \A d \in Daemons, r \in Reqs :
        (reg[d] # None /\ <<reg[d].conn, r>> \in pending)
            => target[r] = d /\ r \notin replied

\* The abstract call: what happened to a request, and whether it ran.
Status(r) ==
    CASE caller[r] = "idle" -> "idle"
      [] caller[r] \in {"got", "pending", "waiting"} -> "open"
      [] caller[r] \in {"notfound", "sendfailed"} -> "rejected"
      [] OTHER -> caller[r]

AbstractCall == INSTANCE Call WITH
                    status <- [r \in Reqs |-> Status(r)],
                    ran <- {r \in Reqs : runs[r] > 0}

\* exec and the snapshot calls implement the abstract call.
ImplementsCall == AbstractCall!Spec

-----------------------------------------------------------------------------
(* Liveness. *)

\* With no fault and no shutdown, a request the controller has accepted is
\* answered, behind any number of heartbeats and however many requests queue
\* for the daemon (the pipeline request_rx, socket, serve loop, socket,
\* complete_request has no step that waits for a later one).
AcceptedIsAnswered ==
    \A r \in Reqs :
        (caller[r] = "waiting")
            ~> (r \in slot \/ caller[r] # "waiting" \/ pc[target[r]] = "stopped")
=============================================================================
