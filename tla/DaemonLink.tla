----------------------------- MODULE DaemonLink -----------------------------
(***************************************************************************)
(* The control plane between the controller and its daemons: the registry  *)
(* of DaemonConnections (server/src/registry.rs), one handle_websocket     *)
(* task per accepted socket and the stale-daemon reaper                    *)
(* (server/src/server.rs), and the daemon's connect / register / serve     *)
(* loop with its heartbeat task (sandd/src/main.rs).                       *)
(*                                                                         *)
(* A socket is one dial.  up[s] and down[s] are the frames in flight, each *)
(* direction a FIFO.  net[s] = "dead" is a path that silently stopped:     *)
(* nothing sent later arrives, what had already arrived may still be read, *)
(* and either end may or may not be told.  Only the frames of the control  *)
(* plane are here; Rpc adds requests and responses to the same queues.     *)
(***************************************************************************)
EXTENDS Integers, Sequences, FiniteSets

CONSTANTS
    Daemons,       \* daemon processes; a daemon stands for its daemon_id
    Named,         \* the daemons whose id is not the empty string
    Sockets,       \* the dials: 1..n, used in order
    Conns,         \* identities of DaemonConnection objects (heap cells)
    None,          \* Option::None
    MaxInFlight,   \* bound: frames in both queues of a socket before a heartbeat
    MaxFaults      \* bound: breaks, stalls, crashes and restarts together

ASSUME NamedAssumption == Named \subseteq Daemons
ASSUME NoneAssumption ==
    None \notin Daemons \cup Sockets \cup Conns
        \cup [conn : Conns, sock : Sockets, fresh : BOOLEAN]
ASSUME BoundsAssumption == MaxInFlight \in Nat /\ MaxFaults \in Nat

VARIABLES
    reg,     \* DaemonRegistry.connections: daemon -> entry or None
    task,    \* handle_websocket's place: where the task of a socket is
    tid,     \* handle_websocket's `daemon_id: Option<String>`
    beat,    \* the Arc a task holds between registry.get and update_heartbeat
    net,     \* "unused", "up" or "dead"
    owner,   \* the daemon that dialled a socket
    up,      \* frames daemon -> controller
    down,    \* frames controller -> daemon
    pc,      \* where a daemon's main loop is
    cur,     \* the socket a daemon holds
    acked,   \* last_ack is younger than ack_timeout
    faults   \* faults so far

serverVars == <<reg, task, tid, beat>>
netVars    == <<net, owner, up, down>>
daemonVars == <<pc, cur, acked>>
vars       == <<serverVars, netVars, daemonVars, faults>>

-----------------------------------------------------------------------------
UpFrames   == {"Register", "Heartbeat", "Close"}
DownFrames == {"RegisterAck", "RegisterNack", "HeartbeatAck", "HeartbeatNack"}

\* A registry value: an Arc<DaemonConnection> with the socket its request_tx
\* leads to; fresh is "seconds_since_heartbeat <= 30".
Entries == [conn : Conns, sock : Sockets, fresh : BOOLEAN]

Entry(c, s, fresh) == [conn |-> c, sock |-> s, fresh |-> fresh]

TypeOK ==
    /\ reg \in [Daemons -> Entries \cup {None}]
    /\ task \in [Sockets -> {"none", "run", "beat", "cleanup", "done"}]
    /\ tid \in [Sockets -> Daemons \cup {None}]
    /\ beat \in [Sockets -> Conns \cup {None}]
    /\ net \in [Sockets -> {"unused", "up", "dead"}]
    /\ owner \in [Sockets -> Daemons \cup {None}]
    /\ up \in [Sockets -> Seq(UpFrames)]
    /\ down \in [Sockets -> Seq(DownFrames)]
    /\ pc \in [Daemons -> {"backoff", "regwait", "serving", "stopped"}]
    /\ cur \in [Daemons -> Sockets \cup {None}]
    /\ acked \in [Daemons -> BOOLEAN]
    /\ faults \in Nat

Init ==
    /\ reg = [d \in Daemons |-> None]
    /\ task = [s \in Sockets |-> "none"]
    /\ tid = [s \in Sockets |-> None]
    /\ beat = [s \in Sockets |-> None]
    /\ net = [s \in Sockets |-> "unused"]
    /\ owner = [s \in Sockets |-> None]
    /\ up = [s \in Sockets |-> <<>>]
    /\ down = [s \in Sockets |-> <<>>]
    /\ pc = [d \in Daemons |-> "backoff"]
    /\ cur = [d \in Daemons |-> None]
    /\ acked = [d \in Daemons |-> TRUE]
    /\ faults = 0

\* The peer still holds its end of the socket.
DaemonHolds(s) == owner[s] # None /\ cur[owner[s]] = s
ServerHolds(s) == task[s] \in {"run", "beat", "cleanup"}

\* A frame written to s: it is in flight unless the path is dead or the peer
\* has dropped the socket.  The writer cannot tell.
Sent(queues, s, f, peerHolds) ==
    IF net[s] = "up" /\ peerHolds
    THEN [queues EXCEPT ![s] = Append(@, f)]
    ELSE queues

\* The conns no Arc points to: an insertion may allocate one of them.
FreeConns == Conns \ ({reg[d].conn : d \in {x \in Daemons : reg[x] # None}}
                        \cup {beat[s] : s \in Sockets})

-----------------------------------------------------------------------------
(* The controller: one handle_websocket task per socket. *)

Reads(s, f) == task[s] = "run" /\ up[s] # <<>> /\ Head(up[s]) = f

\* Mutant: the id is stored only for a daemon the registry did not know.
HandleRegister_IdOnce(s, c) ==
    /\ Reads(s, "Register")
    /\ owner[s] \in Named
    /\ c \in FreeConns
    /\ tid' = IF reg[owner[s]] = None THEN [tid EXCEPT ![s] = owner[s]] ELSE tid
    /\ reg' = [reg EXCEPT ![owner[s]] = Entry(c, s, TRUE)]
    /\ up' = [up EXCEPT ![s] = Tail(@)]
    /\ down' = Sent(down, s, "RegisterAck", DaemonHolds(s))
    /\ UNCHANGED <<task, beat, net, owner, daemonVars, faults>>

\* Mutant: a reconnecting daemon is registered but not acked.
HandleRegister_AckOnce(s, c) ==
    /\ Reads(s, "Register")
    /\ owner[s] \in Named
    /\ c \in FreeConns
    /\ tid' = [tid EXCEPT ![s] = owner[s]]
    /\ reg' = [reg EXCEPT ![owner[s]] = Entry(c, s, TRUE)]
    /\ up' = [up EXCEPT ![s] = Tail(@)]
    /\ down' = IF reg[owner[s]] = None
               THEN Sent(down, s, "RegisterAck", DaemonHolds(s)) ELSE down
    /\ UNCHANGED <<task, beat, net, owner, daemonVars, faults>>

\* Register with an id: a new DaemonConnection replaces whatever the registry
\* had for that id, then the ack goes out on the same task.
HandleRegister(s, c) ==
    /\ Reads(s, "Register")
    /\ owner[s] \in Named
    /\ c \in FreeConns
    /\ tid' = [tid EXCEPT ![s] = owner[s]]
    /\ reg' = [reg EXCEPT ![owner[s]] = Entry(c, s, TRUE)]
    /\ up' = [up EXCEPT ![s] = Tail(@)]
    /\ down' = Sent(down, s, "RegisterAck", DaemonHolds(s))
    /\ UNCHANGED <<task, beat, net, owner, daemonVars, faults>>

\* Mutant: no return after the refusal.
RefuseRegister_Falls(s) ==
    /\ Reads(s, "Register")
    /\ owner[s] \notin Named
    /\ tid' = [tid EXCEPT ![s] = owner[s]]
    /\ \E c \in FreeConns : reg' = [reg EXCEPT ![owner[s]] = Entry(c, s, TRUE)]
    /\ up' = [up EXCEPT ![s] = Tail(@)]
    /\ down' = Sent(down, s, "RegisterNack", DaemonHolds(s))
    /\ UNCHANGED <<task, beat, net, owner, daemonVars, faults>>

\* Register with the empty id is refused and leaves no trace.
RefuseRegister(s) ==
    /\ Reads(s, "Register")
    /\ owner[s] \notin Named
    /\ up' = [up EXCEPT ![s] = Tail(@)]
    /\ down' = Sent(down, s, "RegisterNack", DaemonHolds(s))
    /\ UNCHANGED <<serverVars, net, owner, daemonVars, faults>>

\* The arm of Register in handle_daemon_message.
OnRegister(s) ==
    IF owner[s] \in Named THEN \E c \in Conns : HandleRegister(s, c)
    ELSE RefuseRegister(s)

\* handle_heartbeat found an entry: the task now holds its Arc.
FindBeat(s) ==
    /\ Reads(s, "Heartbeat")
    /\ tid[s] # None
    /\ reg[tid[s]] # None
    /\ beat' = [beat EXCEPT ![s] = reg[tid[s]].conn]
    /\ task' = [task EXCEPT ![s] = "beat"]
    /\ up' = [up EXCEPT ![s] = Tail(@)]
    /\ UNCHANGED <<reg, tid, net, owner, down, daemonVars, faults>>

\* update_heartbeat on the held Arc, which the registry may have dropped
\* meanwhile, then the ack.
AckBeat(s) ==
    /\ task[s] = "beat"
    /\ reg' = [d \in Daemons |->
                 IF reg[d] # None /\ reg[d].conn = beat[s]
                 THEN Entry(reg[d].conn, reg[d].sock, TRUE) ELSE reg[d]]
    /\ task' = [task EXCEPT ![s] = "run"]
    /\ beat' = [beat EXCEPT ![s] = None]
    /\ down' = Sent(down, s, "HeartbeatAck", DaemonHolds(s))
    /\ UNCHANGED <<tid, net, owner, up, daemonVars, faults>>

\* Mutant: an evicted daemon is sent a Close frame.
NackBeat_Closes(s) ==
    /\ Reads(s, "Heartbeat")
    /\ tid[s] # None
    /\ reg[tid[s]] = None
    /\ up' = [up EXCEPT ![s] = Tail(@)]
    /\ down' = Sent(down, s, "Close", DaemonHolds(s))
    /\ UNCHANGED <<serverVars, net, owner, daemonVars, faults>>

\* Mutant: an evicted daemon's heartbeat is acked like any other.
NackBeat_Acks(s) ==
    /\ Reads(s, "Heartbeat")
    /\ tid[s] # None
    /\ reg[tid[s]] = None
    /\ up' = [up EXCEPT ![s] = Tail(@)]
    /\ down' = Sent(down, s, "HeartbeatAck", DaemonHolds(s))
    /\ UNCHANGED <<serverVars, net, owner, daemonVars, faults>>

\* handle_heartbeat found no entry: ask the daemon to register again.
NackBeat(s) ==
    /\ Reads(s, "Heartbeat")
    /\ tid[s] # None
    /\ reg[tid[s]] = None
    /\ up' = [up EXCEPT ![s] = Tail(@)]
    /\ down' = Sent(down, s, "HeartbeatNack", DaemonHolds(s))
    /\ UNCHANGED <<serverVars, net, owner, daemonVars, faults>>

\* A Close frame, the peer's FIN (after what was sent before it) or a reset
\* ends the select loop.
LeaveLoop(s) ==
    /\ task' = [task EXCEPT ![s] = "cleanup"]
    /\ UNCHANGED <<reg, tid, beat, netVars, daemonVars, faults>>

SeeClose(s) == Reads(s, "Close") /\ LeaveLoop(s)

SeeEof(s) ==
    /\ task[s] = "run" /\ net[s] = "up" /\ ~DaemonHolds(s)
    /\ up[s] = <<>>
    /\ LeaveLoop(s)

SeeReset(s) ==
    /\ task[s] = "run"
    /\ net[s] = "dead" \/ ~DaemonHolds(s)
    /\ LeaveLoop(s)

\* Mutant: no clean-up on disconnect.
CleanUp_Keeps(s) ==
    /\ task[s] = "cleanup"
    /\ task' = [task EXCEPT ![s] = "done"]
    /\ tid' = [tid EXCEPT ![s] = None]
    /\ up' = [up EXCEPT ![s] = <<>>]
    /\ UNCHANGED <<reg, beat, net, owner, down, daemonVars, faults>>

\* "Clean up on disconnect": the entry is removed by id alone, whichever
\* socket it belongs to by now.  The task's locals and the socket go with it.
CleanUp(s) ==
    /\ task[s] = "cleanup"
    /\ task' = [task EXCEPT ![s] = "done"]
    /\ reg' = IF tid[s] = None THEN reg ELSE [reg EXCEPT ![tid[s]] = None]
    /\ tid' = [tid EXCEPT ![s] = None]
    /\ up' = [up EXCEPT ![s] = <<>>]
    /\ UNCHANGED <<beat, net, owner, down, daemonVars, faults>>

\* Mutant: a stale entry is kept while its task has not finished.
Reap_Closed(d) ==
    /\ reg[d] # None
    /\ ~reg[d].fresh
    /\ ~ServerHolds(reg[d].sock)
    /\ reg' = [reg EXCEPT ![d] = None]
    /\ UNCHANGED <<task, tid, beat, netVars, daemonVars, faults>>

\* heartbeat_monitor: cleanup_stale visits the entries one by one.
Reap(d) ==
    /\ reg[d] # None
    /\ ~reg[d].fresh
    /\ reg' = [reg EXCEPT ![d] = None]
    /\ UNCHANGED <<task, tid, beat, netVars, daemonVars, faults>>

-----------------------------------------------------------------------------
(* The daemon: main loop, serve() and the heartbeat task. *)

\* serve() returned (or the process died): the socket is dropped, unread
\* frames with it.
Leave(d, to) ==
    /\ pc' = [pc EXCEPT ![d] = to]
    /\ cur' = [cur EXCEPT ![d] = None]
    /\ acked' = [acked EXCEPT ![d] = TRUE]
    /\ down' = [down EXCEPT ![cur[d]] = <<>>]

\* connect_and_serve after the backoff sleep: a fresh socket and Register.
Connect(d, s) ==
    /\ pc[d] = "backoff"
    /\ net[s] = "unused"
    /\ \A t \in Sockets : t < s => net[t] # "unused"
    /\ net' = [net EXCEPT ![s] = "up"]
    /\ owner' = [owner EXCEPT ![s] = d]
    /\ up' = [up EXCEPT ![s] = <<"Register">>]
    /\ task' = [task EXCEPT ![s] = "run"]
    /\ pc' = [pc EXCEPT ![d] = "regwait"]
    /\ cur' = [cur EXCEPT ![d] = s]
    /\ UNCHANGED <<reg, tid, beat, down, acked, faults>>

Receives(d, f) ==
    cur[d] # None /\ down[cur[d]] # <<>> /\ Head(down[cur[d]]) = f

Consume(d) == down' = [down EXCEPT ![cur[d]] = Tail(@)]

\* The registration ack, awaited without a deadline.
Registered(d) ==
    /\ pc[d] = "regwait"
    /\ Receives(d, "RegisterAck")
    /\ Consume(d)
    /\ pc' = [pc EXCEPT ![d] = "serving"]
    /\ acked' = [acked EXCEPT ![d] = TRUE]
    /\ UNCHANGED <<serverVars, net, owner, up, cur, faults>>

Refused(d) ==
    /\ pc[d] = "regwait"
    /\ Receives(d, "RegisterNack")
    /\ Leave(d, "backoff")
    /\ UNCHANGED <<serverVars, net, owner, up, faults>>

\* The match on the acknowledgement's `success`.
Answered(d) == IF Receives(d, "RegisterAck") THEN Registered(d) ELSE Refused(d)

\* Any other frame or a read error: `if let` and `_ =>` carry on to the loop.
UnexpectedFirst(d) ==
    /\ pc[d] = "regwait"
    /\ \/ \E f \in {"HeartbeatAck", "HeartbeatNack"} :
             Receives(d, f) /\ Consume(d)
       \/ /\ net[cur[d]] = "dead" \/ ~ServerHolds(cur[d])
          /\ UNCHANGED down
    /\ pc' = [pc EXCEPT ![d] = "serving"]
    /\ acked' = [acked EXCEPT ![d] = TRUE]
    /\ UNCHANGED <<serverVars, net, owner, up, cur, faults>>

\* The heartbeat task's tick: the write succeeds ...
Heartbeat(d) ==
    /\ pc[d] = "serving"
    /\ Len(up[cur[d]]) + Len(down[cur[d]]) < MaxInFlight
    /\ up' = Sent(up, cur[d], "Heartbeat", ServerHolds(cur[d]))
    /\ UNCHANGED <<serverVars, net, owner, down, daemonVars, faults>>

\* ... or fails, or the read side reports the end of the stream.
LoseSocket(d) ==
    /\ pc[d] = "serving"
    /\ net[cur[d]] = "dead" \/ ~ServerHolds(cur[d])
    /\ Leave(d, "backoff")
    /\ UNCHANGED <<serverVars, net, owner, up, faults>>

\* Mutant: the deadline is only looked at when a frame arrives.
AckTimeout_OnFrame(d) ==
    /\ pc[d] = "serving"
    /\ ~acked[d]
    /\ down[cur[d]] # <<>>
    /\ Leave(d, "backoff")
    /\ UNCHANGED <<serverVars, net, owner, up, faults>>

\* ack_check: writes succeed but no ack for ack_timeout.
AckTimeout(d) ==
    /\ pc[d] = "serving"
    /\ ~acked[d]
    /\ Leave(d, "backoff")
    /\ UNCHANGED <<serverVars, net, owner, up, faults>>

\* The serve loop drains one frame; a failed heartbeat re-registers in place.
RecvBeatAck(d) ==
    /\ pc[d] = "serving"
    /\ \/ Receives(d, "HeartbeatAck") /\ UNCHANGED up
       \/ /\ Receives(d, "HeartbeatNack")
          /\ up' = Sent(up, cur[d], "Register", ServerHolds(cur[d]))
    /\ Consume(d)
    /\ acked' = [acked EXCEPT ![d] = TRUE]
    /\ UNCHANGED <<serverVars, net, owner, pc, cur, faults>>

\* Everything else reaches handle_message, which ignores a RegisterAck but
\* refreshes last_ack when it returns.
RecvOther(d) ==
    /\ pc[d] = "serving"
    /\ \E f \in {"RegisterAck", "RegisterNack"} : Receives(d, f)
    /\ Consume(d)
    /\ acked' = [acked EXCEPT ![d] = TRUE]
    /\ UNCHANGED <<serverVars, net, owner, up, pc, cur, faults>>

\* SIGTERM or SIGINT inside the serve loop: a Close frame, then exit.
Shutdown(d) ==
    /\ pc[d] = "serving"
    /\ up' = Sent(up, cur[d], "Close", ServerHolds(cur[d]))
    /\ Leave(d, "stopped")
    /\ UNCHANGED <<serverVars, net, owner, faults>>

-----------------------------------------------------------------------------
(* Time and the environment. *)

Fault == faults < MaxFaults /\ faults' = faults + 1

\* No heartbeat of d is due to reach the registry before its next dial.
Quiet(d) ==
    /\ \A s \in Sockets : owner[s] = d =>
         /\ net[s] = "up" => "Heartbeat" \notin {up[s][i] : i \in 1..Len(up[s])}
         /\ task[s] # "beat"
    /\ pc[d] \in {"backoff", "stopped"} \/ net[cur[d]] = "dead"

\* More than 30 s pass between two heartbeats of d: always true in the end
\* when none can arrive, a stall of the mesh otherwise.
EntryAges(d) ==
    /\ reg[d] # None
    /\ reg[d].fresh
    /\ reg' = [reg EXCEPT ![d] = Entry(@.conn, @.sock, FALSE)]
    /\ IF Quiet(d) THEN UNCHANGED faults ELSE Fault
    /\ UNCHANGED <<task, tid, beat, netVars, daemonVars>>

\* ack_timeout passes without an ack, likewise.
AckAges(d) ==
    /\ pc[d] = "serving"
    /\ acked[d]
    /\ acked' = [acked EXCEPT ![d] = FALSE]
    /\ IF net[cur[d]] = "dead" THEN UNCHANGED faults ELSE Fault
    /\ UNCHANGED <<serverVars, netVars, pc, cur>>

\* The path dies without FIN or RST (DERP, instance or network gone).
Break(s) ==
    /\ Fault
    /\ net[s] = "up"
    /\ net' = [net EXCEPT ![s] = "dead"]
    /\ UNCHANGED <<serverVars, owner, up, down, daemonVars>>

\* The daemon's container is killed and started again with the same id.
DaemonCrash(d) ==
    /\ Fault
    /\ pc[d] \in {"regwait", "serving"}
    /\ Leave(d, "backoff")
    /\ UNCHANGED <<serverVars, net, owner, up>>

\* The controller is ephemeral: a restart forgets every entry and task, and
\* over the mesh its sockets often end without FIN or RST.
ControllerRestart ==
    /\ Fault
    /\ \E s \in Sockets : ServerHolds(s)
    /\ reg' = [d \in Daemons |-> None]
    /\ task' = [s \in Sockets |-> IF task[s] = "none" THEN "none" ELSE "done"]
    /\ tid' = [s \in Sockets |-> None]
    /\ beat' = [s \in Sockets |-> None]
    /\ net' = [s \in Sockets |-> IF net[s] = "unused" THEN "unused" ELSE "dead"]
    /\ up' = [s \in Sockets |-> <<>>]
    /\ UNCHANGED <<owner, down, daemonVars>>

-----------------------------------------------------------------------------
SocketTask(s) ==
    \/ OnRegister(s)
    \/ FindBeat(s) \/ AckBeat(s) \/ NackBeat(s)
    \/ SeeClose(s) \/ SeeEof(s) \/ SeeReset(s) \/ CleanUp(s)

Daemon(d) ==
    \/ \E s \in Sockets : Connect(d, s)
    \/ Answered(d) \/ UnexpectedFirst(d)
    \/ Heartbeat(d) \/ LoseSocket(d) \/ AckTimeout(d)
    \/ RecvBeatAck(d) \/ RecvOther(d) \/ Shutdown(d)

Environment ==
    \/ \E d \in Daemons : EntryAges(d) \/ AckAges(d) \/ DaemonCrash(d)
    \/ \E s \in Sockets : Break(s)
    \/ ControllerRestart

Next ==
    \/ \E s \in Sockets : SocketTask(s)
    \/ \E d \in Daemons : Reap(d) \/ Daemon(d)
    \/ Environment

Spec == Init /\ [][Next]_vars

-----------------------------------------------------------------------------
(* Fairness: the tasks run, the timers tick and a working path delivers.     *)
(* Nothing is assumed of a dead path (no read on it need ever return) nor of *)
(* any fault.                                                                *)

TaskProgress(s) ==
    \/ AckBeat(s) \/ CleanUp(s)
    \/ /\ net[s] = "up"
       /\ \/ OnRegister(s)
          \/ FindBeat(s) \/ NackBeat(s)
          \/ SeeClose(s) \/ SeeEof(s)

DaemonReads(d) ==
    /\ cur[d] # None
    /\ net[cur[d]] = "up"
    /\ \/ Answered(d) \/ UnexpectedFirst(d)
       \/ RecvBeatAck(d) \/ RecvOther(d) \/ LoseSocket(d)

Fairness ==
    /\ \A s \in Sockets : WF_vars(TaskProgress(s))
    /\ \A d \in Daemons :
         /\ WF_vars(Reap(d))
         /\ WF_vars(\E s \in Sockets : Connect(d, s))
         /\ WF_vars(DaemonReads(d))
         /\ WF_vars(Heartbeat(d))
         /\ WF_vars(AckTimeout(d))
         /\ WF_vars(AckAges(d) /\ UNCHANGED faults)
         /\ WF_vars(EntryAges(d) /\ UNCHANGED faults)

FairSpec == Spec /\ Fairness

\* A controller-side socket whose path is dead is reset in the end: what the
\* task wrote to it stays unacknowledged until TCP gives up.
ResetsHappen == \A s \in Sockets : WF_vars(SeeReset(s))

-----------------------------------------------------------------------------
(* Safety. *)

\* The registry never hands out a connection nobody forwards for: the socket
\* of an entry has a handle_websocket task that has not finished, that task
\* knows the daemon's id (so its own exit will remove an entry), and the
\* socket was dialled by that very daemon (registry.rs register/remove,
\* server.rs handle_websocket).
EntryServed ==
    \A d \in Daemons : reg[d] # None =>
        /\ owner[reg[d].sock] = d
        /\ tid[reg[d].sock] = d
        /\ ServerHolds(reg[d].sock)

\* serve() takes the first frame after Register for the registration ack:
\* nothing may overtake it, although the entry is visible to the API before
\* the ack is written.
AckFirst ==
    \A d \in Daemons :
        (pc[d] = "regwait" /\ down[cur[d]] # <<>>)
            => Head(down[cur[d]]) \in {"RegisterAck", "RegisterNack"}

\* Every heartbeat a serving daemon sends over a working socket is answered:
\* the task at the other end has its id, so the arm of the Heartbeat handler
\* that stays silent is not reached.  An evicted daemon has no other way of
\* learning that it is invisible.
HeartbeatsAnswered ==
    \A d \in Daemons :
        (pc[d] = "serving" /\ net[cur[d]] = "up" /\ ServerHolds(cur[d]))
            => tid[cur[d]] = d

\* A daemon without an id is never reachable and never in the serve loop on a
\* working socket.
NamelessStaysOut ==
    \A d \in Daemons \ Named :
        /\ reg[d] = None
        /\ pc[d] = "serving" => (net[cur[d]] = "dead" \/ ~ServerHolds(cur[d]))

\* The inductive strengthening of the four invariants above.
SocketsInv ==
    \A s \in Sockets :
        /\ net[s] = "unused" =>
             /\ task[s] = "none" /\ owner[s] = None
             /\ up[s] = <<>> /\ down[s] = <<>>
        /\ task[s] = "none" => net[s] = "unused"
        /\ tid[s] # None => tid[s] = owner[s] /\ tid[s] \in Named

HoldingInv ==
    \A d \in Daemons :
        /\ pc[d] \in {"regwait", "serving"} <=> cur[d] # None
        /\ cur[d] # None => owner[cur[d]] = d /\ net[cur[d]] # "unused"

\* A connection on which the registration ack can still arrive has either
\* Register alone in flight, or the answer to it in front.
Awaiting(d, s) ==
    \/ /\ down[s] = <<>>
       /\ (net[s] = "up" /\ ServerHolds(s)) =>
             up[s] = <<"Register">> /\ task[s] = "run"
    \/ /\ down[s] # <<>>
       /\ Head(down[s]) \in {"RegisterAck", "RegisterNack"}
       /\ (Head(down[s]) = "RegisterAck" /\ ServerHolds(s)) => tid[s] = d

RegwaitInv == \A d \in Daemons : pc[d] = "regwait" => Awaiting(d, cur[d])

IInv == TypeOK /\ SocketsInv /\ HoldingInv /\ EntryServed /\ RegwaitInv
            /\ HeartbeatsAnswered

-----------------------------------------------------------------------------
(* Liveness, once the faults have stopped. *)

StuckRegistering(d) == pc[d] = "regwait" /\ net[cur[d]] = "dead"

\* The heartbeat protocol heals the registry: after evictions on live sockets,
\* replaced sockets whose late cleanup removes the new entry, and controller
\* restarts, a daemon that is still running ends up registered for good
\* (handle_heartbeat's "it must send Register again").
EventuallyVisible ==
    \A d \in Named :
        <>[](pc[d] = "stopped" \/ StuckRegistering(d) \/ reg[d] # None)

\* ... and, if TCP gives up on dead sockets, the entry leads to the socket the
\* daemon is serving, not to one it has abandoned.
EventuallyReachable ==
    ResetsHappen => \A d \in Named :
        <>[](\/ pc[d] = "stopped"
             \/ StuckRegistering(d)
             \/ reg[d] # None /\ reg[d].sock = cur[d])

\* A daemon that has gone leaves no entry behind, not even when nobody told
\* the controller (heartbeat_monitor) or when frames of its are read late.
GoneIsForgotten ==
    \A d \in Daemons : pc[d] = "stopped" ~> [](reg[d] = None)

\* The serve loop does not sit on a dead socket, although reading from it
\* blocks for ever (the heartbeat write and the ack deadline see to it).
ServingLeavesDeadSocket ==
    \A d \in Daemons, s \in Sockets :
        (pc[d] = "serving" /\ cur[d] = s /\ net[s] = "dead") ~> (cur[d] # s)

\* The same of every socket a daemon holds, the one it is registering on
\* included (main.rs: "Reconnect rather than sit on a socket that cannot
\* deliver work").
LeavesDeadSocket ==
    \A d \in Daemons, s \in Sockets :
        (cur[d] = s /\ net[s] = "dead") ~> (cur[d] # s)
=============================================================================
