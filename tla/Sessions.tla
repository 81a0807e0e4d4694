------------------------------ MODULE Sessions ------------------------------
(***************************************************************************)
(* An interactive session over the control plane of DaemonLink: the        *)
(* Session handle of the Python binding (server/src/python.rs), the        *)
(* `sessions` map of a DaemonConnection (server/src/registry.rs), the      *)
(* session manager a serve loop owns (sandd/src/main.rs) and the PTY with  *)
(* its reader task (sandd/src/session.rs).                                 *)
(*                                                                         *)
(* Session ids are UUIDs and every map is keyed by them, so one session    *)
(* stands for all.  The reader task keeps a clone of ws_tx: it outlives    *)
(* serve(), and as long as it lives the socket is not closed.              *)
(* SessionStarted is not here: the controller ignores it.                  *)
(***************************************************************************)
EXTENDS DaemonLink

CONSTANTS
    Outputs,  \* what the shell prints, a sequence of chunks (SessionOutput)
    MaxCalls  \* bound: calls on the Session handle

\* A chunk of output is no other frame.
ASSUME OutputsAssumption ==
    /\ Outputs \in Seq({Outputs[i] : i \in DOMAIN Outputs})
    /\ {Outputs[i] : i \in DOMAIN Outputs} \cap (UpFrames \cup {"SessionExit"}) = {}
    /\ MaxCalls \in Nat

Outs == {Outputs[i] : i \in 1..Len(Outputs)}

VARIABLES
    sess,    \* where the caller is with its Session
    host,    \* its daemon_id
    hold,    \* the Arc<DaemonConnection> a call holds ...
    link,    \* ... and the socket its request_tx leads to
    sender,  \* the connections whose sessions map holds this session's sender
    rx,      \* all that was put into the session's mpsc channel: read() takes
             \* from its front, which no other step can see
    calls,   \* calls on the handle so far
    chan,    \* request_rx of a socket's task
    mgr,     \* the serve loop's session manager has the session
    shell,   \* the processes on the PTY
    eof,     \* the PTY's writer is dropped, which types an end-of-file
    out,     \* how many chunks the reader task has taken from the PTY
    reader,  \* the reader task
    rsock    \* the socket of the ws_tx it holds

callerVars == <<sess, host, hold, link, calls>>
mapVars    == <<sender, rx, chan>>
ptyVars    == <<mgr, shell, eof, out, reader, rsock>>
sessVars   == <<callerVars, mapVars, ptyVars>>
allVars    == <<vars, sessVars>>

SessTypeOK ==
    /\ sess \in {"idle", "got", "registered", "open", "failed"}
    /\ host \in Daemons \cup {None}
    /\ hold \in Conns \cup {None}
    /\ link \in Sockets \cup {None}
    /\ sender \subseteq Conns
    /\ rx \in Seq(Outs)
    /\ calls \in 0..MaxCalls
    /\ chan \in [Sockets -> Seq({"NewSession", "SessionInput", "SessionClose"})]
    /\ mgr \in BOOLEAN /\ eof \in BOOLEAN
    /\ shell \in {"none", "running", "exited"}
    /\ out \in 0..Len(Outputs)
    /\ reader \in {"none", "run", "done"}
    /\ rsock \in Sockets \cup {None}

SessInit ==
    /\ Init
    /\ sess = "idle" /\ host = None
    /\ hold = None /\ link = None
    /\ sender = {} /\ rx = <<>> /\ calls = 0
    /\ chan = [s \in Sockets |-> <<>>]
    /\ mgr = FALSE /\ shell = "none" /\ eof = FALSE
    /\ out = 0
    /\ reader = "none" /\ rsock = None

-----------------------------------------------------------------------------
(* The caller: new_session, write and close in python.rs. *)

\* registry.get at the start of every call.  (No entry: an error, and nothing
\* has changed.)
GetConn(d) ==
    /\ hold = None
    /\ reg[d] # None
    /\ \/ sess = "idle" /\ sess' = "got" /\ UNCHANGED calls
       \/ /\ sess = "open" /\ d = host /\ calls < MaxCalls
          /\ calls' = calls + 1
          /\ UNCHANGED sess
    /\ host' = d
    /\ hold' = reg[d].conn
    /\ link' = reg[d].sock
    /\ UNCHANGED <<vars, mapVars, ptyVars>>

\* Mutant: the session is registered once NewSession is out.
RegisterSession_Late ==
    /\ \/ sess = "got" /\ sess' = "registered" /\ UNCHANGED sender
       \/ /\ sess = "open" /\ sender = {} /\ reg[host] # None
          /\ sender' = {reg[host].conn}
          /\ UNCHANGED sess
    /\ UNCHANGED <<vars, host, hold, link, calls, rx, chan, ptyVars>>

RegisterSession ==
    /\ sess = "got"
    /\ sess' = "registered"
    /\ sender' = sender \cup {hold}
    /\ UNCHANGED <<vars, host, hold, link, calls, rx, chan, ptyVars>>

\* send_message: queued unless the socket's task has finished; the call is over.
Send(frame) ==
    /\ hold # None
    /\ hold' = None /\ link' = None
    /\ chan' = IF ServerHolds(link)
               THEN [chan EXCEPT ![link] = Append(@, frame)] ELSE chan
    /\ UNCHANGED <<vars, host, calls, sender, rx, ptyVars>>

SendNew ==
    /\ sess = "registered"
    /\ sess' = IF ServerHolds(link) THEN "open" ELSE "failed"
    /\ Send("NewSession")

\* resize is a write that only changes the window.
Write == sess = "open" /\ Send("SessionInput") /\ UNCHANGED sess

Close == sess = "open" /\ Send("SessionClose") /\ UNCHANGED sess

-----------------------------------------------------------------------------
(* The socket's task. *)

\* The reader task holds the socket open: no FIN or RST goes out.
HeldOpen(s) == net[s] = "up" /\ reader = "run" /\ rsock = s

Forward(s) ==
    /\ task[s] = "run" /\ chan[s] # <<>>
    /\ chan' = [chan EXCEPT ![s] = Tail(@)]
    /\ \/ /\ down' = Sent(down, s, Head(chan[s]), DaemonHolds(s))
          /\ UNCHANGED <<serverVars, net, owner, up, daemonVars, faults>>
       \/ /\ net[s] = "dead" \/ ~DaemonHolds(s)
          /\ ~HeldOpen(s)
          /\ LeaveLoop(s)
    /\ UNCHANGED <<callerVars, sender, rx, ptyVars>>

\* The registered connection, if it knows the session.
Known(s) ==
    /\ tid[s] # None
    /\ reg[tid[s]] # None
    /\ reg[tid[s]].conn \in sender

TakesFrame(s, f) ==
    /\ Reads(s, f)
    /\ up' = [up EXCEPT ![s] = Tail(@)]
    /\ UNCHANGED <<serverVars, net, owner, down, daemonVars, faults>>

RecvOutput(s, o) ==
    /\ TakesFrame(s, o)
    /\ rx' = IF Known(s) THEN Append(rx, o) ELSE rx
    /\ UNCHANGED <<callerVars, sender, chan, ptyVars>>

\* Mutant: the caller finds the end of the session in its data.
RecvExit_Forwards(s) ==
    /\ TakesFrame(s, "SessionExit")
    /\ rx' = IF Known(s) THEN Append(rx, "SessionExit") ELSE rx
    /\ UNCHANGED <<callerVars, sender, chan, ptyVars>>

\* close_session drops the sender; the caller may still read what is queued.
RecvExit(s) ==
    /\ TakesFrame(s, "SessionExit")
    /\ sender' = IF Known(s) THEN sender \ {reg[tid[s]].conn} ELSE sender
    /\ UNCHANGED <<callerVars, rx, chan, ptyVars>>

-----------------------------------------------------------------------------
(* The daemon: the session arms of handle_message. *)

Handles(d, f) ==
    /\ pc[d] = "serving"
    /\ Receives(d, f)
    /\ Consume(d)
    /\ acked' = [acked EXCEPT ![d] = TRUE]
    /\ UNCHANGED <<serverVars, net, owner, up, pc, cur, faults, callerVars, mapVars>>

StartShell(d) ==
    /\ Handles(d, "NewSession")
    /\ mgr' = TRUE
    /\ shell' = "running"
    /\ reader' = "run"
    /\ rsock' = cur[d]
    /\ UNCHANGED <<eof, out>>

\* No PTY or no shell: only the ignored SessionStarted says so.
StartFails(d) ==
    /\ Handles(d, "NewSession")
    /\ UNCHANGED ptyVars

\* Typed into the PTY, or dropped with a log line when there is no session.
Type(d) ==
    /\ Handles(d, "SessionInput")
    /\ UNCHANGED ptyVars

\* The handle is removed and dropped: the writer types an end-of-file, the
\* reader is left alone.
DropHandle ==
    /\ mgr' = FALSE
    /\ eof' = (eof \/ mgr)

CloseShell(d) ==
    /\ Handles(d, "SessionClose")
    /\ DropHandle
    /\ UNCHANGED <<shell, out, reader, rsock>>

-----------------------------------------------------------------------------
(* The PTY and its reader task. *)

ReaderGone(s) == net[s] = "dead" \/ ~ServerHolds(s)

ReadPty ==
    /\ reader = "run" /\ shell = "running"
    /\ out < Len(Outputs)
    /\ out' = out + 1
    /\ \/ /\ up' = Sent(up, rsock, Outputs[out + 1], ServerHolds(rsock))
          /\ UNCHANGED reader
       \/ /\ ReaderGone(rsock)
          /\ reader' = "done"
          /\ UNCHANGED up
    /\ UNCHANGED <<serverVars, net, owner, down, daemonVars, faults>>
    /\ UNCHANGED <<callerVars, mapVars, mgr, shell, eof, rsock>>

\* Mutant: the task ends at the end of the file without a word.
ReadEof_Mute ==
    /\ reader = "run" /\ shell = "exited"
    /\ reader' = "done"
    /\ UNCHANGED <<vars, callerVars, mapVars, mgr, shell, eof, out, rsock>>

ReadEof ==
    /\ reader = "run" /\ shell = "exited"
    /\ up' = Sent(up, rsock, "SessionExit", ServerHolds(rsock))
    /\ reader' = "done"
    /\ UNCHANGED <<serverVars, net, owner, down, daemonVars, faults>>
    /\ UNCHANGED <<callerVars, mapVars, mgr, shell, eof, out, rsock>>

\* The shell and whatever it started end when they please (and what they
\* printed has been read) ...
ShellExits ==
    /\ shell = "running"
    /\ shell' = "exited"
    /\ UNCHANGED <<vars, callerVars, mapVars, mgr, eof, out, reader, rsock>>

\* ... and must end when the last descriptor of the master is closed: the
\* fairness below asks for this step.
HangUp ==
    /\ ~mgr /\ reader = "done"
    /\ ShellExits

-----------------------------------------------------------------------------
(* The control plane's steps, with what they do to the session. *)

\* Mutant: senders are kept per daemon, so a new connection has them too.
Register_Inherits(s, c) ==
    /\ c # hold
    /\ HandleRegister(s, c)
    /\ sender' = IF sender # {} THEN sender \cup {c} ELSE sender
    /\ UNCHANGED <<callerVars, rx, chan, ptyVars>>

\* DaemonConnection::new starts with an empty sessions map.
Register(s, c) ==
    /\ c # hold
    /\ HandleRegister(s, c)
    /\ sender' = sender \ {c}
    /\ UNCHANGED <<callerVars, rx, chan, ptyVars>>

DropChannel(s) ==
    /\ CleanUp(s)
    /\ chan' = [chan EXCEPT ![s] = <<>>]
    /\ UNCHANGED <<callerVars, sender, rx, ptyVars>>

SeeEnd(s) ==
    /\ ~HeldOpen(s)
    /\ SeeEof(s) \/ SeeReset(s)
    /\ UNCHANGED sessVars

TaskStep(s) ==
    /\ \/ RefuseRegister(s) \/ SeeClose(s)
       \/ FindBeat(s) \/ AckBeat(s) \/ NackBeat(s)
    /\ UNCHANGED sessVars

\* Mutant: the session manager lives outside serve().
LeaveServe_Keeps(d) ==
    /\ LoseSocket(d) \/ AckTimeout(d)
    /\ UNCHANGED sessVars

\* serve() returns and drops its session manager.
LeaveServe(d) ==
    /\ LoseSocket(d) \/ AckTimeout(d)
    /\ IF d = host THEN DropHandle ELSE UNCHANGED <<mgr, eof>>
    /\ UNCHANGED <<callerVars, mapVars, shell, out, reader, rsock>>

\* The process is over, its tasks and its side of the PTY with it; with the
\* container the shell goes too, otherwise it is hung up.
ProcessEnds(d) ==
    /\ \/ Shutdown(d) /\ UNCHANGED shell
       \/ /\ DaemonCrash(d)
          /\ shell' = IF d = host /\ shell = "running" THEN "exited" ELSE shell
    /\ IF d = host
       THEN DropHandle /\ reader' = IF reader = "run" THEN "done" ELSE reader
       ELSE UNCHANGED <<mgr, eof, reader>>
    /\ UNCHANGED <<callerVars, mapVars, out, rsock>>

LoopStep(d) ==
    /\ \/ \E s \in Sockets : Connect(d, s)
       \/ Registered(d) \/ Refused(d) \/ UnexpectedFirst(d)
       \/ RecvBeatAck(d) \/ RecvOther(d)
    /\ UNCHANGED sessVars

Background(d) ==
    /\ Heartbeat(d) \/ Reap(d) \/ EntryAges(d) \/ AckAges(d)
    /\ UNCHANGED sessVars

PathBreaks(s) == Break(s) /\ UNCHANGED sessVars

-----------------------------------------------------------------------------
Caller ==
    \/ \E d \in Daemons : GetConn(d)
    \/ RegisterSession \/ SendNew \/ Write \/ Close

SocketStep(s) ==
    \/ \E c \in Conns : Register(s, c)
    \/ \E o \in Outs : RecvOutput(s, o)
    \/ RecvExit(s) \/ Forward(s) \/ DropChannel(s) \/ SeeEnd(s) \/ TaskStep(s)

DaemonStep(d) ==
    \/ StartShell(d) \/ StartFails(d) \/ CloseShell(d) \/ Type(d)
    \/ LoopStep(d) \/ LeaveServe(d) \/ ProcessEnds(d) \/ Background(d)

Pty == ReadPty \/ ReadEof \/ ShellExits

SessNext ==
    \/ Caller \/ Pty
    \/ \E s \in Sockets : SocketStep(s) \/ PathBreaks(s)
    \/ \E d \in Daemons : DaemonStep(d)

SessSpec == SessInit /\ [][SessNext]_allVars

\* The fairness of DaemonLink, the calling thread and the reader task.
\* Nothing is assumed of the programs on the PTY: they may print nothing and
\* may ignore the end of their input.
SessFairness ==
    /\ \A s \in Sockets :
         /\ WF_allVars(net[s] = "up" /\ (TaskStep(s) \/ SeeEnd(s)))
         /\ WF_allVars(net[s] = "up" /\ \E c \in Conns : Register(s, c))
         /\ WF_allVars(net[s] = "up" /\ (RecvExit(s) \/ \E o \in Outs : RecvOutput(s, o)))
         /\ WF_allVars(AckBeat(s) /\ UNCHANGED sessVars)
         /\ WF_allVars(DropChannel(s))
    /\ \A d \in Daemons :
         /\ WF_allVars(LoopStep(d) /\ (DaemonReads(d) \/ \E s \in Sockets : Connect(d, s)))
         /\ WF_allVars(StartShell(d) \/ StartFails(d) \/ CloseShell(d) \/ Type(d))
         /\ WF_allVars(LeaveServe(d))
         /\ WF_allVars(Background(d) /\ (Heartbeat(d) \/ Reap(d)))
         /\ WF_allVars(Background(d) /\ EntryAges(d) /\ UNCHANGED faults)
         /\ WF_allVars(Background(d) /\ AckAges(d) /\ UNCHANGED faults)
    /\ WF_allVars(RegisterSession \/ SendNew \/ Write \/ Close)
    /\ WF_allVars(ReadEof)
    /\ WF_allVars(HangUp)

SessFairSpec == SessSpec /\ SessFairness

-----------------------------------------------------------------------------
(* Safety. *)

\* How many chunks come before the rest of a socket's queue: those that were
\* put into the channel and those among the first i frames in flight.
Passed(s, i) == Len(rx) + Cardinality({j \in 1..i : up[s][j] \in Outs})

\* What the caller reads is what the shell printed, from the start and
\* without a gap, whatever happens to sockets and connections: once a chunk
\* is dropped nothing more arrives.
ReadsPrefix ==
    Len(rx) <= out /\ rx = SubSeq(Outputs, 1, Len(rx))

\* Nothing is dropped while the connection the session was opened through is
\* the registered one and the path works: read, queued and in flight together
\* are all the reader task has taken from the PTY.
OutputKept ==
    (/\ rsock # None
     /\ host # None /\ reg[host] # None /\ reg[host].conn \in sender
     /\ net[rsock] = "up" /\ ServerHolds(rsock))
        => /\ Passed(rsock, Len(up[rsock])) = out
           /\ \A i \in 1..Len(up[rsock]) :
                 up[rsock][i] \in Outs => up[rsock][i] = Outputs[Passed(rsock, i)]

-----------------------------------------------------------------------------
(* Liveness. *)

\* The connections somebody still holds; the maps of the others are gone.
LiveConns == ({reg[d].conn : d \in {x \in Daemons : reg[x] # None}}
                 \cup {beat[s] : s \in Sockets} \cup {hold}) \ {None}

\* When the shell has ended, or died with its daemon, the caller's channel is
\* closed in the end: no connection keeps a sender for a session that is over.
EndClosesChannel == (shell = "exited") ~> (sender \cap LiveConns = {})

\* A socket its daemon has left is closed, unless a program on the PTY goes
\* on after the end of its input: until the socket is closed the controller's
\* task for it stays, and its late clean-up evicts the daemon's new entry.
AbandonedIsClosed ==
    \A s \in Sockets :
        (task[s] = "run" /\ net[s] = "up" /\ ~DaemonHolds(s))
            ~> (task[s] # "run" \/ net[s] = "dead" \/ (shell = "running" /\ eof))
=============================================================================
