------------------------------ MODULE Lifecycle ------------------------------
(***************************************************************************)
(* The daemon process from start to exit (sandd/src/main.rs): main's loop  *)
(* with its backoff and stale_netmap, setup_tunnel, connect_and_serve, and *)
(* the signal that ends it.  Inside serve() only what the loop sees is     *)
(* left: DaemonLink has the rest.                                          *)
(*                                                                         *)
(* tailscaled, headscale and the controller are the environment.  The      *)
(* controller takes a new mesh address with every restart; tailscaled      *)
(* dials the address in the map it fetched last.  headscale may push a new *)
(* map or not; it forgets nodes (reaps).                                   *)
(***************************************************************************)
EXTENDS Integers

CONSTANTS
    MaxRestarts, \* bound: restarts of the controller
    MaxFaults    \* bound: everything else the environment does wrong

ASSUME BoundsAssumption == MaxRestarts \in Nat /\ MaxFaults \in Nat

VARIABLES
    pc,        \* main: "check" "poll" "down" "up" "ip" are in setup_tunnel
    stale,     \* stale_netmap
    handler,   \* tokio has taken SIGTERM over; it never gives it back
    signalled, \* the shutdown future of this serve() is ready
    conn,      \* the connection of this serve() is intact
    node,      \* tailscaled: "absent" (no process), "out", "down" or "up"
    member,    \* headscale knows the node
    map,       \* the controller's address in tailscaled's map
    tunnel,    \* --tunnel
    addr,      \* the controller's address
    listening, \* the controller is there
    faults,
    asked,     \* history: SIGTERM was sent ...
    missed,    \* ... and nobody was waiting for it
    unfetched  \* history: no map was fetched since a dial failed

progVars == <<pc, stale, handler, signalled>>
meshVars == <<node, member, map>>
worldVars == <<tunnel, addr, listening>>
history  == <<asked, missed, unfetched>>
vars == <<progVars, conn, meshVars, worldVars, faults, history>>

TypeOK ==
    /\ pc \in {"check", "poll", "down", "up", "ip", "dial", "register", "serving",
               "backoff", "exited"}
    /\ stale \in BOOLEAN /\ handler \in BOOLEAN /\ signalled \in BOOLEAN
    /\ conn \in BOOLEAN
    /\ node \in {"absent", "out", "down", "up"}
    /\ member \in BOOLEAN
    /\ map \in Nat /\ addr \in Nat
    /\ tunnel \in BOOLEAN /\ listening \in BOOLEAN
    /\ faults \in Nat
    /\ asked \in BOOLEAN /\ missed \in BOOLEAN /\ unfetched \in BOOLEAN

Init ==
    /\ pc = "check" /\ stale = FALSE
    /\ handler = FALSE /\ signalled = FALSE
    /\ conn = FALSE
    /\ node \in {"absent", "out", "up"} /\ member = (node = "up")
    /\ map = 0 /\ addr = 0 /\ tunnel \in BOOLEAN /\ listening \in BOOLEAN
    /\ faults = 0
    /\ asked = FALSE /\ missed = FALSE /\ unfetched = FALSE

Fault == faults < MaxFaults /\ faults' = faults + 1

-----------------------------------------------------------------------------
(* setup_tunnel *)

Goto(from, to) == pc = from /\ pc' = to
AfterCheck == IF stale THEN "down" ELSE "up"

\* Mutant: a failed setup forgets that the map is stale.
SetupFails_Forgets(from) ==
    /\ Goto(from, "backoff")
    /\ stale' = FALSE
    /\ UNCHANGED <<handler, signalled, conn, worldVars, history>>

\* Any error: logged, backoff, `continue`.
SetupFails(from) ==
    /\ Goto(from, "backoff")
    /\ UNCHANGED <<stale, handler, signalled, conn, worldVars, history>>

Direct ==
    /\ ~tunnel
    /\ Goto("check", "dial")
    /\ UNCHANGED <<stale, handler, signalled, conn, meshVars, worldVars, faults, history>>

\* The SOCKS port answers and `tailscale status` succeeds.
Healthy ==
    /\ tunnel
    /\ node = "up"
    /\ Goto("check", AfterCheck)
    /\ UNCHANGED <<stale, handler, signalled, conn, meshVars, worldVars, faults, history>>

\* Mutant: nobody has an idea of a tailscaled that is still starting.
Spawn_Starting ==
    /\ tunnel
    /\ node # "up"
    /\ Goto("check", "poll")
    /\ node' = "starting"
    /\ UNCHANGED <<stale, handler, signalled, conn, member, map, worldVars, faults, history>>

\* Otherwise start one: it takes its last state from its state file, or exits
\* at once when there is another.
Spawn ==
    /\ tunnel
    /\ node # "up"
    /\ Goto("check", "poll")
    /\ IF node = "absent" THEN node' \in {"absent", "out", "down", "up"}
                          ELSE UNCHANGED node
    /\ IF node' = "absent" THEN Fault ELSE UNCHANGED faults
    /\ UNCHANGED <<stale, handler, signalled, conn, member, map, worldVars, history>>

\* Mutant: the poll, too, asks for `tailscale status`.
Poll_Status ==
    /\ node = "up"
    /\ Goto("poll", AfterCheck)
    /\ UNCHANGED <<stale, handler, signalled, conn, meshVars, worldVars, faults, history>>

\* Up to 20 tries at the port, and only at the port: before the first
\* `tailscale up` the status is an error.
Poll ==
    /\ node # "absent"
    /\ Goto("poll", AfterCheck)
    /\ UNCHANGED <<stale, handler, signalled, conn, meshVars, worldVars, faults, history>>

PollFails == node = "absent" /\ SetupFails("poll") /\ UNCHANGED <<meshVars, faults>>

\* `tailscale down`, whose result is ignored.
Down ==
    /\ Goto("down", "up")
    /\ \/ node' = (IF node = "up" THEN "down" ELSE node) /\ UNCHANGED <<faults, unfetched>>
       \/ UNCHANGED node /\ Fault /\ unfetched' = FALSE
    /\ UNCHANGED <<stale, handler, signalled, conn, member, map, worldVars, asked, missed>>

\* `tailscale up`: nothing happens to a node that is up and known.
Up ==
    /\ Goto("up", "ip")
    /\ node # "absent"
    /\ IF node = "up" /\ member
       THEN UNCHANGED <<meshVars, unfetched>>
       ELSE node' = "up" /\ member' = TRUE /\ map' = addr /\ unfetched' = FALSE
    /\ UNCHANGED <<stale, handler, signalled, conn, worldVars, faults, asked, missed>>

UpFails ==
    /\ SetupFails("up")
    /\ IF node = "absent" THEN UNCHANGED faults ELSE Fault
    /\ UNCHANGED meshVars

\* Up to 30 looks for an address.
Ip ==
    /\ node = "up" /\ member
    /\ Goto("ip", "dial")
    /\ UNCHANGED <<stale, handler, signalled, conn, meshVars, worldVars, faults, history>>

IpFails ==
    /\ SetupFails("ip")
    /\ IF node = "up" /\ member THEN Fault ELSE UNCHANGED faults
    /\ UNCHANGED meshVars

-----------------------------------------------------------------------------
(* connect_and_serve *)

Reachable == listening /\ (tunnel => node = "up" /\ member /\ map = addr)

Dial ==
    /\ Reachable
    /\ Goto("dial", "register")
    /\ conn' = TRUE
    /\ UNCHANGED <<stale, handler, signalled, meshVars, worldVars, faults, history>>

\* Never established: the map may be stale.
DialFails ==
    /\ Goto("dial", "backoff")
    /\ stale' = TRUE
    /\ unfetched' = TRUE
    /\ IF Reachable THEN Fault ELSE UNCHANGED faults
    /\ UNCHANGED <<handler, signalled, conn, meshVars, worldVars, asked, missed>>

\* The ack, another message, or the end of the stream: each ends the wait.  The
\* loop polls shutdown_signal() for the first time.
Serve ==
    /\ Goto("register", "serving")
    /\ handler' = TRUE
    /\ signalled' = FALSE
    /\ UNCHANGED <<stale, conn, meshVars, worldVars, faults, history>>

\* Established and lost: session_outcome makes every error Disconnected.
Disconnected ==
    /\ pc' = "backoff"
    /\ stale' = FALSE
    /\ conn' = FALSE
    /\ UNCHANGED <<handler, meshVars, worldVars, history>>

\* Register could not be sent, or was refused.
RegisterFails ==
    /\ pc = "register"
    /\ Disconnected
    /\ IF conn THEN Fault ELSE UNCHANGED faults
    /\ UNCHANGED signalled

\* Mutant: the branches of the select in any order.
Lost_Unbiased ==
    /\ pc = "serving" /\ ~conn
    /\ Disconnected
    /\ UNCHANGED <<signalled, faults>>

\* A Close, an error, the end of the stream, or one of the deadlines.
Lost ==
    /\ pc = "serving" /\ ~conn /\ ~signalled
    /\ Disconnected
    /\ UNCHANGED <<signalled, faults>>

\* Mutant: a clean shutdown is one more disconnection.
Shutdown_Reconnects ==
    /\ pc = "serving" /\ signalled
    /\ Disconnected
    /\ signalled' = FALSE
    /\ UNCHANGED faults

\* `biased`: looked at before anything else.
Shutdown ==
    /\ signalled
    /\ Goto("serving", "exited")
    /\ conn' = FALSE
    /\ UNCHANGED <<stale, handler, signalled, meshVars, worldVars, faults, history>>

Backoff ==
    /\ Goto("backoff", "check")
    /\ UNCHANGED <<stale, handler, signalled, conn, meshVars, worldVars, faults, history>>

Main ==
    \/ Direct \/ Healthy \/ Spawn \/ Poll \/ PollFails \/ Down \/ Up \/ UpFails
    \/ Ip \/ IpFails \/ Dial \/ DialFails \/ Serve \/ RegisterFails \/ Lost
    \/ Shutdown \/ Backoff

-----------------------------------------------------------------------------
(* The environment *)

\* A signal reaches the futures that wait for one at that moment; without any
\* handler it ends the process.
Sigterm ==
    /\ ~asked /\ pc # "exited"
    /\ asked' = TRUE
    /\ pc' = IF handler THEN pc ELSE "exited"
    /\ signalled' = (signalled \/ (handler /\ pc = "serving"))
    /\ missed' = (handler /\ pc # "serving")
    /\ UNCHANGED <<stale, handler, conn, meshVars, worldVars, faults, unfetched>>

ControllerRestart ==
    /\ addr < MaxRestarts
    /\ addr' = addr + 1
    /\ listening' \in BOOLEAN
    /\ conn' = FALSE
    /\ UNCHANGED <<progVars, meshVars, tunnel, faults, history>>

ControllerUp ==
    /\ ~listening
    /\ listening' = TRUE
    /\ UNCHANGED <<progVars, conn, meshVars, tunnel, addr, faults, history>>

MapPush ==
    /\ tunnel /\ node = "up" /\ member /\ map # addr
    /\ map' = addr
    /\ UNCHANGED <<progVars, conn, node, member, worldVars, faults, history>>

Reap ==
    /\ tunnel /\ member /\ Fault
    /\ member' = FALSE
    /\ conn' = FALSE
    /\ UNCHANGED <<progVars, node, map, worldVars, history>>

TailscaledDies ==
    /\ tunnel /\ node # "absent" /\ Fault
    /\ node' = "absent"
    /\ conn' = FALSE
    /\ UNCHANGED <<progVars, member, map, worldVars, history>>

Drop ==
    /\ conn /\ Fault
    /\ conn' = FALSE
    /\ UNCHANGED <<progVars, meshVars, worldVars, history>>

Environment ==
    \/ Sigterm \/ ControllerRestart \/ ControllerUp \/ MapPush \/ Reap
    \/ TailscaledDies \/ Drop

Next == Main \/ Environment

Spec == Init /\ [][Next]_vars

\* The program goes on, and the controller comes back.  Nothing is asked of
\* signals, of map pushes or of faults.
FairSpec == Spec /\ WF_vars(Main) /\ WF_vars(ControllerUp)

-----------------------------------------------------------------------------
\* After a dial that failed no other is made with the same map, unless
\* `tailscale down` itself did not work.
FreshMap == tunnel /\ pc = "dial" => ~unfetched

\* Whatever was restarted, reaped, killed or dropped, and as often as setup
\* failed in between: the daemon serves again, or was told to stop.
Reconnects == []<>(pc \in {"serving", "exited"})

\* A SIGTERM ends the process unless nobody waited for it.
TermObeyed == (asked /\ ~missed) ~> (pc = "exited")

\* ... with no other connection made meanwhile.
NoDialAfterTerm == [][signalled => pc' \in {"serving", "exited"}]_vars
=============================================================================
