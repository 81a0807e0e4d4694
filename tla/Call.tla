-------------------------------- MODULE Call --------------------------------
(***************************************************************************)
(* What the controller's request/response API promises a caller of exec:   *)
(* the request runs at most once on a daemon, and an answer is only given  *)
(* for a request that ran.  A caller may give up at any moment, before or  *)
(* after its request ran, and a request may still run after that.          *)
(***************************************************************************)
CONSTANT Reqs

VARIABLES status, ran

Init == status = [r \in Reqs |-> "idle"] /\ ran = {}

Start(r) ==
    /\ status[r] = "idle"
    /\ status' = [status EXCEPT ![r] = "open"]
    /\ UNCHANGED ran

\* The daemon is gone or its channel is closed: nothing was sent.
Reject(r) ==
    /\ status[r] \in {"idle", "open"}
    /\ r \notin ran
    /\ status' = [status EXCEPT ![r] = "rejected"]
    /\ UNCHANGED ran

\* A rejected request never runs; a timed-out one may.
Run(r) ==
    /\ status[r] \in {"open", "timedout"}
    /\ r \notin ran
    /\ ran' = ran \cup {r}
    /\ UNCHANGED status

Answer(r) ==
    /\ status[r] = "open"
    /\ r \in ran
    /\ status' = [status EXCEPT ![r] = "answered"]
    /\ UNCHANGED ran

TimeOut(r) ==
    /\ status[r] = "open"
    /\ status' = [status EXCEPT ![r] = "timedout"]
    /\ UNCHANGED ran

Next == \E r \in Reqs :
            Start(r) \/ Reject(r) \/ Run(r) \/ Answer(r) \/ TimeOut(r)

Spec == Init /\ [][Next]_<<status, ran>>
=============================================================================
