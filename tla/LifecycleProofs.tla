--------------------------- MODULE LifecycleProofs ---------------------------
(***************************************************************************)
(* Proofs about Lifecycle, for any number of restarts and faults: the type *)
(* invariant, that no dial is repeated with the map that failed, and that  *)
(* nothing is dialled after a signal that serve() has seen.                *)
(***************************************************************************)
EXTENDS Lifecycle, TLAPS

\* Every variable keeps its type, whatever the environment does to the daemon
\* (main's loop).
THEOREM TypeCorrect == Spec => []TypeOK
<1>1. Init => TypeOK
  <2> SUFFICES ASSUME Init PROVE TypeOK
      OBVIOUS
  <2>1. member \in BOOLEAN /\ stale \in BOOLEAN /\ handler \in BOOLEAN
    BY Zenon DEF Init
  <2>2. signalled \in BOOLEAN /\ conn \in BOOLEAN
    BY Zenon DEF Init
  <2>3. asked \in BOOLEAN /\ missed \in BOOLEAN /\ unfetched \in BOOLEAN
    BY Zenon DEF Init
  <2> QED BY <2>1, <2>2, <2>3 DEF Init, TypeOK
<1>2. TypeOK /\ [Next]_vars => TypeOK'
  <2> SUFFICES ASSUME TypeOK, [Next]_vars PROVE TypeOK'
      OBVIOUS
  <2> USE DEF Fault, Goto, progVars, meshVars, worldVars, history
  <2>1. CASE Direct \/ Healthy \/ Poll
    BY <2>1 DEF TypeOK, Direct, Healthy, Poll, AfterCheck
  <2>2. CASE Spawn
    BY <2>2 DEF TypeOK, Spawn
  <2>3. CASE PollFails \/ UpFails \/ IpFails
    BY <2>3 DEF TypeOK, PollFails, UpFails, IpFails, SetupFails
  <2>4. CASE Down
    <3>1. unfetched' \in BOOLEAN
      BY <2>4, Zenon DEF TypeOK, Down
    <3> QED BY <2>4, <3>1 DEF TypeOK, Down
  <2>5. CASE Up \/ Ip
    <3>1. member' \in BOOLEAN /\ unfetched' \in BOOLEAN
      BY <2>5, Zenon DEF TypeOK, Up, Ip
    <3>2. node' \in {"absent", "out", "down", "up"} /\ map' \in Nat
      BY <2>5 DEF TypeOK, Up, Ip
    <3>3. pc' \in {"ip", "dial"}
      BY <2>5 DEF Up, Ip
    <3> QED BY <2>5, <3>1, <3>2, <3>3 DEF TypeOK, Up, Ip
  <2>6. CASE Dial \/ DialFails \/ Serve
    <3>1. signalled' \in BOOLEAN /\ handler' \in BOOLEAN
      BY <2>6, Zenon DEF TypeOK, Dial, DialFails, Serve
    <3>2. conn' \in BOOLEAN /\ stale' \in BOOLEAN /\ unfetched' \in BOOLEAN
      BY <2>6, Zenon DEF TypeOK, Dial, DialFails, Serve
    <3> QED BY <2>6, <3>1, <3>2 DEF TypeOK, Dial, DialFails, Serve
  <2>7. CASE RegisterFails \/ Lost
    <3>1. conn' \in BOOLEAN /\ stale' \in BOOLEAN
      BY <2>7, Zenon DEF RegisterFails, Lost, Disconnected
    <3> QED BY <2>7, <3>1 DEF TypeOK, RegisterFails, Lost, Disconnected
  <2>8. CASE Shutdown \/ Backoff
    <3>1. conn' \in BOOLEAN
      BY <2>8, Zenon DEF TypeOK, Shutdown, Backoff
    <3> QED BY <2>8, <3>1 DEF TypeOK, Shutdown, Backoff
  <2>9. CASE Sigterm
    BY <2>9 DEF TypeOK, Sigterm
  <2>10. CASE ControllerRestart \/ ControllerUp
    <3>1. conn' \in BOOLEAN /\ listening' \in BOOLEAN
      BY <2>10, Zenon DEF TypeOK, ControllerRestart, ControllerUp
    <3> QED BY <2>10, <3>1 DEF TypeOK, ControllerRestart, ControllerUp
  <2>11. CASE MapPush
    BY <2>11 DEF TypeOK, MapPush
  <2>12. CASE Reap \/ TailscaledDies \/ Drop
    <3>1. conn' \in BOOLEAN /\ member' \in BOOLEAN
      BY <2>12, Zenon DEF TypeOK, Reap, TailscaledDies, Drop
    <3> QED BY <2>12, <3>1 DEF TypeOK, Reap, TailscaledDies, Drop
  <2>13. CASE UNCHANGED vars
    BY <2>13 DEF TypeOK, vars
  <2> QED BY <2>1, <2>2, <2>3, <2>4, <2>5, <2>6, <2>7, <2>8, <2>9, <2>10, <2>11, <2>12, <2>13
          DEF Next, Main, Environment
<1> QED BY <1>1, <1>2, PTL DEF Spec

-----------------------------------------------------------------------------
\* A dial that failed leaves stale_netmap set until a new map is there, and
\* with it set the way to the next dial leads through `tailscale down`.
StaleInv ==
    tunnel /\ unfetched =>
        /\ stale
        /\ pc \notin {"ip", "dial", "register", "serving"}
        /\ pc = "up" => node # "up"

\* Only the end of an established connection clears stale_netmap, and the way
\* there from a dial that failed leads through `tailscale down`.
LEMMA StepStale == StaleInv /\ [Next]_vars => StaleInv'
<1> SUFFICES ASSUME StaleInv, [Next]_vars PROVE StaleInv'
    OBVIOUS
<1> USE DEF StaleInv, Goto, progVars, meshVars, worldVars, history
<1>1. CASE Direct \/ Healthy \/ Poll
  BY <1>1 DEF Direct, Healthy, Poll, AfterCheck
<1>2. CASE Spawn
  BY <1>2 DEF Spawn
<1>3. CASE PollFails \/ UpFails \/ IpFails
  BY <1>3 DEF PollFails, UpFails, IpFails, SetupFails
<1>4. CASE Down
  BY <1>4 DEF Down
<1>5. CASE Up
  BY <1>5 DEF Up
<1>6. CASE Ip \/ Dial \/ DialFails \/ Serve
  BY <1>6 DEF Ip, Dial, DialFails, Serve
<1>7. CASE RegisterFails \/ Lost
  BY <1>7 DEF RegisterFails, Lost, Disconnected
<1>8. CASE Shutdown \/ Backoff
  BY <1>8 DEF Shutdown, Backoff
<1>9. CASE Sigterm
  BY <1>9 DEF Sigterm
<1>10. CASE ControllerRestart \/ ControllerUp
  BY <1>10 DEF ControllerRestart, ControllerUp
<1>11. CASE MapPush \/ Reap \/ TailscaledDies \/ Drop
  BY <1>11 DEF MapPush, Reap, TailscaledDies, Drop
<1>12. CASE UNCHANGED vars
  BY <1>12 DEF vars
<1> QED BY <1>1, <1>2, <1>3, <1>4, <1>5, <1>6, <1>7, <1>8, <1>9, <1>10, <1>11, <1>12
        DEF Next, Main, Environment

\* After a dial that failed no other is made with the same map, however often
\* setup_tunnel fails in between (stale_netmap in main's loop).
THEOREM DialsUseFreshMap == Spec => []FreshMap
<1>1. Init => StaleInv
  BY DEF Init, StaleInv
<1>2. StaleInv => FreshMap
  BY DEF StaleInv, FreshMap
<1> QED BY <1>1, <1>2, StepStale, PTL DEF Spec

-----------------------------------------------------------------------------
\* The signal future of a serve() is never ready outside of it.
SignalInv == signalled => pc \in {"serving", "exited"}

\* serve() returns when its signal future is ready; nothing else moves then.
LEMMA StepSignal ==
    SignalInv /\ [Next]_vars =>
        SignalInv' /\ (signalled => pc' \in {"serving", "exited"})
<1> SUFFICES ASSUME SignalInv, [Next]_vars
             PROVE  SignalInv' /\ (signalled => pc' \in {"serving", "exited"})
    OBVIOUS
<1> USE DEF SignalInv, Goto, progVars, meshVars, worldVars, history
<1>1. CASE Direct \/ Healthy \/ Poll \/ Spawn
  BY <1>1 DEF Direct, Healthy, Poll, Spawn, AfterCheck
<1>2. CASE PollFails \/ UpFails \/ IpFails
  BY <1>2 DEF PollFails, UpFails, IpFails, SetupFails
<1>3. CASE Down \/ Up \/ Ip
  BY <1>3 DEF Down, Up, Ip
<1>4. CASE Dial \/ DialFails \/ Serve
  BY <1>4 DEF Dial, DialFails, Serve
<1>5. CASE RegisterFails \/ Lost
  BY <1>5 DEF RegisterFails, Lost, Disconnected
<1>6. CASE Shutdown \/ Backoff
  BY <1>6 DEF Shutdown, Backoff
<1>7. CASE Sigterm
  BY <1>7 DEF Sigterm
<1>8. CASE ControllerRestart \/ ControllerUp
  BY <1>8 DEF ControllerRestart, ControllerUp
<1>9. CASE MapPush \/ Reap \/ TailscaledDies \/ Drop
  BY <1>9 DEF MapPush, Reap, TailscaledDies, Drop
<1>10. CASE UNCHANGED vars
  BY <1>10 DEF vars
<1> QED BY <1>1, <1>2, <1>3, <1>4, <1>5, <1>6, <1>7, <1>8, <1>9, <1>10
        DEF Next, Main, Environment

\* Once a SIGTERM has been seen by serve() the daemon leaves for good: a
\* connection that is lost at the same moment is not dialled again (`biased`
\* in the select, session_outcome).
THEOREM TermIsFinal == Spec => NoDialAfterTerm
<1>1. Init => SignalInv
  BY DEF Init, SignalInv
<1> QED BY <1>1, StepSignal, PTL DEF Spec, NoDialAfterTerm
=============================================================================
