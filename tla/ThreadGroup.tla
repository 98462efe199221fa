---------------------------- MODULE ThreadGroup ----------------------------
(***************************************************************************)
(* What a caller of client_pool::run and client_pool::stop may rely on     *)
(* (src/pool.hpp): the workers run from run() until stop() is called, none *)
(* of them leaves before, and all have left when stop() returns.  Once a   *)
(* worker has broken off (epoll_wait failed) others may leave early, and   *)
(* all have left when stop() returns even so.                              *)
(***************************************************************************)

CONSTANT Workers

VARIABLES
  alive,    \* workers that have not returned from epoll::wait
  state,    \* "stopped", "running" or "stopping"
  broken    \* has a worker ever broken off?

tgVars == <<alive, state, broken>>

Init ==
  /\ alive = {}
  /\ state = "stopped"
  /\ broken = FALSE

Start ==
  /\ state = "stopped"
  /\ state' = "running"
  /\ alive' = Workers
  /\ UNCHANGED broken

RequestStop ==
  /\ state = "running"
  /\ state' = "stopping"
  /\ UNCHANGED <<alive, broken>>

Exit(w) ==
  /\ state = "stopping" \/ broken
  /\ w \in alive
  /\ alive' = alive \ {w}
  /\ UNCHANGED <<state, broken>>

BreakOff(w) ==
  /\ w \in alive
  /\ alive' = alive \ {w}
  /\ broken' = TRUE
  /\ UNCHANGED state

Stopped ==
  /\ state = "stopping"
  /\ alive = {}
  /\ state' = "stopped"
  /\ UNCHANGED <<alive, broken>>

Next ==
  \/ Start \/ RequestStop \/ Stopped
  \/ \E w \in Workers : Exit(w) \/ BreakOff(w)

Spec == Init /\ [][Next]_tgVars
=============================================================================
