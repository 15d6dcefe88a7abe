----------------------------- MODULE DocClaims -----------------------------
(***************************************************************************)
(* What the repository's documents say of the running system and the code  *)
(* does not do.  Each claim is refuted by a run of its own.                *)
(***************************************************************************)
EXTENDS MCDroneSwarm

InGate == {d \in Pids : pc[d] = "gate"}

\* README.md:47: "At any moment, movement is allowed only in one direction
\* (either entering or exiting)".  A token of the gate (dron.c:308) carries
\* no direction.
OneDirection == \A d, e \in InGate : location[d] = location[e]

\* test_2.md:29: drones that find the gate closed "stop waiting and decide to
\* try again later".  fifo_sem_lock_timeout polls with a timeout but then
\* reads a blocking descriptor (fifo.c:255).
GateWaitIsTimed == \A d \in Pids : pc[d] = "read" => tokens > 0

\* README.md:41: "Destroyed if battery reaches 0% during flight"; README.md:70
\* only defers this until the gate is passed.  A drone whose battery ran out
\* in the gate may be recharged before battery_state_check looks (dron.c:364).
DepletedIsDestroyed ==
    [][\A d \in Pids : battery_percentage[d] = 0 =>
           battery_percentage'[d] = 0 \/ pc'[d] = "none"]_vars
=============================================================================
