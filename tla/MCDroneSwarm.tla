---------------------------- MODULE MCDroneSwarm ----------------------------
(* DroneSwarm for TLC.                                                     *)
EXTENDS DroneSwarm, TLC

\* Drones differ in their pid only.
Symmetry == Permutations(Pids)
=============================================================================
