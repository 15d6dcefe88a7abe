-------------------------- MODULE SimulationClaims --------------------------
(***************************************************************************)
(* What the repository's documents say of a whole simulation and the code  *)
(* does not do.                                                            *)
(***************************************************************************)
EXTENDS Simulation

\* README.md:75: "The simulation ends when all of the following conditions
\* are met": the limit is 0 and all drones are gone.  The operator ends its
\* loop only in its SIGUSR2 branch (operator.c:351), and for three starting
\* drones or fewer the limit is 0 or less from the start (main.c:323), so
\* that the commander never sends SIGUSR2.
EndsWhenEmpty ==
    (/\ maximum_dron_in_base_count <= 0
     /\ next_dron_id > StartingDrones
     /\ dron_count = 0
     /\ \A d \in Pids : pc[d] = "none") ~> main_pc = "done"
=============================================================================
