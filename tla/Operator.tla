------------------------------ MODULE Operator ------------------------------
(***************************************************************************)
(* operator/operator.c: the process that forks the drones and changes the  *)
(* base limit when the commander signals it.  op_pc is where its main is:  *)
(*                                                                         *)
(*   boot       main before generate_starting_drones (exec, handlers,      *)
(*              shared memory)                                             *)
(*   starting   generate_starting_drones                                   *)
(*   top        top of the loop                                            *)
(*   inc_lock   in the SIGUSR1 branch, waits for the semaphore             *)
(*   usr2       behind a SIGUSR1 branch that was taken                     *)
(*   dec_lock   in the SIGUSR2 branch, waits for the semaphore             *)
(*   check      behind a SIGUSR2 branch that was taken                     *)
(*   create     can_create_dron was true: about to fork                    *)
(*   closing    close_main, waiting for every drone it forked              *)
(*   done       the process has exited                                     *)
(*                                                                         *)
(* Testing a flag that is down is not a step (see module Drone).           *)
(* describe_self only reads and is left out.                               *)
(***************************************************************************)
EXTENDS Drone

CONSTANT IdBound    \* bound of the model on the ids ever given out

ASSUME OperatorAssumption == IdBound \in Nat

VARIABLES
    op_pc,
    forked,         \* the loop counter of generate_starting_drones
    op_sigusr1,     \* got_sigusr1: s1, double the limit
    op_sigusr2,     \* got_sigusr2: s2, halve the limit
    op_shutdown     \* got_shutdown_requested

opFlags == <<op_sigusr1, op_sigusr2, op_shutdown>>
opVars  == <<op_pc, forked, opFlags>>

OperatorInit ==
    /\ op_pc = "boot"
    /\ forked = 0
    /\ op_sigusr1 = FALSE
    /\ op_sigusr2 = FALSE
    /\ op_shutdown = FALSE

OpGoto(from, to) == op_pc = from /\ op_pc' = to

\* Drones that will still ask for an id.
Booting == {d \in Pids : pc[d] \in {"boot", "add_lock", "add_cs"}}

\* Beyond the bound every fork fails, as it does at the process limit of
\* the system.
CanFork == next_dron_id + Cardinality(Booting) <= IdBound

\* main up to generate_starting_drones.
OpSetup ==
    /\ OpGoto("boot", "starting")
    /\ UNCHANGED <<forked, opFlags, droneVars, shmVars, semVars, tokens>>

\* exec, the logger, sigaction, get_configuration_from_shm_config or
\* get_shm_all_drones_data fails.
OpSetupFails ==
    /\ OpGoto("boot", "closing")
    /\ UNCHANGED <<forked, opFlags, droneVars, shmVars, semVars, tokens>>

\* One round of generate_starting_drones.
CreateStartingDrone(d) ==
    /\ OpGoto("starting", "starting")
    /\ ~op_shutdown
    /\ forked < StartingDrones
    /\ CanFork
    /\ Fork(d, LOCATION_MISSION)
    /\ forked' = forked + 1
    /\ UNCHANGED <<opFlags, shmVars, semVars, tokens>>

\* All forked, or a shutdown request returned 0 from it.
StartingDone ==
    /\ OpGoto("starting", "top")
    /\ forked = StartingDrones \/ op_shutdown
    /\ forked' = 0
    /\ UNCHANGED <<opFlags, droneVars, shmVars, semVars, tokens>>

\* A fork fails, which ends the operator here.
StartingFails ==
    /\ OpGoto("starting", "closing")
    /\ forked' = 0
    /\ UNCHANGED <<opFlags, droneVars, shmVars, semVars, tokens>>

SetLimit(limit) ==
    /\ maximum_dron_in_base_count' = limit
    /\ UNCHANGED <<next_dron_id, dron_count, dron_in_base_count,
                   dron_reserving_space_count, lost, drones, free_space_stack>>

\* Mutant: off by one in the clamp.
DoubledLimit_Loose ==
    LET new_max == maximum_dron_in_base_count * 2
    IN  IF new_max > StartingDrones * 2 THEN StartingDrones * 2 - 1 ELSE new_max

DoubledLimit ==
    LET new_max == maximum_dron_in_base_count * 2
    IN  IF new_max >= StartingDrones * 2 THEN StartingDrones * 2 - 1 ELSE new_max

\* Integer division of C: towards zero, so -1 becomes 0.
HalvedLimit ==
    IF maximum_dron_in_base_count < 0
    THEN -((-maximum_dron_in_base_count) \div 2)
    ELSE maximum_dron_in_base_count \div 2

\* The loop condition.
OpLoopEnds ==
    /\ OpGoto("top", "closing")
    /\ op_shutdown
    /\ UNCHANGED <<forked, opFlags, droneVars, shmVars, semVars, tokens>>

\* The SIGUSR1 branch: the flag goes down before the semaphore is asked for,
\* so a signal that comes during the wait is kept for the next round.
OpSeesUsr1 ==
    /\ OpGoto("top", "inc_lock")
    /\ ~op_shutdown
    /\ op_sigusr1
    /\ op_sigusr1' = FALSE
    /\ UNCHANGED <<forked, op_sigusr2, op_shutdown, droneVars, shmVars, semVars, tokens>>

OpIncrease ==
    /\ OpGoto("inc_lock", "usr2")
    /\ InOneCriticalSection
    /\ SetLimit(DoubledLimit)
    /\ UNCHANGED <<forked, opFlags, droneVars, tokens>>

\* The SIGUSR2 branch is reached behind the SIGUSR1 branch, taken or not.
AtUsr2 == op_pc = "usr2" \/ (op_pc = "top" /\ ~op_shutdown /\ ~op_sigusr1)

\* The SIGUSR2 branch, likewise; a limit of 0 ends the loop at its next test.
OpSeesUsr2 ==
    /\ AtUsr2
    /\ op_sigusr2
    /\ op_pc' = "dec_lock"
    /\ op_sigusr2' = FALSE
    /\ UNCHANGED <<forked, op_sigusr1, op_shutdown, droneVars, shmVars, semVars, tokens>>

OpDecrease ==
    /\ OpGoto("dec_lock", "check")
    /\ InOneCriticalSection
    /\ SetLimit(HalvedLimit)
    /\ op_shutdown' = (op_shutdown \/ HalvedLimit <= 0)
    /\ UNCHANGED <<forked, op_sigusr1, op_sigusr2, droneVars, tokens>>

\* can_create_dron, read under the semaphore and used after its release.
OpCheck ==
    /\ op_pc = "check" \/ (AtUsr2 /\ ~op_sigusr2)
    /\ op_pc' = IF HasSpaceInBase THEN "create" ELSE "top"
    /\ InOneCriticalSection
    /\ UNCHANGED <<forked, opFlags, droneVars, shmVars, tokens>>

CreateDrone(d) ==
    /\ OpGoto("create", "top")
    /\ CanFork
    /\ Fork(d, LOCATION_BASE)
    /\ UNCHANGED <<forked, opFlags, shmVars, semVars, tokens>>

\* A failed fork is only reported.
CreateFails ==
    /\ OpGoto("create", "top")
    /\ UNCHANGED <<forked, opFlags, droneVars, shmVars, semVars, tokens>>

\* close_main: wait() returns -1 once no child is left.
OpExit ==
    /\ OpGoto("closing", "done")
    /\ \A d \in Pids : pc[d] = "none"
    /\ UNCHANGED <<forked, opFlags, droneVars, shmVars, semVars, tokens>>

OpStep ==
    \/ \E d \in Pids : CreateStartingDrone(d) \/ CreateDrone(d)
    \/ OpSetup \/ OpSetupFails \/ StartingDone \/ StartingFails
    \/ OpLoopEnds \/ OpSeesUsr1 \/ OpIncrease \/ OpSeesUsr2 \/ OpDecrease
    \/ OpCheck \/ CreateFails \/ OpExit

\* sigusr1_handler, sigusr2_handler and shutdown_request_handler.
OpRaiseFlag(sig) ==
    /\ op_pc # "done"
    /\ op_sigusr1' = (op_sigusr1 \/ sig = "SIGUSR1")
    /\ op_sigusr2' = (op_sigusr2 \/ sig = "SIGUSR2")
    /\ op_shutdown' = (op_shutdown \/ sig = "SIGTERM")
    /\ UNCHANGED <<op_pc, forked, droneVars, shmVars, semVars, tokens>>

\* A signal that comes before its handler is installed kills the process,
\* which has no children yet...
OpKilled ==
    /\ OpGoto("boot", "done")
    /\ UNCHANGED <<forked, opFlags, droneVars, shmVars, semVars, tokens>>

\* ...except SIGINT, which main ignores and exec leaves ignored.
OpIgnores(sig) ==
    /\ op_pc = "boot"
    /\ sig = "SIGTERM"
    /\ UNCHANGED <<opVars, droneVars, shmVars, semVars, tokens>>

\* A signal arrives; "SIGTERM" stands for both ways to ask for a shutdown.
\* For a process that has exited it fails with ESRCH.
OpSignal(sig) == OpRaiseFlag(sig) \/ OpKilled \/ OpIgnores(sig)
=============================================================================
