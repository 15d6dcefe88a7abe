----------------------------- MODULE Commander -----------------------------
(***************************************************************************)
(* system_commander/system_commander.c: the process that carries out the   *)
(* mission plan.  cmd_pc is where it is:                                   *)
(*                                                                         *)
(*   none       not forked                                                 *)
(*   boot       main before the plan (arguments, handlers, shared memory)  *)
(*   increase   mission_step_increase_drones, top of its loop              *)
(*   kill       mission_step_kill_drones, top of its loop                  *)
(*   suicide    has picked a pid, about to signal it                       *)
(*   decrease   mission_step_decrease_drones_to_0, before its first read   *)
(*   lower      top of its loop                                            *)
(*   subtract   has read the limit again, about to send s2                 *)
(*   closing    the plan returned 0                                        *)
(*   failed     the plan returned -1                                       *)
(*   exit_success, exit_failure, killed    the process has ended           *)
(*                                                                         *)
(* What it does to the others are the environment's actions of DroneSwarm, *)
(* taken here when the plan takes them.  The waits between two signals are *)
(* left out, since any time may pass between two steps; a shutdown request *)
(* ends them, so a step of the plan tests the flag and acts at once.       *)
(* nanosleep fails for EINTR only (the retry), so a wait never answers -1. *)
(***************************************************************************)
EXTENDS DroneSwarm

CONSTANTS
    AddRepeats,     \* how often the plan sends s1: 3
    KillRepeats     \* how often it sends s3: 10

ASSUME PlanAssumption ==
    /\ AddRepeats \in Nat
    /\ KillRepeats \in Nat
    /\ {"s1", "s2", "s3"} \subseteq Signals
    /\ SignalBound = NoBound

VARIABLES
    cmd_pc,
    cmd_i,          \* the loop counter of a step of the plan
    cmd_max,        \* the limit as the last step of the plan read it
    cmd_shutdown    \* got_shutdown_requested

cmdVars == <<cmd_pc, cmd_i, cmd_max, cmd_shutdown>>

CommanderInit ==
    /\ cmd_pc = "none"
    /\ cmd_i = 0
    /\ cmd_max = 0
    /\ cmd_shutdown = FALSE

CmdGoto(from, to) == cmd_pc = from /\ cmd_pc' = to

CmdEnded == cmd_pc \in {"exit_success", "exit_failure", "killed"}

\* main up to run_mission_plan, or an exit on the way.
CmdSetup ==
    /\ cmd_pc = "boot"
    /\ cmd_pc' \in {"increase", "exit_failure"}
    /\ UNCHANGED <<cmd_i, cmd_max, cmd_shutdown, vars>>

\* A signal to the operator: nobody gets it once the operator has ended,
\* and the commander only reports that.
ToOperator(Sending) == Sending \/ (op_pc = "done" /\ UNCHANGED vars)

\* One round of mission_step_increase_drones.
IncreaseDrones ==
    /\ CmdGoto("increase", "increase")
    /\ ~cmd_shutdown
    /\ cmd_i < AddRepeats
    /\ cmd_i' = cmd_i + 1
    /\ ToOperator(SendAddDrones)
    /\ UNCHANGED <<cmd_max, cmd_shutdown>>

\* A shutdown request ends a step of the plan with 0, and the next step is
\* entered all the same.
IncreaseEnds ==
    /\ CmdGoto("increase", "kill")
    /\ cmd_i = AddRepeats \/ cmd_shutdown
    /\ cmd_i' = 0
    /\ UNCHANGED <<cmd_max, cmd_shutdown, vars>>

\* One round of mission_step_kill_drones up to the answer from the registry;
\* an empty registry fails the plan.
PickDrone ==
    /\ cmd_pc = "kill"
    /\ ~cmd_shutdown
    /\ cmd_i < KillRepeats
    /\ PickDronPid
    /\ cmd_pc' = IF SHM_AllDronesData_get_dron_pid = NoPid THEN "failed" ELSE "suicide"
    /\ cmd_i' = cmd_i + 1
    /\ UNCHANGED <<cmd_max, cmd_shutdown>>

\* The rest of the round.
KillDrone ==
    /\ CmdGoto("suicide", "kill")
    /\ SendSuicide
    /\ UNCHANGED <<cmd_i, cmd_max, cmd_shutdown>>

KillEnds ==
    /\ CmdGoto("kill", "decrease")
    /\ cmd_i = KillRepeats \/ cmd_shutdown
    /\ cmd_i' = 0
    /\ UNCHANGED <<cmd_max, cmd_shutdown, vars>>

\* maximum_dron_in_base_count is copied under the semaphore.
ReadLimit ==
    /\ InOneCriticalSection
    /\ cmd_max' = maximum_dron_in_base_count
    /\ UNCHANGED <<cmd_i, cmd_shutdown, vars>>

\* mission_step_decrease_drones_to_0 before its loop.
DecreaseStarts ==
    /\ CmdGoto("decrease", "lower")
    /\ ReadLimit

\* Mutant: the loop does not look at the flag.
Lowering_Deaf == cmd_max > 0

\* Mutant: the loop stops one short.
Lowering_Above1 == cmd_max > 1 /\ ~cmd_shutdown

\* Its loop goes on.
Lowering == cmd_max > 0 /\ ~cmd_shutdown

\* Its loop body up to the second reading...
LowerAgain ==
    /\ CmdGoto("lower", "subtract")
    /\ Lowering
    /\ ReadLimit

\* ...and the s2 that follows whatever was read.
SubtractDrones ==
    /\ CmdGoto("subtract", "lower")
    /\ ToOperator(SendSubtractDrones)
    /\ UNCHANGED <<cmd_i, cmd_max, cmd_shutdown>>

LowerEnds ==
    /\ CmdGoto("lower", "closing")
    /\ ~Lowering
    /\ UNCHANGED <<cmd_i, cmd_max, cmd_shutdown, vars>>

\* The end of main, cleanup_ipc_attachments and exit.
CmdExit ==
    /\ cmd_pc \in {"closing", "failed"}
    /\ cmd_pc' = IF cmd_pc = "failed" /\ ~cmd_shutdown
                 THEN "exit_failure" ELSE "exit_success"
    /\ cmd_i' = 0
    /\ cmd_max' = 0
    /\ UNCHANGED <<cmd_shutdown, vars>>

CmdStep ==
    \/ CmdSetup \/ IncreaseDrones \/ IncreaseEnds \/ PickDrone \/ KillDrone \/ KillEnds
    \/ DecreaseStarts \/ LowerAgain \/ SubtractDrones \/ LowerEnds \/ CmdExit

\* SIGINT or SIGTERM.  Before its handlers are installed the process ignores
\* SIGINT, as main does, and is killed by SIGTERM; afterwards both raise the
\* flag.
ShutdownCommander ==
    /\ "stop" \in Signals
    /\ \/ /\ cmd_pc = "boot"
          /\ cmd_pc' = "killed"
          /\ UNCHANGED cmd_shutdown
       \/ /\ cmd_pc # "none" /\ ~CmdEnded
          /\ cmd_shutdown' = TRUE
          /\ UNCHANGED cmd_pc
    /\ UNCHANGED <<cmd_i, cmd_max, vars>>
=============================================================================
