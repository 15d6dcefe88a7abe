----------------------------- MODULE Simulation -----------------------------
(***************************************************************************)
(* The whole program from the moment main has forked the operator: main    *)
(* forks the commander and waits for both, the commander carries out its   *)
(* plan, the operator and its drones are module DroneSwarm.  SIGINT and    *)
(* SIGTERM may come from outside at any time; main ignores the first and   *)
(* is not sent the second (module Main has that).                          *)
(***************************************************************************)
EXTENDS Commander, IpcObjects

VARIABLE main_pc    \* "fork_commander", "wait_commander", "wait_operator", "done"

simVars == <<vars, cmdVars, main_pc>>

SimInit ==
    /\ Init
    /\ CommanderInit
    /\ main_pc = "fork_commander"

MainGoto(from, to) == main_pc = from /\ main_pc' = to

\* creat_system_commander.
CreatSystemCommander ==
    /\ MainGoto("fork_commander", "wait_commander")
    /\ CmdGoto("none", "boot")
    /\ UNCHANGED <<cmd_i, cmd_max, cmd_shutdown, vars>>

\* Its fork fails: close_main(-1).
CreatSystemCommanderFails ==
    /\ MainGoto("fork_commander", "wait_commander")
    /\ UNCHANGED <<cmdVars, vars>>

\* Mutant: waitpid is not called for the commander.
JoinCommander_NoWait ==
    /\ MainGoto("wait_commander", "wait_operator")
    /\ UNCHANGED <<cmdVars, vars>>

\* The first waitpid of close_main, if there is a commander.
JoinCommander ==
    /\ MainGoto("wait_commander", "wait_operator")
    /\ cmd_pc = "none" \/ CmdEnded
    /\ UNCHANGED <<cmdVars, vars>>

\* Mutant: waitpid is not called for the operator.
JoinOperator_NoWait ==
    /\ MainGoto("wait_operator", "done")
    /\ UNCHANGED <<cmdVars, vars>>

\* The second one; the report and the destruction of all IPC objects follow.
JoinOperator ==
    /\ MainGoto("wait_operator", "done")
    /\ op_pc = "done"
    /\ UNCHANGED <<cmdVars, vars>>

MainStep ==
    CreatSystemCommander \/ CreatSystemCommanderFails \/ JoinCommander \/ JoinOperator

\* Signals from the terminal or from another process.
FromOutside ==
    \/ ShutdownCommander
    \/ (ShutdownOperator \/ \E d \in Pids : ShutdownDrone(d)) /\ UNCHANGED cmdVars

SimEnded == main_pc = "done" /\ UNCHANGED simVars

SimNext ==
    \/ \E d \in Pids : /\ DroneStep(d) \/ Battery(d)
                       /\ UNCHANGED <<opVars, envVars, cmdVars, main_pc>>
    \/ OpStep /\ UNCHANGED <<envVars, cmdVars, main_pc>>
    \/ (CmdStep \/ FromOutside) /\ UNCHANGED main_pc
    \/ MainStep
    \/ SimEnded

SimSpec == SimInit /\ [][SimNext]_simVars

\* The commander waits for the semaphore.
CmdWait == (PickDrone \/ DecreaseStarts \/ LowerAgain) /\ UNCHANGED main_pc

\* As in DroneSwarm; main and the commander are processes like the others.
SimFairness ==
    /\ \A d \in Pids :
         /\ WF_simVars(DroneStep(d) /\ UNCHANGED <<opVars, envVars, cmdVars, main_pc>>)
         /\ WF_simVars(Battery(d) /\ UNCHANGED <<opVars, envVars, cmdVars, main_pc>>)
         /\ SF_simVars(DroneWait(d) /\ UNCHANGED <<cmdVars, main_pc>>)
    /\ WF_simVars(OpStep /\ UNCHANGED <<envVars, cmdVars, main_pc>>)
    /\ SF_simVars(OpWait /\ UNCHANGED <<cmdVars, main_pc>>)
    /\ WF_simVars(CmdStep /\ UNCHANGED main_pc)
    /\ SF_simVars(CmdWait)
    /\ WF_simVars(MainStep)

SimFairSpec == SimSpec /\ SimFairness

-----------------------------------------------------------------------------
(* Properties.                                                             *)

\* main prints its report and destroys the shared memory, the semaphores and
\* the pipe (main.c:466) when no process is left that could use them,
\* whatever order commander, operator and drones end in.
DestroyedLast ==
    main_pc = "done" =>
        /\ op_pc = "done"
        /\ cmd_pc = "none" \/ CmdEnded
        /\ \A d \in Pids : pc[d] = "none"

\* One execution of module Main, set up and about to fork the commander.
MainView == INSTANCE Main WITH
    Instances <- {"main"},
    owner     <- [k \in Keys |-> IF k = NoKey THEN Nobody ELSE "main"],
    main_pc   <- [m \in {"main"} |-> IF main_pc = "fork_commander" THEN "commander"
                                     ELSE IF main_pc = "done" THEN "destroy" ELSE main_pc],
    ids       <- [m \in {"main"} |-> [o \in Objects |-> m]],
    attached  <- [m \in {"main"} |-> Segments],
    stack_key <- [m \in {"main"} |-> "stack"],
    children  <- [m \in {"main"} |-> [c \in Children |->
                    IF c = "operator" THEN (IF op_pc = "done" THEN "ended" ELSE "running")
                    ELSE IF cmd_pc = "none" THEN "none"
                    ELSE IF CmdEnded THEN "ended" ELSE "running"]]

\* Module Main, which knows of operator and commander only that they end, is
\* a sound view of the program: a commander or an operator that has ended
\* does not come back, and main goes from wait to wait as it says there.
ImplementsMain == [][MainView!MainNext]_(MainView!mainVars)

\* A commander that was not told to stop and exits with success has brought
\* the limit to 0: it goes by what it read from the registry, not by the
\* number of s2 it sent, of which the operator may have seen fewer.
SuccessMeansClosed ==
    (cmd_pc = "exit_success" /\ ~cmd_shutdown) => maximum_dron_in_base_count <= 0

\* The operator is in its loop.
Operating == op_pc \in {"top", "inc_lock", "usr2", "dec_lock", "check", "create"}

\* Somebody was told to stop from outside.
Disturbed == cmd_shutdown \/ (op_shutdown /\ maximum_dron_in_base_count > 0)

\* A plan that has come to its last step with the limit above 0 and the
\* operator at work brings everything to its end, main included, although
\* s2 may be lost on a flag that is already up (operator.c:336).
PlanEndsSimulation ==
    (cmd_pc = "lower" /\ cmd_max > 0 /\ Operating) ~> (main_pc = "done" \/ Disturbed)

\* The commander was told to stop, has ended, be it with a failed plan, or
\* could not be forked (main.c:581).
CommanderLeaves ==
    cmd_shutdown \/ CmdEnded \/ (cmd_pc = "none" /\ main_pc # "fork_commander")

\* The operator was told to stop, leaves after a failure, or is gone.
OperatorLeaves == op_shutdown \/ op_pc \in {"closing", "done"}

\* Once neither of the two has a reason to stay, all of the program ends,
\* main included, wherever they were in the plan.  A plan that failed
\* (system_commander.c:186) or was never begun leaves it to a signal from
\* outside to stop the operator.
InterruptEnds == (CommanderLeaves /\ OperatorLeaves) ~> main_pc = "done"
=============================================================================
