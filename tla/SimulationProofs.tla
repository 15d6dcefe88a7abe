--------------------------- MODULE SimulationProofs ---------------------------
(***************************************************************************)
(* Proofs about the whole program: it is a DroneSwarm, so everything       *)
(* proved of that holds under the mission plan; main destroys the objects  *)
(* last; and a plan that succeeds has brought the limit to 0.              *)
(***************************************************************************)
EXTENDS Simulation, FleetProofs

-----------------------------------------------------------------------------
(* The mission plan is one of the environments of DroneSwarm.              *)

\* A step of the commander sends what DroneSwarm's environment may send.
LEMMA CommanderStep == CmdStep => Environment \/ UNCHANGED vars
  BY DEF CmdStep, CmdSetup, IncreaseDrones, IncreaseEnds, PickDrone, KillDrone, KillEnds,
       DecreaseStarts, LowerAgain, SubtractDrones, LowerEnds, CmdExit, ReadLimit,
       ToOperator, Environment

LEMMA SimulationStep == [SimNext]_simVars => [Next]_vars
  <1> SUFFICES ASSUME [SimNext]_simVars PROVE [Next]_vars
    OBVIOUS
  <1>1. CASE CmdStep
    BY <1>1, CommanderStep DEF Next
  <1>2. CASE FromOutside
    BY <1>2 DEF FromOutside, ShutdownCommander, Next, Environment
  <1>3. CASE MainStep
    BY <1>3 DEF MainStep, CreatSystemCommander, CreatSystemCommanderFails, JoinCommander,
         JoinOperator
  <1>4. CASE UNCHANGED simVars
    BY <1>4 DEF simVars
  <1> QED BY <1>1, <1>2, <1>3, <1>4 DEF SimNext, SimEnded, Next

\* Whatever plan the commander follows, whoever is told to stop from outside
\* and whether or not a commander could be forked, operator and drones see an
\* environment of module DroneSwarm.
THEOREM IsDroneSwarm == SimSpec => Spec
  <1>1. SimInit => Init
    BY DEF SimInit
  <1> QED BY <1>1, SimulationStep, PTL DEF SimSpec, Spec

\* So what is proved of DroneSwarm holds under the mission plan.
COROLLARY PlanKeepsSafety ==
    SimSpec => /\ [](TypeOK /\ MutualExclusion /\ EntryIsReserved)
               /\ [](BaseNeverOverbuilt /\ ReportAddsUp /\ SlotsOwned)
               /\ [](RegistryConsistent /\ ReservationsMatch /\ GateTokensConserved)
               /\ []NothingLeftBehind
               /\ AdmissionRespectsLimit
               /\ ImplementsFleet
  BY IsDroneSwarm, TypeCorrect, Mutex, EntryReserved, NeverOverbuilt, Report, Owned,
       Registry, Reservations, Tokens, AllReturned, Admission, RegistryIsFleet, PTL

-----------------------------------------------------------------------------
(* main destroys the objects last.                                         *)

\* An operator that has exited does not come back.
LEMMA DoneForGood == [Next]_vars => (op_pc = "done" => op_pc' = "done")
  <1>1. CASE OpStep
    BY <1>1 DEF OpStep, CreateStartingDrone, CreateDrone, OpSetup, OpSetupFails,
         StartingDone, StartingFails, OpLoopEnds, OpSeesUsr1, OpSeesUsr2, OpIncrease,
         OpDecrease, AtUsr2, OpCheck, CreateFails, OpExit, OpGoto
  <1>2. CASE Environment
    BY <1>2 DEF Environment, PickDronPid, SendSuicide, SendAddDrones, SendSubtractDrones,
         ShutdownDrone, ShutdownOperator, OpSignal, OpRaiseFlag, OpKilled,
         OpIgnores, OpGoto, opVars
  <1>3. CASE UNCHANGED opVars
    BY <1>3 DEF opVars
  <1>4. UNCHANGED vars => UNCHANGED opVars
    BY DEF vars
  <1> QED BY <1>1, <1>2, <1>3, <1>4 DEF Next, Ended

\* main knows of the commander's end before it asks for the operator's.
Joined ==
    /\ main_pc = "fork_commander" => cmd_pc = "none"
    /\ main_pc \in {"wait_operator", "done"} => cmd_pc = "none" \/ CmdEnded
    /\ main_pc = "done" => op_pc = "done"

LEMMA JoinedKept == Joined /\ [SimNext]_simVars => Joined'
  <1> SUFFICES ASSUME Joined, [SimNext]_simVars PROVE Joined'
    OBVIOUS
  <1> USE DEF Joined, CmdEnded
  <1>1. CASE UNCHANGED <<cmd_pc, main_pc>>
    <2>1. op_pc = "done" => op_pc' = "done"
      BY SimulationStep, DoneForGood
    <2> QED BY <1>1, <2>1
  <1>2. CASE CmdStep /\ UNCHANGED main_pc
    <2>1. cmd_pc # "none" /\ ~CmdEnded
      BY <1>2 DEF CmdStep, CmdSetup, IncreaseDrones, IncreaseEnds, PickDrone, KillDrone,
           KillEnds, DecreaseStarts, LowerAgain, SubtractDrones, LowerEnds, CmdExit, CmdGoto
    <2> QED BY <1>2, <2>1
  <1>3. CASE ShutdownCommander /\ UNCHANGED main_pc
    BY <1>1, <1>3 DEF ShutdownCommander
  <1>4. CASE MainStep
    BY <1>4 DEF MainStep, CreatSystemCommander, CreatSystemCommanderFails, JoinCommander,
         JoinOperator, MainGoto, CmdGoto, cmdVars, vars, opVars
  <1> QED BY <1>1, <1>2, <1>3, <1>4 DEF SimNext, SimEnded, FromOutside, simVars, cmdVars

\* When main prints its report and destroys the objects (main.c:466), the
\* commander, the operator and every drone have ended: with any number of
\* drones, any plan and any signals.
THEOREM Last == SimSpec => []DestroyedLast
  <1>1. SimInit => Joined /\ LastOut
    BY DEF SimInit, CommanderInit, Init, OperatorInit, DroneInit, Joined, LastOut
  <1>2. TypeInv /\ LastOut /\ [SimNext]_simVars => LastOut'
    BY LastOutKept, SimulationStep
  <1>3. Joined /\ LastOut => DestroyedLast
    BY DEF Joined, LastOut, DestroyedLast
  <1> QED BY <1>1, <1>2, <1>3, JoinedKept, IsDroneSwarm, TypeInvariant, PTL DEF SimSpec

\* The report main prints last: nobody is registered, no place is taken or
\* reserved, and every id given out was counted as a loss or refused.
ReportIsFinal ==
    (main_pc = "done" /\ "shutdown" \notin Signals) =>
        /\ dron_count = 0 /\ dron_in_base_count = 0 /\ dron_reserving_space_count = 0
        /\ next_dron_id - 1 = Lost + refused_ids

\* With any plan in which no single drone is told to shut down, the report
\* (main.c:392) shows an empty registry and accounts for every drone.
THEOREM FinalReport == SimSpec => []ReportIsFinal
  <1>1. TypeOK /\ DestroyedLast /\ NothingLeftBehind /\ ReportAddsUp => ReportIsFinal
    <2> SUFFICES ASSUME TypeOK, DestroyedLast, NothingLeftBehind, ReportAddsUp
                 PROVE  ReportIsFinal
      OBVIOUS
    <2>1. Lost \in Int /\ refused_ids \in Int
      BY DEF TypeOK, ShmTypeOK, DroneTypeOK, Lost, Reasons
    <2> QED BY <2>1 DEF ReportIsFinal, DestroyedLast, NothingLeftBehind, ReportAddsUp
  <1> QED BY <1>1, Last, PlanKeepsSafety, PTL

-----------------------------------------------------------------------------
(* Module Main is a sound view of it.                                      *)

\* The commander and the operator as module Main sees them.
CommanderSeen ==
    IF cmd_pc = "none" THEN "none" ELSE IF CmdEnded THEN "ended" ELSE "running"
OperatorSeen == IF op_pc = "done" THEN "ended" ELSE "running"
MainSeen ==
    IF main_pc = "fork_commander" THEN "commander"
    ELSE IF main_pc = "done" THEN "destroy" ELSE main_pc

seen == <<MainSeen, CommanderSeen, OperatorSeen>>

\* The steps of the program in these terms.
LEMMA SeenStep ==
    ASSUME Joined, [SimNext]_simVars
    PROVE  \/ UNCHANGED seen
           \/ /\ MainSeen = "commander" /\ MainSeen' = "wait_commander"
              /\ CommanderSeen' \in {CommanderSeen, "running"}
              /\ UNCHANGED OperatorSeen
           \/ /\ MainSeen = "wait_commander" /\ MainSeen' = "wait_operator"
              /\ CommanderSeen # "running"
              /\ UNCHANGED <<CommanderSeen, OperatorSeen>>
           \/ /\ MainSeen = "wait_operator" /\ MainSeen' = "destroy"
              /\ OperatorSeen # "running"
              /\ UNCHANGED <<CommanderSeen, OperatorSeen>>
           \/ /\ CommanderSeen = "running" /\ CommanderSeen' = "ended"
              /\ UNCHANGED <<MainSeen, OperatorSeen>>
           \/ /\ OperatorSeen = "running" /\ OperatorSeen' = "ended"
              /\ UNCHANGED <<MainSeen, CommanderSeen>>
  <1> USE DEF seen, MainSeen, CommanderSeen, OperatorSeen, CmdEnded
  <1>1. op_pc = "done" => op_pc' = "done"
    BY SimulationStep, DoneForGood
  <1>2. CASE MainStep
    BY <1>2 DEF MainStep, CreatSystemCommander, CreatSystemCommanderFails, JoinCommander,
         JoinOperator, MainGoto, CmdGoto, cmdVars, vars, opVars, CmdEnded
  <1>3. CASE UNCHANGED <<cmd_pc, main_pc>>
    BY <1>1, <1>3
  <1>4. CASE CmdStep /\ UNCHANGED main_pc
    <2>1. cmd_pc # "none" /\ ~CmdEnded /\ cmd_pc' # "none"
      BY <1>4 DEF CmdStep, CmdSetup, IncreaseDrones, IncreaseEnds, PickDrone, KillDrone,
           KillEnds, DecreaseStarts, LowerAgain, SubtractDrones, LowerEnds, CmdExit, CmdGoto
    <2>2. CASE CmdSetup \/ CmdExit
      BY <1>4, <2>1, <2>2 DEF CmdSetup, CmdExit, vars, opVars
    <2>3. CASE ~(CmdSetup \/ CmdExit)
      <3>1. ~CmdEnded'
        BY <1>4, <2>3 DEF CmdStep, IncreaseDrones, IncreaseEnds, PickDrone, KillDrone,
             KillEnds, DecreaseStarts, LowerAgain, SubtractDrones, LowerEnds, CmdGoto
      <3> QED BY <1>1, <1>4, <2>1, <3>1
    <2> QED BY <2>2, <2>3
  <1>5. CASE ShutdownCommander /\ UNCHANGED main_pc
    BY <1>5 DEF ShutdownCommander, vars, opVars
  <1> QED BY <1>2, <1>3, <1>4, <1>5 DEF SimNext, SimEnded, FromOutside, simVars, cmdVars

\* Module Main is a sound view of the program: neither a commander nor an
\* operator that has ended comes back, and main waits for both as it says
\* there, so what is proved of Main (ChildrenServed, OnlyOwnDestroyed) speaks
\* of this program.
THEOREM MainIsSound == SimSpec => ImplementsMain
  <1>1. Joined /\ [SimNext]_simVars => [MainView!MainNext]_(MainView!mainVars)
    <2> SUFFICES ASSUME Joined, [SimNext]_simVars
                 PROVE  [MainView!MainNext]_(MainView!mainVars)
      OBVIOUS
    <2>0. "commander" \in MainView!Children /\ "operator" \in MainView!Children
      BY DEF MainView!Children
    <2>1. CASE UNCHANGED seen
      BY <2>1 DEF MainView!mainVars, seen, MainSeen, CommanderSeen, OperatorSeen
    <2>2. CASE /\ MainSeen = "commander" /\ MainSeen' = "wait_commander"
               /\ CommanderSeen' \in {CommanderSeen, "running"}
               /\ UNCHANGED OperatorSeen
      <3>1. CASE CommanderSeen' = "running"
        <4>1. MainView!CreatChild("main", "commander")
          BY <2>0, <2>2, <3>1 DEF MainView!CreatChild, MainView!Advance, MainView!After,
               Children, MainSeen, CommanderSeen, OperatorSeen
        <4> QED BY <2>0, <4>1 DEF MainView!MainNext, MainView!MainDo
      <3>2. CASE CommanderSeen' = CommanderSeen
        <4>1. MainView!CreateFails("main")
          BY <2>0, <2>2, <3>2 DEF MainView!CreateFails, MainView!Advance, MainView!Children,
               MainSeen, CommanderSeen, OperatorSeen
        <4> QED BY <2>0, <4>1 DEF MainView!MainNext, MainView!MainDo
      <3> QED BY <2>2, <3>1, <3>2
    <2>3. CASE /\ MainSeen = "wait_commander" /\ MainSeen' = "wait_operator"
               /\ CommanderSeen # "running"
               /\ UNCHANGED <<CommanderSeen, OperatorSeen>>
      <3>1. MainView!JoinChild("main", "commander")
        BY <2>0, <2>3 DEF MainView!JoinChild, MainView!Advance, Children,
             MainSeen, CommanderSeen, OperatorSeen
      <3> QED BY <2>0, <3>1 DEF MainView!MainNext, MainView!MainDo
    <2>4. CASE /\ MainSeen = "wait_operator" /\ MainSeen' = "destroy"
               /\ OperatorSeen # "running"
               /\ UNCHANGED <<CommanderSeen, OperatorSeen>>
      <3>1. MainView!JoinChild("main", "operator")
        BY <2>0, <2>4 DEF MainView!JoinChild, MainView!Advance, Children,
             MainSeen, CommanderSeen, OperatorSeen
      <3> QED BY <2>0, <3>1 DEF MainView!MainNext, MainView!MainDo
    <2>5. CASE /\ CommanderSeen = "running" /\ CommanderSeen' = "ended"
               /\ UNCHANGED <<MainSeen, OperatorSeen>>
      <3>1. MainView!ChildEnds("main", "commander")
        BY <2>0, <2>5 DEF MainView!ChildEnds, Children, MainSeen, CommanderSeen, OperatorSeen
      <3> QED BY <2>0, <3>1 DEF MainView!MainNext
    <2>6. CASE /\ OperatorSeen = "running" /\ OperatorSeen' = "ended"
               /\ UNCHANGED <<MainSeen, CommanderSeen>>
      <3>1. MainView!ChildEnds("main", "operator")
        BY <2>0, <2>6 DEF MainView!ChildEnds, Children, MainSeen, CommanderSeen, OperatorSeen
      <3> QED BY <2>0, <3>1 DEF MainView!MainNext
    <2> QED BY <2>1, <2>2, <2>3, <2>4, <2>5, <2>6, SeenStep
  <1>2. SimInit => Joined
    BY DEF SimInit, CommanderInit, Joined
  <1> QED BY <1>1, <1>2, JoinedKept, PTL DEF SimSpec, ImplementsMain

-----------------------------------------------------------------------------
(* A plan that succeeds has closed the base.                               *)

\* A limit of 0 or below stays there: s1 doubles it, s2 halves it.
LEMMA ClosedForGood ==
    ASSUME TypeInv, [Next]_vars, maximum_dron_in_base_count <= 0
    PROVE  maximum_dron_in_base_count' <= 0
  <1>0. maximum_dron_in_base_count \in Int /\ StartingDrones \in Nat \ {0}
    BY RegistryAssumption DEF TypeInv, TypeOK, ShmTypeOK
  <1>1. DoubledLimit <= 0
    BY <1>0 DEF DoubledLimit
  <1>2. HalvedLimit <= 0
    BY <1>0 DEF HalvedLimit
  <1> QED BY <1>1, <1>2, LimitSteps

\* What the last step of the plan knows: if it read 0 it is 0, and it ends
\* undisturbed only with that.
PlanKnows ==
    /\ cmd_max \in Int
    /\ (cmd_pc \in {"lower", "subtract"} /\ cmd_max <= 0) => maximum_dron_in_base_count <= 0
    /\ (cmd_pc \in {"closing", "exit_success"} /\ ~cmd_shutdown) =>
           maximum_dron_in_base_count <= 0

LEMMA PlanKnowsKept == TypeInv /\ PlanKnows /\ [SimNext]_simVars => PlanKnows'
  <1> SUFFICES ASSUME TypeInv, PlanKnows, [SimNext]_simVars PROVE PlanKnows'
    OBVIOUS
  <1> USE DEF PlanKnows
  <1>1. maximum_dron_in_base_count <= 0 => maximum_dron_in_base_count' <= 0
    BY ClosedForGood, SimulationStep
  <1>2. maximum_dron_in_base_count \in Int
    BY DEF TypeInv, TypeOK, ShmTypeOK
  <1>3. CASE UNCHANGED <<cmd_pc, cmd_max>> /\ (cmd_shutdown => cmd_shutdown')
    BY <1>1, <1>3
  <1>4. CASE CmdSetup \/ IncreaseDrones \/ IncreaseEnds \/ PickDrone \/ KillDrone \/ KillEnds
    BY <1>4 DEF CmdSetup, IncreaseDrones, IncreaseEnds, PickDrone, KillDrone, KillEnds,
         CmdGoto
  <1>5. CASE DecreaseStarts \/ LowerAgain
    BY <1>2, <1>5 DEF DecreaseStarts, LowerAgain, CmdGoto, ReadLimit, vars, shmVars
  <1>6. CASE SubtractDrones
    BY <1>1, <1>6 DEF SubtractDrones, CmdGoto
  <1>7. CASE LowerEnds
    BY <1>1, <1>7 DEF LowerEnds, Lowering, CmdGoto
  <1>8. CASE CmdExit
    BY <1>1, <1>8 DEF CmdExit
  <1>9. CASE ShutdownCommander
    BY <1>1, <1>9 DEF ShutdownCommander
  <1>10. CASE MainStep
    BY <1>1, <1>10 DEF MainStep, CreatSystemCommander, CreatSystemCommanderFails,
         JoinCommander, JoinOperator, CmdGoto, cmdVars
  <1> QED BY <1>3, <1>4, <1>5, <1>6, <1>7, <1>8, <1>9, <1>10
           DEF SimNext, SimEnded, CmdStep, FromOutside, simVars, cmdVars

\* A commander that exits with success and was not told to stop leaves a base
\* whose limit is 0, however many of its signals coalesced, and s1 does not
\* open it again.
THEOREM PlanCloses == SimSpec => []SuccessMeansClosed
  <1>1. SimInit => PlanKnows
    BY DEF SimInit, CommanderInit, PlanKnows
  <1>2. PlanKnows => SuccessMeansClosed
    BY DEF PlanKnows, SuccessMeansClosed
  <1> QED BY <1>1, <1>2, PlanKnowsKept, IsDroneSwarm, TypeInvariant, PTL DEF SimSpec
=============================================================================
