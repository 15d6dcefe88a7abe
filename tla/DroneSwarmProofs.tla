-------------------------- MODULE DroneSwarmProofs --------------------------
(***************************************************************************)
(* Proofs about DroneSwarm for every set of process ids, capacity, number  *)
(* of starting drones, gate capacity, battery scale and signal bound.      *)
(***************************************************************************)
EXTENDS DroneSwarm, WellFoundedInduction, TLAPS

-----------------------------------------------------------------------------
(* Type correctness.  A drone that waits to be deleted must own a slot and *)
(* a reason, or the free-slot stack and the loss counters would leave      *)
(* their types: Control says what each place in the program guarantees.    *)

Starting == {"none", "boot", "add_lock", "add_cs"}

Working == {"loop", "body", "del_lock", "res_lock", "res_cs", "poll", "read",
            "gate", "upd_lock"}

ControlOf(d) ==
    /\ pc[d] \in Starting =>
         my_index[d] = NoIndex /\ reason[d] = "none" /\ ~have_reserved_space[d]
    /\ pc[d] \in Working =>
         my_index[d] \in Slots /\ location[d] \in {LOCATION_BASE, LOCATION_MISSION}
    /\ pc[d] \in Working \ {"del_lock"} => reason[d] = "none"
    /\ pc[d] = "del_lock" => reason[d] \in Reasons
    /\ pc[d] = "none" => location[d] = LOCATION_UNDEFINE
    /\ pc[d] \in {"boot", "add_lock", "add_cs"} =>
         location[d] \in {LOCATION_BASE, LOCATION_MISSION}
    /\ my_index[d] # NoIndex => location[d] # LOCATION_UNDEFINE

Control == \A d \in Pids : ControlOf(d)

TypeInv == TypeOK /\ Control

\* Initially no process exists and every counter is at its start.
LEMMA TypeInit == Init => TypeInv
  <1> SUFFICES ASSUME Init PROVE TypeInv
    OBVIOUS
  <1> USE RegistryAssumption, GateAssumption, DroneAssumption, OperatorAssumption,
          SignalsAssumption
  <1> USE DEF Init, ShmInit, SemInit, FifoInit, DroneInit, OperatorInit
  <1>1. ShmTypeOK
    <2>1. free_space_stack \in Seq(Slots)
      BY DEF Slots
    <2> QED BY <2>1 DEF ShmTypeOK, Locations, LOCATION_UNDEFINE
  <1>2. IpcTypeOK
    BY DEF IpcTypeOK
  <1>3. DroneTypeOK
    BY DEF DroneTypeOK, Locations, Pcs, LOCATION_UNDEFINE
  <1>4. ProcessTypeOK
    <2>1. forked \in 0..StartingDrones /\ signals_sent \in Nat
      OBVIOUS
    <2>2. op_sigusr1 \in BOOLEAN /\ op_sigusr2 \in BOOLEAN /\ op_shutdown \in BOOLEAN
      BY Zenon
    <2>3. op_pc = "boot" /\ dron_pid = NoPid
      OBVIOUS
    <2> QED BY <2>1, <2>2, <2>3, Zenon DEF ProcessTypeOK, OpPcs
  <1>5. Control
    BY DEF Control, ControlOf, Starting, Working, NoIndex,
         LOCATION_UNDEFINE, LOCATION_BASE, LOCATION_MISSION
  <1> QED BY <1>1, <1>2, <1>3, <1>4, <1>5 DEF TypeInv, TypeOK

\* A nonempty set of naturals has a least element: the commander finds one.
LEMMA LeastElement ==
  ASSUME NEW T, T \subseteq Nat, T # {}
  PROVE  \E i \in T : \A j \in T : i <= j
  <1> DEFINE R == {ss \in Nat \X Nat : ss[1] < ss[2]}
  <1>1. R = OpToRel(<, Nat)
    BY Zenon DEF OpToRel
  <1>2. IsWellFoundedOn(R, Nat)
    BY <1>1, NatLessThanWellFounded, Zenon
  <1>3. PICK i \in T : \A j \in T : ~(<<j, i>> \in R)
    <2> HIDE DEF R
    <2> QED BY <1>2, WFMin
  <1>4. ASSUME NEW j \in T PROVE i <= j
    <2>1. i \in Nat /\ j \in Nat /\ ~(<<j, i>> \in R)
      BY <1>3
    <2>2. ~(j < i)
      <3>1. <<j, i>>[1] = j /\ <<j, i>>[2] = i /\ <<j, i>> \in Nat \X Nat
        BY <2>1
      <3> QED BY <2>1, <3>1, Zenon
    <2> QED BY <2>1, <2>2
  <1> QED BY <1>4

\* What Stack_pop hands out and leaves.
LEMMA StackPopType ==
  ASSUME NEW S, NEW stack \in Seq(S), ~Stack_is_empty(stack)
  PROVE  Stack_popped(stack) \in S /\ Stack_pop(stack) \in Seq(S)
  BY DEF Stack_is_empty, Stack_popped, Stack_pop

\* Stack_push, refused or not, keeps the type of the stack.
LEMMA StackPushType ==
  ASSUME NEW S, NEW stack \in Seq(S), NEW capacity, NEW elem \in S
  PROVE  Stack_push(stack, capacity, elem) \in Seq(S)
  BY DEF Stack_push

\* Writing the location of one slot keeps the slots' type.
LEMMA SlotWriteType ==
  ASSUME NEW P, NEW f \in [Slots -> [pid : P, location : Locations]],
         NEW i \in Slots, NEW new \in Locations
  PROVE  [f EXCEPT ![i].location = new] \in [Slots -> [pid : P, location : Locations]]
  OBVIOUS

\* Every step of a drone and of its battery keeps the types.
LEMMA TypeDrone ==
  ASSUME TypeInv, NEW d \in Pids, DroneStep(d) \/ Battery(d),
         UNCHANGED <<opVars, envVars>>
  PROVE  TypeInv'
  <1> USE RegistryAssumption, DroneAssumption
  <1> USE DEF TypeInv, TypeOK, ShmTypeOK, IpcTypeOK, DroneTypeOK, ProcessTypeOK,
              Control, ControlOf, Starting, Working, Pcs, Locations, Reasons, NoIndex,
              LOCATION_UNDEFINE, LOCATION_BASE, LOCATION_MISSION,
              shmVars, semVars, imageVars, flagVars, auditVars, opVars, opFlags, envVars,
              At, Goto
  <1>1. CASE Setup(d)
    BY <1>1 DEF Setup
  <1>2. CASE SetupFails(d)
    BY <1>2 DEF SetupFails
  <1>3. CASE AddLock(d)
    BY <1>3 DEF AddLock, HasSpaceInBase, semaphore_lock
  <1>4. CASE Add(d)
    <2>1. /\ Stack_popped(free_space_stack) \in Slots
          /\ Stack_pop(free_space_stack) \in Seq(Slots)
      BY <1>4, StackPopType DEF Add, SHM_AllDronesData_add_dron
    <2> DEFINE top == Stack_popped(free_space_stack)
    <2>2. ShmTypeOK'
      BY <1>4, <2>1 DEF Add, SHM_AllDronesData_add_dron
    <2>3. DroneTypeOK' /\ IpcTypeOK' /\ ProcessTypeOK'
      BY <1>4, <2>1 DEF Add, semaphore_unlock
    <2>4. Control'
      BY <1>4, <2>1 DEF Add
    <2> QED BY <2>2, <2>3, <2>4
  <1>5. CASE AddFails(d)
    BY <1>5 DEF AddFails, Stack_is_empty
  <1>6. CASE LoopEnds(d)
    BY <1>6 DEF LoopEnds
  <1>7. CASE ProcessSigusr1(d)
    <2>1. PICK label \in {"del_lock", "body"} :
            /\ pc[d] = "loop"
            /\ pc' = [pc EXCEPT ![d] = label]
            /\ label = "del_lock" => reason' = [reason EXCEPT ![d] = "suicide"]
            /\ label = "body" => reason' = reason
      BY <1>7 DEF ProcessSigusr1, Condemn
    <2>2. /\ got_sigusr1' = [got_sigusr1 EXCEPT ![d] = FALSE]
          /\ UNCHANGED <<imageVars, got_shutdown_requested, auditVars, shmVars, semVars, tokens>>
      BY <1>7 DEF ProcessSigusr1
    <2>3. CASE label = "del_lock"
      BY <2>1, <2>2, <2>3
    <2>4. CASE label = "body"
      BY <2>1, <2>2, <2>4
    <2> QED BY <2>3, <2>4
  <1>8. CASE BatteryStateCheck(d)
    BY <1>8 DEF BatteryStateCheck, Condemn, InBody
  <1>9. CASE ForceBaseReturn(d)
    <2>1. PICK label \in {"del_lock", "loop", "res_lock"} :
            /\ pc[d] \in {"loop", "body"}
            /\ pc' = [pc EXCEPT ![d] = label]
            /\ label = "del_lock" => reason' = [reason EXCEPT ![d] = "decommissioned"]
            /\ label # "del_lock" => reason' = reason
      BY <1>9 DEF ForceBaseReturn, InBody, Condemn
    <2>2. UNCHANGED <<imageVars, flagVars, auditVars, shmVars, semVars, tokens>>
      BY <1>9 DEF ForceBaseReturn
    <2>3. ShmTypeOK' /\ IpcTypeOK' /\ ProcessTypeOK'
      BY <2>2
    <2>4. DroneTypeOK'
      BY <2>1, <2>2
    <2>5. Control'
      <3>1. CASE label = "del_lock"
        BY <2>1, <2>2, <3>1
      <3>2. CASE label # "del_lock"
        BY <2>1, <2>2, <3>2
      <3> QED BY <3>1, <3>2
    <2> QED BY <2>3, <2>4, <2>5
  <1>10. CASE ForceLeaveBase(d)
    BY <1>10 DEF ForceLeaveBase, InBody
  <1>11. CASE Delete(d)
    <2>1. my_index[d] \in Slots /\ reason[d] \in Reasons
      BY <1>11 DEF Delete
    <2>2. Stack_push(free_space_stack, Capacity, my_index[d]) \in Seq(Slots)
      BY <2>1, StackPushType
    <2>3. ShmTypeOK'
      <3>1. SHM_AllDronesData_delete_drone(my_index[d], have_reserved_space[d], reason[d])
        BY <1>11 DEF Delete
      <3>2. drones' \in [Slots -> [pid : Pids \cup {NoPid}, location : Locations]]
        BY <3>1, <2>1, SlotWriteType DEF SHM_AllDronesData_delete_drone
      <3>3. lost' = [lost EXCEPT ![reason[d]] = @ + 1] /\ dron_count' = dron_count - 1
        BY <3>1 DEF SHM_AllDronesData_delete_drone, Counted
      <3>4. dron_in_base_count' \in {dron_in_base_count, dron_in_base_count - 1}
        BY <3>1 DEF SHM_AllDronesData_delete_drone, InBaseWithout
      <3>5. dron_reserving_space_count' \in
              {dron_reserving_space_count, dron_reserving_space_count - 1}
        BY <3>1 DEF SHM_AllDronesData_delete_drone, ReservationsWithout
      <3>6. /\ free_space_stack' \in Seq(Slots)
            /\ UNCHANGED <<next_dron_id, maximum_dron_in_base_count>>
        BY <3>1, <2>2 DEF SHM_AllDronesData_delete_drone
      <3>7. lost' \in [Reasons -> Nat]
        BY <3>3, <2>1
      <3>9. dron_count' \in Int
        BY <3>3
      <3>8. dron_in_base_count' \in Int /\ dron_reserving_space_count' \in Int
        BY <3>4, <3>5
      <3> QED BY <3>2, <3>6, <3>7, <3>8, <3>9
    <2>4. DroneTypeOK' /\ IpcTypeOK' /\ ProcessTypeOK'
      BY <1>11, <2>1 DEF Delete, InOneCriticalSection
    <2>5. Control'
      BY <1>11, <2>1 DEF Delete
    <2> QED BY <2>3, <2>4, <2>5
  <1>12. CASE ReserveLock(d)
    <2>1. CASE KeepsReservation(d)
      BY <1>12, <2>1 DEF ReserveLock, KeepsReservation, InOneCriticalSection
    <2>2. CASE FindsPlace(d)
      BY <1>12, <2>2 DEF ReserveLock, FindsPlace, semaphore_lock
    <2>3. CASE FindsNoPlace(d)
      BY <1>12, <2>3 DEF ReserveLock, FindsNoPlace, InOneCriticalSection
    <2> QED BY <1>12, <2>1, <2>2, <2>3 DEF ReserveLock
  <1>13. CASE Reserve(d)
    BY <1>13 DEF Reserve, semaphore_unlock
  <1>14. CASE Poll(d)
    <2>1. CASE Goto(d, "read")
      BY <1>14, <2>1 DEF Poll
    <2>2. CASE Goto(d, "loop")
      BY <1>14, <2>2 DEF Poll
    <2> QED BY <1>14, <2>1, <2>2 DEF Poll
  <1>15. CASE EnterGate(d)
    BY <1>15 DEF EnterGate, ReadToken
  <1>16. CASE LeaveGate(d)
    BY <1>16 DEF LeaveGate, fifo_sem_unlock
  <1>17. CASE UpdateLocation(d)
    <2> DEFINE returns == location[d] = LOCATION_MISSION
    <2> DEFINE new == IF returns THEN LOCATION_BASE ELSE LOCATION_MISSION
    <2>1. /\ pc[d] = "upd_lock"
          /\ pc' = [pc EXCEPT ![d] = "loop"]
          /\ UNCHANGED semVars
          /\ SHM_AllDronesData_update_dron_location(my_index[d], new)
          /\ location' = [location EXCEPT ![d] = new]
          /\ have_reserved_space' = [have_reserved_space EXCEPT ![d] = @ /\ ~returns]
          /\ IF returns THEN SpendCycle(d) ELSE UNCHANGED loading_cycles_left
          /\ UNCHANGED <<battery_percentage, my_index, reason, flagVars, auditVars, tokens>>
      BY <1>17 DEF UpdateLocation, InOneCriticalSection
    <2>2. new \in {LOCATION_BASE, LOCATION_MISSION}
      OBVIOUS
    <2>3. loading_cycles_left' \in [Pids -> Int]
      <3>1. CASE returns
        BY <2>1, <3>1 DEF SpendCycle
      <3>2. CASE ~returns
        BY <2>1, <3>2
      <3> QED BY <3>1, <3>2
    <2> HIDE DEF returns, new
    <2>4. ShmTypeOK'
      <3>1. my_index[d] \in Slots
        BY <2>1
      <3>2. drones' \in [Slots -> [pid : Pids \cup {NoPid}, location : Locations]]
        BY <2>1, <2>2, <3>1, SlotWriteType DEF SHM_AllDronesData_update_dron_location
      <3>3. dron_in_base_count' \in
              {dron_in_base_count, dron_in_base_count - 1, dron_in_base_count + 1}
        BY <2>1 DEF SHM_AllDronesData_update_dron_location
      <3>4. dron_reserving_space_count' \in
              {dron_reserving_space_count, dron_reserving_space_count - 1}
        BY <2>1 DEF SHM_AllDronesData_update_dron_location, ReservationsAfterLeaving
      <3>5. UNCHANGED <<next_dron_id, dron_count, maximum_dron_in_base_count, lost,
                        free_space_stack>>
        BY <2>1 DEF SHM_AllDronesData_update_dron_location
      <3>6. dron_in_base_count' \in Int /\ dron_reserving_space_count' \in Int
        BY <3>3, <3>4
      <3> QED BY <3>2, <3>5, <3>6
    <2>5. DroneTypeOK' /\ IpcTypeOK' /\ ProcessTypeOK'
      BY <2>1, <2>2, <2>3
    <2>6. Control'
      BY <2>1, <2>2
    <2> QED BY <2>4, <2>5, <2>6
  <1>18. CASE Exit(d)
    <2>1. ShmTypeOK' /\ IpcTypeOK' /\ ProcessTypeOK'
      BY <1>18 DEF Exit, ProcessGone, SemUndo
    <2>2. DroneTypeOK'
      BY <1>18 DEF Exit, ProcessGone
    <2>3. Control'
      BY <1>18 DEF Exit, ProcessGone
    <2> QED BY <2>1, <2>2, <2>3
  <1>19. CASE Battery(d)
    <2>1. UNCHANGED <<pc, location, have_reserved_space, loading_cycles_left, my_index,
                      reason, flagVars, auditVars, shmVars, semVars, tokens>>
      BY <1>19 DEF Battery
    <2>2. battery_percentage' \in [Pids -> 0..FullBattery]
      BY <1>19 DEF Battery, Ticked
    <2>3. DroneTypeOK' /\ Control'
      BY <2>1, <2>2
    <2>4. ShmTypeOK' /\ IpcTypeOK' /\ ProcessTypeOK'
      BY <2>1
    <2> QED BY <2>3, <2>4
  <1> QED BY <1>1, <1>2, <1>3, <1>4, <1>5, <1>6, <1>7, <1>8, <1>9, <1>10, <1>11, <1>12,
       <1>13, <1>14, <1>15, <1>16, <1>17, <1>18, <1>19 DEF DroneStep

\* A step that leaves a group of variables alone keeps their types.
LEMMA SameTypes ==
  ASSUME TypeInv
  PROVE  /\ UNCHANGED shmVars => ShmTypeOK'
         /\ UNCHANGED <<semVars, tokens>> => IpcTypeOK'
         /\ UNCHANGED droneVars => DroneTypeOK' /\ Control'
         /\ UNCHANGED <<opVars, envVars>> => ProcessTypeOK'
  <1> USE DEF TypeInv, TypeOK
  <1>1. UNCHANGED shmVars => ShmTypeOK'
    BY DEF ShmTypeOK, shmVars
  <1>2. UNCHANGED <<semVars, tokens>> => IpcTypeOK'
    BY DEF IpcTypeOK, semVars
  <1>3. UNCHANGED droneVars => DroneTypeOK' /\ Control'
    BY DEF DroneTypeOK, Control, ControlOf, droneVars, imageVars, flagVars, auditVars
  <1>4. UNCHANGED <<opVars, envVars>> => ProcessTypeOK'
    BY DEF ProcessTypeOK, opVars, opFlags, envVars
  <1> QED BY <1>1, <1>2, <1>3, <1>4

\* Setting the base limit to an integer keeps the registry's types.
LEMMA SetLimitType ==
  ASSUME TypeInv, NEW limit \in Int, SetLimit(limit)
  PROVE  ShmTypeOK'
  BY DEF TypeInv, TypeOK, ShmTypeOK, SetLimit

\* Every step of the operator keeps the types.
LEMMA TypeOperator ==
  ASSUME TypeInv, OpStep, UNCHANGED envVars
  PROVE  TypeInv'
  <1>1. ASSUME NEW d \in Pids, CreateStartingDrone(d) \/ CreateDrone(d)
        PROVE  TypeInv'
    <2>1. PICK loc \in {LOCATION_BASE, LOCATION_MISSION} : Fork(d, loc)
      BY <1>1, Zenon DEF CreateStartingDrone, CreateDrone
    <2>2. DroneTypeOK' /\ Control'
      BY <2>1 DEF TypeInv, TypeOK, DroneTypeOK, Fork, At, Goto, flagVars, auditVars,
           Control, ControlOf, Starting, Working, Pcs, Locations,
           LOCATION_UNDEFINE, LOCATION_BASE, LOCATION_MISSION
    <2>3. op_pc' \in {"starting", "top"} /\ UNCHANGED <<opFlags, shmVars, semVars, tokens>>
      BY <1>1 DEF CreateStartingDrone, CreateDrone, OpGoto
    <2>4. forked' \in 0..StartingDrones
      BY <1>1, RegistryAssumption
         DEF CreateStartingDrone, CreateDrone, TypeInv, TypeOK, ProcessTypeOK
    <2>5. ProcessTypeOK'
      BY <2>3, <2>4 DEF TypeInv, TypeOK, ProcessTypeOK, OpPcs, opFlags, envVars
    <2> QED BY <2>2, <2>3, <2>5, SameTypes DEF TypeInv, TypeOK
  <1>2. CASE StartingDone \/ StartingFails
    <2>1. /\ op_pc' \in {"top", "closing"}
          /\ forked' = 0
          /\ UNCHANGED <<opFlags, droneVars, shmVars, semVars, tokens>>
      BY <1>2 DEF StartingDone, StartingFails, OpGoto
    <2>2. ProcessTypeOK'
      BY <2>1, RegistryAssumption DEF TypeInv, TypeOK, ProcessTypeOK, OpPcs, opFlags, envVars
    <2> QED BY <2>1, <2>2, SameTypes DEF TypeInv, TypeOK
  <1>3. CASE OpSetup \/ OpSetupFails \/ OpLoopEnds \/ CreateFails \/ OpExit \/ OpCheck
    <2>1. /\ op_pc' \in {"starting", "top", "create", "closing", "done"}
          /\ UNCHANGED <<forked, opFlags, droneVars, shmVars, semVars, tokens>>
      BY <1>3 DEF OpSetup, OpSetupFails, OpLoopEnds, CreateFails, OpExit, OpCheck, OpGoto,
           InOneCriticalSection
    <2>2. ProcessTypeOK'
      BY <2>1 DEF TypeInv, TypeOK, ProcessTypeOK, OpPcs, opFlags, envVars
    <2> QED BY <2>1, <2>2, SameTypes DEF TypeInv, TypeOK
  <1>4. CASE OpSeesUsr1 \/ OpSeesUsr2
    <2>1. /\ op_pc' \in {"inc_lock", "dec_lock"}
          /\ op_sigusr1' \in BOOLEAN
          /\ op_sigusr2' \in BOOLEAN
          /\ UNCHANGED <<forked, op_shutdown, droneVars, shmVars, semVars, tokens>>
      BY <1>4 DEF OpSeesUsr1, OpSeesUsr2, OpGoto, TypeInv, TypeOK, ProcessTypeOK
    <2>2. ProcessTypeOK'
      BY <2>1, Zenon DEF TypeInv, TypeOK, ProcessTypeOK, OpPcs, envVars
    <2> QED BY <2>1, <2>2, SameTypes DEF TypeInv, TypeOK
  <1>5. CASE OpIncrease
    <2>1. DoubledLimit \in Int
      BY RegistryAssumption DEF TypeInv, TypeOK, ShmTypeOK, DoubledLimit
    <2>2. ShmTypeOK'
      BY <1>5, <2>1, SetLimitType DEF OpIncrease
    <2>3. op_pc' = "usr2" /\ UNCHANGED <<forked, opFlags, droneVars, semVars, tokens>>
      BY <1>5 DEF OpIncrease, OpGoto, InOneCriticalSection
    <2>4. ProcessTypeOK'
      BY <2>3 DEF TypeInv, TypeOK, ProcessTypeOK, OpPcs, opFlags, envVars
    <2> QED BY <2>2, <2>3, <2>4, SameTypes DEF TypeInv, TypeOK
  <1>6. CASE OpDecrease
    <2>1. HalvedLimit \in Int
      BY DEF TypeInv, TypeOK, ShmTypeOK, HalvedLimit
    <2>2. ShmTypeOK'
      BY <1>6, <2>1, SetLimitType DEF OpDecrease
    <2>3. /\ op_pc' = "check"
          /\ op_shutdown' = (op_shutdown \/ HalvedLimit <= 0)
          /\ UNCHANGED <<forked, op_sigusr1, op_sigusr2, droneVars, semVars, tokens>>
      BY <1>6 DEF OpDecrease, OpGoto, InOneCriticalSection
    <2>4. op_shutdown' \in BOOLEAN
      BY <2>3, Zenon
    <2>5. ProcessTypeOK'
      BY <2>3, <2>4, Zenon DEF TypeInv, TypeOK, ProcessTypeOK, OpPcs, envVars
    <2> QED BY <2>2, <2>3, <2>5, SameTypes DEF TypeInv, TypeOK
  <1> QED BY <1>1, <1>2, <1>3, <1>4, <1>5, <1>6 DEF OpStep

\* A signal delivered to a process, whatever becomes of it, keeps the types.
LEMMA TypeDeliver ==
  ASSUME TypeInv, NEW d \in Pids, NEW sig, Deliver(d, sig)
  PROVE  ShmTypeOK' /\ IpcTypeOK' /\ DroneTypeOK' /\ Control'
  <1> USE DEF TypeInv, TypeOK
  <1>1. CASE ProcessGone(d) /\ UNCHANGED <<auditVars, shmVars, tokens>>
    <2>1. DroneTypeOK'
      BY <1>1, DroneAssumption DEF DroneTypeOK, ProcessGone, Goto, auditVars, Pcs,
           Locations, LOCATION_UNDEFINE
    <2>2. Control'
      BY <1>1 DEF DroneTypeOK, ProcessGone, Goto, Control, ControlOf, Starting, Working,
           Pcs, Locations, LOCATION_UNDEFINE
    <2>3. IpcTypeOK'
      BY <1>1 DEF IpcTypeOK, ProcessGone, SemUndo
    <2> QED BY <1>1, <2>1, <2>2, <2>3, SameTypes
  <1>2. CASE RaiseFlag(d, sig)
    <2>1. got_sigusr1' \in [Pids -> BOOLEAN] /\ got_shutdown_requested' \in [Pids -> BOOLEAN]
      BY <1>2 DEF DroneTypeOK, RaiseFlag
    <2>2. DroneTypeOK' /\ Control'
      BY <1>2, <2>1 DEF DroneTypeOK, RaiseFlag, imageVars, auditVars, Control, ControlOf
    <2> QED BY <1>2, <2>2, SameTypes DEF RaiseFlag
  <1>3. CASE UNCHANGED <<droneVars, shmVars, semVars, tokens>>
    BY <1>3, SameTypes
  <1> QED BY <1>1, <1>2, <1>3 DEF Deliver

\* Every signal, sent or delivered, keeps the types.
LEMMA TypeEnvironment ==
  ASSUME TypeInv, Environment
  PROVE  TypeInv'
  <1> USE DEF TypeInv, TypeOK
  <1>1. ASSUME NEW sig, Send(sig)
        PROVE  signals_sent' \in Nat
    BY <1>1, SignalsAssumption DEF Send, ProcessTypeOK
  <1>2. CASE PickDronPid
    <2>1. SHM_AllDronesData_get_dron_pid \in Pids \cup {NoPid}
      <3>1. CASE Occupied = {}
        BY <3>1 DEF SHM_AllDronesData_get_dron_pid
      <3>2. CASE Occupied # {}
        <4> DEFINE first == CHOOSE i \in Occupied : \A j \in Occupied : i <= j
        <4>1. Occupied \in SUBSET Nat
          BY RegistryAssumption DEF Occupied, Slots
        <4>2. \E i \in Occupied : \A j \in Occupied : i <= j
          BY <3>2, <4>1, LeastElement
        <4>3. first \in Slots
          BY <4>2 DEF Occupied
        <4> HIDE DEF first
        <4>4. drones[first].pid \in Pids \cup {NoPid}
          BY <4>3 DEF ShmTypeOK
        <4> QED BY <3>2, <4>4 DEF SHM_AllDronesData_get_dron_pid, first
      <3> QED BY <3>1, <3>2
    <2>2. ProcessTypeOK'
      BY <1>1, <1>2, <2>1 DEF PickDronPid, ProcessTypeOK, opVars, opFlags
    <2> QED BY <1>2, <2>2, SameTypes DEF PickDronPid, InOneCriticalSection
  <1>3. CASE SendSuicide
    <2>1. dron_pid \in Pids
      BY <1>3 DEF SendSuicide, ProcessTypeOK
    <2>2. ProcessTypeOK'
      BY <1>3 DEF SendSuicide, ProcessTypeOK, opVars, opFlags
    <2> QED BY <1>3, <2>1, <2>2, TypeDeliver DEF SendSuicide
  <1>4. ASSUME NEW sig, OpSignal(sig), signals_sent' \in Nat,
               UNCHANGED dron_pid
        PROVE  TypeInv'
    <2>1. UNCHANGED <<forked, droneVars, shmVars, semVars, tokens>>
      BY <1>4 DEF OpSignal, OpRaiseFlag, OpKilled, OpIgnores, opVars
    <2>2. op_pc' \in OpPcs
      BY <1>4 DEF OpSignal, OpRaiseFlag, OpKilled, OpIgnores, OpGoto, opVars, ProcessTypeOK,
           OpPcs
    <2>3. /\ op_sigusr1' \in BOOLEAN
          /\ op_sigusr2' \in BOOLEAN
          /\ op_shutdown' \in BOOLEAN
      <3>1. CASE OpRaiseFlag(sig)
        BY <3>1, Zenon DEF OpRaiseFlag
      <3>2. CASE OpKilled \/ OpIgnores(sig)
        BY <3>2 DEF OpKilled, OpIgnores, opVars, opFlags, ProcessTypeOK
      <3> QED BY <1>4, <3>1, <3>2 DEF OpSignal
    <2>4. ProcessTypeOK'
      BY <1>4, <2>1, <2>2, <2>3, Zenon DEF ProcessTypeOK
    <2> QED BY <2>1, <2>4, SameTypes
  <1>5. CASE SendAddDrones \/ SendSubtractDrones \/ ShutdownOperator
    BY <1>1, <1>4, <1>5 DEF SendAddDrones, SendSubtractDrones, ShutdownOperator
  <1>6. ASSUME NEW d \in Pids, ShutdownDrone(d)
        PROVE  TypeInv'
    <2>1. ProcessTypeOK'
      BY <1>1, <1>6 DEF ShutdownDrone, ProcessTypeOK, opVars, opFlags
    <2> QED BY <1>6, <2>1, TypeDeliver DEF ShutdownDrone
  <1> QED BY <1>2, <1>3, <1>5, <1>6 DEF Environment

\* TypeInv is inductive.
THEOREM TypeInvariant == Spec => []TypeInv
  <1>1. TypeInv /\ [Next]_vars => TypeInv'
    <2> SUFFICES ASSUME TypeInv, [Next]_vars PROVE TypeInv'
      OBVIOUS
    <2>1. CASE UNCHANGED vars
      BY <2>1, SameTypes DEF vars, TypeInv, TypeOK
    <2>2. CASE Next
      BY <2>1, <2>2, TypeDrone, TypeOperator, TypeEnvironment DEF Next, Ended
    <2> QED BY <2>1, <2>2
  <1> QED BY <1>1, TypeInit, PTL DEF Spec

\* No run of the program leaves its types: slots given back to the stack are
\* slots, losses are counted under a reason, the battery stays in range.
THEOREM TypeCorrect == Spec => []TypeOK
  <1>1. TypeInv => TypeOK
    BY DEF TypeInv
  <1> QED BY <1>1, TypeInvariant, PTL
=============================================================================
