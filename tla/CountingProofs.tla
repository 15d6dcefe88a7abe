--------------------------- MODULE CountingProofs ---------------------------
(***************************************************************************)
(* What the program counts is what there is: the tokens of the gate, the   *)
(* reservations, the drones and places of the registry.  Each counter is   *)
(* compared with the cardinality of a set of drones or slots, and a step   *)
(* adds at most one element to that set or removes one.  From the counts   *)
(* follows what is left when the operator ends, and that the registry      *)
(* implements module Fleet.                                                *)
(***************************************************************************)
EXTENDS AdmissionProofs, RegistryProofs, FiniteSetTheorems

-----------------------------------------------------------------------------
(* One element more, one element less.                                     *)

LEMMA OneMore ==
  ASSUME NEW S, NEW T, NEW x, IsFiniteSet(S), x \notin S, T = S \cup {x}
  PROVE  /\ Cardinality(S) \in Nat /\ Cardinality(T) \in Nat
         /\ Cardinality(T) = Cardinality(S) + 1
  BY FS_AddElement, FS_CardinalityType

LEMMA OneLess ==
  ASSUME NEW S, NEW T, NEW x, IsFiniteSet(S), x \in S, T = S \ {x}
  PROVE  /\ Cardinality(S) \in Nat /\ Cardinality(T) \in Nat
         /\ Cardinality(T) = Cardinality(S) - 1
  BY FS_RemoveElement, FS_CardinalityType

\* A set that can be numbered by another without repetition is no larger.
LEMMA NoLarger ==
  ASSUME NEW S, IsFiniteSet(S), NEW T, IsFiniteSet(T), NEW f \in [S -> T],
         \A x, y \in S : f[x] = f[y] => x = y
  PROVE  Cardinality(S) <= Cardinality(T)
  <1>1. Cardinality(S) \in Nat /\ Cardinality(T) \in Nat
    BY FS_CardinalityType
  <1>2. ASSUME Cardinality(T) < Cardinality(S) PROVE FALSE
    <2>1. \E x, y \in S : x # y /\ f[x] = f[y]
      BY <1>2, FS_PigeonHole
    <2> QED BY <2>1
  <1> QED BY <1>1, <1>2

\* There are finitely many drones and slots, and Capacity slots.
LEMMA Finite ==
  /\ \A S \in SUBSET Pids : IsFiniteSet(S) /\ Cardinality(S) \in Nat
  /\ \A S \in SUBSET Slots : IsFiniteSet(S) /\ Cardinality(S) \in Nat
  /\ Cardinality(Slots) = Capacity
  <1>1. Capacity \in Nat \ {0}
    BY RegistryAssumption
  <1>2. IsFiniteSet(Slots) /\ Cardinality(Slots) = Capacity
    BY <1>1, FS_Interval DEF Slots
  <1> QED BY <1>2, PidsAssumption, FS_Subset, FS_CardinalityType

-----------------------------------------------------------------------------
(* The tokens of the gate.                                                 *)

InGate == {d \in Pids : pc[d] = "gate"}

\* Apart from the two ends of a passage no step of a drone moves a token or
\* has to do with being in the gate.
LEMMA OnlyPassing ==
  ASSUME TypeInv, NEW d \in Pids, DroneStep(d) \/ Battery(d), ~EnterGate(d), ~LeaveGate(d)
  PROVE  UNCHANGED <<tokens, InGate>>
  <1> USE DEF At, Goto
  <1>1. ASSUME pc[d] # "gate",
               \E label : pc' = [pc EXCEPT ![d] = label] /\ label # "gate"
        PROVE  UNCHANGED InGate
    BY <1>1 DEF InGate, TypeInv, TypeOK, DroneTypeOK
  <1>2. CASE Setup(d) \/ SetupFails(d) \/ AddLock(d) \/ Add(d) \/ AddFails(d) \/ LoopEnds(d)
    BY <1>1, <1>2 DEF Setup, SetupFails, AddLock, Add, AddFails, LoopEnds
  <1>3. CASE ProcessSigusr1(d) \/ BatteryStateCheck(d) \/ ForceBaseReturn(d)
             \/ ForceLeaveBase(d)
    BY <1>1, <1>3 DEF ProcessSigusr1, BatteryStateCheck, ForceBaseReturn, ForceLeaveBase,
         Condemn, InBody
  <1>4. CASE Delete(d) \/ Reserve(d) \/ Poll(d) \/ UpdateLocation(d)
    BY <1>1, <1>4 DEF Delete, Reserve, Poll, UpdateLocation
  <1>5. CASE ReserveLock(d)
    BY <1>1, <1>5 DEF ReserveLock, KeepsReservation, FindsPlace, FindsNoPlace
  <1>6. CASE Exit(d)
    <2>1. pc[d] = "closing" /\ pc' = [pc EXCEPT ![d] = "none"] /\ UNCHANGED tokens
      BY <1>6 DEF Exit, ProcessGone
    <2>2. UNCHANGED InGate
      BY <2>1 DEF InGate, TypeInv, TypeOK, DroneTypeOK
    <2> QED BY <2>1, <2>2
  <1>7. CASE Battery(d)
    BY <1>7 DEF Battery, InGate
  <1> QED BY <1>2, <1>3, <1>4, <1>5, <1>6, <1>7 DEF DroneStep

\* Nor have operator and signals.
LEMMA OthersPassNot ==
  ASSUME TypeInv, OpStep \/ Environment
  PROVE  UNCHANGED <<tokens, InGate>>
  <1>1. ASSUME UNCHANGED <<tokens, pc>> PROVE UNCHANGED <<tokens, InGate>>
    BY <1>1 DEF InGate
  <1>2. ASSUME NEW d \in Pids, CreateStartingDrone(d) \/ CreateDrone(d)
        PROVE  UNCHANGED <<tokens, InGate>>
    BY <1>2 DEF CreateStartingDrone, CreateDrone, Fork, At, Goto, InGate, TypeInv, TypeOK,
         DroneTypeOK
  <1>3. CASE OpStep
    BY <1>1, <1>2, <1>3 DEF OpStep, OpSetup, OpSetupFails, StartingDone, StartingFails,
         OpLoopEnds, OpSeesUsr1, OpSeesUsr2, OpIncrease, OpDecrease, OpCheck,
         CreateFails, OpExit, droneVars
  <1>4. ASSUME NEW d \in Pids, NEW sig, Deliver(d, sig)
        PROVE  UNCHANGED <<tokens, InGate>>
    <2>1. CASE pc[d] = "boot" /\ ProcessGone(d) /\ UNCHANGED tokens
      BY <2>1 DEF ProcessGone, Goto, InGate, TypeInv, TypeOK, DroneTypeOK
    <2> QED BY <1>1, <1>4, <2>1 DEF Deliver, RaiseFlag, droneVars
  <1>5. CASE SendSuicide
    BY <1>4, <1>5 DEF SendSuicide, TypeInv, TypeOK, ProcessTypeOK
  <1>6. ASSUME NEW d \in Pids, ShutdownDrone(d)
        PROVE  UNCHANGED <<tokens, InGate>>
    BY <1>4, <1>6 DEF ShutdownDrone
  <1>7. CASE PickDronPid \/ SendAddDrones \/ SendSubtractDrones \/ ShutdownOperator
    BY <1>1, <1>7 DEF PickDronPid, SendAddDrones, SendSubtractDrones, ShutdownOperator,
         OpSignal, OpRaiseFlag, OpKilled, OpIgnores, droneVars
  <1> QED BY <1>3, <1>5, <1>6, <1>7 DEF Environment

\* Every token is in the pipe or with one drone inside the gate, so that at
\* most GateCapacity drones pass at once and no token is ever lost, with
\* timeouts, lost races for a token and deaths around the gate (fifo.c:255,
\* fifo.c:171).
THEOREM Tokens == Spec => []GateTokensConserved
  <1> USE DEF GateTokensConserved
  <1>1. Init => GateTokensConserved
    <2> SUFFICES ASSUME Init PROVE GateTokensConserved
      OBVIOUS
    <2>1. InGate = {} /\ tokens = GateCapacity
      BY DEF Init, DroneInit, FifoInit, InGate
    <2> QED BY <2>1, GateAssumption, FS_EmptySet DEF InGate
  <1>2. TypeInv /\ GateTokensConserved /\ [Next]_vars => GateTokensConserved'
    <2> SUFFICES ASSUME TypeInv, GateTokensConserved, [Next]_vars
                 PROVE  GateTokensConserved'
      OBVIOUS
    <2>0. /\ tokens \in Int /\ GateCapacity \in Nat
          /\ IsFiniteSet(InGate)
          /\ tokens + Cardinality(InGate) = GateCapacity
      BY GateAssumption, Finite DEF TypeInv, TypeOK, IpcTypeOK, InGate
    <2> SUFFICES tokens' + Cardinality(InGate') = GateCapacity
      BY DEF InGate
    <2>1. CASE UNCHANGED <<tokens, InGate>>
      BY <2>0, <2>1
    <2>2. ASSUME NEW d \in Pids, EnterGate(d)
          PROVE  tokens' + Cardinality(InGate') = GateCapacity
      <3>1. d \notin InGate /\ InGate' = InGate \cup {d}
        BY <2>2 DEF EnterGate, At, Goto, InGate, TypeInv, TypeOK, DroneTypeOK
      <3>2. tokens' = tokens - 1
        BY <2>2 DEF EnterGate, ReadToken
      <3> QED BY <2>0, <3>1, <3>2, OneMore
    <2>3. ASSUME NEW d \in Pids, LeaveGate(d)
          PROVE  tokens' + Cardinality(InGate') = GateCapacity
      <3>1. d \in InGate /\ InGate' = InGate \ {d}
        BY <2>3 DEF LeaveGate, At, Goto, InGate, TypeInv, TypeOK, DroneTypeOK
      <3>2. tokens' = tokens + 1
        BY <2>3 DEF LeaveGate, fifo_sem_unlock
      <3> QED BY <2>0, <3>1, <3>2, OneLess
    <2>4. CASE UNCHANGED vars
      BY <2>1, <2>4 DEF vars, droneVars, InGate
    <2> QED BY <2>1, <2>2, <2>3, <2>4, OnlyPassing, OthersPassNot DEF Next, Ended
  <1> QED BY <1>1, <1>2, TypeInvariant, PTL DEF Spec

-----------------------------------------------------------------------------
(* What the counters of the registry are about.                            *)

countVars == <<dron_count, dron_in_base_count, dron_reserving_space_count, drones,
               free_space_stack, my_index, have_reserved_space, left_reservations>>

\* A step that leaves the registry, and who has what in it, as it was.
Quiet == UNCHANGED countVars /\ \A e \in Pids : Deleted(e)' <=> Deleted(e)

LEMMA QuietMoves ==
  ASSUME TypeInv, UNCHANGED countVars, NEW d \in Pids, ~Deleted(d), ~Deleted(d)',
         \A e \in Pids \ {d} : pc'[e] = pc[e] /\ reason'[e] = reason[e]
  PROVE  Quiet
  BY DEF Quiet, Deleted

\* A process that is gone before it has registered had nothing.
LEMMA QuietGone ==
  ASSUME TypeInv, NEW d \in Pids, pc[d] = "boot", ProcessGone(d),
         UNCHANGED <<auditVars, shmVars>>
  PROVE  Quiet
  <1>1. my_index[d] = NoIndex /\ have_reserved_space[d] = FALSE
    BY DEF TypeInv, TypeOK, DroneTypeOK, Control, ControlOf, Starting
  <1>2. UNCHANGED <<my_index, have_reserved_space>>
    BY <1>1 DEF ProcessGone, TypeInv, TypeOK, DroneTypeOK
  <1>3. ~Deleted(d) /\ ~Deleted(d)'
    BY DEF Deleted, ProcessGone, Goto, TypeInv, TypeOK, DroneTypeOK
  <1>4. \A e \in Pids \ {d} : pc'[e] = pc[e] /\ reason'[e] = reason[e]
    BY DEF ProcessGone, Goto, TypeInv, TypeOK, DroneTypeOK
  <1> QED BY <1>2, <1>3, <1>4, QuietMoves DEF countVars, auditVars, shmVars

\* Of a drone's steps only the four that count and the exit are not quiet.
LEMMA DroneKinds ==
  ASSUME TypeInv, NEW d \in Pids, DroneStep(d) \/ Battery(d), ~Counting(d), ~Exit(d)
  PROVE  Quiet
  <1> USE DEF At, Goto, countVars, shmVars, imageVars, auditVars
  <1>0. /\ pc \in [Pids -> Pcs] /\ reason \in [Pids -> Reasons \cup {"none"}]
        /\ \A e \in Pids : pc[e] \in Starting \cup (Working \ {"del_lock"}) => reason[e] = "none"
    BY DEF TypeInv, TypeOK, DroneTypeOK, Control, ControlOf
  <1>1. ASSUME pc[d] # "closing", UNCHANGED countVars,
               NEW label, pc' = [pc EXCEPT ![d] = label],
               \/ label = "closing" /\ reason[d] = "none" /\ reason' = reason
               \/ label # "closing"
                  /\ (reason' = reason \/ \E why : reason' = [reason EXCEPT ![d] = why])
        PROVE  Quiet
    <2>1. \A e \in Pids \ {d} : pc'[e] = pc[e] /\ reason'[e] = reason[e]
      BY <1>0, <1>1
    <2>2. ~Deleted(d) /\ ~Deleted(d)'
      BY <1>0, <1>1 DEF Deleted
    <2> QED BY <1>1, <2>1, <2>2, QuietMoves
  <1>2. CASE Setup(d) \/ SetupFails(d) \/ AddLock(d) \/ AddFails(d) \/ LoopEnds(d)
    <2>1. pc[d] \in {"boot", "add_lock", "add_cs", "loop"}
      BY <1>2 DEF Setup, SetupFails, AddLock, AddFails, LoopEnds
    <2>2. reason[d] = "none" /\ pc[d] # "closing"
      BY <1>0, <2>1 DEF Starting, Working
    <2>3. UNCHANGED <<countVars, reason>> /\ \E label : pc' = [pc EXCEPT ![d] = label]
      BY <1>2 DEF Setup, SetupFails, AddLock, AddFails, LoopEnds
    <2> QED BY <1>1, <2>2, <2>3
  <1>3. CASE ProcessSigusr1(d)
    BY <1>1, <1>3 DEF ProcessSigusr1, Condemn
  <1>4. CASE BatteryStateCheck(d)
    BY <1>1, <1>4 DEF BatteryStateCheck, Condemn, InBody
  <1>5. CASE ForceBaseReturn(d)
    BY <1>1, <1>5 DEF ForceBaseReturn, Condemn, InBody
  <1>6. CASE ForceLeaveBase(d)
    BY <1>1, <1>6 DEF ForceLeaveBase, InBody
  <1>7. CASE ReserveLock(d)
    BY <1>1, <1>7 DEF ReserveLock, KeepsReservation, FindsPlace, FindsNoPlace
  <1>8. CASE Poll(d) \/ EnterGate(d) \/ LeaveGate(d)
    BY <1>1, <1>8 DEF Poll, EnterGate, LeaveGate
  <1>9. CASE Battery(d)
    BY <1>9 DEF Battery, Quiet, Deleted
  <1> QED BY <1>2, <1>3, <1>4, <1>5, <1>6, <1>7, <1>8, <1>9 DEF DroneStep, Counting

\* Nor is any other step: a new process has nothing, a signal moves nothing.
LEMMA OtherKinds ==
  ASSUME TypeInv, OpStep \/ Environment \/ UNCHANGED vars
  PROVE  Quiet
  <1> USE DEF countVars, shmVars, droneVars, imageVars, auditVars
  <1>1. ASSUME UNCHANGED <<countVars, pc, reason>> PROVE Quiet
    BY <1>1 DEF Quiet, Deleted
  <1>2. ASSUME NEW d \in Pids, CreateStartingDrone(d) \/ CreateDrone(d)
        PROVE  Quiet
    <2>1. /\ pc[d] = "none" /\ pc' = [pc EXCEPT ![d] = "boot"]
          /\ UNCHANGED <<countVars, reason>>
      BY <1>2 DEF CreateStartingDrone, CreateDrone, Fork, At, Goto
    <2>2. pc'[d] = "boot" /\ \A e \in Pids \ {d} : pc'[e] = pc[e] /\ reason'[e] = reason[e]
      BY <2>1 DEF TypeInv, TypeOK, DroneTypeOK
    <2> QED BY <2>1, <2>2, QuietMoves DEF Deleted
  <1>3. CASE OpStep
    BY <1>1, <1>2, <1>3 DEF OpStep, OpSetup, OpSetupFails, StartingDone, StartingFails,
         OpLoopEnds, OpSeesUsr1, OpSeesUsr2, OpIncrease, OpDecrease, OpCheck,
         CreateFails, OpExit, SetLimit
  <1>4. ASSUME NEW d \in Pids, NEW sig, Deliver(d, sig)
        PROVE  Quiet
    BY <1>1, <1>4, QuietGone DEF Deliver, RaiseFlag
  <1>5. CASE SendSuicide
    BY <1>4, <1>5 DEF SendSuicide, TypeInv, TypeOK, ProcessTypeOK
  <1>6. ASSUME NEW d \in Pids, ShutdownDrone(d)
        PROVE  Quiet
    BY <1>4, <1>6 DEF ShutdownDrone
  <1>7. CASE PickDronPid \/ SendAddDrones \/ SendSubtractDrones \/ ShutdownOperator
    BY <1>1, <1>7 DEF PickDronPid, SendAddDrones, SendSubtractDrones, ShutdownOperator,
         OpSignal, OpRaiseFlag, OpKilled, OpIgnores
  <1>8. CASE UNCHANGED vars
    BY <1>1, <1>8 DEF vars
  <1> QED BY <1>3, <1>5, <1>6, <1>7, <1>8 DEF Environment

LEMMA StepKinds ==
  ASSUME TypeInv, [Next]_vars
  PROVE  Quiet \/ \E d \in Pids : Counting(d) \/ Exit(d)
  BY DroneKinds, OtherKinds DEF Next, Ended

-----------------------------------------------------------------------------
(* Reservations.                                                           *)

\* The drone itself changes its own status only.
LEMMA OwnStatus ==
  ASSUME TypeInv, NEW d \in Pids, Counting(d) \/ Exit(d)
  PROVE  \A e \in Pids \ {d} : /\ (Deleted(e)' <=> Deleted(e))
                               /\ have_reserved_space'[e] = have_reserved_space[e]
                               /\ my_index'[e] = my_index[e]
                               /\ location'[e] = location[e]
  <1> USE DEF TypeInv, TypeOK, DroneTypeOK, At, Goto, Deleted, imageVars
  <1>1. CASE Add(d)
    BY <1>1 DEF Add
  <1>2. CASE Reserve(d)
    BY <1>2 DEF Reserve
  <1>3. CASE UpdateLocation(d)
    BY <1>3 DEF UpdateLocation
  <1>4. CASE Delete(d)
    BY <1>4 DEF Delete
  <1>5. CASE Exit(d)
    BY <1>5 DEF Exit, ProcessGone
  <1> QED BY <1>1, <1>2, <1>3, <1>4, <1>5 DEF Counting

\* A drone that carries on is not deleted.
LEMMA NotDeleted ==
  ASSUME TypeInv, NEW d \in Pids, pc[d] \in {"add_cs", "res_cs", "upd_lock", "del_lock"}
  PROVE  /\ ~Deleted(d)
         /\ \A label : (pc' = [pc EXCEPT ![d] = label] /\ label # "closing") => ~Deleted(d)'
  BY DEF Deleted, TypeInv, TypeOK, DroneTypeOK

\* What becomes of the set of drones that hold a reservation.
LEMMA ReservingSteps ==
  ASSUME TypeInv, Entry, Slotted, [Next]_vars
  PROVE  \/ UNCHANGED <<Reserving, dron_reserving_space_count, left_reservations>>
         \/ \E d \in Pids \ Reserving : /\ Reserving' = Reserving \cup {d}
                                        /\ dron_reserving_space_count' = dron_reserving_space_count + 1
                                        /\ UNCHANGED left_reservations
         \/ \E d \in Reserving : /\ Reserving' = Reserving \ {d}
                                 /\ dron_reserving_space_count' = dron_reserving_space_count - 1
                                 /\ UNCHANGED left_reservations
         \/ \E d \in Reserving : /\ Reserving' = Reserving \ {d}
                                 /\ UNCHANGED dron_reserving_space_count
                                 /\ left_reservations' = left_reservations + 1
  <1>0. /\ have_reserved_space \in [Pids -> BOOLEAN]
        /\ dron_reserving_space_count \in Int /\ left_reservations \in Nat
        /\ pc \in [Pids -> Pcs]
    BY DEF TypeInv, TypeOK, DroneTypeOK, ShmTypeOK
  <1>1. CASE Quiet
    BY <1>1 DEF Quiet, countVars, Reserving
  <1>2. ASSUME NEW d \in Pids, Add(d)
        PROVE  UNCHANGED <<Reserving, dron_reserving_space_count, left_reservations>>
    <2>1. ~Deleted(d) /\ ~Deleted(d)'
      BY <1>2, NotDeleted DEF Add, At, Goto
    <2> QED BY <1>2, <2>1, OwnStatus
            DEF Counting, Add, SHM_AllDronesData_add_dron, auditVars, Reserving
  <1>3. ASSUME NEW d \in Pids, Reserve(d)
        PROVE  /\ d \notin Reserving /\ Reserving' = Reserving \cup {d}
               /\ dron_reserving_space_count' = dron_reserving_space_count + 1
               /\ UNCHANGED left_reservations
    <2>1. ~Deleted(d) /\ ~Deleted(d)'
      BY <1>3, NotDeleted DEF Reserve, At, Goto
    <2>2. ~have_reserved_space[d] /\ have_reserved_space'[d]
      BY <1>0, <1>3 DEF Reserve, At, Entry, EntryOf
    <2> QED BY <1>3, <2>1, <2>2, OwnStatus DEF Counting, Reserve, auditVars, Reserving
  <1>4. ASSUME NEW d \in Pids, UpdateLocation(d)
        PROVE  \/ UNCHANGED <<Reserving, dron_reserving_space_count, left_reservations>>
               \/ /\ d \in Reserving /\ Reserving' = Reserving \ {d}
                  /\ dron_reserving_space_count' = dron_reserving_space_count - 1
                  /\ UNCHANGED left_reservations
    <2>1. ~Deleted(d) /\ ~Deleted(d)'
      BY <1>4, NotDeleted DEF UpdateLocation, At, Goto
    <2>2. my_index[d] # NoIndex /\ drones[my_index[d]].location = location[d]
      BY <1>4, <2>1, RegistryAssumption DEF UpdateLocation, At, TypeInv, Control, ControlOf,
           Working, Slots, NoIndex, Slotted, SlotsOwned, Registered
    <2>3. CASE location[d] = LOCATION_MISSION
      <3>1. have_reserved_space[d] /\ ~have_reserved_space'[d]
        BY <1>0, <1>4, <2>3 DEF UpdateLocation, At, Entry, EntryOf, GatePcs
      <3>2. dron_reserving_space_count' = dron_reserving_space_count - 1
        BY <1>4, <2>2, <2>3 DEF UpdateLocation, SHM_AllDronesData_update_dron_location,
             ReservationsAfterLeaving
      <3> QED BY <1>4, <2>1, <3>1, <3>2, OwnStatus
              DEF Counting, UpdateLocation, auditVars, Reserving
    <2>4. CASE location[d] # LOCATION_MISSION
      <3>1. ~have_reserved_space[d] /\ ~have_reserved_space'[d]
        BY <1>0, <1>4, <2>4 DEF UpdateLocation, Entry, EntryOf
      <3>2. dron_reserving_space_count' = dron_reserving_space_count
        BY <1>0, <1>4, <2>2, <2>4 DEF UpdateLocation, SHM_AllDronesData_update_dron_location,
             ReservationsAfterLeaving
      <3> QED BY <1>4, <3>1, <3>2, OwnStatus DEF Counting, UpdateLocation, auditVars,
           Reserving
    <2> QED BY <2>3, <2>4
  <1>5. ASSUME NEW d \in Pids, Delete(d)
        PROVE  \/ UNCHANGED <<Reserving, dron_reserving_space_count, left_reservations>>
               \/ /\ d \in Reserving /\ Reserving' = Reserving \ {d}
                  /\ dron_reserving_space_count' = dron_reserving_space_count - 1
                  /\ UNCHANGED left_reservations
    <2>1. ~Deleted(d)
      BY <1>5, NotDeleted DEF Delete, At
    <2>2. Deleted(d)'
      BY <1>0, <1>5 DEF Delete, At, Goto, Deleted, TypeInv, Control, ControlOf, Reasons
    <2>3. CASE have_reserved_space[d]
      <3>1. dron_reserving_space_count' = dron_reserving_space_count - 1
        BY <1>5, <2>3 DEF Delete, SHM_AllDronesData_delete_drone, ReservationsWithout
      <3> QED BY <1>5, <2>1, <2>2, <2>3, <3>1, OwnStatus
              DEF Counting, Delete, auditVars, Reserving
    <2>4. CASE ~have_reserved_space[d]
      <3>1. dron_reserving_space_count' = dron_reserving_space_count
        BY <1>0, <1>5, <2>4 DEF Delete, SHM_AllDronesData_delete_drone, ReservationsWithout
      <3> QED BY <1>5, <2>2, <2>4, <3>1, OwnStatus DEF Counting, Delete, auditVars, Reserving
    <2> QED BY <2>3, <2>4
  <1>6. ASSUME NEW d \in Pids, Exit(d)
        PROVE  \/ UNCHANGED <<Reserving, dron_reserving_space_count, left_reservations>>
               \/ /\ d \in Reserving /\ Reserving' = Reserving \ {d}
                  /\ UNCHANGED dron_reserving_space_count
                  /\ left_reservations' = left_reservations + 1
    <2>1. pc[d] = "closing" /\ ~have_reserved_space'[d] /\ UNCHANGED dron_reserving_space_count
      BY <1>0, <1>6 DEF Exit, ProcessGone, shmVars
    <2>2. CASE d \in Reserving
      <3>1. have_reserved_space[d] /\ reason[d] = "none"
        BY <2>1, <2>2 DEF Reserving, Deleted
      <3>2. left_reservations' = left_reservations + 1
        BY <1>6, <3>1 DEF Exit
      <3> QED BY <1>6, <2>1, <2>2, <3>2, OwnStatus DEF Reserving
    <2>3. CASE d \notin Reserving
      <3>1. ~(have_reserved_space[d] /\ reason[d] = "none")
        BY <2>1, <2>3 DEF Reserving, Deleted
      <3>2. left_reservations' = left_reservations
        BY <1>0, <1>6, <3>1 DEF Exit
      <3> QED BY <1>6, <2>1, <2>3, <3>2, OwnStatus DEF Reserving
    <2> QED BY <2>2, <2>3
  <1> QED BY <1>1, <1>2, <1>3, <1>4, <1>5, <1>6, StepKinds DEF Counting

\* dron_reserving_space_count is the number of drones that hold a reservation
\* and of those that were told to shut down while they held one: it is never
\* negative (shm.c:88, shm.c:123), a timeout at the gate does not reserve
\* twice (dron.c:438), and dying gives the place back.
THEOREM Reservations == Spec => []ReservationsMatch
  <1>1. Init => ReservationsMatch
    <2> SUFFICES ASSUME Init PROVE ReservationsMatch
      OBVIOUS
    <2>1. /\ Reserving = {}
          /\ dron_reserving_space_count = 0 /\ left_reservations = 0
      BY DEF Init, ShmInit, DroneInit, Reserving
    <2> QED BY <2>1, FS_EmptySet DEF ReservationsMatch
  <1>2. TypeInv /\ Entry /\ Slotted /\ ReservationsMatch /\ [Next]_vars => ReservationsMatch'
    <2> SUFFICES ASSUME TypeInv, Entry, Slotted, ReservationsMatch, [Next]_vars
                 PROVE  dron_reserving_space_count' = Cardinality(Reserving') + left_reservations'
      BY DEF ReservationsMatch
    <2>0. /\ IsFiniteSet(Reserving) /\ Cardinality(Reserving) \in Nat
          /\ left_reservations \in Nat
          /\ dron_reserving_space_count = Cardinality(Reserving) + left_reservations
      BY Finite DEF Reserving, TypeInv, TypeOK, DroneTypeOK, ReservationsMatch
    <2>1. CASE UNCHANGED <<Reserving, dron_reserving_space_count, left_reservations>>
      BY <2>0, <2>1
    <2>2. ASSUME NEW d \in Pids \ Reserving, Reserving' = Reserving \cup {d},
                 dron_reserving_space_count' = dron_reserving_space_count + 1,
                 UNCHANGED left_reservations
          PROVE  dron_reserving_space_count' = Cardinality(Reserving') + left_reservations'
      <3>1. Cardinality(Reserving') = Cardinality(Reserving) + 1
        BY <2>0, <2>2, OneMore
      <3> QED BY <2>0, <2>2, <3>1
    <2>3. ASSUME NEW d \in Reserving, Reserving' = Reserving \ {d},
                 dron_reserving_space_count' - left_reservations' =
                     dron_reserving_space_count - left_reservations - 1,
                 dron_reserving_space_count' \in Int, left_reservations' \in Int
          PROVE  dron_reserving_space_count' = Cardinality(Reserving') + left_reservations'
      <3>1. Cardinality(Reserving') = Cardinality(Reserving) - 1
        BY <2>0, <2>3, OneLess
      <3> QED BY <2>0, <2>3, <3>1
    <2>4. ASSUME NEW d \in Reserving,
                 \/ /\ dron_reserving_space_count' = dron_reserving_space_count - 1
                    /\ UNCHANGED left_reservations
                 \/ /\ UNCHANGED dron_reserving_space_count
                    /\ left_reservations' = left_reservations + 1
          PROVE  /\ dron_reserving_space_count' - left_reservations' =
                        dron_reserving_space_count - left_reservations - 1
                 /\ dron_reserving_space_count' \in Int /\ left_reservations' \in Int
      BY <2>0, <2>4
    <2> QED BY <2>1, <2>2, <2>3, <2>4, ReservingSteps
  <1> QED BY <1>1, <1>2, TypeInvariant, EntryInvariant, SlottedInvariant, PTL DEF Spec

-----------------------------------------------------------------------------
(* Slots by location.                                                      *)

SlotsAt(loc) == {i \in Slots : drones[i].location = loc}

\* A step that rewrites one slot takes it from one set and puts it in another.
LEMMA SlotCount ==
  ASSUME NEW i \in Slots, \A j \in Slots \ {i} : drones'[j] = drones[j], NEW loc
  PROVE  /\ Cardinality(SlotsAt(loc)) \in Nat
         /\ Cardinality(SlotsAt(loc)') =
                Cardinality(SlotsAt(loc)) + (IF drones'[i].location = loc THEN 1 ELSE 0)
                                          - (IF drones[i].location = loc THEN 1 ELSE 0)
  <1>1. IsFiniteSet(SlotsAt(loc)) /\ Cardinality(SlotsAt(loc)) \in Nat
    BY Finite DEF SlotsAt
  <1>2. CASE drones[i].location = loc /\ drones'[i].location = loc
    <2>1. SlotsAt(loc)' = SlotsAt(loc)
      BY <1>2 DEF SlotsAt
    <2> QED BY <1>1, <1>2, <2>1
  <1>3. CASE drones[i].location # loc /\ drones'[i].location # loc
    <2>1. SlotsAt(loc)' = SlotsAt(loc)
      BY <1>3 DEF SlotsAt
    <2> QED BY <1>1, <1>3, <2>1
  <1>4. CASE drones[i].location # loc /\ drones'[i].location = loc
    <2>1. i \notin SlotsAt(loc) /\ SlotsAt(loc)' = SlotsAt(loc) \cup {i}
      BY <1>4 DEF SlotsAt
    <2> QED BY <1>1, <1>4, <2>1, OneMore
  <1>5. CASE drones[i].location = loc /\ drones'[i].location # loc
    <2>1. i \in SlotsAt(loc) /\ SlotsAt(loc)' = SlotsAt(loc) \ {i}
      BY <1>5 DEF SlotsAt
    <2> QED BY <1>1, <1>5, <2>1, OneLess
  <1> QED BY <1>2, <1>3, <1>4, <1>5

\* The three steps that rewrite a slot: registration takes the one on top of
\* the stack...
LEMMA AddSlot ==
  ASSUME TypeInv, Slotted, NEW d \in Pids, Add(d)
  PROVE  LET top == Stack_popped(free_space_stack)
         IN  /\ top \in Slots
             /\ drones[top].location = LOCATION_UNDEFINE
             /\ drones'[top].location = location[d]
             /\ \A j \in Slots \ {top} : drones'[j] = drones[j]
             /\ location[d] \in {LOCATION_BASE, LOCATION_MISSION}
             /\ my_index'[d] = top
             /\ dron_count' = dron_count + 1
             /\ dron_in_base_count' =
                   dron_in_base_count + (IF location[d] = LOCATION_BASE THEN 1 ELSE 0)
  <1> DEFINE top == Stack_popped(free_space_stack)
  <1>0. /\ free_space_stack \in Seq(Slots) /\ Len(free_space_stack) \in Nat
        /\ drones \in [Slots -> [pid : Pids \cup {NoPid}, location : Locations]]
        /\ my_index \in [Pids -> Slots \cup {NoIndex}]
    BY DEF TypeInv, TypeOK, ShmTypeOK, DroneTypeOK
  <1>1. /\ drones' = [drones EXCEPT ![top] = [pid |-> d, location |-> location[d]]]
        /\ my_index' = [my_index EXCEPT ![d] = top]
        /\ pc[d] = "add_cs"
        /\ free_space_stack # <<>>
        /\ dron_count' = dron_count + 1
        /\ dron_in_base_count' =
              dron_in_base_count + (IF location[d] = LOCATION_BASE THEN 1 ELSE 0)
    BY DEF Add, At, SHM_AllDronesData_add_dron, Stack_is_empty
  <1>2. Len(free_space_stack) \in 1..Len(free_space_stack)
    BY <1>0, <1>1
  <1>3. top \in Slots /\ drones[top].location = LOCATION_UNDEFINE
    BY <1>0, <1>2 DEF Stack_popped, Slotted, FreeSlots
  <1>4. location[d] \in {LOCATION_BASE, LOCATION_MISSION}
    BY <1>1 DEF TypeInv, Control, ControlOf
  <1> HIDE DEF top
  <1>5. /\ drones'[top].location = location[d]
        /\ \A j \in Slots \ {top} : drones'[j] = drones[j]
        /\ my_index'[d] = top
    BY <1>0, <1>1, <1>3
  <1> QED BY <1>1, <1>3, <1>4, <1>5 DEF top

\* ...deletion and the way through the gate the drone's own.
LEMMA OwnSlot ==
  ASSUME TypeInv, Slotted, NEW d \in Pids, Delete(d) \/ UpdateLocation(d)
  PROVE  /\ Registered(d)
         /\ my_index[d] \in Slots
         /\ drones[my_index[d]].location = location[d]
         /\ location[d] \in {LOCATION_BASE, LOCATION_MISSION}
         /\ \A j \in Slots \ {my_index[d]} : drones'[j] = drones[j]
         /\ UNCHANGED my_index
  <1>0. drones \in [Slots -> [pid : Pids \cup {NoPid}, location : Locations]]
    BY DEF TypeInv, TypeOK, ShmTypeOK
  <1>1. /\ pc[d] \in {"del_lock", "upd_lock"}
        /\ \E new : drones' = [drones EXCEPT ![my_index[d]].location = new]
        /\ UNCHANGED my_index
    BY DEF Delete, UpdateLocation, At, SHM_AllDronesData_delete_drone,
         SHM_AllDronesData_update_dron_location, imageVars
  <1>2. Registered(d) /\ my_index[d] \in Slots
        /\ location[d] \in {LOCATION_BASE, LOCATION_MISSION}
    BY <1>1, RegistryAssumption DEF Registered, Deleted, TypeInv, Control, ControlOf,
         Working, NoIndex, Slots
  <1>3. drones[my_index[d]].location = location[d]
    BY <1>2 DEF Slotted, SlotsOwned
  <1> QED BY <1>0, <1>1, <1>2, <1>3

LEMMA DeleteSlot ==
  ASSUME TypeInv, Slotted, NEW d \in Pids, Delete(d)
  PROVE  /\ drones'[my_index[d]].location = LOCATION_UNDEFINE
         /\ dron_count' = dron_count - 1
         /\ dron_in_base_count' =
               dron_in_base_count - (IF location[d] = LOCATION_BASE THEN 1 ELSE 0)
         /\ free_space_stack' = Stack_push(free_space_stack, Capacity, my_index[d])
  <1>1. my_index[d] \in Slots /\ drones[my_index[d]].location = location[d]
    BY OwnSlot
  <1> QED BY <1>1 DEF Delete, SHM_AllDronesData_delete_drone, InBaseWithout, TypeInv, TypeOK,
            ShmTypeOK

LEMMA UpdateSlot ==
  ASSUME TypeInv, Slotted, NEW d \in Pids, UpdateLocation(d)
  PROVE  /\ location[d] = LOCATION_MISSION =>
               /\ drones'[my_index[d]].location = LOCATION_BASE
               /\ dron_in_base_count' = dron_in_base_count + 1
               /\ dron_reserving_space_count' = dron_reserving_space_count - 1
         /\ location[d] = LOCATION_BASE =>
               /\ drones'[my_index[d]].location = LOCATION_MISSION
               /\ dron_in_base_count' = dron_in_base_count - 1
               /\ UNCHANGED dron_reserving_space_count
         /\ UNCHANGED <<dron_count, free_space_stack>>
  <1>1. my_index[d] \in Slots /\ drones[my_index[d]].location = location[d]
    BY OwnSlot
  <1>2. /\ drones \in [Slots -> [pid : Pids \cup {NoPid}, location : Locations]]
        /\ dron_reserving_space_count \in Int
    BY DEF TypeInv, TypeOK, ShmTypeOK
  <1>3. CASE location[d] = LOCATION_MISSION
    BY <1>1, <1>2, <1>3 DEF UpdateLocation, SHM_AllDronesData_update_dron_location,
         ReservationsAfterLeaving, LOCATION_BASE, LOCATION_MISSION
  <1>4. CASE location[d] = LOCATION_BASE
    BY <1>1, <1>2, <1>4 DEF UpdateLocation, SHM_AllDronesData_update_dron_location,
         ReservationsAfterLeaving, LOCATION_BASE, LOCATION_MISSION
  <1>5. UNCHANGED <<dron_count, free_space_stack>>
    BY DEF UpdateLocation, SHM_AllDronesData_update_dron_location
  <1> QED BY <1>3, <1>4, <1>5

-----------------------------------------------------------------------------
(* The registry's counters.                                                *)

\* The counters in terms of locations; the free slots stand for dron_count.
Counts ==
    /\ dron_count = Capacity - Cardinality(SlotsAt(LOCATION_UNDEFINE))
    /\ dron_in_base_count = Cardinality(SlotsAt(LOCATION_BASE))
    /\ dron_count - dron_in_base_count = Cardinality(SlotsAt(LOCATION_MISSION))

LEMMA CountsKept == TypeInv /\ Slotted /\ Counts /\ [Next]_vars => Counts'
  <1> SUFFICES ASSUME TypeInv, Slotted, Counts, [Next]_vars PROVE Counts'
    OBVIOUS
  <1> USE DEF LOCATION_UNDEFINE, LOCATION_BASE, LOCATION_MISSION
  <1>0. dron_count \in Int /\ dron_in_base_count \in Int /\ Capacity \in Nat
    BY RegistryAssumption DEF TypeInv, TypeOK, ShmTypeOK
  <1>1. ASSUME UNCHANGED <<dron_count, dron_in_base_count, drones>> PROVE Counts'
    BY <1>1 DEF Counts, SlotsAt
  <1>2. ASSUME NEW d \in Pids, Add(d) PROVE Counts'
    BY <1>0, <1>2, AddSlot, SlotCount DEF Counts
  <1>3. ASSUME NEW d \in Pids, Delete(d) PROVE Counts'
    BY <1>0, <1>3, OwnSlot, DeleteSlot, SlotCount DEF Counts
  <1>4. ASSUME NEW d \in Pids, UpdateLocation(d) PROVE Counts'
    BY <1>0, <1>4, OwnSlot, UpdateSlot, SlotCount DEF Counts
  <1>5. ASSUME NEW d \in Pids, Reserve(d) \/ Exit(d) PROVE Counts'
    BY <1>1, <1>5 DEF Reserve, Exit, shmVars
  <1>6. CASE Quiet
    BY <1>1, <1>6 DEF Quiet, countVars
  <1> QED BY <1>2, <1>3, <1>4, <1>5, <1>6, StepKinds DEF Counting

LEMMA CountsInvariant == Spec => []Counts
  <1>1. Init => Counts
    <2> SUFFICES ASSUME Init PROVE Counts
      OBVIOUS
    <2>1. \A i \in Slots : drones[i].location = LOCATION_UNDEFINE
      BY DEF Init, ShmInit
    <2>2. /\ SlotsAt(LOCATION_UNDEFINE) = Slots
          /\ SlotsAt(LOCATION_BASE) = {}
          /\ SlotsAt(LOCATION_MISSION) = {}
      BY <2>1 DEF SlotsAt, LOCATION_UNDEFINE, LOCATION_BASE, LOCATION_MISSION
    <2>3. dron_count = 0 /\ dron_in_base_count = 0 /\ Capacity \in Nat
      BY RegistryAssumption DEF Init, ShmInit
    <2> QED BY <2>2, <2>3, Finite, FS_EmptySet DEF Counts
  <1> QED BY <1>1, CountsKept, TypeInvariant, SlottedInvariant, PTL DEF Spec

\* A slot is free to be pushed back: the stack holds other slots only, each
\* once, so that it cannot be full.  Stack_push, whose answer nobody looks at
\* (shm.c:133), never refuses.
LEMMA NeverFull ==
  ASSUME TypeInv, Slotted, NEW d \in Pids, Registered(d)
  PROVE  Len(free_space_stack) < Capacity
  <1> DEFINE n == Len(free_space_stack)
  <1> DEFINE others == Slots \ {my_index[d]}
  <1> DEFINE at == [k \in 1..n |-> free_space_stack[k]]
  <1>0. Capacity \in Nat \ {0} /\ n \in Nat /\ free_space_stack \in Seq(Slots)
    BY RegistryAssumption DEF TypeInv, TypeOK, ShmTypeOK
  <1>1. my_index[d] \in Slots /\ \A k \in 1..n : free_space_stack[k] # my_index[d]
    BY OwnedSlot
  <1>2. at \in [1..n -> others]
    BY <1>0, <1>1
  <1>3. IsFiniteSet(others) /\ Cardinality(others) = Capacity - 1
    <2>1. IsFiniteSet(Slots) /\ Cardinality(Slots) = Capacity
      BY Finite
    <2> QED BY <1>1, <2>1, FS_RemoveElement
  <1>4. IsFiniteSet(1..n) /\ Cardinality(1..n) = n
    BY <1>0, FS_Interval
  <1>5. \A k, l \in 1..n : at[k] = at[l] => k = l
    BY DEF Slotted, StackedOnce
  <1> HIDE DEF n, others, at
  <1>6. Cardinality(1..n) <= Cardinality(others)
    BY <1>2, <1>3, <1>4, <1>5, NoLarger
  <1>7. n < Capacity
    BY <1>0, <1>3, <1>4, <1>6
  <1> QED BY <1>7 DEF n

\* Every free slot is on the stack.
AllStacked ==
    \A i \in Slots : drones[i].location = LOCATION_UNDEFINE =>
        \E k \in 1..Len(free_space_stack) : free_space_stack[k] = i

LEMMA AllStackedKept == TypeInv /\ Slotted /\ AllStacked /\ [Next]_vars => AllStacked'
  <1> SUFFICES ASSUME TypeInv, Slotted, AllStacked, [Next]_vars PROVE AllStacked'
    OBVIOUS
  <1>0. free_space_stack \in Seq(Slots) /\ Len(free_space_stack) \in Nat
    BY DEF TypeInv, TypeOK, ShmTypeOK
  <1>1. ASSUME UNCHANGED <<drones, free_space_stack>> PROVE AllStacked'
    BY <1>1 DEF AllStacked
  <1>2. ASSUME NEW d \in Pids, Add(d) PROVE AllStacked'
    <2> DEFINE top == Stack_popped(free_space_stack)
    <2>1. /\ free_space_stack' = Stack_pop(free_space_stack)
          /\ free_space_stack # <<>>
      BY <1>2 DEF Add, SHM_AllDronesData_add_dron, Stack_is_empty
    <2>2. Len(free_space_stack) # 0 /\ top = free_space_stack[Len(free_space_stack)]
      BY <1>0, <2>1 DEF Stack_popped
    <2>3. /\ \A j \in Slots \ {top} : drones'[j] = drones[j]
          /\ drones'[top].location # LOCATION_UNDEFINE
      BY <1>2, AddSlot DEF LOCATION_UNDEFINE, LOCATION_BASE, LOCATION_MISSION
    <2> HIDE DEF top
    <2> SUFFICES ASSUME NEW i \in Slots, drones'[i].location = LOCATION_UNDEFINE
                 PROVE  \E k \in 1..Len(free_space_stack') : free_space_stack'[k] = i
      BY DEF AllStacked
    <2>4. i # top /\ drones[i].location = LOCATION_UNDEFINE
      BY <2>3
    <2>5. PICK k \in 1..Len(free_space_stack) : free_space_stack[k] = i
      BY <2>4 DEF AllStacked
    <2>6. k # Len(free_space_stack)
      BY <2>2, <2>4, <2>5
    <2>7. Len(free_space_stack') = Len(free_space_stack) - 1
      BY <1>0, <2>1, <2>2, StackPopElements
    <2>8. k \in 1..Len(free_space_stack')
      BY <1>0, <2>6, <2>7
    <2>9. free_space_stack'[k] = free_space_stack[k]
      BY <1>0, <2>1, <2>2, <2>8, StackPopElements
    <2> QED BY <2>5, <2>8, <2>9
  <1>3. ASSUME NEW d \in Pids, Delete(d) PROVE AllStacked'
    <2>1. /\ my_index[d] \in Slots /\ Registered(d)
          /\ \A j \in Slots \ {my_index[d]} : drones'[j] = drones[j]
      BY <1>3, OwnSlot
    <2>2. free_space_stack' = Append(free_space_stack, my_index[d])
      <3>1. Len(free_space_stack) < Capacity
        BY <2>1, NeverFull
      <3>2. ~Stack_is_full(free_space_stack, Capacity)
        BY <1>0, <3>1, RegistryAssumption DEF Stack_is_full
      <3> QED BY <1>3, <3>2, DeleteSlot DEF Stack_push
    <2>3. /\ Len(free_space_stack') = Len(free_space_stack) + 1
          /\ free_space_stack'[Len(free_space_stack) + 1] = my_index[d]
          /\ \A k \in 1..Len(free_space_stack) : free_space_stack'[k] = free_space_stack[k]
      BY <1>0, <2>1, <2>2
    <2>4. /\ 1..Len(free_space_stack) \subseteq 1..Len(free_space_stack')
          /\ Len(free_space_stack) + 1 \in 1..Len(free_space_stack')
      BY <1>0, <2>3
    <2> QED BY <2>1, <2>3, <2>4 DEF AllStacked
  <1>4. ASSUME NEW d \in Pids, UpdateLocation(d) PROVE AllStacked'
    <2>1. /\ my_index[d] \in Slots
          /\ location[d] \in {LOCATION_BASE, LOCATION_MISSION}
          /\ \A j \in Slots \ {my_index[d]} : drones'[j] = drones[j]
      BY <1>4, OwnSlot
    <2>2. /\ drones'[my_index[d]].location # LOCATION_UNDEFINE
          /\ UNCHANGED free_space_stack
      BY <1>4, <2>1, UpdateSlot DEF LOCATION_UNDEFINE, LOCATION_BASE, LOCATION_MISSION
    <2> QED BY <2>1, <2>2 DEF AllStacked
  <1>5. ASSUME NEW d \in Pids, Reserve(d) \/ Exit(d) PROVE AllStacked'
    BY <1>1, <1>5 DEF Reserve, Exit, shmVars
  <1>6. CASE Quiet
    BY <1>1, <1>6 DEF Quiet, countVars
  <1> QED BY <1>2, <1>3, <1>4, <1>5, <1>6, StepKinds DEF Counting

LEMMA AllStackedInvariant == Spec => []AllStacked
  <1>1. Init => AllStacked
    <2> SUFFICES ASSUME Init, NEW i \in Slots
                 PROVE  \E k \in 1..Len(free_space_stack) : free_space_stack[k] = i
      BY DEF AllStacked
    <2>1. Capacity \in Nat /\ free_space_stack = [k \in 1..Capacity |-> Capacity - k]
      BY RegistryAssumption DEF Init, ShmInit
    <2>2. Len(free_space_stack) = Capacity
      BY <2>1
    <2>3. i \in Int /\ Capacity - i \in 1..Capacity /\ Capacity - (Capacity - i) = i
      BY <2>1 DEF Slots
    <2> QED BY <2>1, <2>2, <2>3
  <1> QED BY <1>1, AllStackedKept, TypeInvariant, SlottedInvariant, PTL DEF Spec

\* The figures of the registry describe its slots, whatever order drones
\* register, land, leave, die and abandon their slots in: dron_count and
\* dron_in_base_count are exact, no free slot leaks from the stack and none is
\* on it twice (shm.c:66, shm.c:81, shm.c:97).
THEOREM Registry == Spec => []RegistryConsistent
  <1>1. TypeInv /\ Slotted /\ Counts /\ AllStacked => RegistryConsistent
    <2> SUFFICES ASSUME TypeInv, Slotted, Counts, AllStacked PROVE RegistryConsistent
      OBVIOUS
    <2>0. free_space_stack \in Seq(Slots) /\ Len(free_space_stack) \in Nat /\ Capacity \in Nat
      BY RegistryAssumption DEF TypeInv, TypeOK, ShmTypeOK
    <2>1. dron_count = Cardinality(Occupied)
      <3>1. Occupied = Slots \ SlotsAt(LOCATION_UNDEFINE)
        BY DEF Occupied, SlotsAt
      <3>2. Slots \cap SlotsAt(LOCATION_UNDEFINE) = SlotsAt(LOCATION_UNDEFINE)
        BY DEF SlotsAt
      <3>3. IsFiniteSet(Slots) /\ Cardinality(Slots) = Capacity
        BY Finite
      <3>4. Cardinality(Occupied) = Cardinality(Slots)
                                       - Cardinality(Slots \cap SlotsAt(LOCATION_UNDEFINE))
        BY <3>1, <3>3, FS_Difference
      <3> QED BY <3>2, <3>3, <3>4 DEF Counts
    <2>2. dron_in_base_count = Cardinality(SlotsInBase)
      BY DEF Counts, SlotsAt, SlotsInBase
    <2>3. \A i \in Slots : i \notin Occupied <=>
             \E k \in 1..Len(free_space_stack) : free_space_stack[k] = i
      BY <2>0 DEF AllStacked, Slotted, FreeSlots, Occupied
    <2> QED BY <2>1, <2>2, <2>3 DEF RegistryConsistent, Slotted, StackedOnce
  <1> QED BY <1>1, TypeInvariant, SlottedInvariant, CountsInvariant, AllStackedInvariant, PTL
=============================================================================
