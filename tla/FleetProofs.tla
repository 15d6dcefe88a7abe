----------------------------- MODULE FleetProofs -----------------------------
(***************************************************************************)
(* What drones leave behind, and that the registry implements module       *)
(* Fleet.  A drone told to shut down exits without leaving the registry    *)
(* (dron.c:647): its slot stays occupied, and if it held a reservation the *)
(* place stays reserved.  Both arguments are about these forsaken slots:   *)
(* without shutdowns there are none, and with them every reservation left  *)
(* behind has a slot on a mission behind it.                               *)
(***************************************************************************)
EXTENDS CountingProofs

\* Slots that no drone will ever give back.
Forsaken == {i \in Occupied : \A d \in Pids : Registered(d) => my_index[d] # i}

Stranded == {i \in Forsaken : drones[i].location = LOCATION_MISSION}

\* Registered depends on these only.
LEMMA SameOwners ==
  ASSUME NEW e \in Pids, Deleted(e)' <=> Deleted(e), my_index'[e] = my_index[e]
  PROVE  Registered(e)' <=> Registered(e)
  BY DEF Registered

\* A quiet step forsakes nothing.
LEMMA QuietForsaken ==
  ASSUME Quiet
  PROVE  UNCHANGED <<Forsaken, Stranded, left_reservations>>
  <1>1. UNCHANGED <<drones, my_index, left_reservations>>
    BY DEF Quiet, countVars
  <1>2. \A e \in Pids : Registered(e)' <=> Registered(e)
    BY <1>1, SameOwners DEF Quiet
  <1>3. UNCHANGED Forsaken
    BY <1>1, <1>2 DEF Forsaken, Occupied
  <1> QED BY <1>1, <1>3 DEF Stranded

\* Nor do the steps that count: a drone takes a slot of nobody's, changes its
\* own or gives it back.
LEMMA CountingForsaken ==
  ASSUME TypeInv, Slotted, NEW d \in Pids, Counting(d)
  PROVE  UNCHANGED <<Forsaken, Stranded, left_reservations>>
  <1>0. /\ UNCHANGED left_reservations
        /\ \A e \in Pids \ {d} : (Registered(e)' <=> Registered(e)) /\ my_index'[e] = my_index[e]
    BY OwnStatus, SameOwners DEF Counting, Add, Reserve, UpdateLocation, Delete, auditVars
  <1>1. CASE Reserve(d)
    <2>1. /\ UNCHANGED <<drones, my_index>>
          /\ pc[d] = "res_cs" /\ pc' = [pc EXCEPT ![d] = "poll"]
      BY <1>1 DEF Reserve, At, Goto
    <2>2. ~Deleted(d) /\ ~Deleted(d)'
      BY <2>1, NotDeleted
    <2>3. \A e \in Pids : Registered(e)' <=> Registered(e)
      BY <1>0, <2>1, <2>2 DEF Registered
    <2>4. UNCHANGED Forsaken
      BY <2>1, <2>3 DEF Forsaken, Occupied
    <2> QED BY <1>0, <2>1, <2>4 DEF Stranded
  <1>2. ASSUME NEW i \in Slots, \A j \in Slots \ {i} : drones'[j] = drones[j],
               i \notin Forsaken, i \notin Forsaken',
               Registered(d) => my_index[d] = i,
               Registered(d)' => my_index'[d] = i
        PROVE  UNCHANGED <<Forsaken, Stranded, left_reservations>>
    <2>1. \A j \in Slots \ {i} : j \in Forsaken' <=> j \in Forsaken
      BY <1>0, <1>2 DEF Forsaken, Occupied
    <2>2. Forsaken \subseteq Slots /\ Forsaken' \subseteq Slots
      BY DEF Forsaken, Occupied
    <2>3. UNCHANGED Forsaken
      BY <1>2, <2>1, <2>2
    <2>4. \A j \in Forsaken : drones'[j] = drones[j]
      BY <1>2, <2>2
    <2>5. UNCHANGED Stranded
      BY <2>3, <2>4 DEF Stranded
    <2> QED BY <1>0, <2>3, <2>5
  <1>3. CASE Add(d)
    <2> DEFINE top == Stack_popped(free_space_stack)
    <2>1. /\ top \in Slots /\ drones[top].location = LOCATION_UNDEFINE
          /\ \A j \in Slots \ {top} : drones'[j] = drones[j]
          /\ my_index'[d] = top
      BY <1>3, AddSlot
    <2>2. /\ pc[d] = "add_cs" /\ pc' = [pc EXCEPT ![d] = "loop"]
          /\ my_index[d] = NoIndex
      BY <1>3 DEF Add, At, Goto, TypeInv, Control, ControlOf, Starting
    <2>3. ~Registered(d)
      BY <2>2 DEF Registered
    <2>4. ~Deleted(d)'
      BY <2>2, NotDeleted
    <2>5. Registered(d)'
      BY <2>1, <2>4, RegistryAssumption DEF Registered, Slots, NoIndex
    <2> HIDE DEF top
    <2>6. top \notin Forsaken /\ top \notin Forsaken'
      BY <2>1, <2>5 DEF Forsaken, Occupied
    <2> QED BY <1>2, <2>1, <2>3, <2>6
  <1>4. CASE Delete(d) \/ UpdateLocation(d)
    <2>1. /\ Registered(d) /\ my_index[d] \in Slots /\ UNCHANGED my_index
          /\ \A j \in Slots \ {my_index[d]} : drones'[j] = drones[j]
      BY <1>4, OwnSlot
    <2>2. my_index[d] \notin Forsaken
      BY <2>1 DEF Forsaken
    <2>3. my_index[d] \notin Forsaken'
      <3>1. CASE Delete(d)
        <4>1. drones'[my_index[d]].location = LOCATION_UNDEFINE
          BY <3>1, DeleteSlot
        <4> QED BY <4>1 DEF Forsaken, Occupied
      <3>2. CASE UpdateLocation(d)
        <4>1. pc[d] = "upd_lock" /\ pc' = [pc EXCEPT ![d] = "loop"]
          BY <3>2 DEF UpdateLocation, At, Goto
        <4>2. Registered(d)'
          BY <2>1, <4>1, NotDeleted DEF Registered
        <4> QED BY <2>1, <4>2 DEF Forsaken
      <3> QED BY <1>4, <3>1, <3>2
    <2> QED BY <1>2, <2>1, <2>2, <2>3
  <1> QED BY <1>1, <1>3, <1>4 DEF Counting

\* An exit forsakes the slot of a drone that has not left the registry.
LEMMA ExitForsakes ==
  ASSUME TypeInv, Slotted, NEW d \in Pids, Exit(d)
  PROVE  /\ UNCHANGED drones
         /\ Registered(d) => /\ my_index[d] \in Slots \ Forsaken
                             /\ Forsaken' = Forsaken \cup {my_index[d]}
         /\ ~Registered(d) => UNCHANGED Forsaken
  <1>1. /\ UNCHANGED drones
        /\ my_index'[d] = NoIndex
        /\ my_index \in [Pids -> Slots \cup {NoIndex}]
    BY DEF Exit, ProcessGone, shmVars, TypeInv, TypeOK, DroneTypeOK
  <1>2. \A e \in Pids \ {d} : (Registered(e)' <=> Registered(e)) /\ my_index'[e] = my_index[e]
    BY OwnStatus, SameOwners
  <1>3. ~Registered(d)'
    BY <1>1 DEF Registered
  <1>4. ASSUME Registered(d)
        PROVE  /\ my_index[d] \in Slots \ Forsaken
               /\ Forsaken' = Forsaken \cup {my_index[d]}
    <2>1. my_index[d] \in Occupied
      BY <1>1, <1>4 DEF Slotted, SlotsOwned, Occupied, Registered
    <2>2. \A e \in Pids \ {d} : Registered(e) => my_index[e] # my_index[d]
      BY <1>4 DEF Slotted, SlotsOwned
    <2>3. my_index[d] \in Forsaken'
      BY <1>1, <1>2, <1>3, <2>1, <2>2 DEF Forsaken, Occupied
    <2>4. \A i \in Slots \ {my_index[d]} : i \in Forsaken' <=> i \in Forsaken
      BY <1>1, <1>2, <1>3 DEF Forsaken, Occupied
    <2>5. Forsaken \subseteq Slots /\ Forsaken' \subseteq Slots
      BY DEF Forsaken, Occupied
    <2>6. my_index[d] \in Slots \ Forsaken
      BY <1>4, <2>1 DEF Forsaken, Occupied
    <2> QED BY <2>3, <2>4, <2>5, <2>6
  <1>5. ASSUME ~Registered(d) PROVE UNCHANGED Forsaken
    BY <1>1, <1>2, <1>3, <1>5 DEF Forsaken, Occupied
  <1> QED BY <1>1, <1>4, <1>5

-----------------------------------------------------------------------------
(* Without shutdowns nothing is left behind.                               *)

\* Only a drone told to shut down stops without leaving the registry first.
Orderly ==
    \A d \in Pids :
        /\ ~got_shutdown_requested[d]
        /\ (pc[d] = "closing" /\ my_index[d] # NoIndex) => reason[d] # "none"

LEMMA OrderlyDrone ==
  ASSUME TypeInv, Orderly, NEW d \in Pids, DroneStep(d) \/ Battery(d)
  PROVE  Orderly'
  <1> USE DEF At, Goto, imageVars, flagVars
  <1>0. /\ pc \in [Pids -> Pcs] /\ my_index \in [Pids -> Slots \cup {NoIndex}]
        /\ reason \in [Pids -> Reasons \cup {"none"}]
        /\ got_shutdown_requested \in [Pids -> BOOLEAN]
        /\ ControlOf(d)
    BY DEF TypeInv, TypeOK, DroneTypeOK, Control
  <1>1. ASSUME NEW label, pc' = [pc EXCEPT ![d] = label], UNCHANGED got_shutdown_requested,
               my_index' = my_index \/ \E i : my_index' = [my_index EXCEPT ![d] = i],
               reason' = reason \/ \E why : reason' = [reason EXCEPT ![d] = why],
               label = "closing" => my_index'[d] = NoIndex \/ reason'[d] # "none"
        PROVE  Orderly'
    <2>1. \A e \in Pids \ {d} : /\ pc'[e] = pc[e] /\ my_index'[e] = my_index[e]
                                /\ reason'[e] = reason[e]
      BY <1>0, <1>1
    <2>2. pc'[d] = label
      BY <1>0, <1>1
    <2> QED BY <1>1, <2>1, <2>2 DEF Orderly
  <1>2. CASE SetupFails(d) \/ AddLock(d) \/ AddFails(d)
    <2>1. pc[d] \in {"boot", "add_lock", "add_cs"} /\ UNCHANGED <<my_index, reason, got_shutdown_requested>>
      BY <1>2 DEF SetupFails, AddLock, AddFails
    <2>2. my_index[d] = NoIndex
      BY <1>0, <2>1 DEF ControlOf, Starting
    <2>3. \E label : pc' = [pc EXCEPT ![d] = label]
      BY <1>2 DEF SetupFails, AddLock, AddFails
    <2> QED BY <1>1, <2>1, <2>2, <2>3
  <1>3. CASE LoopEnds(d)
    BY <1>3 DEF LoopEnds, Orderly
  <1>4. CASE Setup(d) \/ Add(d) \/ Reserve(d) \/ UpdateLocation(d)
    BY <1>1, <1>4 DEF Setup, Add, Reserve, UpdateLocation
  <1>5. CASE ProcessSigusr1(d) \/ BatteryStateCheck(d)
    BY <1>1, <1>5 DEF ProcessSigusr1, BatteryStateCheck, Condemn
  <1>6. CASE ForceBaseReturn(d) \/ ForceLeaveBase(d)
    BY <1>1, <1>6 DEF ForceBaseReturn, ForceLeaveBase, Condemn
  <1>7. CASE Delete(d)
    <2>1. reason[d] # "none"
      BY <1>0, <1>7 DEF Delete, ControlOf, Reasons
    <2> QED BY <1>1, <1>7, <2>1 DEF Delete
  <1>8. CASE ReserveLock(d) \/ Poll(d) \/ EnterGate(d) \/ LeaveGate(d)
    BY <1>1, <1>8 DEF ReserveLock, KeepsReservation, FindsPlace, FindsNoPlace, Poll,
         EnterGate, LeaveGate
  <1>9. CASE Exit(d)
    BY <1>0, <1>9 DEF Exit, ProcessGone, Orderly
  <1>10. CASE Battery(d)
    BY <1>10 DEF Battery, Orderly
  <1> QED BY <1>2, <1>3, <1>4, <1>5, <1>6, <1>7, <1>8, <1>9, <1>10 DEF DroneStep

LEMMA OrderlyOthers ==
  ASSUME TypeInv, Orderly, "shutdown" \notin Signals, OpStep \/ Environment \/ UNCHANGED vars
  PROVE  Orderly'
  <1> USE DEF droneVars, imageVars, flagVars
  <1>0. /\ pc \in [Pids -> Pcs] /\ my_index \in [Pids -> Slots \cup {NoIndex}]
        /\ got_shutdown_requested \in [Pids -> BOOLEAN]
    BY DEF TypeInv, TypeOK, DroneTypeOK
  <1>1. ASSUME UNCHANGED <<pc, my_index, reason, got_shutdown_requested>> PROVE Orderly'
    BY <1>1 DEF Orderly
  <1>2. ASSUME NEW d \in Pids, CreateStartingDrone(d) \/ CreateDrone(d)
        PROVE  Orderly'
    BY <1>0, <1>2 DEF CreateStartingDrone, CreateDrone, Fork, At, Goto, Orderly
  <1>3. CASE OpStep
    BY <1>1, <1>2, <1>3 DEF OpStep, OpSetup, OpSetupFails, StartingDone, StartingFails,
         OpLoopEnds, OpSeesUsr1, OpSeesUsr2, OpIncrease, OpDecrease, OpCheck,
         CreateFails, OpExit
  <1>4. ASSUME NEW d \in Pids, Deliver(d, "SIGUSR1") PROVE Orderly'
    <2>1. CASE ProcessGone(d)
      BY <1>0, <2>1 DEF ProcessGone, Goto, Orderly, TypeInv, TypeOK, DroneTypeOK
    <2>2. CASE RaiseFlag(d, "SIGUSR1")
      BY <1>0, <2>2 DEF RaiseFlag, Orderly
    <2> QED BY <1>1, <1>4, <2>1, <2>2 DEF Deliver
  <1>5. CASE SendSuicide
    BY <1>4, <1>5 DEF SendSuicide, TypeInv, TypeOK, ProcessTypeOK
  <1>6. CASE \E d \in Pids : ShutdownDrone(d)
    BY <1>6 DEF ShutdownDrone, Send
  <1>7. CASE PickDronPid \/ SendAddDrones \/ SendSubtractDrones \/ ShutdownOperator
    BY <1>1, <1>7 DEF PickDronPid, SendAddDrones, SendSubtractDrones, ShutdownOperator,
         OpSignal, OpRaiseFlag, OpKilled, OpIgnores
  <1>8. CASE UNCHANGED vars
    BY <1>1, <1>8 DEF vars
  <1> QED BY <1>3, <1>5, <1>6, <1>7, <1>8 DEF Environment

\* The operator has no child before it is set up, has seen its last one when
\* it exits, and nobody forks after it.
LastOut == op_pc \in {"boot", "done"} => \A d \in Pids : pc[d] = "none"

LEMMA LastOutKept == TypeInv /\ LastOut /\ [Next]_vars => LastOut'
  <1> SUFFICES ASSUME TypeInv, LastOut, [Next]_vars, op_pc' \in {"boot", "done"}
               PROVE  \A d \in Pids : pc'[d] = "none"
    BY DEF LastOut
  <1>1. CASE UNCHANGED vars
    BY <1>1 DEF LastOut, vars, droneVars, opVars
  <1>2. ASSUME NEW d \in Pids, DroneStep(d) \/ Battery(d), UNCHANGED <<opVars, envVars>>
        PROVE  FALSE
    <2>1. pc[d] = "none"
      BY <1>2 DEF LastOut, opVars
    <2> QED BY <1>2, <2>1 DEF DroneStep, Battery, BatteryRuns, Setup, SetupFails,
         AddLock, Add, AddFails, LoopEnds, ProcessSigusr1, BatteryStateCheck,
         ForceBaseReturn, ForceLeaveBase, InBody, Delete, ReserveLock, Reserve, Poll,
         EnterGate, LeaveGate, UpdateLocation, Exit, At
  <1>3. CASE OpStep
    BY <1>3 DEF OpStep, CreateStartingDrone, CreateDrone, OpSetup, OpSetupFails,
         StartingDone, StartingFails, OpLoopEnds, OpSeesUsr1, OpSeesUsr2, OpIncrease,
         OpDecrease, OpCheck, CreateFails, OpExit, OpGoto, droneVars
  <1>4. CASE Environment
    <2>1. op_pc \in {"boot", "done"}
      BY <1>4 DEF Environment, PickDronPid, SendSuicide, SendAddDrones, SendSubtractDrones,
           ShutdownDrone, ShutdownOperator, OpSignal, OpRaiseFlag, OpKilled, OpIgnores,
           OpGoto, opVars
    <2>2. \A d \in Pids : pc[d] = "none"
      BY <2>1 DEF LastOut
    <2>3. ASSUME NEW d \in Pids, NEW sig, Deliver(d, sig) PROVE pc' = pc
      BY <2>2, <2>3 DEF Deliver, RaiseFlag, droneVars
    <2>4. dron_pid # NoPid => dron_pid \in Pids
      BY DEF TypeInv, TypeOK, ProcessTypeOK
    <2>5. pc' = pc
      BY <1>4, <2>3, <2>4 DEF Environment, PickDronPid, SendSuicide, SendAddDrones,
           SendSubtractDrones, ShutdownDrone, ShutdownOperator, OpSignal, OpRaiseFlag,
           OpKilled, OpIgnores, droneVars
    <2> QED BY <2>2, <2>5
  <1> QED BY <1>1, <1>2, <1>3, <1>4 DEF Next, Ended

\* Without shutdowns every occupied slot has its drone.
Kept == "shutdown" \notin Signals => Orderly /\ Forsaken = {}

LEMMA KeptStep == TypeInv /\ Slotted /\ Kept /\ [Next]_vars => Kept'
  <1> SUFFICES ASSUME TypeInv, Slotted, Orderly, Forsaken = {}, [Next]_vars,
                      "shutdown" \notin Signals
               PROVE  Orderly' /\ Forsaken' = {}
    BY DEF Kept
  <1>1. Orderly'
    BY OrderlyDrone, OrderlyOthers DEF Next, Ended
  <1>2. ASSUME NEW d \in Pids, Exit(d) PROVE ~Registered(d)
    BY <1>2 DEF Exit, Orderly, Registered, Deleted
  <1>3. Forsaken' = {}
    BY <1>2, StepKinds, QuietForsaken, CountingForsaken, ExitForsakes
  <1> QED BY <1>1, <1>3

LEMMA KeptInvariant == Spec => []Kept
  <1>1. Init => Kept
    BY DEF Init, ShmInit, DroneInit, Kept, Orderly, Forsaken, Occupied
  <1> QED BY <1>1, KeptStep, TypeInvariant, SlottedInvariant, PTL DEF Spec

\* Reservations are held by drones that have a slot, and each one left behind
\* by a drone told to shut down has its slot on a mission, left behind too.
Backed ==
    /\ \A d \in Pids : have_reserved_space[d] => my_index[d] # NoIndex
    /\ left_reservations <= Cardinality(Stranded)

LEMMA BackedHolders ==
  ASSUME TypeInv, Slotted, Backed, [Next]_vars, NEW d \in Pids, have_reserved_space'[d]
  PROVE  my_index'[d] # NoIndex
  <1>0. /\ have_reserved_space \in [Pids -> BOOLEAN]
        /\ my_index \in [Pids -> Slots \cup {NoIndex}]
        /\ have_reserved_space[d] => my_index[d] # NoIndex
        /\ NoIndex \notin Slots
    BY RegistryAssumption DEF TypeInv, TypeOK, DroneTypeOK, Backed, NoIndex, Slots
  <1>1. CASE Quiet
    BY <1>0, <1>1 DEF Quiet, countVars
  <1>2. ASSUME NEW e \in Pids, Counting(e) \/ Exit(e), e # d PROVE my_index'[d] # NoIndex
    BY <1>0, <1>2, OwnStatus
  <1>3. CASE Add(d)
    BY <1>0, <1>3, AddSlot
  <1>4. CASE Delete(d) \/ UpdateLocation(d)
    BY <1>0, <1>4, OwnSlot
  <1>5. CASE Reserve(d)
    BY <1>0, <1>5 DEF Reserve, At, TypeInv, Control, ControlOf, Working
  <1>6. CASE Exit(d)
    BY <1>0, <1>6 DEF Exit, ProcessGone
  <1> QED BY <1>1, <1>2, <1>3, <1>4, <1>5, <1>6, StepKinds DEF Counting

LEMMA BackedKept == TypeInv /\ Slotted /\ Entry /\ Backed /\ [Next]_vars => Backed'
  <1> SUFFICES ASSUME TypeInv, Slotted, Entry, Backed, [Next]_vars PROVE Backed'
    OBVIOUS
  <1>0. /\ left_reservations \in Nat
        /\ IsFiniteSet(Stranded) /\ Cardinality(Stranded) \in Nat
        /\ left_reservations <= Cardinality(Stranded)
    BY Finite DEF TypeInv, TypeOK, DroneTypeOK, Backed, Stranded, Forsaken, Occupied
  <1>1. ASSUME UNCHANGED <<Stranded, left_reservations>>
        PROVE  left_reservations' <= Cardinality(Stranded')
    BY <1>0, <1>1
  <1>2. ASSUME NEW d \in Pids, Exit(d)
        PROVE  left_reservations' <= Cardinality(Stranded')
    <2>1. CASE have_reserved_space[d] /\ reason[d] = "none"
      <3>1. Registered(d)
        BY <2>1 DEF Backed, Registered, Deleted
      <3>2. drones[my_index[d]].location = LOCATION_MISSION
        BY <2>1, <3>1 DEF Slotted, SlotsOwned, Entry, EntryOf
      <3>3. my_index[d] \notin Stranded /\ Stranded' = Stranded \cup {my_index[d]}
        BY <1>2, <3>1, <3>2, ExitForsakes DEF Stranded
      <3>4. Cardinality(Stranded') = Cardinality(Stranded) + 1
        BY <1>0, <3>3, OneMore
      <3>5. left_reservations' = left_reservations + 1
        BY <1>2, <2>1 DEF Exit
      <3> QED BY <1>0, <3>4, <3>5
    <2>2. CASE ~(have_reserved_space[d] /\ reason[d] = "none")
      <3>1. left_reservations' = left_reservations
        BY <1>0, <1>2, <2>2 DEF Exit
      <3>2. Stranded \subseteq Stranded' /\ Stranded' \in SUBSET Slots
        BY <1>2, ExitForsakes DEF Stranded, Forsaken, Occupied
      <3>3. Cardinality(Stranded) <= Cardinality(Stranded') /\ Cardinality(Stranded') \in Nat
        BY <3>2, Finite, FS_Subset
      <3> QED BY <1>0, <3>1, <3>3
    <2> QED BY <2>1, <2>2
  <1>3. left_reservations' <= Cardinality(Stranded')
    BY <1>1, <1>2, StepKinds, QuietForsaken, CountingForsaken
  <1> QED BY <1>3, BackedHolders DEF Backed

LEMMA BackedInvariant == Spec => []Backed
  <1>1. Init => Backed
    <2> SUFFICES ASSUME Init PROVE Backed
      OBVIOUS
    <2>1. Stranded = {} /\ left_reservations = 0
      BY DEF Init, ShmInit, DroneInit, Stranded, Forsaken, Occupied
    <2> QED BY <2>1, FS_EmptySet DEF Init, DroneInit, Backed
  <1> QED BY <1>1, BackedKept, TypeInvariant, SlottedInvariant, EntryInvariant, PTL DEF Spec

\* Once the operator has exited and no drone was told to shut down, the
\* registry is empty, no place is reserved, every slot is back on the stack,
\* the semaphore is open and all tokens are in the pipe: whatever drones died
\* of, wherever they were (dron.c:647, shm.c:97).
THEOREM AllReturned == Spec => []NothingLeftBehind
  <1>1. /\ TypeInv /\ Slotted /\ MutualExclusion /\ GateTokensConserved
        /\ ReservationsMatch /\ RegistryConsistent /\ LastOut /\ Kept /\ Backed
        => NothingLeftBehind
    <2> SUFFICES ASSUME TypeInv, Slotted, MutualExclusion, GateTokensConserved,
                        ReservationsMatch, RegistryConsistent, LastOut, Kept, Backed,
                        op_pc = "done", "shutdown" \notin Signals
                 PROVE  /\ dron_count = 0 /\ dron_in_base_count = 0
                        /\ dron_reserving_space_count = 0
                        /\ Len(free_space_stack) = Capacity
                        /\ semval = 1
                        /\ tokens = GateCapacity
      BY DEF NothingLeftBehind
    <2>1. \A d \in Pids : /\ pc[d] = "none" /\ my_index[d] = NoIndex
                          /\ ~have_reserved_space[d]
      BY DEF LastOut, TypeInv, Control, ControlOf, Starting
    <2>2. Cardinality({}) = 0
      BY FS_EmptySet
    <2>3. Occupied = {}
      BY <2>1 DEF Kept, Forsaken, Registered
    <2>4. dron_count = 0
      BY <2>2, <2>3 DEF RegistryConsistent
    <2>5. SlotsInBase = {}
      BY <2>3 DEF SlotsInBase, Occupied, LOCATION_BASE, LOCATION_UNDEFINE
    <2>6. dron_in_base_count = 0
      BY <2>2, <2>5 DEF RegistryConsistent
    <2>7. dron_reserving_space_count = 0
      <3>1. Reserving = {} /\ Stranded = {}
        BY <2>1, <2>3 DEF Reserving, Stranded, Forsaken
      <3>2. left_reservations = 0
        BY <2>2, <3>1 DEF Backed, TypeInv, TypeOK, DroneTypeOK
      <3> QED BY <2>2, <3>1, <3>2 DEF ReservationsMatch
    <2>8. Len(free_space_stack) = Capacity
      <3> DEFINE n == Len(free_space_stack)
      <3> DEFINE at == [k \in 1..n |-> free_space_stack[k]]
      <3> DEFINE where == [i \in Slots |-> CHOOSE k \in 1..n : free_space_stack[k] = i]
      <3>1. n \in Nat /\ Capacity \in Nat /\ free_space_stack \in Seq(Slots)
        BY RegistryAssumption DEF TypeInv, TypeOK, ShmTypeOK
      <3>2. at \in [1..n -> Slots] /\ \A k, l \in 1..n : at[k] = at[l] => k = l
        BY <3>1 DEF Slotted, StackedOnce
      <3>3. \A i \in Slots : \E k \in 1..n : free_space_stack[k] = i
        BY <2>3 DEF RegistryConsistent
      <3>4. \A i \in Slots : where[i] \in 1..n /\ free_space_stack[where[i]] = i
        BY <3>3
      <3>5. where \in [Slots -> 1..n] /\ \A i, j \in Slots : where[i] = where[j] => i = j
        BY <3>4
      <3>6. /\ IsFiniteSet(Slots) /\ Cardinality(Slots) = Capacity
            /\ IsFiniteSet(1..n) /\ Cardinality(1..n) = n
        <4> HIDE DEF n
        <4>1. IsFiniteSet(1..n) /\ Cardinality(1..n) = n
          BY <3>1, FS_Interval
        <4> QED BY <4>1, Finite
      <3> HIDE DEF n, at, where
      <3>7. Cardinality(1..n) <= Cardinality(Slots)
        BY <3>2, <3>6, NoLarger
      <3>8. Cardinality(Slots) <= Cardinality(1..n)
        BY <3>5, <3>6, NoLarger
      <3>9. n = Capacity
        BY <3>1, <3>6, <3>7, <3>8
      <3> QED BY <3>9 DEF n
    <2>9. semval = 1
      BY <2>1 DEF MutualExclusion, Holders
    <2>10. tokens = GateCapacity
      <3>1. InGate = {}
        BY <2>1 DEF InGate
      <3>2. tokens \in Int /\ tokens + Cardinality(InGate) = GateCapacity
        BY DEF GateTokensConserved, InGate, TypeInv, TypeOK, IpcTypeOK
      <3> QED BY <2>2, <3>1, <3>2
    <2> QED BY <2>4, <2>6, <2>7, <2>8, <2>9, <2>10
  <1>2. Init => LastOut
    BY DEF Init, OperatorInit, DroneInit, LastOut
  <1> QED BY <1>1, <1>2, LastOutKept, TypeInvariant, SlottedInvariant, Mutex, Tokens,
            Reservations, Registry, KeptInvariant, BackedInvariant, PTL DEF Spec

-----------------------------------------------------------------------------
(* The registry implements module Fleet.                                   *)

\* Registered drones on a mission have slots of their own, apart from the
\* stranded ones that stand behind the reservations left behind.
LEMMA Outside ==
  ASSUME TypeInv, Slotted, Backed, NEW S \in SUBSET Pids,
         \A d \in S : Registered(d) /\ location[d] = LOCATION_MISSION
  PROVE  Cardinality(S) + left_reservations <= Cardinality(SlotsAt(LOCATION_MISSION))
  <1> DEFINE out == SlotsAt(LOCATION_MISSION)
  <1> DEFINE owned == out \ Stranded
  <1> DEFINE f == [d \in S |-> my_index[d]]
  <1>1. Stranded \subseteq out /\ out \in SUBSET Slots /\ owned \in SUBSET Slots
    BY DEF Stranded, Forsaken, Occupied, SlotsAt
  <1>2. f \in [S -> owned]
    <2> SUFFICES ASSUME NEW d \in S PROVE my_index[d] \in owned
      OBVIOUS
    <2>1. my_index[d] \in Slots /\ drones[my_index[d]].location = LOCATION_MISSION
      BY DEF Slotted, SlotsOwned, Registered, TypeInv, TypeOK, DroneTypeOK
    <2>2. my_index[d] \notin Stranded
      BY DEF Stranded, Forsaken
    <2> QED BY <2>1, <2>2 DEF SlotsAt
  <1>3. \A d, e \in S : f[d] = f[e] => d = e
    BY DEF Slotted, SlotsOwned
  <1> HIDE DEF out, owned, f
  <1>4. /\ IsFiniteSet(S) /\ Cardinality(S) \in Nat
        /\ IsFiniteSet(out) /\ Cardinality(out) \in Nat
        /\ IsFiniteSet(owned) /\ Cardinality(owned) \in Nat
        /\ Cardinality(Stranded) \in Nat
    BY <1>1, Finite
  <1>5. Cardinality(S) <= Cardinality(owned)
    BY <1>2, <1>3, <1>4, NoLarger
  <1>6. Cardinality(owned) = Cardinality(out) - Cardinality(Stranded)
    <2>1. Cardinality(owned) = Cardinality(out) - Cardinality(out \cap Stranded)
      BY <1>4, FS_Difference DEF owned
    <2>2. out \cap Stranded = Stranded
      BY <1>1
    <2> QED BY <2>1, <2>2
  <1>7. left_reservations \in Nat /\ left_reservations <= Cardinality(Stranded)
    BY DEF Backed, TypeInv, TypeOK, DroneTypeOK
  <1>8. Cardinality(S) + left_reservations <= Cardinality(out)
    BY <1>4, <1>5, <1>6, <1>7
  <1> QED BY <1>8 DEF out

\* As long as a drone without a reservation is out, fewer places are reserved
\* than drones are out.
LEMMA OneWithout ==
  ASSUME TypeInv, Slotted, Entry, Backed, Counts, ReservationsMatch,
         NEW d \in Pids, Registered(d), location[d] = LOCATION_MISSION, ~have_reserved_space[d]
  PROVE  dron_reserving_space_count < dron_count - dron_in_base_count
  <1> DEFINE S == Reserving \cup {d}
  <1>1. S \in SUBSET Pids /\ \A e \in S : Registered(e) /\ location[e] = LOCATION_MISSION
    BY DEF Reserving, Registered, Backed, Entry, EntryOf
  <1>2. Cardinality(S) + left_reservations <= Cardinality(SlotsAt(LOCATION_MISSION))
    BY <1>1, Outside
  <1>3. IsFiniteSet(Reserving) /\ d \notin Reserving
    BY Finite DEF Reserving
  <1>4. Cardinality(S) = Cardinality(Reserving) + 1 /\ Cardinality(Reserving) \in Nat
    BY <1>3, OneMore
  <1>5. Cardinality(SlotsAt(LOCATION_MISSION)) \in Nat /\ left_reservations \in Nat
    BY Finite DEF SlotsAt, TypeInv, TypeOK, DroneTypeOK
  <1> HIDE DEF S
  <1> QED BY <1>2, <1>4, <1>5 DEF Counts, ReservationsMatch

\* A reservation that is held is counted.
LEMMA OneBooked ==
  ASSUME TypeInv, ReservationsMatch, NEW d \in Reserving
  PROVE  dron_reserving_space_count > 0
  <1>1. IsFiniteSet(Reserving) /\ left_reservations \in Nat
    BY Finite DEF Reserving, TypeInv, TypeOK, DroneTypeOK
  <1> DEFINE others == Reserving \ {d}
  <1>2. /\ Cardinality(others) = Cardinality(Reserving) - 1
        /\ Cardinality(others) \in Nat /\ Cardinality(Reserving) \in Nat
    BY <1>1, OneLess
  <1> HIDE DEF others
  <1> QED BY <1>1, <1>2 DEF ReservationsMatch

\* A drone inside is counted.
LEMMA OneInside ==
  ASSUME TypeInv, Slotted, Counts, NEW d \in Pids, Registered(d), location[d] = LOCATION_BASE
  PROVE  dron_in_base_count > 0
  <1> DEFINE in == SlotsAt(LOCATION_BASE)
  <1> DEFINE others == in \ {my_index[d]}
  <1>1. my_index[d] \in in
    BY DEF Slotted, SlotsOwned, Registered, TypeInv, TypeOK, DroneTypeOK, SlotsAt
  <1>2. IsFiniteSet(in) /\ dron_in_base_count = Cardinality(in)
    BY Finite DEF SlotsAt, Counts
  <1> HIDE DEF in
  <1>3. /\ Cardinality(others) = Cardinality(in) - 1
        /\ Cardinality(others) \in Nat /\ Cardinality(in) \in Nat
    BY <1>1, <1>2, OneLess
  <1> HIDE DEF others
  <1> QED BY <1>2, <1>3

\* What the steps of the registry have to be proved with.
FleetInv ==
    /\ TypeInv /\ Slotted /\ Entry /\ Checked /\ LimitClamped
    /\ Counts /\ ReservationsMatch /\ Backed

LEMMA FleetInvariant == Spec => []FleetInv
  BY TypeInvariant, SlottedInvariant, EntryInvariant, ChecksFresh, Clamped,
     CountsInvariant, Reservations, BackedInvariant, PTL DEF FleetInv

\* Each counting step is a step of Fleet.
LEMMA FleetCounting ==
  ASSUME FleetInv, NEW d \in Pids, Counting(d)
  PROVE  FleetView!FleetNext
  <1> USE DEF LOCATION_UNDEFINE, LOCATION_BASE, LOCATION_MISSION
  <1>0. /\ TypeInv /\ Slotted /\ Entry /\ Checked /\ Counts /\ ReservationsMatch /\ Backed
        /\ dron_count \in Int /\ dron_in_base_count \in Int
        /\ dron_reserving_space_count \in Int
    BY DEF FleetInv, TypeInv, TypeOK, ShmTypeOK
  <1>1. UNCHANGED maximum_dron_in_base_count
    BY DEF Counting, Add, Reserve, UpdateLocation, Delete, SHM_AllDronesData_add_dron,
         SHM_AllDronesData_update_dron_location, SHM_AllDronesData_delete_drone
  <1>2. CASE Add(d)
    <2>1. /\ location[d] \in {LOCATION_BASE, LOCATION_MISSION}
          /\ dron_count' = dron_count + 1
          /\ dron_in_base_count' =
                dron_in_base_count + (IF location[d] = LOCATION_BASE THEN 1 ELSE 0)
      BY <1>0, <1>2, AddSlot
    <2>2. UNCHANGED dron_reserving_space_count /\ pc[d] = "add_cs"
      BY <1>2 DEF Add, At, SHM_AllDronesData_add_dron
    <2>3. CASE location[d] = LOCATION_BASE
      <3>1. HasSpaceInBase
        BY <1>0, <2>2, <2>3 DEF Checked, CheckedOf
      <3>2. FleetView!JoinInside
        BY <1>0, <1>1, <2>1, <2>2, <2>3, <3>1 DEF FleetView!JoinInside, FleetView!PlaceFree,
             HasSpaceInBase
      <3> QED BY <3>2 DEF FleetView!FleetNext
    <2>4. CASE location[d] = LOCATION_MISSION
      <3>1. FleetView!JoinOnMission
        BY <1>0, <1>1, <2>1, <2>2, <2>4 DEF FleetView!JoinOnMission
      <3> QED BY <3>1 DEF FleetView!FleetNext
    <2> QED BY <2>1, <2>3, <2>4
  <1>3. CASE Reserve(d)
    <2>1. /\ pc[d] = "res_cs"
          /\ dron_reserving_space_count' = dron_reserving_space_count + 1
          /\ UNCHANGED <<dron_count, dron_in_base_count>>
      BY <1>3 DEF Reserve, At
    <2>2. HasSpaceInBase
      BY <1>0, <2>1 DEF Checked, CheckedOf
    <2>3. location[d] = LOCATION_MISSION /\ ~have_reserved_space[d]
      BY <1>0, <2>1 DEF Entry, EntryOf
    <2>4. Registered(d)
      BY <1>0, <2>1, RegistryAssumption DEF Registered, Deleted, TypeInv, Control, ControlOf,
           Working, Slots, NoIndex
    <2>5. dron_reserving_space_count < dron_count - dron_in_base_count
      BY <1>0, <2>3, <2>4, OneWithout
    <2>6. FleetView!Book
      BY <1>1, <2>1, <2>2, <2>5 DEF FleetView!Book, FleetView!PlaceFree, HasSpaceInBase
    <2> QED BY <2>6 DEF FleetView!FleetNext
  <1>4. CASE UpdateLocation(d)
    <2>1. Registered(d) /\ location[d] \in {LOCATION_BASE, LOCATION_MISSION}
      BY <1>0, <1>4, OwnSlot
    <2>2. UNCHANGED dron_count /\ pc[d] = "upd_lock"
      BY <1>4 DEF UpdateLocation, At, SHM_AllDronesData_update_dron_location
    <2>3. CASE location[d] = LOCATION_MISSION
      <3>1. d \in Reserving
        BY <1>0, <2>1, <2>2, <2>3 DEF Entry, EntryOf, GatePcs, Reserving, Registered
      <3>2. dron_reserving_space_count > 0
        BY <1>0, <3>1, OneBooked
      <3>3. /\ dron_in_base_count' = dron_in_base_count + 1
            /\ dron_reserving_space_count' = dron_reserving_space_count - 1
        BY <1>0, <1>4, <2>3, UpdateSlot
      <3>4. FleetView!Land
        BY <1>0, <1>1, <2>2, <3>2, <3>3 DEF FleetView!Land
      <3> QED BY <3>4 DEF FleetView!FleetNext
    <2>4. CASE location[d] = LOCATION_BASE
      <3>1. dron_in_base_count > 0
        BY <1>0, <2>1, <2>4, OneInside
      <3>2. /\ dron_in_base_count' = dron_in_base_count - 1
            /\ UNCHANGED dron_reserving_space_count
        BY <1>0, <1>4, <2>4, UpdateSlot
      <3>3. FleetView!TakeOff
        BY <1>0, <1>1, <2>2, <3>1, <3>2 DEF FleetView!TakeOff
      <3> QED BY <3>3 DEF FleetView!FleetNext
    <2> QED BY <2>1, <2>3, <2>4
  <1>5. CASE Delete(d)
    <2>1. Registered(d) /\ location[d] \in {LOCATION_BASE, LOCATION_MISSION}
      BY <1>0, <1>5, OwnSlot
    <2>2. /\ dron_count' = dron_count - 1
          /\ dron_in_base_count' =
                dron_in_base_count - (IF location[d] = LOCATION_BASE THEN 1 ELSE 0)
      BY <1>0, <1>5, DeleteSlot
    <2>3. dron_reserving_space_count' =
             dron_reserving_space_count - (IF have_reserved_space[d] THEN 1 ELSE 0)
      BY <1>5 DEF Delete, SHM_AllDronesData_delete_drone, ReservationsWithout
    <2>4. CASE location[d] = LOCATION_BASE
      <3>1. ~have_reserved_space[d]
        BY <1>0, <2>4 DEF Entry, EntryOf
      <3>2. dron_in_base_count > 0
        BY <1>0, <2>1, <2>4, OneInside
      <3>3. FleetView!LoseInside
        BY <1>0, <1>1, <2>2, <2>3, <2>4, <3>1, <3>2 DEF FleetView!LoseInside
      <3> QED BY <3>3 DEF FleetView!FleetNext
    <2>5. CASE location[d] = LOCATION_MISSION /\ have_reserved_space[d]
      <3>1. d \in Reserving
        BY <2>1, <2>5 DEF Reserving, Registered
      <3>2. dron_reserving_space_count > 0
        BY <1>0, <3>1, OneBooked
      <3>3. FleetView!LoseBooked
        BY <1>0, <1>1, <2>2, <2>3, <2>5, <3>2 DEF FleetView!LoseBooked
      <3> QED BY <3>3 DEF FleetView!FleetNext
    <2>6. CASE location[d] = LOCATION_MISSION /\ ~have_reserved_space[d]
      <3>1. dron_reserving_space_count < dron_count - dron_in_base_count
        BY <1>0, <2>1, <2>6, OneWithout
      <3>2. FleetView!LoseOnMission
        BY <1>0, <1>1, <2>2, <2>3, <2>6, <3>1 DEF FleetView!LoseOnMission
      <3> QED BY <3>2 DEF FleetView!FleetNext
    <2> QED BY <2>1, <2>4, <2>5, <2>6
  <1> QED BY <1>2, <1>3, <1>4, <1>5 DEF Counting

\* Every other step leaves the counters alone, and may move the limit.
LEMMA FleetStep == FleetInv /\ FleetInv' /\ [Next]_vars => [FleetView!FleetNext]_(FleetView!places)
  <1> SUFFICES ASSUME FleetInv, FleetInv', [Next]_vars
               PROVE  [FleetView!FleetNext]_(FleetView!places)
    OBVIOUS
  <1>1. CASE \E d \in Pids : Counting(d)
    BY <1>1, FleetCounting
  <1>2. CASE Quiet \/ \E d \in Pids : Exit(d)
    <2>1. UNCHANGED <<dron_count, dron_in_base_count, dron_reserving_space_count>>
      BY <1>2 DEF Quiet, countVars, Exit, shmVars
    <2>2. /\ maximum_dron_in_base_count' \in Int
          /\ maximum_dron_in_base_count' < 2 * StartingDrones
      BY DEF FleetInv, TypeInv, TypeOK, ShmTypeOK, LimitClamped
    <2>3. FleetView!ChangeLimit
      BY <2>1, <2>2 DEF FleetView!ChangeLimit
    <2> QED BY <2>3 DEF FleetView!FleetNext
  <1> QED BY <1>1, <1>2, StepKinds DEF FleetInv

\* The refinement: seen through its counters, the registry that operator and
\* drones share does what module Fleet says.  A place is taken only while the
\* limit allows it, a landing has its reservation, what a drone held goes when
\* it goes, and never are more places reserved than drones are out to claim
\* them, counting those that were told to shut down (dron.c:416, dron.c:544,
\* shm.c:66, shm.c:81, shm.c:97).
THEOREM RegistryIsFleet == Spec => ImplementsFleet
  <1>1. Init => FleetView!FleetInit
    BY DEF Init, ShmInit, FleetView!FleetInit
  <1> QED BY <1>1, FleetInvariant, FleetStep, PTL DEF Spec, ImplementsFleet,
       FleetView!FleetSpec

\* No counter of places is negative, and no more places are reserved than
\* drones are out to claim them.
PlacesCovered ==
    /\ dron_in_base_count >= 0
    /\ dron_reserving_space_count >= 0
    /\ dron_reserving_space_count <= dron_count - dron_in_base_count

\* What Fleet promises about its numbers holds in the registry, and with it
\* that the complaints of shm.c:88 and shm.c:123 are never printed, also when
\* drones told to shut down leave reservations behind.
THEOREM Covered == Spec => []PlacesCovered
  <1>1. FleetInv => PlacesCovered
    <2> SUFFICES ASSUME FleetInv PROVE PlacesCovered
      OBVIOUS
    <2>1. /\ TypeInv /\ Slotted /\ Backed /\ Counts /\ left_reservations \in Nat
          /\ dron_reserving_space_count = Cardinality(Reserving) + left_reservations
      BY DEF FleetInv, ReservationsMatch, TypeInv, TypeOK, DroneTypeOK
    <2>2. /\ Reserving \in SUBSET Pids
          /\ \A e \in Reserving : Registered(e) /\ location[e] = LOCATION_MISSION
      BY DEF FleetInv, Reserving, Registered, Backed, Entry, EntryOf
    <2>3. Cardinality(Reserving) + left_reservations <= Cardinality(SlotsAt(LOCATION_MISSION))
      BY <2>1, <2>2, Outside
    <2>4. /\ Cardinality(Reserving) \in Nat
          /\ Cardinality(SlotsAt(LOCATION_BASE)) \in Nat
          /\ Cardinality(SlotsAt(LOCATION_MISSION)) \in Nat
      BY <2>2, Finite DEF SlotsAt
    <2> QED BY <2>1, <2>3, <2>4 DEF Counts, PlacesCovered
  <1> QED BY <1>1, FleetInvariant, PTL
=============================================================================
