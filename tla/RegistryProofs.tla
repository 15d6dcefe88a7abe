--------------------------- MODULE RegistryProofs ---------------------------
(***************************************************************************)
(* The figures of the registry, for every value of the constants.          *)
(***************************************************************************)
EXTENDS DroneSwarmProofs, SequenceTheorems

-----------------------------------------------------------------------------
(* The report adds up.                                                     *)

reportVars == <<next_dron_id, dron_count, lost, refused_ids>>

\* A step that leaves the figures of the report alone.
LEMMA ReportSame ==
  ASSUME ReportAddsUp, UNCHANGED reportVars
  PROVE  ReportAddsUp'
  BY DEF ReportAddsUp, Lost, reportVars

\* One more loss under any reason is one more loss in all.
LEMMA LossCounted ==
  ASSUME lost \in [Reasons -> Nat], NEW r \in Reasons, lost' = Counted(r)
  PROVE  Lost' = Lost + 1
  <1>1. CASE r = "out_of_power"
    BY <1>1 DEF Lost, Counted, Reasons
  <1>2. CASE r = "decommissioned"
    BY <1>2 DEF Lost, Counted, Reasons
  <1>3. CASE r = "suicide"
    BY <1>3 DEF Lost, Counted, Reasons
  <1>4. CASE r = "other"
    BY <1>4 DEF Lost, Counted, Reasons
  <1> QED BY <1>1, <1>2, <1>3, <1>4 DEF Reasons

\* Registering, being turned away and dying each move one drone from one
\* figure to another; the other drone steps do not touch them.
LEMMA ReportDrone ==
  ASSUME TypeInv, ReportAddsUp, NEW d \in Pids, DroneStep(d) \/ Battery(d)
  PROVE  ReportAddsUp'
  <1>0. /\ next_dron_id \in Nat
        /\ dron_count \in Int
        /\ refused_ids \in Nat
        /\ lost \in [Reasons -> Nat]
    BY DEF TypeInv, TypeOK, ShmTypeOK, DroneTypeOK
  <1>1. Lost \in Int
    BY <1>0 DEF Lost, Reasons
  <1>2. CASE Add(d)
    <2>1. /\ next_dron_id' = next_dron_id + 1
          /\ dron_count' = dron_count + 1
          /\ UNCHANGED <<lost, refused_ids>>
      BY <1>2 DEF Add, SHM_AllDronesData_add_dron, auditVars
    <2>2. Lost' = Lost
      BY <2>1 DEF Lost
    <2> QED BY <1>0, <1>1, <2>1, <2>2 DEF ReportAddsUp
  <1>3. CASE AddFails(d)
    <2>1. /\ next_dron_id' = next_dron_id + 1
          /\ refused_ids' = refused_ids + 1
          /\ UNCHANGED <<lost, dron_count>>
      BY <1>3 DEF AddFails
    <2>2. Lost' = Lost
      BY <2>1 DEF Lost
    <2> QED BY <1>0, <1>1, <2>1, <2>2 DEF ReportAddsUp
  <1>4. CASE Delete(d)
    <2>1. /\ dron_count' = dron_count - 1
          /\ lost' = Counted(reason[d])
          /\ UNCHANGED <<next_dron_id, refused_ids>>
      BY <1>4 DEF Delete, SHM_AllDronesData_delete_drone, auditVars
    <2>2. reason[d] \in Reasons
      BY <1>4 DEF Delete, At, TypeInv, Control, ControlOf
    <2>3. Lost' = Lost + 1
      BY <1>0, <2>1, <2>2, LossCounted
    <2> QED BY <1>0, <1>1, <2>1, <2>3 DEF ReportAddsUp
  <1>5. CASE Setup(d) \/ SetupFails(d) \/ AddLock(d) \/ LoopEnds(d) \/ ProcessSigusr1(d)
             \/ BatteryStateCheck(d) \/ ForceBaseReturn(d) \/ ForceLeaveBase(d)
    BY <1>5, ReportSame DEF Setup, SetupFails, AddLock, LoopEnds, ProcessSigusr1,
         BatteryStateCheck, ForceBaseReturn, ForceLeaveBase, reportVars, shmVars, auditVars
  <1>6. CASE ReserveLock(d) \/ Reserve(d) \/ Poll(d) \/ EnterGate(d) \/ LeaveGate(d)
             \/ Exit(d) \/ Battery(d)
    BY <1>6, ReportSame DEF ReserveLock, Reserve, Poll, EnterGate, LeaveGate, Exit, Battery,
         reportVars, shmVars, auditVars
  <1>7. CASE UpdateLocation(d)
    BY <1>7, ReportSame DEF UpdateLocation, SHM_AllDronesData_update_dron_location,
         reportVars, auditVars
  <1> QED BY <1>2, <1>3, <1>4, <1>5, <1>6, <1>7 DEF DroneStep

\* The operator and the signals give out no ids and count no losses.
LEMMA ReportOthers ==
  ASSUME ReportAddsUp, OpStep \/ Environment \/ UNCHANGED vars
  PROVE  ReportAddsUp'
  <1> USE DEF reportVars, shmVars, droneVars, auditVars
  <1>1. CASE OpStep
    BY <1>1, ReportSame DEF OpStep, CreateStartingDrone, CreateDrone, Fork, OpSetup,
         OpSetupFails, StartingDone, StartingFails, OpLoopEnds, OpSeesUsr1, OpSeesUsr2,
         OpIncrease, OpDecrease, OpCheck, CreateFails, OpExit, SetLimit
  <1>2. ASSUME NEW d, NEW sig, Deliver(d, sig)
        PROVE  ReportAddsUp'
    BY <1>2, ReportSame DEF Deliver, RaiseFlag
  <1>3. CASE Environment
    BY <1>2, <1>3, ReportSame DEF Environment, PickDronPid, SendSuicide, SendAddDrones,
         SendSubtractDrones, ShutdownDrone, ShutdownOperator, OpSignal, OpRaiseFlag,
         OpKilled, OpIgnores
  <1>4. CASE UNCHANGED vars
    BY <1>4, ReportSame DEF vars
  <1> QED BY <1>1, <1>3, <1>4

\* Every id the report counts (main.c:392) belongs to a drone that is still
\* registered, was lost once, or found the memory full.
THEOREM Report == Spec => []ReportAddsUp
  <1>1. Init => ReportAddsUp
    BY DEF Init, ShmInit, DroneInit, ReportAddsUp, Lost, Reasons
  <1>2. TypeInv /\ ReportAddsUp /\ [Next]_vars => ReportAddsUp'
    BY ReportDrone, ReportOthers DEF Next, Ended
  <1> QED BY <1>1, <1>2, TypeInvariant, PTL DEF Spec

-----------------------------------------------------------------------------
(* Every live drone owns its slot.                                         *)

\* The strengthening: a slot on the stack belongs to nobody and is there once.
FreeSlots ==
    \A k \in 1..Len(free_space_stack) :
        drones[free_space_stack[k]].location = LOCATION_UNDEFINE

StackedOnce ==
    \A k, l \in 1..Len(free_space_stack) : free_space_stack[k] = free_space_stack[l] => k = l

Slotted == SlotsOwned /\ FreeSlots /\ StackedOnce

slotVars == <<my_index, location, drones, free_space_stack>>

\* A step of one drone that leaves slots, stack and locations alone.
LEMMA SlottedMoves ==
  ASSUME TypeInv, Slotted, NEW d \in Pids, pc[d] # "closing",
         \A e \in Pids \ {d} : pc'[e] = pc[e] /\ reason'[e] = reason[e],
         UNCHANGED slotVars
  PROVE  Slotted'
  <1>1. \A e \in Pids : Registered(e)' => Registered(e)
    BY DEF Registered, Deleted, slotVars
  <1>2. SlotsOwned'
    BY <1>1 DEF Slotted, SlotsOwned, slotVars
  <1> QED BY <1>2 DEF Slotted, FreeSlots, StackedOnce, slotVars

\* A step that leaves all of it alone.
LEMMA SlottedSame ==
  ASSUME Slotted, UNCHANGED <<pc, reason, slotVars>>
  PROVE  Slotted'
  BY DEF Slotted, SlotsOwned, Registered, Deleted, FreeSlots, StackedOnce, slotVars

\* A process that is gone owns nothing; its slot stays as it was.
LEMMA SlottedGone ==
  ASSUME TypeInv, Slotted, NEW d \in Pids, ProcessGone(d),
         UNCHANGED <<drones, free_space_stack>>
  PROVE  Slotted'
  <1>1. my_index'[d] = NoIndex
    BY DEF ProcessGone, TypeInv, TypeOK, DroneTypeOK
  <1>2. \A e \in Pids \ {d} : /\ pc'[e] = pc[e] /\ reason'[e] = reason[e]
                              /\ my_index'[e] = my_index[e] /\ location'[e] = location[e]
    BY DEF ProcessGone, Goto, TypeInv, TypeOK, DroneTypeOK
  <1>3. SlotsOwned'
    BY <1>1, <1>2 DEF Slotted, SlotsOwned, Registered, Deleted
  <1> QED BY <1>3 DEF Slotted, FreeSlots, StackedOnce

\* The slot a registered drone owns is not on the stack, nor another's.
LEMMA OwnedSlot ==
  ASSUME TypeInv, Slotted, NEW d \in Pids, Registered(d)
  PROVE  /\ my_index[d] \in Slots
         /\ \A k \in 1..Len(free_space_stack) : free_space_stack[k] # my_index[d]
         /\ \A e \in Pids \ {d} : Registered(e) => my_index[e] # my_index[d]
  <1>1. my_index[d] \in Slots
    BY DEF TypeInv, TypeOK, DroneTypeOK, Registered
  <1>2. /\ drones[my_index[d]].location # LOCATION_UNDEFINE
        /\ \A e \in Pids : Registered(e) => drones[my_index[e]].pid = e
    BY DEF Slotted, SlotsOwned
  <1>3. \A k \in 1..Len(free_space_stack) : free_space_stack[k] # my_index[d]
    BY <1>2 DEF Slotted, FreeSlots
  <1>4. \A e \in Pids \ {d} : Registered(e) => my_index[e] # my_index[d]
    BY <1>2
  <1> QED BY <1>1, <1>3, <1>4

\* Stack_pop leaves the other elements where they were.
LEMMA StackPopElements ==
  ASSUME NEW S, NEW stack \in Seq(S), Len(stack) # 0
  PROVE  /\ Len(Stack_pop(stack)) = Len(stack) - 1
         /\ \A k \in 1..Len(Stack_pop(stack)) :
               k \in 1..Len(stack) /\ k # Len(stack) /\ Stack_pop(stack)[k] = stack[k]
  <1>1. Len(stack) \in Nat \ {0}
    OBVIOUS
  <1>2. Len(Stack_pop(stack)) = Len(stack) - 1
    <2>1. \A i \in 1..(Len(stack) - 1) : stack[i] \in S
      BY <1>1
    <2>2. Len(Stack_pop(stack)) = IF 1 <= Len(stack) - 1 THEN (Len(stack) - 1) - 1 + 1 ELSE 0
      BY <1>1, <2>1, SubSeqProperties DEF Stack_pop
    <2> QED BY <1>1, <2>2
  <1>3. ASSUME NEW k \in 1..(Len(stack) - 1)
        PROVE  Stack_pop(stack)[k] = stack[k]
    BY <1>1, <1>3 DEF Stack_pop
  <1> QED BY <1>1, <1>2, <1>3

\* Registration takes the slot on top of the stack.
LEMMA SlottedAdd ==
  ASSUME TypeInv, Slotted, NEW d \in Pids, Add(d)
  PROVE  Slotted'
  <1> DEFINE top == Stack_popped(free_space_stack)
  <1>1. /\ pc[d] = "add_cs" /\ pc' = [pc EXCEPT ![d] = "loop"]
        /\ my_index' = [my_index EXCEPT ![d] = top]
        /\ drones' = [drones EXCEPT ![top] = [pid |-> d, location |-> location[d]]]
        /\ free_space_stack' = Stack_pop(free_space_stack)
        /\ ~Stack_is_empty(free_space_stack)
        /\ UNCHANGED <<location, reason>>
    BY DEF Add, At, Goto, SHM_AllDronesData_add_dron
  <1>2. free_space_stack \in Seq(Slots) /\ Len(free_space_stack) \in Nat
    BY DEF TypeInv, TypeOK, ShmTypeOK
  <1>3. Len(free_space_stack) # 0
    BY <1>1, <1>2 DEF Stack_is_empty
  <1>4. /\ Len(free_space_stack) \in 1..Len(free_space_stack)
        /\ top = free_space_stack[Len(free_space_stack)]
        /\ top \in Slots
        /\ drones[top].location = LOCATION_UNDEFINE
    BY <1>2, <1>3 DEF Stack_popped, Slotted, FreeSlots
  <1>5. /\ Len(free_space_stack') = Len(free_space_stack) - 1
        /\ \A k \in 1..Len(free_space_stack') :
              k \in 1..Len(free_space_stack) /\ k # Len(free_space_stack)
              /\ free_space_stack'[k] = free_space_stack[k]
    BY <1>1, <1>2, <1>3, StackPopElements
  <1> HIDE DEF top
  <1>6. \A i \in Slots : i # top => drones'[i] = drones[i]
    BY <1>1 DEF TypeInv, TypeOK, ShmTypeOK
  <1>7. drones'[top] = [pid |-> d, location |-> location[d]]
    BY <1>1, <1>4 DEF TypeInv, TypeOK, ShmTypeOK
  <1>8. location[d] # LOCATION_UNDEFINE
    BY <1>1 DEF TypeInv, Control, ControlOf, LOCATION_UNDEFINE, LOCATION_BASE,
         LOCATION_MISSION
  <1>9. SlotsOwned'
    <2> SUFFICES ASSUME NEW e \in Pids, Registered(e)'
                 PROVE  /\ drones'[my_index'[e]].pid = e
                        /\ drones'[my_index'[e]].location = location[e]
                        /\ location[e] # LOCATION_UNDEFINE
      BY <1>1 DEF SlotsOwned
    <2>1. CASE e = d
      <3>1. my_index'[e] = top
        BY <1>1, <2>1 DEF TypeInv, TypeOK, DroneTypeOK
      <3> QED BY <1>7, <1>8, <2>1, <3>1
    <2>2. CASE e # d
      <3>1. my_index'[e] = my_index[e] /\ Registered(e)
        BY <1>1, <2>2 DEF TypeInv, TypeOK, DroneTypeOK, Registered, Deleted
      <3>2. my_index[e] \in Slots /\ my_index[e] # top
        BY <1>4, <3>1, OwnedSlot
      <3> QED BY <1>6, <3>1, <3>2 DEF Slotted, SlotsOwned
    <2> QED BY <2>1, <2>2
  <1>10. FreeSlots'
    <2> SUFFICES ASSUME NEW k \in 1..Len(free_space_stack')
                 PROVE  drones'[free_space_stack'[k]].location = LOCATION_UNDEFINE
      BY DEF FreeSlots
    <2>1. free_space_stack[k] # top /\ free_space_stack[k] \in Slots
      BY <1>2, <1>4, <1>5 DEF Slotted, StackedOnce
    <2> QED BY <1>5, <1>6, <2>1 DEF Slotted, FreeSlots
  <1>11. StackedOnce'
    BY <1>5 DEF Slotted, StackedOnce
  <1> QED BY <1>9, <1>10, <1>11 DEF Slotted

\* Deletion pushes the drone's own slot back.
LEMMA SlottedDelete ==
  ASSUME TypeInv, Slotted, NEW d \in Pids, Delete(d)
  PROVE  Slotted'
  <1> DEFINE mine == my_index[d]
  <1>1. /\ pc[d] = "del_lock" /\ pc' = [pc EXCEPT ![d] = "closing"]
        /\ drones' = [drones EXCEPT ![mine].location = LOCATION_UNDEFINE]
        /\ free_space_stack' = Stack_push(free_space_stack, Capacity, mine)
        /\ UNCHANGED <<location, reason, my_index>>
    BY DEF Delete, At, Goto, SHM_AllDronesData_delete_drone, imageVars
  <1>2. Registered(d) /\ reason[d] # "none"
    BY <1>1, RegistryAssumption DEF Registered, Deleted, TypeInv, Control, ControlOf,
         Working, NoIndex, Slots, Reasons
  <1>3. /\ mine \in Slots
        /\ \A k \in 1..Len(free_space_stack) : free_space_stack[k] # mine
        /\ \A e \in Pids \ {d} : Registered(e) => my_index[e] # mine
    BY <1>2, OwnedSlot
  <1> HIDE DEF mine
  <1>4. /\ \A i \in Slots : i # mine => drones'[i] = drones[i]
        /\ drones'[mine].location = LOCATION_UNDEFINE
    BY <1>1, <1>3 DEF TypeInv, TypeOK, ShmTypeOK
  <1>5. free_space_stack \in Seq(Slots) /\ Len(free_space_stack) \in Nat
    BY DEF TypeInv, TypeOK, ShmTypeOK
  <1>6. SlotsOwned'
    <2> SUFFICES ASSUME NEW e \in Pids, Registered(e)'
                 PROVE  /\ drones'[my_index[e]].pid = e
                        /\ drones'[my_index[e]].location = location[e]
                        /\ location[e] # LOCATION_UNDEFINE
      BY <1>1 DEF SlotsOwned
    <2>1. e # d
      BY <1>1, <1>2 DEF Registered, Deleted, TypeInv, TypeOK, DroneTypeOK
    <2>2. Registered(e)
      BY <1>1, <2>1 DEF Registered, Deleted, TypeInv, TypeOK, DroneTypeOK
    <2>3. my_index[e] \in Slots /\ my_index[e] # mine
      BY <1>3, <2>1, <2>2, OwnedSlot
    <2> QED BY <1>4, <2>2, <2>3 DEF Slotted, SlotsOwned
  <1>7. \A i \in Slots : drones[i].location = LOCATION_UNDEFINE =>
                         drones'[i].location = LOCATION_UNDEFINE
    BY <1>4
  <1>8. CASE free_space_stack' = free_space_stack
    BY <1>5, <1>6, <1>7, <1>8 DEF Slotted, FreeSlots, StackedOnce
  <1>9. CASE free_space_stack' = Append(free_space_stack, mine)
    <2>1. /\ Len(free_space_stack') = Len(free_space_stack) + 1
          /\ free_space_stack'[Len(free_space_stack) + 1] = mine
          /\ \A k \in 1..Len(free_space_stack) : free_space_stack'[k] = free_space_stack[k]
      BY <1>3, <1>5, <1>9
    <2>2. \A k \in 1..Len(free_space_stack') :
             k \in 1..Len(free_space_stack) \/ k = Len(free_space_stack) + 1
      BY <1>5, <2>1
    <2>3. FreeSlots'
      BY <1>4, <1>5, <1>7, <2>1, <2>2 DEF Slotted, FreeSlots
    <2>4. StackedOnce'
      BY <1>3, <1>5, <2>1, <2>2 DEF Slotted, StackedOnce
    <2> QED BY <1>6, <2>3, <2>4 DEF Slotted
  <1> QED BY <1>1, <1>8, <1>9 DEF Stack_push

\* Passing the gate rewrites the location of the drone's own slot.
LEMMA SlottedUpdate ==
  ASSUME TypeInv, Slotted, NEW d \in Pids, UpdateLocation(d)
  PROVE  Slotted'
  <1> DEFINE mine == my_index[d]
  <1>1. PICK new \in {LOCATION_BASE, LOCATION_MISSION} :
          /\ pc[d] = "upd_lock" /\ pc' = [pc EXCEPT ![d] = "loop"]
          /\ drones' = [drones EXCEPT ![mine].location = new]
          /\ location' = [location EXCEPT ![d] = new]
          /\ UNCHANGED <<free_space_stack, reason, my_index>>
    BY DEF UpdateLocation, At, Goto, SHM_AllDronesData_update_dron_location
  <1>2. Registered(d)
    BY <1>1, RegistryAssumption DEF Registered, Deleted, TypeInv, Control, ControlOf,
         Working, NoIndex, Slots
  <1>3. /\ mine \in Slots
        /\ \A k \in 1..Len(free_space_stack) : free_space_stack[k] # mine
        /\ \A e \in Pids \ {d} : Registered(e) => my_index[e] # mine
    BY <1>2, OwnedSlot
  <1> HIDE DEF mine
  <1>4. /\ \A i \in Slots : i # mine => drones'[i] = drones[i]
        /\ drones'[mine].location = new
        /\ drones'[mine].pid = drones[mine].pid
    BY <1>1, <1>3 DEF TypeInv, TypeOK, ShmTypeOK
  <1>5. SlotsOwned'
    <2> SUFFICES ASSUME NEW e \in Pids, Registered(e)'
                 PROVE  /\ drones'[my_index[e]].pid = e
                        /\ drones'[my_index[e]].location = location'[e]
                        /\ location'[e] # LOCATION_UNDEFINE
      BY <1>1 DEF SlotsOwned
    <2>1. CASE e = d
      <3>1. my_index[e] = mine /\ location'[e] = new
        BY <1>1, <2>1 DEF TypeInv, TypeOK, DroneTypeOK, mine
      <3>2. drones[mine].pid = d
        BY <1>2 DEF Slotted, SlotsOwned, mine
      <3> QED BY <1>4, <2>1, <3>1, <3>2 DEF LOCATION_UNDEFINE, LOCATION_BASE,
           LOCATION_MISSION
    <2>2. CASE e # d
      <3>1. Registered(e) /\ location'[e] = location[e]
        BY <1>1, <2>2 DEF Registered, Deleted, TypeInv, TypeOK, DroneTypeOK
      <3>2. my_index[e] \in Slots /\ my_index[e] # mine
        BY <1>3, <2>2, <3>1, OwnedSlot
      <3> QED BY <1>4, <3>1, <3>2 DEF Slotted, SlotsOwned
    <2> QED BY <2>1, <2>2
  <1>6. free_space_stack \in Seq(Slots)
    BY DEF TypeInv, TypeOK, ShmTypeOK
  <1>7. FreeSlots'
    BY <1>1, <1>3, <1>4, <1>6 DEF Slotted, FreeSlots
  <1> QED BY <1>1, <1>5, <1>7 DEF Slotted, StackedOnce

\* Every step of a drone and of its battery keeps the slots owned.
LEMMA SlottedDrone ==
  ASSUME TypeInv, Slotted, NEW d \in Pids, DroneStep(d) \/ Battery(d)
  PROVE  Slotted'
  <1> USE DEF At, Goto, slotVars, imageVars, shmVars
  <1>1. CASE Add(d)
    BY <1>1, SlottedAdd
  <1>2. CASE Delete(d)
    BY <1>2, SlottedDelete
  <1>3. CASE UpdateLocation(d)
    BY <1>3, SlottedUpdate
  <1>4. CASE Exit(d)
    BY <1>4, SlottedGone DEF Exit
  <1>5. CASE Battery(d)
    BY <1>5, SlottedSame DEF Battery
  <1>6. ASSUME pc[d] # "closing",
               UNCHANGED <<location, my_index, drones, free_space_stack>>,
               \E label : pc' = [pc EXCEPT ![d] = label],
               reason' = reason \/ \E why : reason' = [reason EXCEPT ![d] = why]
        PROVE  Slotted'
    <2>1. \A e \in Pids \ {d} : pc'[e] = pc[e] /\ reason'[e] = reason[e]
      BY <1>6 DEF TypeInv, TypeOK, DroneTypeOK
    <2> QED BY <1>6, <2>1, SlottedMoves
  <1>7. CASE Setup(d) \/ SetupFails(d) \/ AddLock(d) \/ AddFails(d) \/ LoopEnds(d)
    BY <1>6, <1>7 DEF Setup, SetupFails, AddLock, AddFails, LoopEnds
  <1>8. CASE ProcessSigusr1(d)
    BY <1>6, <1>8 DEF ProcessSigusr1, Condemn
  <1>9. CASE BatteryStateCheck(d)
    BY <1>6, <1>9 DEF BatteryStateCheck, Condemn, InBody
  <1>10. CASE ForceBaseReturn(d)
    BY <1>6, <1>10 DEF ForceBaseReturn, Condemn, InBody
  <1>11. CASE ForceLeaveBase(d)
    BY <1>6, <1>11 DEF ForceLeaveBase, InBody
  <1>12. CASE ReserveLock(d)
    BY <1>6, <1>12 DEF ReserveLock, KeepsReservation, FindsPlace, FindsNoPlace
  <1>13. CASE Reserve(d)
    BY <1>6, <1>13 DEF Reserve
  <1>14. CASE Poll(d) \/ EnterGate(d) \/ LeaveGate(d)
    BY <1>6, <1>14 DEF Poll, EnterGate, LeaveGate
  <1> QED BY <1>1, <1>2, <1>3, <1>4, <1>5, <1>7, <1>8, <1>9, <1>10, <1>11, <1>12, <1>13,
             <1>14 DEF DroneStep

\* A new process owns no slot, and signals move none.
LEMMA SlottedOthers ==
  ASSUME TypeInv, Slotted, OpStep \/ Environment
  PROVE  Slotted'
  <1> USE DEF droneVars, imageVars, slotVars, shmVars
  <1>1. ASSUME NEW d \in Pids, CreateStartingDrone(d) \/ CreateDrone(d)
        PROVE  Slotted'
    <2>1. /\ pc[d] = "none" /\ my_index[d] = NoIndex
          /\ UNCHANGED <<my_index, reason, drones, free_space_stack>>
      BY <1>1 DEF CreateStartingDrone, CreateDrone, Fork, At, TypeInv, Control, ControlOf,
           Starting
    <2>2. \A e \in Pids \ {d} : pc'[e] = pc[e] /\ location'[e] = location[e]
      BY <1>1 DEF CreateStartingDrone, CreateDrone, Fork, At, Goto, TypeInv, TypeOK,
           DroneTypeOK
    <2>3. SlotsOwned'
      BY <2>1, <2>2 DEF Slotted, SlotsOwned, Registered, Deleted
    <2> QED BY <2>1, <2>3 DEF Slotted, FreeSlots, StackedOnce
  <1>2. CASE OpStep
    BY <1>1, <1>2, SlottedSame DEF OpStep, OpSetup, OpSetupFails, StartingDone,
         StartingFails, OpLoopEnds, OpSeesUsr1, OpSeesUsr2, OpIncrease, OpDecrease,
         OpCheck, CreateFails, OpExit, SetLimit
  <1>3. ASSUME NEW d \in Pids, NEW sig, Deliver(d, sig)
        PROVE  Slotted'
    BY <1>3, SlottedGone, SlottedSame DEF Deliver, RaiseFlag
  <1>4. CASE SendSuicide
    BY <1>3, <1>4 DEF SendSuicide, TypeInv, TypeOK, ProcessTypeOK
  <1>5. ASSUME NEW d \in Pids, ShutdownDrone(d)
        PROVE  Slotted'
    BY <1>3, <1>5 DEF ShutdownDrone
  <1>6. CASE PickDronPid \/ SendAddDrones \/ SendSubtractDrones \/ ShutdownOperator
    BY <1>6, SlottedSame DEF PickDronPid, SendAddDrones, SendSubtractDrones,
         ShutdownOperator, OpSignal, OpRaiseFlag, OpKilled, OpIgnores
  <1> QED BY <1>2, <1>4, <1>5, <1>6 DEF Environment

\* Slotted is invariant.
LEMMA SlottedInvariant == Spec => []Slotted
  <1>1. Init => Slotted
    <2> SUFFICES ASSUME Init PROVE Slotted
      OBVIOUS
    <2>1. SlotsOwned
      BY DEF Init, DroneInit, SlotsOwned, Registered
    <2>2. /\ Capacity \in Nat
          /\ free_space_stack = [k \in 1..Capacity |-> Capacity - k]
          /\ drones = [i \in Slots |-> [pid |-> NoPid, location |-> LOCATION_UNDEFINE]]
      BY RegistryAssumption DEF Init, ShmInit
    <2>3. Len(free_space_stack) = Capacity
      BY <2>2
    <2>4. FreeSlots
      BY <2>2, <2>3 DEF FreeSlots, Slots
    <2>5. StackedOnce
      BY <2>2, <2>3 DEF StackedOnce
    <2> QED BY <2>1, <2>4, <2>5 DEF Slotted
  <1>2. TypeInv /\ Slotted /\ [Next]_vars => Slotted'
    <2> SUFFICES ASSUME TypeInv, Slotted, [Next]_vars PROVE Slotted'
      OBVIOUS
    <2>1. CASE UNCHANGED vars
      BY <2>1, SlottedSame DEF vars, droneVars, imageVars, slotVars, shmVars
    <2> QED BY <2>1, SlottedDrone, SlottedOthers DEF Next, Ended
  <1> QED BY <1>1, <1>2, TypeInvariant, PTL DEF Spec

\* The slot a live drone believes to be its own holds its pid and location,
\* so no two live drones share one: the stack hands out free slots only and
\* each of them once (shm.c:69, shm.c:133).
THEOREM Owned == Spec => []SlotsOwned
  <1>1. Slotted => SlotsOwned
    BY DEF Slotted
  <1> QED BY <1>1, SlottedInvariant, PTL
=============================================================================
