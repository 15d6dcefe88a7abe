-------------------------- MODULE AdmissionProofs --------------------------
(***************************************************************************)
(* The semaphore excludes, entries into the base are reserved, and         *)
(* admission respects the limit, for every value of the constants.         *)
(***************************************************************************)
EXTENDS DroneSwarmProofs

-----------------------------------------------------------------------------
(* Mutual exclusion.                                                       *)

\* A process moves on inside a critical section or outside one.
LEMMA MutexKept ==
  ASSUME TypeInv, MutualExclusion, NEW d \in Pids, NEW label,
         pc' = [pc EXCEPT ![d] = label], UNCHANGED semVars,
         label \notin {"add_cs", "res_cs"},
         pc[d] \notin {"add_cs", "res_cs", "closing"} \/ label = "closing"
  PROVE  MutualExclusion'
  BY DEF TypeInv, TypeOK, DroneTypeOK, IpcTypeOK, MutualExclusion, Holders, semVars

\* Nobody moves.
LEMMA MutexSame ==
  ASSUME TypeInv, MutualExclusion, UNCHANGED <<pc, semVars>>
  PROVE  MutualExclusion'
  BY DEF MutualExclusion, Holders, semVars

\* A process takes the free semaphore.
LEMMA MutexLock ==
  ASSUME TypeInv, MutualExclusion, NEW d \in Pids,
         NEW label \in {"add_cs", "res_cs", "closing"},
         pc' = [pc EXCEPT ![d] = label], semaphore_lock(d)
  PROVE  MutualExclusion'
  BY DEF TypeInv, TypeOK, DroneTypeOK, IpcTypeOK, MutualExclusion, Holders,
       semaphore_lock

\* The holder gives it back.
LEMMA MutexUnlock ==
  ASSUME TypeInv, MutualExclusion, NEW d \in Pids,
         NEW label, label \notin {"add_cs", "res_cs"},
         pc[d] \in {"add_cs", "res_cs"},
         pc' = [pc EXCEPT ![d] = label], semaphore_unlock(d)
  PROVE  MutualExclusion'
  BY DEF TypeInv, TypeOK, DroneTypeOK, IpcTypeOK, MutualExclusion, Holders,
       semaphore_unlock

\* A process exits and the kernel undoes what it holds.
LEMMA MutexExit ==
  ASSUME TypeInv, MutualExclusion, NEW d \in Pids, ProcessGone(d)
  PROVE  MutualExclusion'
  <1>1. /\ pc' = [pc EXCEPT ![d] = "none"]
        /\ semval' = semval + semadj[d]
        /\ semadj' = [semadj EXCEPT ![d] = 0]
    BY DEF ProcessGone, Goto, SemUndo
  <1> QED
    BY <1>1 DEF TypeInv, TypeOK, DroneTypeOK, IpcTypeOK, MutualExclusion, Holders

\* Every drone step keeps mutual exclusion.
LEMMA MutexDrone ==
  ASSUME TypeInv, MutualExclusion, NEW d \in Pids, DroneStep(d) \/ Battery(d)
  PROVE  MutualExclusion'
  <1> USE DEF At, Goto
  <1>1. CASE Setup(d)
    BY <1>1, MutexKept DEF Setup
  <1>2. CASE SetupFails(d)
    BY <1>2, MutexKept DEF SetupFails
  <1>3. CASE AddLock(d)
    BY <1>3, MutexLock DEF AddLock
  <1>4. CASE Add(d)
    BY <1>4, MutexUnlock DEF Add
  <1>5. CASE AddFails(d)
    BY <1>5, MutexKept DEF AddFails
  <1>6. CASE LoopEnds(d)
    BY <1>6, MutexKept DEF LoopEnds
  <1>7. CASE ProcessSigusr1(d)
    <2>1. PICK label \in {"del_lock", "body"} :
            pc' = [pc EXCEPT ![d] = label] /\ pc[d] = "loop" /\ UNCHANGED semVars
      BY <1>7 DEF ProcessSigusr1, Condemn
    <2> QED BY <2>1, MutexKept
  <1>8. CASE BatteryStateCheck(d)
    BY <1>8, MutexKept DEF BatteryStateCheck, InBody, Condemn
  <1>9. CASE ForceBaseReturn(d)
    <2>1. PICK label \in {"del_lock", "loop", "res_lock"} :
            /\ pc' = [pc EXCEPT ![d] = label]
            /\ pc[d] \in {"loop", "body"}
            /\ UNCHANGED semVars
      BY <1>9 DEF ForceBaseReturn, Condemn, InBody
    <2> QED BY <2>1, MutexKept
  <1>10. CASE ForceLeaveBase(d)
    <2>1. PICK label \in {"poll", "loop"} :
            /\ pc' = [pc EXCEPT ![d] = label]
            /\ pc[d] \in {"loop", "body"}
            /\ UNCHANGED semVars
      BY <1>10 DEF ForceLeaveBase, InBody
    <2> QED BY <2>1, MutexKept
  <1>11. CASE Delete(d)
    BY <1>11, MutexKept DEF Delete, InOneCriticalSection
  <1>12. CASE ReserveLock(d)
    BY <1>12, MutexKept, MutexLock
       DEF ReserveLock, KeepsReservation, FindsPlace, FindsNoPlace, InOneCriticalSection
  <1>13. CASE Reserve(d)
    BY <1>13, MutexUnlock DEF Reserve
  <1>14. CASE Poll(d)
    BY <1>14, MutexKept DEF Poll
  <1>15. CASE EnterGate(d)
    BY <1>15, MutexKept DEF EnterGate
  <1>16. CASE LeaveGate(d)
    BY <1>16, MutexKept DEF LeaveGate
  <1>17. CASE UpdateLocation(d)
    BY <1>17, MutexKept DEF UpdateLocation, InOneCriticalSection
  <1>18. CASE Exit(d)
    BY <1>18, MutexExit DEF Exit
  <1>19. CASE Battery(d)
    BY <1>19, MutexSame DEF Battery
  <1> QED BY <1>1, <1>2, <1>3, <1>4, <1>5, <1>6, <1>7, <1>8, <1>9, <1>10, <1>11, <1>12,
             <1>13, <1>14, <1>15, <1>16, <1>17, <1>18, <1>19 DEF DroneStep

\* The operator takes the semaphore only for single steps.
LEMMA MutexOperator ==
  ASSUME TypeInv, MutualExclusion, OpStep
  PROVE  MutualExclusion'
  <1>1. ASSUME NEW d \in Pids, CreateStartingDrone(d) \/ CreateDrone(d)
        PROVE  MutualExclusion'
    BY <1>1, MutexKept DEF CreateStartingDrone, CreateDrone, Fork, At, Goto
  <1>2. CASE \/ OpSetup \/ OpSetupFails \/ StartingDone \/ StartingFails \/ OpLoopEnds
             \/ OpSeesUsr1 \/ OpSeesUsr2 \/ CreateFails \/ OpExit
    BY <1>2, MutexSame DEF OpSetup, OpSetupFails, StartingDone, StartingFails,
         OpLoopEnds, OpSeesUsr1, OpSeesUsr2, CreateFails, OpExit, droneVars
  <1>3. CASE OpIncrease \/ OpDecrease \/ OpCheck
    BY <1>3, MutexSame DEF OpIncrease, OpDecrease, OpCheck, InOneCriticalSection, droneVars
  <1> QED BY <1>1, <1>2, <1>3 DEF OpStep

\* Signals do not touch the semaphore, except through a process they kill.
LEMMA MutexEnvironment ==
  ASSUME TypeInv, MutualExclusion, Environment
  PROVE  MutualExclusion'
  <1>1. ASSUME NEW d \in Pids, NEW sig, Deliver(d, sig)
        PROVE  MutualExclusion'
    BY <1>1, MutexExit, MutexSame DEF Deliver, RaiseFlag, droneVars
  <1>2. CASE SendSuicide
    BY <1>1, <1>2 DEF SendSuicide, TypeInv, TypeOK, ProcessTypeOK
  <1>3. ASSUME NEW d \in Pids, ShutdownDrone(d)
        PROVE  MutualExclusion'
    BY <1>1, <1>3 DEF ShutdownDrone
  <1>4. CASE PickDronPid \/ SendAddDrones \/ SendSubtractDrones \/ ShutdownOperator
    BY <1>4, MutexSame DEF PickDronPid, SendAddDrones, SendSubtractDrones,
         ShutdownOperator, OpSignal, OpRaiseFlag, OpKilled, OpIgnores,
         InOneCriticalSection, droneVars
  <1> QED BY <1>2, <1>3, <1>4 DEF Environment

\* At any time at most one process is in a critical section of the registry,
\* even though a drone that is turned away never unlocks (dron.c:550, 554):
\* with SEM_UNDO its exit does.
THEOREM Mutex == Spec => []MutualExclusion
  <1>1. Init => MutualExclusion
    BY DEF Init, SemInit, DroneInit, MutualExclusion, Holders
  <1>2. TypeInv /\ MutualExclusion /\ [Next]_vars => MutualExclusion'
    <2> SUFFICES ASSUME TypeInv, MutualExclusion, [Next]_vars PROVE MutualExclusion'
      OBVIOUS
    <2>1. CASE UNCHANGED vars
      BY <2>1, MutexSame DEF vars, droneVars
    <2>2. CASE Next
      BY <2>1, <2>2, MutexDrone, MutexOperator, MutexEnvironment DEF Next, Ended
    <2> QED BY <2>1, <2>2
  <1> QED BY <1>1, <1>2, TypeInvariant, PTL DEF Spec

-----------------------------------------------------------------------------
(* Entries into the base are reserved.                                     *)

GatePcs == {"poll", "read", "gate", "upd_lock"}

\* The strengthening: a drone that goes for a reservation is on a mission
\* and has a charging cycle left, from force_base_return on, and it takes one
\* only if it has none.
EntryOf(d) ==
    /\ have_reserved_space[d] => location[d] = LOCATION_MISSION
    /\ loading_cycles_left[d] >= 0
    /\ pc[d] \in {"res_lock", "res_cs"} =>
         location[d] = LOCATION_MISSION /\ loading_cycles_left[d] > 0
    /\ pc[d] = "res_cs" => ~have_reserved_space[d]
    /\ (location[d] = LOCATION_MISSION /\ pc[d] \in GatePcs) =>
         have_reserved_space[d] /\ loading_cycles_left[d] > 0

Entry == \A d \in Pids : EntryOf(d)

\* A step that leaves the drones' own variables alone.
LEMMA EntrySame ==
  ASSUME Entry, UNCHANGED <<pc, imageVars>>
  PROVE  Entry'
  BY DEF Entry, EntryOf, GatePcs, imageVars

\* A drone that moves to a place of which nothing is demanded.
LEMMA EntryMoves ==
  ASSUME TypeInv, Entry, NEW d \in Pids, NEW label,
         pc' = [pc EXCEPT ![d] = label], UNCHANGED imageVars,
         label \notin GatePcs \cup {"res_lock", "res_cs"}
  PROVE  Entry'
  BY DEF TypeInv, TypeOK, DroneTypeOK, Entry, EntryOf, GatePcs, imageVars

\* A process that is gone demands nothing.
LEMMA EntryGone ==
  ASSUME TypeInv, Entry, NEW d \in Pids, ProcessGone(d)
  PROVE  Entry'
  BY DEF TypeInv, TypeOK, DroneTypeOK, Entry, EntryOf, GatePcs, ProcessGone, Goto,
       LOCATION_UNDEFINE, LOCATION_MISSION

\* Every step of a drone and of its battery keeps entries reserved.
LEMMA EntryDrone ==
  ASSUME TypeInv, Entry, NEW d \in Pids, DroneStep(d) \/ Battery(d)
  PROVE  Entry'
  <1> USE DEF At, Goto
  <1>1. CASE Setup(d)
    BY <1>1, DroneAssumption DEF Setup, TypeInv, TypeOK, DroneTypeOK, Entry, EntryOf, GatePcs
  <1>2. CASE SetupFails(d)
    BY <1>2, EntryMoves DEF SetupFails, GatePcs
  <1>3. CASE AddLock(d)
    <2>1. PICK label \in {"add_cs", "closing"} : pc' = [pc EXCEPT ![d] = label]
      BY <1>3 DEF AddLock
    <2> QED BY <1>3, <2>1, EntryMoves DEF AddLock, GatePcs
  <1>4. CASE Add(d)
    BY <1>4 DEF Add, TypeInv, TypeOK, DroneTypeOK, Entry, EntryOf, GatePcs
  <1>5. CASE AddFails(d)
    BY <1>5, EntryMoves DEF AddFails, GatePcs
  <1>6. CASE LoopEnds(d)
    BY <1>6, EntryMoves DEF LoopEnds, GatePcs
  <1>7. CASE ProcessSigusr1(d)
    <2>1. PICK label \in {"del_lock", "body"} : pc' = [pc EXCEPT ![d] = label]
      BY <1>7 DEF ProcessSigusr1, Condemn
    <2> QED BY <1>7, <2>1, EntryMoves DEF ProcessSigusr1, GatePcs
  <1>8. CASE BatteryStateCheck(d)
    BY <1>8, EntryMoves DEF BatteryStateCheck, Condemn, GatePcs
  <1>9. CASE ForceBaseReturn(d)
    <2>1. PICK label \in {"del_lock", "loop", "res_lock"} :
            /\ pc' = [pc EXCEPT ![d] = label]
            /\ label = "res_lock" => ~(loading_cycles_left[d] <= 0)
      BY <1>9 DEF ForceBaseReturn, Condemn
    <2>2. CASE label = "res_lock"
      BY <1>9, <2>1, <2>2 DEF ForceBaseReturn, TypeInv, TypeOK, DroneTypeOK, Entry,
           EntryOf, GatePcs, imageVars
    <2> QED BY <1>9, <2>1, <2>2, EntryMoves DEF ForceBaseReturn, GatePcs
  <1>10. CASE ForceLeaveBase(d)
    <2>1. PICK label \in {"poll", "loop"} : pc' = [pc EXCEPT ![d] = label]
      BY <1>10 DEF ForceLeaveBase
    <2> QED BY <1>10, <2>1 DEF ForceLeaveBase, TypeInv, TypeOK, DroneTypeOK, Entry, EntryOf,
              GatePcs, imageVars, LOCATION_BASE, LOCATION_MISSION
  <1>11. CASE Delete(d)
    BY <1>11, EntryMoves DEF Delete, GatePcs
  <1>12. CASE ReserveLock(d)
    <2>1. PICK label \in {"poll", "res_cs", "loop"} :
            /\ pc' = [pc EXCEPT ![d] = label]
            /\ label = "poll" => have_reserved_space[d]
            /\ label = "res_cs" => ~have_reserved_space[d]
      BY <1>12 DEF ReserveLock, KeepsReservation, FindsPlace, FindsNoPlace
    <2> QED BY <1>12, <2>1 DEF ReserveLock, TypeInv, TypeOK, DroneTypeOK, Entry, EntryOf,
              GatePcs, imageVars
  <1>13. CASE Reserve(d)
    BY <1>13 DEF Reserve, TypeInv, TypeOK, DroneTypeOK, Entry, EntryOf, GatePcs
  <1>14. CASE Poll(d)
    <2>1. PICK label \in {"read", "loop"} : pc' = [pc EXCEPT ![d] = label]
      BY <1>14 DEF Poll
    <2> QED BY <1>14, <2>1 DEF Poll, TypeInv, TypeOK, DroneTypeOK, Entry, EntryOf, GatePcs,
              imageVars
  <1>15. CASE EnterGate(d)
    BY <1>15 DEF EnterGate, TypeInv, TypeOK, DroneTypeOK, Entry, EntryOf, GatePcs, imageVars
  <1>16. CASE LeaveGate(d)
    BY <1>16 DEF LeaveGate, TypeInv, TypeOK, DroneTypeOK, Entry, EntryOf, GatePcs, imageVars
  <1>17. CASE UpdateLocation(d)
    <2>1. CASE location[d] = LOCATION_MISSION
      <3>1. /\ pc[d] = "upd_lock"
            /\ pc' = [pc EXCEPT ![d] = "loop"]
            /\ location' = [location EXCEPT ![d] = LOCATION_BASE]
            /\ loading_cycles_left' =
                 [loading_cycles_left EXCEPT ![d] = loading_cycles_left[d] - 1]
        BY <1>17, <2>1 DEF UpdateLocation, SpendCycle
      <3>2. have_reserved_space' = [have_reserved_space EXCEPT ![d] = FALSE]
        BY <1>17, <2>1 DEF UpdateLocation
      <3>3. loading_cycles_left[d] > 0
        BY <2>1, <3>1 DEF Entry, EntryOf, GatePcs
      <3> QED BY <3>1, <3>2, <3>3 DEF TypeInv, TypeOK, DroneTypeOK, Entry, EntryOf, GatePcs
    <2>2. CASE location[d] # LOCATION_MISSION
      BY <1>17, <2>2 DEF UpdateLocation, TypeInv, TypeOK, DroneTypeOK, Entry,
           EntryOf, GatePcs
    <2> QED BY <2>1, <2>2
  <1>18. CASE Exit(d)
    BY <1>18, EntryGone DEF Exit
  <1>19. CASE Battery(d)
    BY <1>19 DEF Battery, Entry, EntryOf, GatePcs
  <1> QED BY <1>1, <1>2, <1>3, <1>4, <1>5, <1>6, <1>7, <1>8, <1>9, <1>10, <1>11, <1>12,
             <1>13, <1>14, <1>15, <1>16, <1>17, <1>18, <1>19 DEF DroneStep

\* Entry is invariant.
LEMMA EntryInvariant == Spec => []Entry
  <1>1. Init => Entry
    BY DEF Init, DroneInit, Entry, EntryOf, GatePcs, LOCATION_UNDEFINE, LOCATION_MISSION
  <1>2. TypeInv /\ Entry /\ [Next]_vars => Entry'
    <2> SUFFICES ASSUME TypeInv, Entry, [Next]_vars PROVE Entry'
      OBVIOUS
    <2>1. CASE UNCHANGED vars
      BY <2>1, EntrySame DEF vars, droneVars
    <2>2. ASSUME NEW d \in Pids, CreateStartingDrone(d) \/ CreateDrone(d)
          PROVE  Entry'
      BY <2>2 DEF CreateStartingDrone, CreateDrone, Fork, At, Goto, TypeInv, TypeOK,
           DroneTypeOK, Control, ControlOf, Starting, Entry, EntryOf, GatePcs
    <2>3. CASE OpStep
      BY <2>2, <2>3, EntrySame DEF OpStep, OpSetup, OpSetupFails, StartingDone,
           StartingFails, OpLoopEnds, OpSeesUsr1, OpSeesUsr2, OpIncrease, OpDecrease,
           OpCheck, CreateFails, OpExit, droneVars
    <2>4. ASSUME NEW d \in Pids, NEW sig, Deliver(d, sig)
          PROVE  Entry'
      BY <2>4, EntryGone, EntrySame DEF Deliver, RaiseFlag, droneVars
    <2>5. CASE Environment
      <3>1. CASE SendSuicide
        BY <2>4, <3>1 DEF SendSuicide, TypeInv, TypeOK, ProcessTypeOK
      <3>2. ASSUME NEW d \in Pids, ShutdownDrone(d) PROVE Entry'
        BY <2>4, <3>2 DEF ShutdownDrone
      <3>3. CASE PickDronPid \/ SendAddDrones \/ SendSubtractDrones \/ ShutdownOperator
        BY <3>3, EntrySame DEF PickDronPid, SendAddDrones, SendSubtractDrones,
             ShutdownOperator, OpSignal, OpRaiseFlag, OpKilled, OpIgnores, droneVars
      <3> QED BY <2>5, <3>1, <3>2, <3>3 DEF Environment
    <2> QED BY <2>1, <2>3, <2>5, EntryDrone DEF Next, Ended
  <1> QED BY <1>1, <1>2, TypeInvariant, PTL DEF Spec

\* A drone enters the base only with a reservation and a charging cycle to
\* spend, so it is charged at most max_loading_cycles times (dron.c:384).
THEOREM EntryReserved == Spec => []EntryIsReserved
  <1>1. Entry => EntryIsReserved
    BY DEF Entry, EntryOf, EntryIsReserved, GatePcs
  <1> QED BY <1>1, EntryInvariant, PTL

-----------------------------------------------------------------------------
(* Admission respects the limit.                                           *)

counts == <<dron_in_base_count, dron_reserving_space_count, maximum_dron_in_base_count>>

\* The strengthening: what a drone found when it took the semaphore still
\* holds until it acts, because only the holder changes the counters.
CheckedOf(d) ==
    /\ pc[d] = "add_cs" => HasSpaceInBase \/ location[d] = LOCATION_MISSION
    /\ pc[d] = "res_cs" => HasSpaceInBase

Checked == \A d \in Pids : CheckedOf(d)

\* The drone steps that change the counters of the base.
Counting(d) == Add(d) \/ Reserve(d) \/ UpdateLocation(d) \/ Delete(d)

\* The other drone steps leave them alone.
LEMMA OnlyCounting ==
  ASSUME NEW d \in Pids, DroneStep(d) \/ Battery(d), ~Counting(d)
  PROVE  UNCHANGED counts
  <1> USE DEF counts, shmVars
  <1>1. CASE Setup(d) \/ SetupFails(d) \/ AddLock(d) \/ AddFails(d) \/ LoopEnds(d)
    BY <1>1 DEF Setup, SetupFails, AddLock, AddFails, LoopEnds
  <1>2. CASE ProcessSigusr1(d) \/ BatteryStateCheck(d) \/ ForceBaseReturn(d)
             \/ ForceLeaveBase(d) \/ ReserveLock(d)
    BY <1>2 DEF ProcessSigusr1, BatteryStateCheck, ForceBaseReturn, ForceLeaveBase,
         ReserveLock
  <1>3. CASE Poll(d) \/ EnterGate(d) \/ LeaveGate(d) \/ Exit(d) \/ Battery(d)
    BY <1>3 DEF Poll, EnterGate, LeaveGate, Exit, Battery
  <1> QED BY <1>1, <1>2, <1>3 DEF DroneStep, Counting

\* Nobody acts on a check while the counters stay as they are.
LEMMA CheckedSame ==
  ASSUME Checked, UNCHANGED <<pc, location, counts>>
  PROVE  Checked'
  BY DEF Checked, CheckedOf, HasSpaceInBase, counts

\* While the semaphore is free nobody rests on a check.
LEMMA CheckedExclusive ==
  ASSUME MutualExclusion, semval > 0, UNCHANGED pc
  PROVE  Checked'
  BY DEF Checked, CheckedOf, MutualExclusion, Holders

\* A drone moves on, alone or without touching the counters.
LEMMA CheckedMoves ==
  ASSUME TypeInv, MutualExclusion, Checked, NEW d \in Pids, NEW label,
         label \notin {"add_cs", "res_cs"},
         pc' = [pc EXCEPT ![d] = label],
         \A e \in Pids \ {d} : location'[e] = location[e],
         UNCHANGED counts \/ semval > 0 \/ d \in Holders
  PROVE  Checked'
  <1> SUFFICES ASSUME NEW e \in Pids, pc'[e] \in {"add_cs", "res_cs"} PROVE CheckedOf(e)'
    BY DEF Checked, CheckedOf
  <1>1. e # d /\ pc'[e] = pc[e] /\ location'[e] = location[e]
    BY DEF TypeInv, TypeOK, DroneTypeOK
  <1>2. e \in Holders
    BY <1>1 DEF MutualExclusion
  <1>3. UNCHANGED counts
    BY <1>1, <1>2 DEF MutualExclusion
  <1> QED BY <1>1, <1>3 DEF Checked, CheckedOf, HasSpaceInBase, counts

\* A drone takes the free semaphore and finds what its check demands.
LEMMA CheckedLocks ==
  ASSUME TypeInv, MutualExclusion, NEW d \in Pids,
         NEW label \in {"add_cs", "res_cs", "closing"},
         semval > 0, pc' = [pc EXCEPT ![d] = label], UNCHANGED <<location, counts>>,
         label = "add_cs" => HasSpaceInBase \/ location[d] = LOCATION_MISSION,
         label = "res_cs" => HasSpaceInBase
  PROVE  Checked'
  <1> SUFFICES ASSUME NEW e \in Pids PROVE CheckedOf(e)'
    BY DEF Checked
  <1>1. HasSpaceInBase => HasSpaceInBase'
    BY DEF HasSpaceInBase, counts
  <1>2. CASE e = d
    BY <1>1, <1>2 DEF TypeInv, TypeOK, DroneTypeOK, CheckedOf
  <1>3. CASE e # d
    BY <1>3 DEF TypeInv, TypeOK, DroneTypeOK, CheckedOf, MutualExclusion, Holders
  <1> QED BY <1>2, <1>3

\* Every step of a drone keeps the checks of the others fresh.
LEMMA CheckedDrone ==
  ASSUME TypeInv, MutualExclusion, Checked, NEW d \in Pids, DroneStep(d) \/ Battery(d)
  PROVE  Checked'
  <1> USE DEF At, Goto
  <1>1. CASE AddLock(d)
    <2>1. PICK label \in {"add_cs", "closing"} :
            /\ pc' = [pc EXCEPT ![d] = label]
            /\ label = "add_cs" => HasSpaceInBase \/ location[d] = LOCATION_MISSION
      BY <1>1 DEF AddLock
    <2> QED BY <1>1, <2>1, CheckedLocks
            DEF AddLock, semaphore_lock, imageVars, counts, shmVars
  <1>2. CASE ReserveLock(d)
    <2>1. CASE FindsPlace(d)
      BY <1>2, <2>1, CheckedLocks
         DEF ReserveLock, FindsPlace, semaphore_lock, imageVars, counts, shmVars
    <2>2. CASE KeepsReservation(d) \/ FindsNoPlace(d)
      BY <1>2, <2>2, CheckedMoves
         DEF ReserveLock, KeepsReservation, FindsNoPlace, imageVars, counts, shmVars
    <2> QED BY <1>2, <2>1, <2>2 DEF ReserveLock
  <1>3. CASE Add(d) \/ Reserve(d)
    <2>1. d \in Holders
      BY <1>3 DEF Add, Reserve, MutualExclusion
    <2> QED BY <1>3, <2>1, CheckedMoves DEF Add, Reserve, imageVars
  <1>4. CASE Delete(d)
    BY <1>4, CheckedMoves DEF Delete, InOneCriticalSection, imageVars
  <1>5. CASE UpdateLocation(d)
    <2>1. \A e \in Pids \ {d} : location'[e] = location[e]
      BY <1>5 DEF UpdateLocation, TypeInv, TypeOK, DroneTypeOK
    <2> QED BY <1>5, <2>1, CheckedMoves DEF UpdateLocation, InOneCriticalSection
  <1>6. CASE Exit(d)
    <2>1. \A e \in Pids \ {d} : location'[e] = location[e]
      BY <1>6 DEF Exit, ProcessGone, TypeInv, TypeOK, DroneTypeOK
    <2> QED BY <1>6, <2>1, CheckedMoves DEF Exit, ProcessGone, counts, shmVars
  <1>7. CASE Battery(d)
    BY <1>7, CheckedSame DEF Battery, counts, shmVars
  <1>8. CASE Setup(d) \/ SetupFails(d) \/ AddFails(d) \/ LoopEnds(d)
    BY <1>8, CheckedMoves DEF Setup, SetupFails, AddFails, LoopEnds, imageVars, counts,
         shmVars
  <1>9. CASE ProcessSigusr1(d) \/ BatteryStateCheck(d) \/ ForceBaseReturn(d)
             \/ ForceLeaveBase(d)
    <2>1. PICK label \in {"del_lock", "body", "loop", "res_lock", "poll"} :
            pc' = [pc EXCEPT ![d] = label]
      BY <1>9 DEF ProcessSigusr1, BatteryStateCheck, ForceBaseReturn, ForceLeaveBase, Condemn
    <2>2. UNCHANGED <<imageVars, counts>>
      BY <1>9 DEF ProcessSigusr1, BatteryStateCheck, ForceBaseReturn, ForceLeaveBase,
           counts, shmVars
    <2> QED BY <2>1, <2>2, CheckedMoves DEF imageVars
  <1>10. CASE Poll(d) \/ EnterGate(d) \/ LeaveGate(d)
    BY <1>10, CheckedMoves DEF Poll, EnterGate, LeaveGate, imageVars, counts, shmVars
  <1> QED BY <1>1, <1>2, <1>3, <1>4, <1>5, <1>6, <1>7, <1>8, <1>9, <1>10 DEF DroneStep

\* So does every other step.
LEMMA CheckedOthers ==
  ASSUME TypeInv, MutualExclusion, Checked, OpStep \/ Environment
  PROVE  Checked'
  <1> USE DEF counts, shmVars
  <1>1. ASSUME NEW d \in Pids, CreateStartingDrone(d) \/ CreateDrone(d)
        PROVE  Checked'
    <2>1. \A e \in Pids \ {d} : location'[e] = location[e]
      BY <1>1 DEF CreateStartingDrone, CreateDrone, Fork, TypeInv, TypeOK, DroneTypeOK
    <2> QED BY <1>1, <2>1, CheckedMoves DEF CreateStartingDrone, CreateDrone, Fork, At, Goto
  <1>2. CASE \/ OpSetup \/ OpSetupFails \/ StartingDone \/ StartingFails \/ OpLoopEnds
             \/ OpSeesUsr1 \/ OpSeesUsr2 \/ CreateFails \/ OpExit
    BY <1>2, CheckedSame DEF OpSetup, OpSetupFails, StartingDone, StartingFails,
         OpLoopEnds, OpSeesUsr1, OpSeesUsr2, CreateFails, OpExit, droneVars, imageVars
  <1>3. CASE OpIncrease \/ OpDecrease \/ OpCheck
    BY <1>3, CheckedExclusive DEF OpIncrease, OpDecrease, OpCheck, InOneCriticalSection,
         droneVars
  <1>4. ASSUME NEW d \in Pids, NEW sig, Deliver(d, sig)
        PROVE  Checked'
    <2>1. CASE ProcessGone(d) /\ UNCHANGED shmVars
      <3>1. \A e \in Pids \ {d} : location'[e] = location[e]
        BY <2>1 DEF ProcessGone, TypeInv, TypeOK, DroneTypeOK
      <3> QED BY <2>1, <3>1, CheckedMoves DEF ProcessGone, Goto
    <2>2. CASE ~ProcessGone(d)
      BY <1>4, <2>2, CheckedSame DEF Deliver, RaiseFlag, droneVars, imageVars
    <2> QED BY <1>4, <2>1, <2>2 DEF Deliver, RaiseFlag
  <1>5. CASE SendSuicide
    BY <1>4, <1>5 DEF SendSuicide, TypeInv, TypeOK, ProcessTypeOK
  <1>6. ASSUME NEW d \in Pids, ShutdownDrone(d)
        PROVE  Checked'
    BY <1>4, <1>6 DEF ShutdownDrone
  <1>7. CASE PickDronPid \/ SendAddDrones \/ SendSubtractDrones \/ ShutdownOperator
    BY <1>7, CheckedSame DEF PickDronPid, SendAddDrones, SendSubtractDrones,
         ShutdownOperator, OpSignal, OpRaiseFlag, OpKilled, OpIgnores, droneVars,
         imageVars
  <1> QED BY <1>1, <1>2, <1>3, <1>5, <1>6, <1>7 DEF OpStep, Environment

Places == dron_in_base_count + dron_reserving_space_count

\* A step takes no place beyond the limit it leaves behind.
AdmissionStep == Places' > Places => Places' <= maximum_dron_in_base_count'

\* Two sums, term by term.
LEMMA NoMore ==
  ASSUME NEW a \in Int, NEW b \in Int, NEW c \in Int, NEW e \in Int, c <= a, e <= b
  PROVE  ~(c + e > a + b)
  OBVIOUS

\* The drone steps that count places respect the limit.
LEMMA AdmissionCounting ==
  ASSUME TypeInv, Checked, NEW d \in Pids, Counting(d)
  PROVE  AdmissionStep
  <1> USE DEF AdmissionStep, Places
  <1>0. /\ dron_in_base_count \in Int
        /\ dron_reserving_space_count \in Int
        /\ maximum_dron_in_base_count \in Int
    BY DEF TypeInv, TypeOK, ShmTypeOK
  <1>1. CASE Add(d)
    <2>1. HasSpaceInBase \/ location[d] = LOCATION_MISSION
      BY <1>1 DEF Add, At, Checked, CheckedOf
    <2>2. CASE location[d] = LOCATION_MISSION
      BY <1>0, <1>1, <2>2 DEF Add, SHM_AllDronesData_add_dron, LOCATION_MISSION,
           LOCATION_BASE
    <2>3. CASE HasSpaceInBase
      BY <1>0, <1>1, <2>3 DEF Add, SHM_AllDronesData_add_dron, HasSpaceInBase
    <2> QED BY <2>1, <2>2, <2>3
  <1>2. CASE Reserve(d)
    <2>1. HasSpaceInBase
      BY <1>2 DEF Reserve, At, Checked, CheckedOf
    <2> QED BY <1>0, <1>2, <2>1 DEF Reserve, HasSpaceInBase
  <1>3. CASE UpdateLocation(d)
    <2>1. PICK new : SHM_AllDronesData_update_dron_location(my_index[d], new)
      BY <1>3 DEF UpdateLocation
    <2> DEFINE old == drones[my_index[d]].location
    <2>2. old = LOCATION_MISSION =>
            /\ dron_in_base_count' = dron_in_base_count + 1
            /\ dron_reserving_space_count' = dron_reserving_space_count - 1
      BY <2>1 DEF SHM_AllDronesData_update_dron_location, ReservationsAfterLeaving,
           LOCATION_BASE, LOCATION_MISSION
    <2>3. old # LOCATION_MISSION =>
            /\ dron_in_base_count' \in {dron_in_base_count, dron_in_base_count - 1}
            /\ dron_reserving_space_count' = dron_reserving_space_count
      BY <1>0, <2>1 DEF SHM_AllDronesData_update_dron_location, ReservationsAfterLeaving
    <2>4. ~(Places' > Places)
      BY <1>0, <2>2, <2>3
    <2> QED BY <2>4
  <1>4. CASE Delete(d)
    <2>1. /\ dron_in_base_count' \in {dron_in_base_count, dron_in_base_count - 1}
          /\ dron_reserving_space_count' \in
               {dron_reserving_space_count, dron_reserving_space_count - 1}
      BY <1>0, <1>4 DEF Delete, SHM_AllDronesData_delete_drone, InBaseWithout,
           ReservationsWithout
    <2>2. /\ dron_in_base_count' \in Int /\ dron_in_base_count' <= dron_in_base_count
          /\ dron_reserving_space_count' \in Int
          /\ dron_reserving_space_count' <= dron_reserving_space_count
      BY <1>0, <2>1
    <2>3. ~(Places' > Places)
      BY <1>0, <2>2, NoMore
    <2> QED BY <2>3
  <1> QED BY <1>1, <1>2, <1>3, <1>4 DEF Counting

\* Apart from those and the operator's two branches nothing counts places.
LEMMA AdmissionNext ==
  ASSUME TypeInv, Checked, [Next]_vars
  PROVE  AdmissionStep
  <1>0. Places \in Int
    BY DEF TypeInv, TypeOK, ShmTypeOK, Places
  <1>1. ASSUME UNCHANGED <<dron_in_base_count, dron_reserving_space_count>>
        PROVE  AdmissionStep
    BY <1>0, <1>1 DEF AdmissionStep, Places
  <1>2. ASSUME NEW d \in Pids, DroneStep(d) \/ Battery(d)
        PROVE  AdmissionStep
    BY <1>1, <1>2, OnlyCounting, AdmissionCounting DEF counts
  <1>3. CASE OpStep
    BY <1>1, <1>3 DEF OpStep, CreateStartingDrone, CreateDrone, OpSetup, OpSetupFails,
         StartingDone, StartingFails, OpLoopEnds, OpSeesUsr1, OpSeesUsr2, OpIncrease,
         OpDecrease, OpCheck, CreateFails, OpExit, SetLimit, shmVars
  <1>4. CASE Environment
    BY <1>1, <1>4 DEF Environment, PickDronPid, SendSuicide, SendAddDrones,
         SendSubtractDrones, ShutdownDrone, ShutdownOperator, OpSignal, OpRaiseFlag,
         OpKilled, OpIgnores, Deliver, RaiseFlag, shmVars
  <1>5. CASE UNCHANGED vars
    BY <1>1, <1>5 DEF vars, shmVars
  <1> QED BY <1>2, <1>3, <1>4, <1>5 DEF Next, Ended

\* Checked is invariant, on top of the types and mutual exclusion.
THEOREM ChecksFresh == Spec => []Checked
  <1>1. Init => Checked
    BY DEF Init, DroneInit, Checked, CheckedOf
  <1>2. TypeInv /\ MutualExclusion /\ Checked /\ [Next]_vars => Checked'
    <2> SUFFICES ASSUME TypeInv, MutualExclusion, Checked, [Next]_vars PROVE Checked'
      OBVIOUS
    <2>1. CASE UNCHANGED vars
      BY <2>1, CheckedSame DEF vars, droneVars, imageVars, counts, shmVars
    <2> QED BY <2>1, CheckedDrone, CheckedOthers DEF Next, Ended
  <1> QED BY <1>1, <1>2, TypeInvariant, Mutex, PTL DEF Spec

\* No step takes a place in the base beyond its limit: the tests of dron.c:416
\* and dron.c:544 are never stale when acted upon, with any number of drones.
THEOREM Admission == Spec => AdmissionRespectsLimit
  <1>1. TypeInv /\ Checked /\ [Next]_vars =>
          [dron_in_base_count' + dron_reserving_space_count'
               > dron_in_base_count + dron_reserving_space_count
           => dron_in_base_count' + dron_reserving_space_count'
               <= maximum_dron_in_base_count']_vars
    BY AdmissionNext DEF AdmissionStep, Places
  <1> QED BY <1>1, TypeInvariant, ChecksFresh, PTL DEF Spec, AdmissionRespectsLimit

\* Only the operator's two branches (operator.c:322, operator.c:343) move the limit.
LEMMA LimitSteps ==
  ASSUME TypeInv, [Next]_vars
  PROVE  maximum_dron_in_base_count' \in
             {maximum_dron_in_base_count, DoubledLimit, HalvedLimit}
  <1>1. ASSUME NEW d \in Pids, DroneStep(d) \/ Battery(d)
        PROVE  UNCHANGED maximum_dron_in_base_count
    <2>1. CASE Counting(d)
      BY <2>1 DEF Counting, Add, Reserve, UpdateLocation, Delete, SHM_AllDronesData_add_dron,
           SHM_AllDronesData_update_dron_location, SHM_AllDronesData_delete_drone
    <2> QED BY <1>1, <2>1, OnlyCounting DEF counts
  <1>2. CASE OpStep
    BY <1>2 DEF OpStep, CreateStartingDrone, CreateDrone, OpSetup, OpSetupFails,
         StartingDone, StartingFails, OpLoopEnds, OpSeesUsr1, OpSeesUsr2, OpIncrease,
         OpDecrease, OpCheck, CreateFails, OpExit, SetLimit, shmVars
  <1>3. CASE Environment
    BY <1>3 DEF Environment, PickDronPid, SendSuicide, SendAddDrones, SendSubtractDrones,
         ShutdownDrone, ShutdownOperator, OpSignal, OpRaiseFlag, OpKilled,
         OpIgnores, Deliver, RaiseFlag, shmVars
  <1>4. CASE UNCHANGED vars
    BY <1>4 DEF vars, shmVars
  <1> QED BY <1>1, <1>2, <1>3, <1>4 DEF Next, Ended

\* The limit stays below twice the starting drones.
LimitClamped == maximum_dron_in_base_count < 2 * StartingDrones

LEMMA LimitBounded ==
  ASSUME TypeInv, [Next]_vars, LimitClamped
  PROVE  LimitClamped'
  <1>0. maximum_dron_in_base_count \in Int /\ StartingDrones \in Nat \ {0}
    BY RegistryAssumption DEF TypeInv, TypeOK, ShmTypeOK
  <1>1. DoubledLimit < 2 * StartingDrones
    BY <1>0 DEF DoubledLimit
  <1>2. HalvedLimit < 2 * StartingDrones
    BY <1>0 DEF HalvedLimit, LimitClamped
  <1> QED BY <1>1, <1>2, LimitSteps DEF LimitClamped

\* However often s1 comes, the operator never sets a limit of twice the
\* starting drones or more (operator.c:322).
THEOREM Clamped == Spec => []LimitClamped
  <1>1. Init => LimitClamped
    BY RegistryAssumption DEF Init, ShmInit, LimitClamped
  <1> QED BY <1>1, LimitBounded, TypeInvariant, PTL DEF Spec

\* Places taken and reserved stay below the largest limit s1 can set, however
\* the limit moves while they are in use.
THEOREM NeverOverbuilt == Spec => []BaseNeverOverbuilt
  <1>1. Init => BaseNeverOverbuilt
    BY RegistryAssumption DEF Init, ShmInit, BaseNeverOverbuilt
  <1>2. TypeInv /\ TypeInv' /\ Checked /\ LimitClamped' /\ BaseNeverOverbuilt /\ [Next]_vars
          => BaseNeverOverbuilt'
    <2> SUFFICES ASSUME TypeInv, TypeInv', Checked, LimitClamped', BaseNeverOverbuilt,
                        [Next]_vars
                 PROVE  BaseNeverOverbuilt'
      OBVIOUS
    <2>1. maximum_dron_in_base_count' < 2 * StartingDrones
      BY DEF LimitClamped
    <2>2. AdmissionStep
      BY AdmissionNext
    <2>3. /\ dron_in_base_count' \in Int
          /\ dron_reserving_space_count' \in Int
          /\ maximum_dron_in_base_count' \in Int
          /\ dron_in_base_count \in Int
          /\ dron_reserving_space_count \in Int
          /\ StartingDrones \in Nat
      BY RegistryAssumption DEF TypeInv, TypeOK, ShmTypeOK
    <2> DEFINE now  == dron_in_base_count + dron_reserving_space_count
    <2> DEFINE then == dron_in_base_count' + dron_reserving_space_count'
    <2>4. now \in Int /\ then \in Int /\ now < 2 * StartingDrones
      BY <2>3 DEF BaseNeverOverbuilt
    <2>5. then > now => then <= maximum_dron_in_base_count'
      BY <2>2 DEF AdmissionStep, Places
    <2> HIDE DEF now, then
    <2>6. then < 2 * StartingDrones
      BY <2>1, <2>3, <2>4, <2>5
    <2> QED BY <2>6 DEF BaseNeverOverbuilt, then
  <1> QED BY <1>1, <1>2, TypeInvariant, ChecksFresh, Clamped, PTL DEF Spec
=============================================================================
