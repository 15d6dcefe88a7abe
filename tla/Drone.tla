------------------------------- MODULE Drone -------------------------------
(***************************************************************************)
(* dron/dron.c: the drone processes.  A drone is a process id; pc[d] says  *)
(* where the main thread of that process is, between two points at which   *)
(* another process or the battery thread can be noticed.  The registry,    *)
(* its semaphore and the gate are the modules extended here.               *)
(*                                                                         *)
(*   none      no process has this id                                      *)
(*   boot      forked, not yet ready to register (exec, handlers, shm_get) *)
(*   add_lock  waits for the semaphore in try_adding_self_to_shm           *)
(*   add_cs    holds it and was admitted                                   *)
(*   loop      top of the main loop (describe_self and usleep are behind)  *)
(*   body      in the loop, after process_sigusr1 has ignored a command    *)
(*   del_lock  decided to leave the registry, waits for the semaphore      *)
(*   res_lock  waits for the semaphore to reserve a place in the base      *)
(*   res_cs    holds it and found a place                                  *)
(*   poll      polls the gate (fifo_sem_lock_timeout)                      *)
(*   read      was told that a token is there, reads it                    *)
(*   gate      inside the gate                                             *)
(*   upd_lock  behind the gate, waits for the semaphore to say so          *)
(*   closing   in close_main                                               *)
(*                                                                         *)
(* A critical section whose decision rests on what it reads (admission,    *)
(* reservation) takes two steps, the semaphore held in between; one that   *)
(* only writes takes a single step.  Testing a flag that is down is not a  *)
(* step: its handler only raises it, which might as well happen later.     *)
(***************************************************************************)
EXTENDS AllDronesData, Semaphore, FifoSem

CONSTANTS
    MaxLoadingCycles,  \* max_loading_cycles
    FullBattery,       \* 100 per cent
    ReturnLevel        \* 20 per cent

ASSUME DroneAssumption ==
    /\ MaxLoadingCycles \in Nat \ {0}
    /\ ReturnLevel \in Nat \ {0}
    /\ FullBattery \in Nat
    /\ ReturnLevel < FullBattery
    /\ NoPid \notin Pids

VARIABLES
    pc,
    battery_percentage,
    location,               \* dron_internal_data.location; is_charging follows it
    have_reserved_space,
    loading_cycles_left,
    my_index,
    reason,                 \* why the drone leaves the registry, or "none"
    got_sigusr1,
    got_shutdown_requested,
    \* Bookkeeping of the specification, read by its invariants only:
    left_reservations,      \* reservations of drones that exited holding one
    refused_ids             \* ids given to drones that found no free slot

imageVars == <<battery_percentage, location, have_reserved_space,
               loading_cycles_left, my_index>>
flagVars  == <<got_sigusr1, got_shutdown_requested>>
auditVars == <<left_reservations, refused_ids>>
droneVars == <<pc, imageVars, reason, flagVars, auditVars>>

NoIndex == -1

DroneInit ==
    /\ pc = [d \in Pids |-> "none"]
    /\ battery_percentage = [d \in Pids |-> FullBattery]
    /\ location = [d \in Pids |-> LOCATION_UNDEFINE]
    /\ have_reserved_space = [d \in Pids |-> FALSE]
    /\ loading_cycles_left = [d \in Pids |-> 0]
    /\ my_index = [d \in Pids |-> NoIndex]
    /\ reason = [d \in Pids |-> "none"]
    /\ got_sigusr1 = [d \in Pids |-> FALSE]
    /\ got_shutdown_requested = [d \in Pids |-> FALSE]
    /\ left_reservations = 0
    /\ refused_ids = 0

Goto(d, label) == pc' = [pc EXCEPT ![d] = label]

At(d, label, next) == pc[d] = label /\ Goto(d, next)

-----------------------------------------------------------------------------
(* Start of the process.                                                   *)

\* creat_dron in the operator: fork and exec with the starting location.
Fork(d, loc) ==
    /\ At(d, "none", "boot")
    /\ location' = [location EXCEPT ![d] = loc]
    /\ UNCHANGED <<battery_percentage, have_reserved_space, loading_cycles_left,
                   my_index, reason, flagVars, auditVars>>

\* main up to pthread_create, get_initial_configuration included.
Setup(d) ==
    /\ At(d, "boot", "add_lock")
    /\ loading_cycles_left' = [loading_cycles_left EXCEPT ![d] = MaxLoadingCycles]
    /\ UNCHANGED <<battery_percentage, location, have_reserved_space, my_index,
                   reason, flagVars, auditVars, shmVars, semVars, tokens>>

\* exec, sigaction, a get_* function or pthread_create fails.
SetupFails(d) ==
    /\ At(d, "boot", "closing")
    /\ UNCHANGED <<imageVars, reason, flagVars, auditVars, shmVars, semVars, tokens>>

\* Mutant: the semaphore is released between the test and the registration.
AddLock_Unlocked(d) ==
    /\ At(d, "add_lock",
          IF HasSpaceInBase \/ location[d] = LOCATION_MISSION
          THEN "add_cs" ELSE "closing")
    /\ InOneCriticalSection
    /\ UNCHANGED <<imageVars, reason, flagVars, auditVars, shmVars, tokens>>

\* try_adding_self_to_shm: lock, then the admission test.  A drone that is
\* not admitted returns without semaphore_unlock and exits.
AddLock(d) ==
    /\ At(d, "add_lock",
          IF HasSpaceInBase \/ location[d] = LOCATION_MISSION
          THEN "add_cs" ELSE "closing")
    /\ semaphore_lock(d)
    /\ UNCHANGED <<imageVars, reason, flagVars, auditVars, shmVars, tokens>>

\* try_adding_self_to_shm, admitted: register, take an id, unlock.
Add(d) ==
    /\ At(d, "add_cs", "loop")
    /\ SHM_AllDronesData_add_dron(d, location[d])
    /\ my_index' = [my_index EXCEPT ![d] = Stack_popped(free_space_stack)]
    /\ next_dron_id' = next_dron_id + 1
    /\ semaphore_unlock(d)
    /\ UNCHANGED <<battery_percentage, location, have_reserved_space,
                   loading_cycles_left, reason, flagVars, auditVars, tokens>>

\* Mutant: dron_count is incremented before Stack_pop is tried.
AddFails_Counted(d) ==
    /\ At(d, "add_cs", "closing")
    /\ Stack_is_empty(free_space_stack)
    /\ next_dron_id' = next_dron_id + 1
    /\ refused_ids' = refused_ids + 1
    /\ dron_count' = dron_count + 1
    /\ UNCHANGED <<imageVars, reason, flagVars, left_reservations, semVars, tokens,
                   dron_in_base_count, maximum_dron_in_base_count,
                   dron_reserving_space_count, lost, drones, free_space_stack>>

\* try_adding_self_to_shm, admitted but no slot is free: an id is used up
\* and the function again returns without semaphore_unlock.
AddFails(d) ==
    /\ At(d, "add_cs", "closing")
    /\ Stack_is_empty(free_space_stack)
    /\ next_dron_id' = next_dron_id + 1
    /\ refused_ids' = refused_ids + 1
    /\ UNCHANGED <<imageVars, reason, flagVars, left_reservations, semVars, tokens,
                   dron_count, dron_in_base_count, maximum_dron_in_base_count,
                   dron_reserving_space_count, lost, drones, free_space_stack>>

-----------------------------------------------------------------------------
(* The main loop.                                                          *)

\* Leave for the registry's delete with a reason decided on now.
Condemn(d, why) ==
    /\ Goto(d, "del_lock")
    /\ reason' = [reason EXCEPT ![d] = why]

\* The loop condition.
LoopEnds(d) ==
    /\ At(d, "loop", "closing")
    /\ got_shutdown_requested[d]
    /\ UNCHANGED <<imageVars, reason, flagVars, auditVars, shmVars, semVars, tokens>>

\* process_sigusr1 up to its semaphore_lock.
ProcessSigusr1(d) ==
    /\ pc[d] = "loop"
    /\ ~got_shutdown_requested[d]
    /\ got_sigusr1[d]
    /\ got_sigusr1' = [got_sigusr1 EXCEPT ![d] = FALSE]
    /\ IF battery_percentage[d] > ReturnLevel
       THEN Condemn(d, "suicide")
       ELSE Goto(d, "body") /\ UNCHANGED reason
    /\ UNCHANGED <<imageVars, got_shutdown_requested, auditVars,
                   shmVars, semVars, tokens>>

\* The rest of the loop body is reached from its top when no flag is up.
InBody(d) ==
    \/ pc[d] = "body"
    \/ pc[d] = "loop" /\ ~got_shutdown_requested[d] /\ ~got_sigusr1[d]

\* battery_state_check up to its semaphore_lock, the battery being empty.
\* Otherwise the drone goes on to one of the next two actions; both
\* functions read the battery, and a tick between the two readings has the
\* effect of one before the first or after the second.
BatteryStateCheck(d) ==
    /\ InBody(d)
    /\ battery_percentage[d] <= 0
    /\ Condemn(d, "out_of_power")
    /\ UNCHANGED <<imageVars, flagVars, auditVars, shmVars, semVars, tokens>>

\* force_base_return up to its first semaphore_lock.
ForceBaseReturn(d) ==
    /\ InBody(d)
    /\ battery_percentage[d] > 0
    /\ location[d] = LOCATION_MISSION
    /\ IF battery_percentage[d] >= ReturnLevel
       THEN Goto(d, "loop") /\ UNCHANGED reason
       ELSE IF loading_cycles_left[d] <= 0
            THEN Condemn(d, "decommissioned")
            ELSE Goto(d, "res_lock") /\ UNCHANGED reason
    /\ UNCHANGED <<imageVars, flagVars, auditVars, shmVars, semVars, tokens>>

\* force_leave_base up to the gate.
ForceLeaveBase(d) ==
    /\ InBody(d)
    /\ battery_percentage[d] > 0
    /\ location[d] = LOCATION_BASE
    /\ Goto(d, IF battery_percentage[d] >= FullBattery THEN "poll" ELSE "loop")
    /\ UNCHANGED <<imageVars, reason, flagVars, auditVars, shmVars, semVars, tokens>>

\* The critical section that ends process_sigusr1, battery_state_check and
\* the decommissioning in force_base_return; each calls close_main next.
Delete(d) ==
    /\ At(d, "del_lock", "closing")
    /\ InOneCriticalSection
    /\ SHM_AllDronesData_delete_drone(my_index[d], have_reserved_space[d], reason[d])
    /\ UNCHANGED <<imageVars, reason, flagVars, auditVars, tokens>>

(* force_base_return, second critical section.                             *)

\* Mutant: have_reserved_space is not tested, a place is reserved again.
KeepsReservation_Again(d) ==
    /\ have_reserved_space[d]
    /\ HasSpaceInBase
    /\ semaphore_lock(d)
    /\ Goto(d, "res_cs")

\* have_reserved_space was kept from an attempt that timed out.
KeepsReservation(d) ==
    /\ have_reserved_space[d]
    /\ InOneCriticalSection
    /\ Goto(d, "poll")

\* Mutant: the semaphore is released between the test and the increment.
FindsPlace_Unlocked(d) ==
    /\ ~have_reserved_space[d]
    /\ HasSpaceInBase
    /\ InOneCriticalSection
    /\ Goto(d, "res_cs")

\* A place is free: the semaphore is held until it is taken.
FindsPlace(d) ==
    /\ ~have_reserved_space[d]
    /\ HasSpaceInBase
    /\ semaphore_lock(d)
    /\ Goto(d, "res_cs")

\* Mutant: "Failed to reserve space" does not return.
FindsNoPlace_GoesOn(d) ==
    /\ ~have_reserved_space[d]
    /\ ~HasSpaceInBase
    /\ InOneCriticalSection
    /\ Goto(d, "poll")

FindsNoPlace(d) ==
    /\ ~have_reserved_space[d]
    /\ ~HasSpaceInBase
    /\ InOneCriticalSection
    /\ Goto(d, "loop")

ReserveLock(d) ==
    /\ pc[d] = "res_lock"
    /\ KeepsReservation(d) \/ FindsPlace(d) \/ FindsNoPlace(d)
    /\ UNCHANGED <<imageVars, reason, flagVars, auditVars, shmVars, tokens>>

Reserve(d) ==
    /\ At(d, "res_cs", "poll")
    /\ dron_reserving_space_count' = dron_reserving_space_count + 1
    /\ have_reserved_space' = [have_reserved_space EXCEPT ![d] = TRUE]
    /\ semaphore_unlock(d)
    /\ UNCHANGED <<battery_percentage, location, loading_cycles_left, my_index,
                   reason, flagVars, auditVars, tokens, next_dron_id, dron_count,
                   dron_in_base_count, maximum_dron_in_base_count, lost, drones,
                   free_space_stack>>

-----------------------------------------------------------------------------
(* pass_the_gate_fifo, in either direction.                                *)

\* poll answers: a token is there, or the timeout has passed.  The drone
\* that gives up keeps its reservation.
Poll(d) ==
    /\ pc[d] = "poll"
    /\ \/ PollReadable /\ Goto(d, "read")
       \/ PollTimeout /\ Goto(d, "loop")
    /\ UNCHANGED <<imageVars, reason, flagVars, auditVars, shmVars, semVars, tokens>>

EnterGate(d) ==
    /\ At(d, "read", "gate")
    /\ ReadToken
    /\ UNCHANGED <<imageVars, reason, flagVars, auditVars, shmVars, semVars>>

LeaveGate(d) ==
    /\ At(d, "gate", "upd_lock")
    /\ fifo_sem_unlock
    /\ UNCHANGED <<imageVars, reason, flagVars, auditVars, shmVars, semVars>>

\* Mutant: loading_cycles_left-- is missing.
SpendCycle_Free(d) == UNCHANGED loading_cycles_left

SpendCycle(d) ==
    loading_cycles_left' = [loading_cycles_left EXCEPT ![d] = @ - 1]

\* The critical section behind the gate and the assignments after it.
UpdateLocation(d) ==
    LET returns == location[d] = LOCATION_MISSION
        new     == IF returns THEN LOCATION_BASE ELSE LOCATION_MISSION
    IN  /\ At(d, "upd_lock", "loop")
        /\ InOneCriticalSection
        /\ SHM_AllDronesData_update_dron_location(my_index[d], new)
        /\ location' = [location EXCEPT ![d] = new]
        /\ have_reserved_space' =
             [have_reserved_space EXCEPT ![d] = @ /\ ~returns]
        /\ IF returns THEN SpendCycle(d) ELSE UNCHANGED loading_cycles_left
        /\ UNCHANGED <<battery_percentage, my_index, reason, flagVars, auditVars,
                       tokens>>

-----------------------------------------------------------------------------
(* The battery thread, exit and signals.                                   *)

BatteryRuns(d) == pc[d] \notin {"none", "boot", "closing"}

\* Mutant: the discharging branch has no floor.
Ticked_NoFloor(b, charging) ==
    IF charging THEN (IF b < FullBattery THEN b + 1 ELSE b) ELSE b - 1

Ticked(b, charging) ==
    IF charging THEN (IF b < FullBattery THEN b + 1 ELSE b)
                ELSE (IF b > 0 THEN b - 1 ELSE b)

\* One round of battery(): is_charging is set exactly outside missions.
Battery(d) ==
    LET ticked == Ticked(battery_percentage[d], location[d] # LOCATION_MISSION)
    IN  /\ BatteryRuns(d)
        /\ ticked # battery_percentage[d]
        /\ battery_percentage' = [battery_percentage EXCEPT ![d] = ticked]
        /\ UNCHANGED <<pc, location, have_reserved_space, loading_cycles_left,
                       my_index, reason, flagVars, auditVars, shmVars, semVars,
                       tokens>>

\* The process image is gone and the kernel undoes the semaphore.
ProcessGone(d) ==
    /\ Goto(d, "none")
    /\ battery_percentage' = [battery_percentage EXCEPT ![d] = FullBattery]
    /\ location' = [location EXCEPT ![d] = LOCATION_UNDEFINE]
    /\ have_reserved_space' = [have_reserved_space EXCEPT ![d] = FALSE]
    /\ loading_cycles_left' = [loading_cycles_left EXCEPT ![d] = 0]
    /\ my_index' = [my_index EXCEPT ![d] = NoIndex]
    /\ reason' = [reason EXCEPT ![d] = "none"]
    /\ got_sigusr1' = [got_sigusr1 EXCEPT ![d] = FALSE]
    /\ got_shutdown_requested' = [got_shutdown_requested EXCEPT ![d] = FALSE]
    /\ SemUndo(d)

\* close_main and exit.  After a shutdown request the slot and a reservation
\* stay as they are in the registry.
Exit(d) ==
    /\ pc[d] = "closing"
    /\ ProcessGone(d)
    /\ left_reservations' = left_reservations +
         (IF have_reserved_space[d] /\ reason[d] = "none" THEN 1 ELSE 0)
    /\ UNCHANGED <<refused_ids, shmVars, tokens>>

\* shutdown_request_handler and sig_suicide_handler.
RaiseFlag(d, sig) ==
    /\ got_sigusr1' =
         [got_sigusr1 EXCEPT ![d] = @ \/ sig = "SIGUSR1"]
    /\ got_shutdown_requested' =
         [got_shutdown_requested EXCEPT ![d] = @ \/ sig # "SIGUSR1"]
    /\ UNCHANGED <<pc, imageVars, reason, auditVars, shmVars, semVars, tokens>>

\* A signal arrives.  It kills a process that has not installed its handlers
\* (the default action), is noted in a flag once it has, and is lost when
\* there is no process or the handler is still the copy of the operator's.
Deliver(d, sig) ==
    \/ /\ pc[d] = "boot"
       /\ ProcessGone(d)
       /\ UNCHANGED <<auditVars, shmVars, tokens>>
    \/ /\ pc[d] # "none"
       /\ RaiseFlag(d, sig)
    \/ /\ pc[d] \in {"none", "boot"}
       /\ UNCHANGED <<droneVars, shmVars, semVars, tokens>>

\* One step of the program of drone d.
DroneStep(d) ==
    \/ Setup(d) \/ SetupFails(d) \/ AddLock(d) \/ Add(d) \/ AddFails(d)
    \/ LoopEnds(d) \/ ProcessSigusr1(d) \/ BatteryStateCheck(d)
    \/ ForceBaseReturn(d) \/ ForceLeaveBase(d)
    \/ Delete(d) \/ ReserveLock(d) \/ Reserve(d)
    \/ Poll(d) \/ EnterGate(d) \/ LeaveGate(d) \/ UpdateLocation(d)
    \/ Exit(d)
=============================================================================
