--------------------------- MODULE AllDronesData ---------------------------
(***************************************************************************)
(* ipc/shm.c and ipc/ipc.h: the shared-memory registry of drones           *)
(* (SHM_AllDronesData) and the stack of its free slots, with the three     *)
(* operations that change it and the lookup the commander uses.  Every     *)
(* caller holds the registry semaphore (module Semaphore); the locking is  *)
(* in the callers, here as in the code.                                    *)
(*                                                                         *)
(* A slot keeps the pid and the location of its drone.  The id field of    *)
(* DronData is left out: dron.c copies it before it is assigned and only   *)
(* error messages print it.                                                *)
(***************************************************************************)
EXTENDS Integers, Sequences, FiniteSets, Stack

CONSTANTS
    Capacity,       \* maximum_drones_in_memory, the number of slots
    StartingDrones  \* starting_drones_count (N)

\* main.c process_argv accepts positive values only, and it also demands
\* Capacity >= 2 * StartingDrones, which no argument below needs.
ASSUME RegistryAssumption ==
    /\ Capacity \in Nat \ {0}
    /\ StartingDrones \in Nat \ {0}

LOCATION_UNDEFINE == "undefine"
LOCATION_BASE     == "base"
LOCATION_MISSION  == "mission"

\* DronData_DESTRUCTION_REASON
Reasons == {"out_of_power", "decommissioned", "suicide", "other"}

Slots == 0 .. (Capacity - 1)

NoPid == "no pid"   \* -1, or a slot that never held a drone

VARIABLES
    next_dron_id,
    dron_count,
    dron_in_base_count,
    maximum_dron_in_base_count,
    dron_reserving_space_count,
    lost,           \* the four drone_lost_* counters, by reason
    drones,         \* slot -> [pid, location]
    free_space_stack

shmVars == <<next_dron_id, dron_count, dron_in_base_count,
             maximum_dron_in_base_count, dron_reserving_space_count, lost,
             drones, free_space_stack>>

-----------------------------------------------------------------------------
(* main.c create_shm_all_drones_data: empty registry, every slot free with *)
(* slot 0 on top of the stack, and the base limit N/2 - 1 (0 for N = 2, 3  *)
(* and -1 for N = 1).                                                      *)
ShmInit ==
    /\ next_dron_id = 1
    /\ dron_count = 0
    /\ dron_in_base_count = 0
    /\ maximum_dron_in_base_count = (StartingDrones \div 2) - 1
    /\ dron_reserving_space_count = 0
    /\ lost = [r \in Reasons |-> 0]
    /\ drones = [i \in Slots |-> [pid |-> NoPid, location |-> LOCATION_UNDEFINE]]
    /\ free_space_stack = [k \in 1..Capacity |-> Capacity - k]

\* The admission test every taker of a place in the base makes:
\* dron.c:416, dron.c:544 and operator.c:365.
HasSpaceInBase ==
    dron_in_base_count + dron_reserving_space_count < maximum_dron_in_base_count

\* SHM_AllDronesData_add_dron when Stack_pop succeeds (the caller treats
\* the empty stack), with the slot it returns being Stack_popped.
SHM_AllDronesData_add_dron(p, loc) ==
    /\ ~Stack_is_empty(free_space_stack)
    /\ free_space_stack' = Stack_pop(free_space_stack)
    /\ dron_count' = dron_count + 1
    /\ dron_in_base_count' =
         dron_in_base_count + (IF loc = LOCATION_BASE THEN 1 ELSE 0)
    /\ drones' = [drones EXCEPT ![Stack_popped(free_space_stack)] =
                                    [pid |-> p, location |-> loc]]
    /\ UNCHANGED <<maximum_dron_in_base_count, dron_reserving_space_count, lost>>

\* Mutant: landing does not give the reservation back.
ReservationsAfterLeaving_Kept(old) == dron_reserving_space_count

ReservationsAfterLeaving(old) ==
    dron_reserving_space_count - (IF old = LOCATION_MISSION THEN 1 ELSE 0)

\* Leaving a mission always gives a reservation back: the function trusts
\* its caller to hold one.
SHM_AllDronesData_update_dron_location(i, new) ==
    LET old == drones[i].location
    IN  /\ dron_in_base_count' =
             CASE old = LOCATION_BASE    -> dron_in_base_count - 1
               [] old = LOCATION_MISSION -> dron_in_base_count + 1
               [] OTHER                  -> dron_in_base_count
        /\ dron_reserving_space_count' = ReservationsAfterLeaving(old)
        /\ drones' = [drones EXCEPT ![i].location = new]
        /\ UNCHANGED <<next_dron_id, dron_count, maximum_dron_in_base_count,
                       lost, free_space_stack>>

\* Mutant: the case for out_of_power has no break.
Counted_NoBreak(r) ==
    [lost EXCEPT ![r] = @ + 1,
                 !["decommissioned"] = IF r \in {"out_of_power", "decommissioned"}
                                       THEN @ + 1 ELSE @]

\* The switch over destruction_reason.
Counted(r) == [lost EXCEPT ![r] = @ + 1]

\* Mutant: a drone deleted in the base keeps its place.
InBaseWithout_Kept(i) == dron_in_base_count

InBaseWithout(i) ==
    dron_in_base_count - (IF drones[i].location = LOCATION_BASE THEN 1 ELSE 0)

\* Mutant: has_space_reserved is ignored.
ReservationsWithout_Kept(has_space_reserved) == dron_reserving_space_count

ReservationsWithout(has_space_reserved) ==
    dron_reserving_space_count - (IF has_space_reserved THEN 1 ELSE 0)

\* The answer of Stack_push is dropped by every caller.
SHM_AllDronesData_delete_drone(i, has_space_reserved, reason) ==
    /\ dron_count' = dron_count - 1
    /\ lost' = Counted(reason)
    /\ dron_in_base_count' = InBaseWithout(i)
    /\ dron_reserving_space_count' = ReservationsWithout(has_space_reserved)
    /\ drones' = [drones EXCEPT ![i].location = LOCATION_UNDEFINE]
    /\ free_space_stack' = Stack_push(free_space_stack, Capacity, i)
    /\ UNCHANGED <<next_dron_id, maximum_dron_in_base_count>>

Occupied == {i \in Slots : drones[i].location # LOCATION_UNDEFINE}

\* The pid in the lowest occupied slot, or none.
SHM_AllDronesData_get_dron_pid ==
    IF Occupied = {} THEN NoPid
    ELSE LET first == CHOOSE i \in Occupied : \A j \in Occupied : i <= j
         IN  drones[first].pid
=============================================================================
