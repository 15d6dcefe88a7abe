------------------------------- MODULE Fleet -------------------------------
(***************************************************************************)
(* What the registry promises about the places of the base, without slots, *)
(* processes, semaphore or gate: how many drones are inside, how many are  *)
(* on a mission, how many of those have booked a place, and the limit.  A  *)
(* place is taken, by joining inside or by booking, only while the limit   *)
(* allows it; only a booked place is landed on; a lost drone gives back    *)
(* what it held.                                                           *)
(***************************************************************************)
EXTENDS Integers

CONSTANT StartingDrones

VARIABLES inside, on_mission, booked, limit

places == <<inside, on_mission, booked, limit>>

FleetInit ==
    /\ inside = 0
    /\ on_mission = 0
    /\ booked = 0
    /\ limit = (StartingDrones \div 2) - 1

PlaceFree == inside + booked < limit

JoinInside ==
    /\ PlaceFree
    /\ inside' = inside + 1
    /\ UNCHANGED <<on_mission, booked, limit>>

JoinOnMission ==
    /\ on_mission' = on_mission + 1
    /\ UNCHANGED <<inside, booked, limit>>

Book ==
    /\ PlaceFree
    /\ booked < on_mission
    /\ booked' = booked + 1
    /\ UNCHANGED <<inside, on_mission, limit>>

Land ==
    /\ booked > 0
    /\ booked' = booked - 1
    /\ inside' = inside + 1
    /\ on_mission' = on_mission - 1
    /\ UNCHANGED limit

TakeOff ==
    /\ inside > 0
    /\ inside' = inside - 1
    /\ on_mission' = on_mission + 1
    /\ UNCHANGED <<booked, limit>>

LoseInside ==
    /\ inside > 0
    /\ inside' = inside - 1
    /\ UNCHANGED <<on_mission, booked, limit>>

LoseOnMission ==
    /\ booked < on_mission
    /\ on_mission' = on_mission - 1
    /\ UNCHANGED <<inside, booked, limit>>

LoseBooked ==
    /\ booked > 0
    /\ booked' = booked - 1
    /\ on_mission' = on_mission - 1
    /\ UNCHANGED <<inside, limit>>

\* s1 and s2 may leave the base over its new limit, never below zero drones.
ChangeLimit ==
    /\ limit' \in Int
    /\ limit' < 2 * StartingDrones
    /\ UNCHANGED <<inside, on_mission, booked>>

FleetNext ==
    \/ JoinInside \/ JoinOnMission \/ Book \/ Land \/ TakeOff
    \/ LoseInside \/ LoseOnMission \/ LoseBooked \/ ChangeLimit

FleetSpec == FleetInit /\ [][FleetNext]_places
=============================================================================
