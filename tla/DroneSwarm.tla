----------------------------- MODULE DroneSwarm -----------------------------
(***************************************************************************)
(* The running system: the operator, the drones it forks, the registry,    *)
(* its semaphore and the gate, under signals that may come at any time.    *)
(* The commander is here only what it can do to the others: look up a pid  *)
(* in the registry and later send it SIGUSR1, and send SIGUSR1 or SIGUSR2  *)
(* to the operator, in any order and number.  Every mission plan is among  *)
(* these behaviours.                                                       *)
(***************************************************************************)
EXTENDS Operator

CONSTANTS
    Signals,        \* which signals are sent, a subset of AllSignals
    SignalBound     \* bound of the model on how many are sent, or NoBound

\* s1 and s2 go to the operator, s3 and a shutdown (SIGINT, SIGTERM) to a
\* drone, "stop" is a shutdown of the operator.
AllSignals == {"s1", "s2", "s3", "shutdown", "stop"}

NoBound == 0

ASSUME SignalsAssumption == Signals \subseteq AllSignals /\ SignalBound \in Nat

VARIABLES
    dron_pid,       \* the pid the commander has picked and not yet signalled
    signals_sent    \* how many were sent, counted when there is a bound

envVars == <<dron_pid, signals_sent>>
vars == <<shmVars, semVars, tokens, droneVars, opVars, envVars>>

Init ==
    /\ ShmInit
    /\ SemInit
    /\ FifoInit
    /\ DroneInit
    /\ OperatorInit
    /\ dron_pid = NoPid
    /\ signals_sent = 0

Send(sig) ==
    /\ sig \in Signals
    /\ SignalBound = NoBound \/ signals_sent < SignalBound
    /\ signals_sent' = IF SignalBound = NoBound THEN 0 ELSE signals_sent + 1

\* pick_dron_pid_from_shm: the answer is used after the semaphore is free.
PickDronPid ==
    /\ Send("s3")
    /\ dron_pid = NoPid
    /\ InOneCriticalSection
    /\ dron_pid' = SHM_AllDronesData_get_dron_pid
    /\ UNCHANGED <<shmVars, tokens, droneVars, opVars>>

\* send_suicide to whatever process has that pid by now.
SendSuicide ==
    /\ dron_pid # NoPid
    /\ Deliver(dron_pid, "SIGUSR1")
    /\ dron_pid' = NoPid
    /\ UNCHANGED <<opVars, signals_sent>>

\* send_add_drones and send_subtract_drones.
SendAddDrones ==
    /\ Send("s1")
    /\ OpSignal("SIGUSR1")
    /\ UNCHANGED dron_pid

SendSubtractDrones ==
    /\ Send("s2")
    /\ OpSignal("SIGUSR2")
    /\ UNCHANGED dron_pid

\* SIGINT or SIGTERM from the terminal or another process.
ShutdownDrone(d) ==
    /\ Send("shutdown")
    /\ pc[d] # "none"
    /\ Deliver(d, "SIGTERM")
    /\ UNCHANGED <<opVars, dron_pid>>

ShutdownOperator ==
    /\ Send("stop")
    /\ OpSignal("SIGTERM")
    /\ UNCHANGED dron_pid

\* The operator and all drones have exited.
Ended ==
    /\ op_pc = "done"
    /\ UNCHANGED vars

Environment ==
    \/ PickDronPid \/ SendSuicide \/ SendAddDrones \/ SendSubtractDrones
    \/ ShutdownOperator \/ \E d \in Pids : ShutdownDrone(d)

Next ==
    \/ \E d \in Pids : /\ DroneStep(d) \/ Battery(d)
                       /\ UNCHANGED <<opVars, envVars>>
    \/ OpStep /\ UNCHANGED envVars
    \/ Environment
    \/ Ended

Spec == Init /\ [][Next]_vars

\* A process that waits for the semaphore.
DroneWait(d) ==
    /\ AddLock(d) \/ Delete(d) \/ ReserveLock(d) \/ UpdateLocation(d)
    /\ UNCHANGED <<opVars, envVars>>

OpWait == (OpIncrease \/ OpDecrease \/ OpCheck) /\ UNCHANGED envVars

\* The kernel runs every process and every battery thread, and grants the
\* semaphore to its waiters in turn, so a waiter is passed over only finitely
\* often.  The pipe is not granted in turn: a newcomer may take the token a
\* blocked reader was woken for, so reading it is only weakly fair.  Nothing
\* is assumed of the signals: they may never come.
Fairness ==
    /\ \A d \in Pids :
         /\ WF_vars(DroneStep(d) /\ UNCHANGED <<opVars, envVars>>)
         /\ WF_vars(Battery(d) /\ UNCHANGED <<opVars, envVars>>)
         /\ SF_vars(DroneWait(d))
    /\ WF_vars(OpStep /\ UNCHANGED envVars)
    /\ SF_vars(OpWait)

FairSpec == Spec /\ Fairness

-----------------------------------------------------------------------------
(* Properties.                                                             *)

Pcs == {"none", "boot", "add_lock", "add_cs", "loop", "body",
        "del_lock", "res_lock", "res_cs", "poll", "read", "gate", "upd_lock",
        "closing"}

OpPcs == {"boot", "starting", "top", "inc_lock", "usr2", "dec_lock", "check",
          "create", "closing", "done"}

Locations == {LOCATION_UNDEFINE, LOCATION_BASE, LOCATION_MISSION}

ShmTypeOK ==
    /\ next_dron_id \in Nat
    /\ dron_count \in Int
    /\ dron_in_base_count \in Int
    /\ maximum_dron_in_base_count \in Int
    /\ dron_reserving_space_count \in Int
    /\ lost \in [Reasons -> Nat]
    /\ drones \in [Slots -> [pid : Pids \cup {NoPid}, location : Locations]]
    /\ free_space_stack \in Seq(Slots)

IpcTypeOK ==
    /\ semval \in Int
    /\ semadj \in [Pids -> Int]
    /\ tokens \in Int

DroneTypeOK ==
    /\ pc \in [Pids -> Pcs]
    /\ battery_percentage \in [Pids -> 0..FullBattery]
    /\ location \in [Pids -> Locations]
    /\ have_reserved_space \in [Pids -> BOOLEAN]
    /\ loading_cycles_left \in [Pids -> Int]
    /\ my_index \in [Pids -> Slots \cup {NoIndex}]
    /\ reason \in [Pids -> Reasons \cup {"none"}]
    /\ got_sigusr1 \in [Pids -> BOOLEAN]
    /\ got_shutdown_requested \in [Pids -> BOOLEAN]
    /\ left_reservations \in Nat
    /\ refused_ids \in Nat

ProcessTypeOK ==
    /\ op_pc \in OpPcs
    /\ forked \in 0..StartingDrones
    /\ op_sigusr1 \in BOOLEAN
    /\ op_sigusr2 \in BOOLEAN
    /\ op_shutdown \in BOOLEAN
    /\ dron_pid \in Pids \cup {NoPid}
    /\ signals_sent \in Nat

\* Every variable keeps its type: in particular a slot is given back only by
\* the drone that has one, so the free-slot stack holds slots, and the
\* battery stays between 0 and full.
TypeOK == ShmTypeOK /\ IpcTypeOK /\ DroneTypeOK /\ ProcessTypeOK

\* The drone has taken itself out of the registry and is on its way out.
Deleted(d) == pc[d] = "closing" /\ reason[d] # "none"

Registered(d) == my_index[d] # NoIndex /\ ~Deleted(d)

Reserving == {d \in Pids : have_reserved_space[d] /\ ~Deleted(d)}

SlotsInBase == {i \in Slots : drones[i].location = LOCATION_BASE}

Holders == {d \in Pids : semadj[d] # 0}

\* The registry's semaphore excludes: at most one process is in a critical
\* section, it is free exactly when no process is, and nobody is between a
\* check and the write it justifies without holding it.  Drones that exit
\* without semaphore_unlock (dron.c:550, dron.c:554) rest on SEM_UNDO here.
MutualExclusion ==
    /\ semval \in {0, 1}
    /\ \A d \in Pids : semadj[d] \in {0, 1}
    /\ \A d, e \in Holders : d = e
    /\ (semval = 0) <=> (Holders # {})
    /\ \A d \in Pids : pc[d] \in {"add_cs", "res_cs"} => d \in Holders
    /\ \A d \in Holders : pc[d] \in {"add_cs", "res_cs", "closing"}

\* The counters and the free-slot stack agree with the slots: dron_count
\* drones are registered, dron_in_base_count of them in the base, and every
\* slot that holds no drone is on the stack exactly once, whatever order
\* drones register, land, leave and die in.
RegistryConsistent ==
    /\ dron_count = Cardinality(Occupied)
    /\ dron_in_base_count = Cardinality(SlotsInBase)
    /\ \A k, l \in 1..Len(free_space_stack) :
          free_space_stack[k] = free_space_stack[l] => k = l
    /\ \A i \in Slots :
          i \notin Occupied <=> \E k \in 1..Len(free_space_stack) :
                                      free_space_stack[k] = i

\* The slot a live drone believes to be its own is its own: it holds the
\* drone's pid and location.  No other drone was given it meanwhile.
SlotsOwned ==
    \A d \in Pids : Registered(d) =>
        /\ drones[my_index[d]].pid = d
        /\ drones[my_index[d]].location = location[d]
        /\ location[d] # LOCATION_UNDEFINE

\* dron_reserving_space_count counts the drones that hold a reservation,
\* through timeouts at the gate and deaths on the way, plus those left by
\* drones told to shut down.  So the "Reserve space is negative!" of
\* shm.c:88 and shm.c:123 is never printed.
ReservationsMatch ==
    dron_reserving_space_count = Cardinality(Reserving) + left_reservations

\* Nobody is on the way into the base without a reservation and a charging
\* cycle left to spend, a drone keeps no reservation once it is inside, and
\* no drone is charged more often than max_loading_cycles.
EntryIsReserved ==
    \A d \in Pids :
        /\ have_reserved_space[d] => location[d] = LOCATION_MISSION
        /\ loading_cycles_left[d] >= 0
        /\ (location[d] = LOCATION_MISSION /\ pc[d] \in {"poll", "read", "gate", "upd_lock"})
               => have_reserved_space[d] /\ loading_cycles_left[d] > 0

\* A token of the gate is in the pipe or with a drone inside the gate: at
\* most GateCapacity drones pass at once and no passage loses a token.
GateTokensConserved ==
    tokens + Cardinality({d \in Pids : pc[d] = "gate"}) = GateCapacity

Lost == lost["out_of_power"] + lost["decommissioned"] + lost["suicide"] + lost["other"]

\* The figures of the simulation report (main.c:392) add up: every id given
\* out belongs to a drone that is registered, was counted as lost once, or
\* was turned away because the memory was full.
ReportAddsUp == next_dron_id - 1 = dron_count + Lost + refused_ids

\* Places taken and reserved stay within the largest limit s1 can set
\* (operator.c:322), those abandoned by drones told to shut down included,
\* although the limit moves while they are in use and admission is decided
\* in other processes.
BaseNeverOverbuilt ==
    dron_in_base_count + dron_reserving_space_count < 2 * StartingDrones

\* When the operator has seen all its children exit and nobody was told to
\* shut down, nothing is left behind: no drone, no reservation, every slot
\* and every token free and the semaphore open.
NothingLeftBehind ==
    (op_pc = "done" /\ "shutdown" \notin Signals) =>
        /\ dron_count = 0
        /\ dron_in_base_count = 0
        /\ dron_reserving_space_count = 0
        /\ Len(free_space_stack) = Capacity
        /\ semval = 1
        /\ tokens = GateCapacity

\* A step that takes a place in the base, by registering there or by
\* reserving, leaves the base within its limit: the tests of dron.c:416 and
\* dron.c:544 are never stale when they are acted upon.
AdmissionRespectsLimit ==
    [][dron_in_base_count' + dron_reserving_space_count'
           > dron_in_base_count + dron_reserving_space_count
       => dron_in_base_count' + dron_reserving_space_count'
           <= maximum_dron_in_base_count']_vars

FleetView == INSTANCE Fleet WITH
    inside     <- dron_in_base_count,
    on_mission <- dron_count - dron_in_base_count,
    booked     <- dron_reserving_space_count,
    limit      <- maximum_dron_in_base_count

\* Seen through the counters of the registry, the interleaved critical
\* sections of operator and drones are the atomic steps of module Fleet:
\* admission within the limit, landing on booked places only, and no more
\* places booked than there are drones outside.
ImplementsFleet == FleetView!FleetSpec

\* The semaphore is free again and again: a drone that was turned away
\* while holding it does not keep the others out for good.
SemaphoreReleased == []<>(semval = 1)

\* Whenever a drone waits for a token in its read (fifo.c:255), which no
\* timeout and no signal ends, some drone comes out of the gate again: however
\* polls and reads interleave, the gate does not close on those in front of
\* it.  It need not be the same drone: while the operator replaces drones,
\* newcomers may overtake a reader without end.
GateKeepsMoving ==
    (\E d \in Pids : pc[d] = "read") ~> (\E e \in Pids : pc[e] = "upd_lock")

\* Once the operator has left its loop, told to stop or with a limit of 0,
\* every drone it forked comes to its end and the operator exits, as
\* README.md:73 has it.  No drone is forked any more, so that a reader at the
\* gate is no longer overtaken for ever and gets its token.
OperatorEnds == op_pc = "closing" ~> op_pc = "done"
=============================================================================
