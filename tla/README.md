# Verification of the drone swarm simulator

TLA+ models of the processes of this repository, the TLC runs that check them on
small instances, and TLAPS proofs about them for every value of the parameters.
Source paths below are relative to the repository (`src/` is its code directory).

## 1. Inventory of the system

The program is a set of UNIX processes that share System V memory, one System V
semaphore and one named pipe.

| Part | State | Operations | Talks to the others by |
|---|---|---|---|
| main (`main.c`) | ids and pointers of seven IPC objects (three segments, three semaphores, a pipe), two child pids | parse arguments, create everything or close after a failure, fork operator and commander, wait for both, print the report, destroy everything | shared memory, `waitpid`; other executions in the same directory by the keys |
| operator (`operator/operator.c`) | three signal flags | fork the starting drones, loop (double or halve the base limit on SIGUSR1/SIGUSR2, fork a drone when there is room), wait for all drones | signals in, registry, `fork`, `wait` |
| drone (`dron/dron.c`) | battery, location, reservation, cycles left, its slot, two flags; a battery thread | register, return to base when low, leave when full, die (empty, out of cycles, suicide), shut down | registry, gate, signals in |
| commander (`system_commander/system_commander.c`) | its place in the plan, the limit as it last read it, a shutdown flag | three s1 to the operator, ten times s3 to a drone picked from the registry, s2 until the limit reads 0 | signals out, registry |
| registry (`ipc/shm.c`, `ipc/ipc.h`) | counters, limit, loss counters, slots | add, update location, delete, pick a pid | called under the semaphore |
| free-slot stack (`data_structures/stack.c`) | slots | push, pop, tests | called under the semaphore |
| semaphore (`ipc/semaphore.c`) | value, undo adjustment per process | lock, unlock; undo at exit | kernel |
| gate (`ipc/fifo.c`) | tokens in a pipe | poll with timeout and read, write back | kernel |
| printer/logger, key files, argument parsing, `tests/test_1.c` | - | I/O | - |

What is hard in it:

* A place in the base is promised in one process (operator's check), granted in
  another (the drone's own registration or reservation) and may be withdrawn by a
  third (s2), so every test can be stale.
* Drones that are turned away leave `try_adding_self_to_shm` **without unlocking**;
  only SEM_UNDO at their exit keeps the system alive.
* A reservation outlives the function that took it: the gate's timeout returns to the
  main loop with the place reserved, and death may come before the next attempt.
* `poll` with a timeout is followed by a `read` without one.
* Signals only raise flags, may come before the handlers are installed, may reach a
  pid that is gone or reused, and may coincide.
* A shutdown request leaves slot and reservation in the registry.
* The commander learns what its signals did only from the registry, a moment later; its last loop ends
  only if the operator still acts on them, or if it is told to stop.
* main makes its objects one by one and any of them may fail; what is made by then must go again,
  and the objects of another execution, found under the same keys, must not.

What makes the parts correct: the registry's counters describe its slots and its
slots belong to live drones; reservations are counted exactly; no place is taken beyond
the limit; the gate's tokens are conserved; the semaphore excludes and is released;
losses are counted once; the operator sees all its children end; a plan that succeeds has closed the base and
ends the simulation; main destroys what it made, all of it, nothing else, and only when nobody uses it. `PROJECT.json` lists
the hazards line by line with the properties that cover them.

## 2. Modules

| Module | Models | Remarks |
|---|---|---|
| `Stack` | `stack.c` | a sequence, bottom first; `Stack_popped` is the slot `Stack_pop` hands out |
| `AllDronesData` | `shm.c`, the initial contents from `main.c` | a slot keeps pid and location; the `id` field is left out (it is copied before it is assigned) |
| `Semaphore` | `semaphore.c` | value and undo adjustments; `EINTR` retries are the disabled action |
| `FifoSem` | `fifo.c` | number of tokens; poll and read are different steps |
| `Drone` | `dron.c` | one action per stretch of code between two points where others can interfere |
| `Operator` | `operator.c` | the same for the operator's main, from its exec on (the table is at the head of the module) |
| `DroneSwarm` | all of them running together, with the commander and the terminal as an environment that sends signals in any order and number | the properties of operator and drones |
| `Commander` | `system_commander.c` | takes the environment's actions of `DroneSwarm` where its plan takes them |
| `IpcObjects` | main's globals | names of the objects, keys and children, shared by the next two |
| `Simulation` | the whole program once main has forked the operator: `Commander`, `DroneSwarm` and main's two waits | implements `DroneSwarm` (proved) and `Main` (`ImplementsMain`, proved) |
| `Main` | `main.c` and the create, attach and destroy functions of `ipc/`, for several executions at once | the children are known only to end |
| `Fleet` | nothing in the code: the abstract promise about places in the base | refined by `DroneSwarm` (proved) |
| `MCDroneSwarm`, `MCMain` | TLC's symmetry sets | |
| `DocClaims`, `SimulationClaims` | what the documents claim and the code does not do | |
| `DroneSwarmProofs`, `AdmissionProofs`, `RegistryProofs`, `CountingProofs`, `FleetProofs`, `SimulationProofs`, `MainProofs` | proofs | each extends the ones it cites |

Each module extends the ones it is built on: `Drone` extends registry, semaphore and gate,
`Operator` extends `Drone`, `DroneSwarm` extends `Operator`, `Commander` extends `DroneSwarm`, `Simulation` extends
`Commander`. `Main` stands beside them: it is about the life of the objects, the others about their use.
`ImplementsMain` joins the two: seen through `MainView`, the simulation is one execution of `Main` that has come to
forking its commander.

### How state and actions correspond to the code

A drone is a process id `d`; `pc[d]` is where its main thread is (the table is at the head
of `Drone.tla`), the other functions hold its static variables. `is_charging` has no variable
of its own: the code sets it together with `location`, exactly outside missions. The ghosts
`left_reservations` and `refused_ids` are read by invariants only.

| Code | Actions |
|---|---|
| `creat_dron` | `Fork`, from `CreateStartingDrone` and `CreateDrone` |
| drone `main` before registration, and a failure in it | `Setup`, `SetupFails` |
| `try_adding_self_to_shm` | `AddLock` (lock, test), `Add` (register, id, unlock), `AddFails` (no slot, no unlock) |
| loop head, `process_sigusr1`, `battery_state_check` | `LoopEnds`, `ProcessSigusr1`, `BatteryStateCheck` |
| the three deletions and `close_main` after them | `Delete`, `Exit` |
| `force_base_return` | `ForceBaseReturn`, `ReserveLock` (its three outcomes), `Reserve` |
| `pass_the_gate_fifo` | `Poll`, `EnterGate`, `LeaveGate` |
| second half of `force_base_return` and `force_leave_base` | `UpdateLocation` |
| `force_leave_base` up to the gate | `ForceLeaveBase` |
| `battery` (thread) | `Battery` |
| signal handlers and default actions of a drone | `Deliver`, `RaiseFlag` |
| the same of the operator | `OpSignal`: `OpRaiseFlag`, or before the handlers are installed `OpKilled` and `OpIgnores` |
| operator `main` before `generate_starting_drones`, and a failure in it | `OpSetup`, `OpSetupFails` |
| `generate_starting_drones` | `CreateStartingDrone`, `StartingDone`, `StartingFails` |
| operator loop | `OpLoopEnds`, `OpSeesUsr1` and `OpSeesUsr2` (the flag goes down), `OpIncrease` and `OpDecrease` (the limit, under the semaphore), `OpCheck`, `CreateDrone`, `CreateFails` |
| operator `close_main` | `OpExit` |
| commander `main` before the plan | `CmdSetup` |
| `mission_step_increase_drones` | `IncreaseDrones`, `IncreaseEnds` |
| `mission_step_kill_drones` | `PickDrone` (an empty registry fails the plan), `KillDrone`, `KillEnds` |
| `mission_step_decrease_drones_to_0` | `DecreaseStarts`, `LowerAgain`, `SubtractDrones`, `LowerEnds` |
| commander `close_main`, signals to it | `CmdExit`, `ShutdownCommander` |
| `process_argv`, `shm_create`, `shm_attach`, `semaphore_create`, `fifo_sem_create`, and a failure of any | `ProcessArgv`, `CreateSegment`, `AttachSegment`, `CreateSemaphore`, `SetvalFails` (the calls on the id that `semget` returned, -1 included), `CreateFifo`, `CreateFails` |
| `creat_operator`, `creat_system_commander` | `CreatChild`; in `Simulation` `CreatSystemCommander`, `CreatSystemCommanderFails` |
| main `close_main` | `JoinChild`, `Destroy`, `MainExit`; in `Simulation` `JoinCommander`, `JoinOperator` |
| a killed main, a child that ends | `Kill`, `ChildEnds` |

Atomicity. A critical section that decides on what it reads (admission, reservation) is two
steps with the semaphore held in between, so that a lock that does not exclude would show.
One that only writes is a single step that needs the semaphore free. Testing a flag that is
down is not a step: the handler only raises the flag, which might as well happen right after.
Taking a flag down and waiting for the semaphore are two steps, so that a signal that comes during the wait
raises the flag anew, as it does in the code.
A battery tick between two readings in one round of the loop has the effect of a tick before
the first or after the second.

Abstractions. The battery scale is `0..FullBattery` with threshold `ReturnLevel`; the runs use
0 (empty), 1 (below the threshold), 2 (at it) and 3 (full), which are all the cases the
code's comparisons (`<= 0`, `< 20`, `> 20`, `>= 100`) tell apart. Time is left out: a poll
times out only on an empty pipe, which is all a timeout can mean to the others. Counters are
integers; the only growing ones are bounded by the number of drones. The commander's waits between two signals
are any time that may pass between two steps. In `Main` an object is the execution that made it, and a call fails
whenever it may. Failures of `semop`, `read` or `write` after
start-up (for instance removal of the semaphore by hand) are left out: main removes the
objects only after everybody has exited, which is `DestroyedLast`.

## 3. Runs

Bounds: `IdBound` caps the ids given out (a fork beyond it fails, as at the system's process
limit, which the code handles), `SignalBound` the signals sent (0 for no bound, used where a mission plan sends them). Pids are reused, so two pids
are more than two drones. One gate token for two drones produces the contention that the code's two
tokens produce for three; the runs about the documents use two. Numbers of states are of distinct ones.

| Run | Instance | Checks | States |
|---|---|---|---|
| `swarm_suicide` | 2 pids, N = 6 (limit 2), 3 ids, one s3 | `TypeOK`, `RegistryConsistent`, `SlotsOwned`, `GateTokensConserved`, `ReportAddsUp`, `NothingLeftBehind` | 851 000 |
| `swarm_reservations` | 2 pids, N = 6 (limit 2), 3 ids, one shutdown | `ReservationsMatch`, `EntryIsReserved`, `AdmissionRespectsLimit`, `ImplementsFleet` | 747 000 |
| `operator_limits` | 2 pids, N = 4 (limit 1), 3 ids, two of s1, s2 | `MutualExclusion`, `AdmissionRespectsLimit`, `ImplementsFleet` | 1 200 000 |
| `memory_full` | 1 pid, N = 4, 8 slots, 9 ids, s1 and shutdowns without bound, fair | `RegistryConsistent`, `ReportAddsUp`, `BaseNeverOverbuilt`, `SemaphoreReleased` with the stack run empty | 491 000 |
| `gate_liveness` | 2 pids, one token, fair | `GateKeepsMoving`, `OperatorEnds` | 65 000 |
| `signal_liveness` | 1 pid, one signal of any kind, fair | `SemaphoreReleased`, `OperatorEnds` | 43 000 |
| `simulation` | 1 pid, N = 4 (limit 1), 2 ids, a plan of one s1, one s3 and s2 to the end, stops for commander and operator at any time, fair | `DestroyedLast`, `SuccessMeansClosed`, `ImplementsMain`, `PlanEndsSimulation`, `InterruptEnds` | 97 000 |
| `setup` | 3 executions in one directory, symmetric | `ChildrenServed`, `LeavesUnattachedOnly`, `OnlyOwnDestroyed` | 272 000 |
| `doc_termination` | 1 pid, N = 2 (limit 0), fair | refutes `EndsWhenEmpty` (README.md:75) | |
| `doc_direction` | 2 pids, 2 tokens | refutes `OneDirection` (README.md:47) | |
| `doc_timed_gate` | 3 pids, 2 tokens | refutes `GateWaitIsTimed` (test_2.md:29) | |
| `doc_depleted` | 1 pid | refutes `DepletedIsDestroyed` (README.md:41) | |

Why the bounds are enough: the interesting conflicts are between two drones (for the last place,
the last token, the semaphore) or between a drone and the operator; one charging cycle
already gives every transition of a drone's life, its decommissioning included; `memory_full` needs as
many ids as slots plus one: drones told to shut down leave their slots, and the places they took, behind them, so
that one process at a time fills the base up to the limit, which s1 brings to its clamp (1, 2, 4, then 7 instead of 8), and
then the registry, until a drone is turned away at `dron.c:550` with the semaphore in its hands. Its battery scale of 2 has no return to the base, so the
places there are all taken and none reserved; those reserved are in `operator_limits` and
`swarm_reservations`, and in the theorem `NeverOverbuilt`. `operator_limits` has two drones in their critical sections against each other and
against the operator, while one s2 brings the first limit to 0 and s1 doubles it. In `simulation` the limit goes from 1 to 2
and back to 0 over two s2, of which one may be lost on a raised flag, the registry may be empty or not when the
plan looks for a victim, and a second drone may be born under the pid it picked. Its battery scale of 2 with the return level at 1 leaves out
the return to the base, which the runs of `DroneSwarm` have, to keep the plan's interleavings within reach. In `setup` two executions make every
conflict over a key; the third comes after a killed one. Deadlock is checked in every passing run: the system stops only when the
operator is done, the simulation when main is, and `Main` when all executions have ended.

Fairness. The kernel schedules every process and thread (weak fairness for every program step
and for the battery). It grants the semaphore to its waiters in turn (strong fairness for the steps
that wait for it: on release, Linux completes the operation of the first queued `semop` caller). The pipe is not
handed over in turn: a newcomer may take the token a blocked reader was woken for, so reading it is only weakly
fair. What that gives is `GateKeepsMoving`: while somebody waits in `read`, either the token is in the pipe, and the reader or somebody else takes it,
or it is with a drone inside the gate, which puts it back; either way a drone comes out. That holds however many drones there
are and owes nothing to `IdBound`. A single reader has no such guarantee: while the operator replaces
the drones that end, newcomers can take the token again and again, and nothing in the code prevents it. Once no more drones are forked they run
out of charging cycles, and then each reader gets its turn; for an operator that has left its loop this is part of
`OperatorEnds`, which waits for every drone. Nothing is
assumed about signals from outside. In particular `OperatorEnds` is only about an operator that has left its
loop: in `DroneSwarm` nothing forces anybody to tell it to. In `simulation` main and the commander are scheduled
like the others (weakly fair, strongly where the commander waits for the semaphore), and the plan's signals come
because the plan sends them. `PlanEndsSimulation` starts from a plan in its last step with the limit above 0 and an operator at
work, the cases in which the code can promise an end: a plan that failed earlier, or an operator that left its loop
before, leaves the other waiting until it is told to stop. So does an operator whom a signal killed before its handlers were installed,
or a commander that could not be forked. `InterruptEnds` covers all of these: whatever made the one leave, once the other leaves too, or is told
to, main comes to its end. Without a signal from outside such a program waits for ever; no property denies that.

## 4. Proofs

Proved by TLAPS, about operator and drones for every finite set of pids, every capacity, number of starting drones, gate capacity, battery
scale, number of cycles and signal bound that satisfies the named assumptions
(`RegistryAssumption`, `PidsAssumption`, `GateAssumption`, `DroneAssumption`,
`OperatorAssumption`, `SignalsAssumption`), which say no more than that the parameters are
positive and the return level below full; about the simulation also for a plan of any length
(`PlanAssumption`: the plan's signals are not bounded); about `Main` for any finite set of executions (`InstancesAssumption`).

| Theorem | Statement | Argument |
|---|---|---|
| `TypeCorrect` | `Spec => []TypeOK` | `TypeOK` is not inductive: `Delete` would push a slot index and count a reason nobody checked. `Control` adds what each place in the program guarantees (a drone that waits to delete itself has a slot and a reason). |
| `Mutex` | `Spec => []MutualExclusion` | inductive with the types; the clause "a holder is in a critical section or closing" carries the drones that never unlock to their exit |
| `EntryReserved` | `Spec => []EntryIsReserved` | strengthened by `Entry`: a drone that goes for a reservation is on a mission and has a cycle left |
| `Admission` | `Spec => AdmissionRespectsLimit` | `Checked`: what a drone found when it took the semaphore still holds until it acts. By mutual exclusion nobody else changes the counters meanwhile. |
| `NeverOverbuilt` | `Spec => []BaseNeverOverbuilt` | places grow only where `Checked` found one below the limit, and the limit stays below its clamp (`Clamped`: `LimitClamped` is inductive) |
| `Report` | `Spec => []ReportAddsUp` | inductive with the types: registering, being turned away and dying each move one drone between two figures |
| `Owned` | `Spec => []SlotsOwned` | strengthened by `Slotted`: a slot on the stack is marked undefined and is there once, so what is popped is nobody's and what is pushed was not there |
| `Tokens` | `Spec => []GateTokensConserved` | only `EnterGate` and `LeaveGate` move a token, each together with one drone (`OnlyPassing`, `OneMore`, `OneLess`) |
| `Reservations` | `Spec => []ReservationsMatch` | `StepKinds`: a step is quiet, one of the four that count, or an exit; each adds one drone to `Reserving` or removes one (`ReservingSteps`). Needs `Entry`: a drone in the second critical section holds none yet, and one that lands holds one. |
| `Registry` | `Spec => []RegistryConsistent` | `Counts` compares the counters with the numbers of slots by location, each step rewriting one slot (`SlotCount`); `AllStacked`: every free slot is on the stack. A push could break it by finding the stack full, which `NeverFull` excludes: the stack holds distinct slots other than the one pushed (pigeonhole). |
| `AllReturned` | `Spec => []NothingLeftBehind` | `Forsaken`, the occupied slots nobody will give back, grows only by the exit of a drone that has not left the registry, and without shutdowns there is none (`Orderly`, `Kept`). With `LastOut`, `Tokens`, `Reservations`, `Registry` and `Mutex` everything is back, and the stack has all slots (`NoLarger` in both directions). |
| `RegistryIsFleet` | `Spec => ImplementsFleet` | `FleetInv` collects the above. That fewer places are reserved than drones are out when one more books or dies (`OneWithout`) needs `Backed`: every reservation left behind has a forsaken slot on a mission (`Stranded`), which no live drone owns, so live drones and left reservations are counted by disjoint sets of slots (`Outside`). `Checked` gives `PlaceFree`. |
| `Covered` | `Spec => []PlacesCovered` | from `Outside` for the drones that hold a reservation |
| `IsDroneSwarm` | `SimSpec => Spec` | every step of the commander is one of the environment's or leaves the variables alone; so all of the above hold under any plan (`PlanKeepsSafety`) |
| `Last` | `SimSpec => []DestroyedLast` | `LastOut`: before its first fork and once it is done the operator has no drone; `Joined`: where main has got past a wait, the child it waited for has ended |
| `FinalReport` | `SimSpec => []ReportIsFinal` | from `Last`, `AllReturned` and `Report` |
| `MainIsSound` | `SimSpec => ImplementsMain` | a step changes what is seen of main, commander and operator in one of the ways of `SeenStep`, each of which is an action of `Main` or a stutter |
| `PlanCloses` | `SimSpec => []SuccessMeansClosed` | `PlanKnows`: a limit of 0 or below that the commander read, in the loop or on its way out, is still 0 or below, since doubling and halving keep it so (`ClosedForGood`) |
| `Served` | `MainSpec => []ChildrenServed` | `MainInv`: up to its place in set-up a main has made and attached everything (`InOrder`), ids stand for its own objects (`OwnIds`, `Held`), it has an id for all it owns (`Accounted`), it forks only with all seven and destroys only when both children are gone (`Serving`) |
| `LeftBehind` | `MainSpec => []LeavesUnattachedOnly` | from `OneUnattached` and `Cleared` of the same invariant |
| `OwnDestroyed` | `MainSpec => OnlyOwnDestroyed` | from `OwnIds` and `Held`: the name of a pipe that is still open is not given to another; `SetvalCleansUp`: a failing `semaphore_create` leaves the table as it was |

Before they were proved, `Backed`, `Orderly` and `Kept` were checked with TLC on the instances of `swarm_reservations` and
`swarm_suicide`, where reservations are left behind and where none are.

Only model-checked: liveness (`SemaphoreReleased`, `GateKeepsMoving`, `OperatorEnds`, `PlanEndsSimulation`, `InterruptEnds`),
because fairness is out of the prover's reach. Every safety property of a passing run is a theorem.

## 5. What the documents say and the code does not do

* README.md:47 allows one direction at a time in the gate; a token has no direction
  (`doc_direction`).
* tests/test_2.md:29 lets drones give up waiting at a closed gate; one that polled a token which
  another took waits in `read` without limit (`doc_timed_gate`). The gate keeps moving because
  the token comes back.
* README.md:41 destroys a drone whose battery reaches 0% in flight; on its way
  in it may land and charge before anyone looks (`doc_depleted`).

* README.md:75 ends the simulation when the limit is 0 and all drones are gone; the operator leaves its loop
  only in its s2 branch (`operator.c:351`), and with three starting drones or fewer the limit is 0 or below
  from the start (`main.c:323`), so that no s2 is ever sent (`doc_termination`).

Seen while modelling, without a run of their own:

* README.md:102 has main release the IPC resources; a segment that was created and could not be attached is passed over
  (`main.c:466`, 478, 491). `LeavesUnattachedOnly` says that nothing else is.
* README.md:101 has main terminate remaining processes; it only waits for them.
* README.md:57 guarantees that a raised flag is acted upon; one that is up when the operator leaves its loop is dropped.
* `system_commander.c:190` goes on to the next round when there is no drone to pick; the answer in that case is -1, with which line 186 has already failed the plan.

## 6. Not modelled

* Printing, logging and the report's wording: no control depends on them.
* The parsing of arguments: sequential, one process, no shared state. That it goes on or exits is a step of `Main`, what
  it guarantees is in the assumptions.
* The anchor files of the keys: `Main` has only that a key can be had or not.
* `pass_the_gate`, `fifo_sem_lock` and `mission_step_decrease_drones`, which are never called, and the stand-alone test.
* That s3 meets the drone the commander picked: the pid may have been reused (`system_commander.c:124`). The code has no guard
  and no document claims one; the runs send it to whoever has the pid by then.
* SIGKILL of a drone or of the operator: a drone killed in the gate takes its token with it and one killed anywhere
  leaves its slot; the code has no handling for either.

## 7. Plan

Everything of the program that changes shared state is modelled, and every invariant, action property and refinement
the passing runs check is proved. What could be added are safety halves of the liveness properties (what a waiting drone
or operator may rely on while it waits), which are within the prover's reach.
