----------------------------- MODULE Semaphore -----------------------------
(***************************************************************************)
(* ipc/semaphore.c: the System V semaphore that guards the registry and    *)
(* the free-slot stack.  Both operations carry SEM_UNDO, so the kernel     *)
(* keeps an adjustment per process and applies it when the process exits.  *)
(* Waiting through EINTR is the disabled action: semaphore_lock retries    *)
(* until semop succeeds.                                                   *)
(***************************************************************************)
EXTENDS Integers, FiniteSets

CONSTANT Pids   \* process ids drones can get: the only processes that hold
                \* the semaphore over several steps

ASSUME PidsAssumption == IsFiniteSet(Pids)

VARIABLES
    semval,   \* the semaphore's value
    semadj    \* process -> the adjustment its exit adds to semval

semVars == <<semval, semadj>>

\* semaphore_create(key, 1)
SemInit ==
    /\ semval = 1
    /\ semadj = [p \in Pids |-> 0]

\* Mutant: IPC_NOWAIT, and the error is taken for success.
semaphore_lock_NoWait(p) ==
    /\ semval' = semval - 1
    /\ semadj' = [semadj EXCEPT ![p] = @ + 1]

semaphore_lock(p) ==
    /\ semval > 0
    /\ semval' = semval - 1
    /\ semadj' = [semadj EXCEPT ![p] = @ + 1]

semaphore_unlock(p) ==
    /\ semval' = semval + 1
    /\ semadj' = [semadj EXCEPT ![p] = @ - 1]

\* A critical section that takes no decision another process could spoil
\* is one step: it is taken when the semaphore is free and leaves it free.
InOneCriticalSection ==
    /\ semval > 0
    /\ UNCHANGED semVars

\* Mutant: without SEM_UNDO nothing is given back at exit.
SemUndo_None(p) ==
    /\ UNCHANGED semval
    /\ semadj' = [semadj EXCEPT ![p] = 0]

\* What the kernel does with the undo adjustment of a process that exits.
SemUndo(p) ==
    /\ semval' = semval + semadj[p]
    /\ semadj' = [semadj EXCEPT ![p] = 0]
=============================================================================
