-------------------------------- MODULE Main --------------------------------
(***************************************************************************)
(* main.c and what it calls in ipc/: the IPC objects main makes, the two   *)
(* processes it forks, and close_main.  An instance is one execution of    *)
(* the program; several may be started in the same directory, so that they *)
(* use the same keys, at the same time or one after the other, and any of  *)
(* them may be killed.  The kernel's table of objects outlives them.       *)
(*                                                                         *)
(* main_pc[m] is where instance m is:                                      *)
(*                                                                         *)
(*   start            not begun                                            *)
(*   an object        about to create it, or to attach the segment made    *)
(*   a child          about to fork it                                     *)
(*   wait_commander   close_main: waits for the commander if it was forked *)
(*   wait_operator    then for the operator                                *)
(*   destroy          then destroys what it has                            *)
(*   exited, killed                                                        *)
(*                                                                         *)
(* The calls that remove an object fail only if it is gone.  An id of -1   *)
(* is Nobody's: it stands for no object.                                   *)
(***************************************************************************)
EXTENDS Integers, FiniteSets, IpcObjects

CONSTANT Instances

ASSUME InstancesAssumption == IsFiniteSet(Instances) /\ Nobody \notin Instances

VARIABLES
    owner,      \* key -> the instance that made the object there, or Nobody
    main_pc,
    ids,        \* instance, object -> whose object its id stands for, or Nobody
    attached,   \* instance -> the segments it has a pointer to
    stack_key,  \* instance -> the key of its stack
    children    \* instance, child -> "none", "running" or "ended"

mainVars == <<owner, main_pc, ids, attached, stack_key, children>>

MainInit ==
    /\ owner = [k \in Keys |-> Nobody]
    /\ main_pc = [m \in Instances |-> "start"]
    /\ ids = [m \in Instances |-> [o \in Objects |-> Nobody]]
    /\ attached = [m \in Instances |-> {}]
    /\ stack_key = [m \in Instances |-> "stack"]
    /\ children = [m \in Instances |-> [c \in Children |-> "none"]]

KeyOf(m, o) == IF o = "stack" THEN stack_key[m] ELSE o

\* The order of main: what comes behind each step.
After ==
    [config |-> "config_sem", config_sem |-> "all_drones", all_drones |-> "stack",
     stack |-> "all_drones_sem", all_drones_sem |-> "gate_sem",
     gate_sem |-> "gate_fifo", gate_fifo |-> "operator",
     operator |-> "commander", commander |-> "wait_commander"]

\* The order of close_main.
Rank ==
    [config |-> 1, all_drones |-> 2, stack |-> 3, config_sem |-> 4,
     all_drones_sem |-> 5, gate_sem |-> 6, gate_fifo |-> 7]

Advance(m, to) == main_pc' = [main_pc EXCEPT ![m] = to]

-----------------------------------------------------------------------------
(* Set-up.                                                                 *)

\* main up to create_shm_config; process_argv may exit, as does close_main
\* after a failing global_logger_initialize.
ProcessArgv(m) ==
    /\ main_pc[m] = "start"
    /\ \E to \in {"config", "exited"} : Advance(m, to)
    /\ UNCHANGED <<owner, ids, attached, stack_key, children>>

\* The kernel makes the object if the key is free (IPC_EXCL, mkfifo) and
\* hands out its id.
Make(m, o, k) ==
    /\ owner[k] = Nobody
    /\ owner' = [owner EXCEPT ![k] = m]
    /\ ids' = [ids EXCEPT ![m][o] = m]

\* IPC_RMID for an id, in the kernel's table: EINVAL if it stands for nothing
\* there.
Removed(table, k, id) == [table EXCEPT ![k] = IF @ = id THEN Nobody ELSE @]

\* shm_create; the pointer is still NULL.
CreateSegment(m, o, k) ==
    /\ main_pc[m] = o
    /\ ids[m][o] = Nobody
    /\ k = o \/ (o = "stack" /\ k = NoKey)
    /\ Make(m, o, k)
    /\ stack_key' = [stack_key EXCEPT ![m] = IF o = "stack" THEN k ELSE @]
    /\ UNCHANGED <<main_pc, attached, children>>

\* shm_attach and the contents of the segment.
AttachSegment(m, o) ==
    /\ main_pc[m] = o
    /\ ids[m][o] # Nobody
    /\ attached' = [attached EXCEPT ![m] = @ \cup {o}]
    /\ Advance(m, After[o])
    /\ UNCHANGED <<owner, ids, stack_key, children>>

\* Mutant: semget without IPC_EXCL.
CreateSemaphore_Shared(m, o) ==
    /\ main_pc[m] = o
    /\ owner' = [owner EXCEPT ![o] = IF @ = Nobody THEN m ELSE @]
    /\ ids' = [ids EXCEPT ![m][o] = IF owner[o] = Nobody THEN m ELSE owner[o]]
    /\ Advance(m, After[o])
    /\ UNCHANGED <<attached, stack_key, children>>

\* semaphore_create.
CreateSemaphore(m, o) ==
    /\ main_pc[m] = o
    /\ Make(m, o, o)
    /\ Advance(m, After[o])
    /\ UNCHANGED <<attached, stack_key, children>>

\* Mutant: the cleanup of semaphore_create removes the set under the key.
SetvalFails_ByKey(m, o) ==
    /\ main_pc[m] = o
    /\ owner' = [owner EXCEPT ![o] = Nobody]
    /\ Advance(m, "wait_commander")
    /\ UNCHANGED <<ids, attached, stack_key, children>>

\* semaphore_create, failing.  semget makes the set or answers -1, because
\* the key is taken or otherwise, and the function goes on with what it got:
\* SETVAL fails, on -1 always, and IPC_RMID is tried on the same id.  The
\* answer is -1, so that main keeps no id.
SetvalFails(m, o) ==
    /\ main_pc[m] = o
    /\ \E id \in {m, Nobody} :
         LET made == IF id = m THEN [owner EXCEPT ![o] = m] ELSE owner
         IN  /\ id = m => owner[o] = Nobody
             /\ owner' = Removed(made, o, id)
    /\ Advance(m, "wait_commander")
    /\ UNCHANGED <<ids, attached, stack_key, children>>

\* fifo_sem_create; where it fails behind mkfifo it unlinks the pipe again.
CreateFifo(m) ==
    /\ main_pc[m] = "gate_fifo"
    /\ Make(m, "gate_fifo", "gate_fifo")
    /\ Advance(m, After["gate_fifo"])
    /\ UNCHANGED <<attached, stack_key, children>>

\* A key, an object, a segment's address or a process cannot be had, be it
\* that the object exists already: close_main(-1).
CreateFails(m) ==
    /\ main_pc[m] \in Objects \cup Children
    /\ Advance(m, "wait_commander")
    /\ UNCHANGED <<owner, ids, attached, stack_key, children>>

\* creat_operator and creat_system_commander.  A child whose exec fails ends
\* at once.
CreatChild(m, c) ==
    /\ main_pc[m] = c
    /\ children' = [children EXCEPT ![m][c] = "running"]
    /\ Advance(m, After[c])
    /\ UNCHANGED <<owner, ids, attached, stack_key>>

-----------------------------------------------------------------------------
(* close_main.                                                             *)

\* waitpid for the commander, then for the operator, each if it was forked.
JoinChild(m, c) ==
    /\ \/ c = "commander" /\ main_pc[m] = "wait_commander" /\ Advance(m, "wait_operator")
       \/ c = "operator" /\ main_pc[m] = "wait_operator" /\ Advance(m, "destroy")
    /\ children[m][c] # "running"
    /\ UNCHANGED <<owner, ids, attached, stack_key, children>>

\* Mutant: the gate semaphore is not deleted.
Due_NoGate(m) ==
    {o \in Objects \ {"gate_sem"} : /\ ids[m][o] # Nobody
                                    /\ o \in Segments => o \in attached[m]}

\* What close_main still has to destroy: a segment is passed over when its
\* pointer is NULL.
Due(m) ==
    {o \in Objects : /\ ids[m][o] # Nobody
                     /\ o \in Segments => o \in attached[m]}

\* Mutant: the pipe is unlinked without a look at the descriptor.
Destroy_AnyPipe(m, o) ==
    /\ main_pc[m] = "destroy"
    /\ o \in Due(m) \/ (o = "gate_fifo" /\ owner[o] # Nobody)
    /\ owner' = [owner EXCEPT ![KeyOf(m, o)] = Nobody]
    /\ ids' = [ids EXCEPT ![m][o] = Nobody]
    /\ attached' = [attached EXCEPT ![m] = @ \ {o}]
    /\ UNCHANGED <<main_pc, stack_key, children>>

\* Detach and shm_destroy, semaphore_delete or fifo_sem_destroy.  The first
\* two remove the object the id stands for, unlink whatever has the name.
Destroy(m, o) ==
    /\ main_pc[m] = "destroy"
    /\ o \in Due(m)
    /\ \A p \in Due(m) : Rank[o] <= Rank[p]
    /\ owner' = IF o = "gate_fifo" THEN [owner EXCEPT ![o] = Nobody]
                ELSE Removed(owner, KeyOf(m, o), ids[m][o])
    /\ ids' = [ids EXCEPT ![m][o] = Nobody]
    /\ attached' = [attached EXCEPT ![m] = @ \ {o}]
    /\ UNCHANGED <<main_pc, stack_key, children>>

MainExit(m) ==
    /\ main_pc[m] = "destroy"
    /\ Due(m) = {}
    /\ Advance(m, "exited")
    /\ UNCHANGED <<owner, ids, attached, stack_key, children>>

-----------------------------------------------------------------------------
(* The rest of the world.                                                  *)

\* SIGTERM or SIGKILL to main, which only ignores SIGINT.  Its children go on.
Kill(m) ==
    /\ main_pc[m] \notin {"start", "exited", "killed"}
    /\ Advance(m, "killed")
    /\ UNCHANGED <<owner, ids, attached, stack_key, children>>

\* The operator with all its drones, or the commander, comes to its end.
ChildEnds(m, c) ==
    /\ children[m][c] = "running"
    /\ children' = [children EXCEPT ![m][c] = "ended"]
    /\ UNCHANGED <<owner, main_pc, ids, attached, stack_key>>

MainDo(m) ==
    \/ ProcessArgv(m)
    \/ \E o \in Segments : AttachSegment(m, o) \/ \E k \in Keys : CreateSegment(m, o, k)
    \/ \E o \in Semaphores : CreateSemaphore(m, o) \/ SetvalFails(m, o)
    \/ CreateFifo(m)
    \/ CreateFails(m)
    \/ \E c \in Children : CreatChild(m, c) \/ JoinChild(m, c)
    \/ \E o \in Objects : Destroy(m, o)
    \/ MainExit(m)

AllEnded ==
    /\ \A m \in Instances : /\ main_pc[m] \in {"exited", "killed"}
                            /\ \A c \in Children : children[m][c] # "running"
    /\ UNCHANGED mainVars

MainNext ==
    \/ \E m \in Instances : MainDo(m) \/ Kill(m) \/ \E c \in Children : ChildEnds(m, c)
    \/ AllEnded

MainSpec == MainInit /\ [][MainNext]_mainVars

-----------------------------------------------------------------------------
(* Properties.                                                             *)

\* As long as an operator or a commander runs, all seven objects are there and
\* are the ones its own main made, whoever else starts, fails, cleans up or is
\* killed meanwhile (main.c:433, main.c:466).
ChildrenServed ==
    \A m \in Instances, c \in Children :
        children[m][c] = "running" => \A o \in Objects : owner[KeyOf(m, o)] = m

\* An object is removed by the instance that made it, in its close_main, and
\* by nobody else: a second instance that finds the keys taken leaves the
\* first one's objects alone, the pipe included, which goes by its name
\* (fifo.c:223).
OnlyOwnDestroyed ==
    [][\A k \in Keys : (owner[k] # Nobody /\ owner'[k] # owner[k]) =>
           owner'[k] = Nobody /\ main_pc[owner[k]] = "destroy"]_mainVars

\* What an instance that was not killed leaves behind is one segment at the
\* most, the one it could not attach.
LeavesUnattachedOnly ==
    \A m \in Instances : main_pc[m] = "exited" =>
        \A k, l \in Keys : (owner[k] = m /\ owner[l] = m) =>
            k = l /\ \E o \in Segments \ attached[m] : ids[m][o] = m /\ k = KeyOf(m, o)
=============================================================================
