------------------------------ MODULE FifoSem ------------------------------
(***************************************************************************)
(* ipc/fifo.c: a counting semaphore made of one-byte tokens in a named     *)
(* pipe, used as the gate of the base.  The descriptor is opened O_RDWR    *)
(* without O_NONBLOCK, so a read of the empty pipe blocks.  A token is not *)
(* undone when its reader dies.                                            *)
(***************************************************************************)
EXTENDS Integers

CONSTANT GateCapacity   \* the capacity given to fifo_sem_create

ASSUME GateAssumption == GateCapacity \in Nat \ {0}

VARIABLE tokens         \* bytes in the pipe

\* fifo_sem_create writes capacity tokens before any process can read.
FifoInit == tokens = GateCapacity

\* The poll of fifo_sem_lock_timeout reports POLLIN...
PollReadable == tokens > 0

\* ...or lets the timeout pass, which it does only on an empty pipe.
PollTimeout == tokens = 0

\* Mutant: poll alone is taken for the token.
ReadToken_Peek == tokens > 0 /\ UNCHANGED tokens

\* The read that follows a successful poll: it waits, with no timeout, for
\* as long as the pipe is empty.
ReadToken ==
    /\ tokens > 0
    /\ tokens' = tokens - 1

\* Mutant: the token is not written back.
fifo_sem_unlock_Lost == UNCHANGED tokens

fifo_sem_unlock == tokens' = tokens + 1
=============================================================================
