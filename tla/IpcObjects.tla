----------------------------- MODULE IpcObjects -----------------------------
(***************************************************************************)
(* The IPC objects main makes and the processes it forks (main.c, globals).*)
(***************************************************************************)

Nobody == "nobody"      \* no object, or an id or descriptor of -1

Segments   == {"config", "all_drones", "stack"}
Semaphores == {"config_sem", "all_drones_sem", "gate_sem"}
Objects    == Segments \cup Semaphores \cup {"gate_fifo"}
Children   == {"operator", "commander"}

\* A failing ftok for the stack is only reported (main.c:335): the segment is
\* then made under the key -1.
NoKey == "key -1"
Keys  == Objects \cup {NoKey}
=============================================================================
