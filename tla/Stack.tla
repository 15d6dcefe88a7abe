------------------------------- MODULE Stack -------------------------------
(***************************************************************************)
(* data_structures/stack.c: the bounded LIFO stack kept in shared memory.  *)
(* A stack is the sequence of its elements, bottom first; its byte layout  *)
(* (elem_size, alignment) is left out.  An operation that answers          *)
(* STACK_ERROR leaves the stack as it was: callers test the guard first or *)
(* ignore the answer, as the C callers do.                                 *)
(***************************************************************************)
EXTENDS Integers, Sequences

Stack_is_empty(stack) == stack = <<>>

Stack_is_full(stack, capacity) == Len(stack) >= capacity

\* A full stack refuses the element (STACK_ERROR) and is left as it was.
Stack_push(stack, capacity, elem) ==
    IF Stack_is_full(stack, capacity) THEN stack ELSE Append(stack, elem)

\* The element Stack_pop hands out, and the stack it leaves; both only for
\* a stack that is not empty.
Stack_popped(stack) == stack[Len(stack)]

\* Mutant: the size is not decremented.
Stack_pop_Kept(stack) == stack

Stack_pop(stack) == SubSeq(stack, 1, Len(stack) - 1)
=============================================================================
