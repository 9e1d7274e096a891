------------------------------ MODULE TaskSlots ------------------------------
(***************************************************************************)
(* The tasks in a work-stealing deque (src/src/parallel/wsdeque.c), as its *)
(* callers see it: a sequence, oldest first, every operation one step.     *)
(* WsDeque shows that it may be seen so while it is not too full.          *)
(*                                                                         *)
(* Nothing stops ws_push when Cap tasks are waiting.  The slot it writes   *)
(* is then the slot of the task pushed Cap pushes ago, and both positions  *)
(* hold the new task from then on.                                         *)
(***************************************************************************)
EXTENDS Integers, Sequences

CONSTANT Cap       \* WS_CAP, the number of slots

ASSUME CapAssumption == Cap \in Nat \ {0}

\* ws_push
Put(q, task) ==
    [i \in 1 .. Len(q) + 1 |->
        IF (Len(q) + 1 - i) % Cap = 0 THEN task ELSE q[i]]

\* A successful ws_pop takes the newest task, a ws_steal the oldest.
Newest(q)        == q[Len(q)]
WithoutNewest(q) == SubSeq(q, 1, Len(q) - 1)

=============================================================================
