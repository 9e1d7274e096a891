--------------------------------- MODULE Fifo ---------------------------------
(***************************************************************************)
(* First in, first out: what a bucket of thvm_collapse_ordered is to its   *)
(* caller.  The tasks are 1, 2, 3, ... in the order of their arrival.      *)
(***************************************************************************)
EXTENDS Integers, Sequences

CONSTANT MaxPushes

VARIABLES queue,     \* oldest first
          pushes,    \* tasks ever added
          got        \* the task removed last, 0 if there is none yet

Init == queue = <<>> /\ pushes = 0 /\ got = 0

Push == /\ pushes < MaxPushes
        /\ queue' = Append(queue, pushes + 1)
        /\ pushes' = pushes + 1
        /\ UNCHANGED got

Pop == /\ queue # <<>>
       /\ got' = Head(queue)
       /\ queue' = Tail(queue)
       /\ UNCHANGED pushes

Spec == Init /\ [][Push \/ Pop]_<<queue, pushes, got>>

=============================================================================
