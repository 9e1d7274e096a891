------------------------------ MODULE TaskDeque ------------------------------
(***************************************************************************)
(* What a work-stealing deque promises, each operation in one step: the    *)
(* owner adds and removes tasks at the tail, a thief removes the task at   *)
(* the head, and the owner is told "empty" only when nothing is there.  A  *)
(* thief may come away with nothing at any time, which changes nothing.    *)
(***************************************************************************)
EXTENDS Integers, Sequences, SequencesExt

CONSTANTS Seed, MaxTasks

VARIABLES live,     \* the tasks in the deque, head first
          pushed,   \* tasks ever pushed; they are 1, 2, 3, ...
          taken,    \* how often each task was handed out
          answer    \* what the owner was last given, 0 for "empty"

vars == <<live, pushed, taken, answer>>

Init == /\ live = [i \in 1 .. Seed |-> i]
        /\ pushed = Seed
        /\ taken = [k \in 0 .. MaxTasks |-> 0]
        /\ answer = 0

Push == /\ pushed < MaxTasks
        /\ live' = Append(live, pushed + 1)
        /\ pushed' = pushed + 1
        /\ UNCHANGED <<taken, answer>>

Pop == /\ live # <<>>
       /\ live' = Front(live)
       /\ taken' = [taken EXCEPT ![Last(live)] = @ + 1]
       /\ answer' = Last(live)
       /\ UNCHANGED pushed

PopNothing == /\ live = <<>>
              /\ answer' = 0
              /\ UNCHANGED <<live, pushed, taken>>

Steal == /\ live # <<>>
         /\ live' = Tail(live)
         /\ taken' = [taken EXCEPT ![Head(live)] = @ + 1]
         /\ UNCHANGED <<pushed, answer>>

Next == Push \/ Pop \/ PopNothing \/ Steal

Spec == Init /\ [][Next]_vars
=============================================================================
