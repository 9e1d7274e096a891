----------------------------- MODULE BucketQueue ------------------------------
(***************************************************************************)
(* CollapseBucket of src/src/inet/_.c: one of the 64 buckets in which      *)
(* thvm_collapse_ordered keeps its tasks, a ring that doubles when it is   *)
(* full.  bucket_push and bucket_pop are the only operations.              *)
(*                                                                         *)
(* The slots of a ring that malloc returned hold anything until they are   *)
(* written; the model puts 0 there, which is no task.                      *)
(***************************************************************************)
EXTENDS Integers, Sequences

CONSTANTS FirstCap,    \* slots of the first ring, 16 in the code
          MaxPushes    \* bound: tasks ever pushed

ASSUME FirstCapAssumption  == FirstCap \in Nat \ {0}
ASSUME MaxPushesAssumption == MaxPushes \in Nat

VARIABLES tasks, head, count, cap,   \* the bucket
          pushes,                    \* tasks pushed so far: 1, 2, 3, ...
          got                        \* the task bucket_pop returned last

bucketVars == <<tasks, head, count, cap, pushes, got>>

\* An empty bucket has no ring.
InitBucket == /\ tasks = [i \in {} |-> 0]
        /\ head = 0 /\ count = 0 /\ cap = 0
        /\ pushes = 0 /\ got = 0

\* The slot of the i-th task, counted from 0.
At(i) == (head + i) % cap

Slip_NewCap == IF cap = 0 THEN FirstCap ELSE cap
NewCap == IF cap = 0 THEN FirstCap ELSE 2 * cap

\* The oldest task moves to slot 0.
Slip_Moved == [i \in 0 .. NewCap - 1 |-> IF i < count THEN tasks[i] ELSE 0]
Moved == [i \in 0 .. NewCap - 1 |-> IF i < count THEN tasks[At(i)] ELSE 0]

\* bucket_push
PushInPlace ==
    /\ pushes < MaxPushes /\ count < cap
    /\ tasks' = [tasks EXCEPT ![At(count)] = pushes + 1]
    /\ count' = count + 1 /\ pushes' = pushes + 1
    /\ UNCHANGED <<head, cap, got>>

\* bucket_push on a full ring; the new task goes behind those moved.
PushAndGrow ==
    /\ pushes < MaxPushes /\ count >= cap
    /\ tasks' = [Moved EXCEPT ![count] = pushes + 1]
    /\ head' = 0 /\ cap' = NewCap
    /\ count' = count + 1 /\ pushes' = pushes + 1
    /\ UNCHANGED got

\* bucket_pop; its caller has found the bucket not to be empty.
BucketPop ==
    /\ count > 0
    /\ got' = tasks[head]
    /\ head' = (head + 1) % cap
    /\ count' = count - 1
    /\ UNCHANGED <<tasks, cap, pushes>>

BucketNext == PushInPlace \/ PushAndGrow \/ BucketPop

BucketSpec == InitBucket /\ [][BucketNext]_bucketVars

-----------------------------------------------------------------------------

\* The ring is as long as cap says, and the tasks in it fit.
RingOK == /\ cap \in Nat /\ head \in Nat /\ count \in 0 .. cap
          /\ head < cap \/ (cap = 0 /\ head = 0)
          /\ tasks \in [0 .. cap - 1 -> Nat]
          /\ pushes \in Nat /\ got \in Nat

\* The tasks in the bucket, oldest first.
Contents == [i \in 1 .. count |-> tasks[At(i - 1)]]

Abstract == INSTANCE Fifo WITH queue <- Contents

(***************************************************************************)
(* The bucket is a queue: tasks leave it in the order in which they came,  *)
(* none lost and none twice, wherever the ring was when it had to grow.    *)
(***************************************************************************)
IsFifo == Abstract!Spec

=============================================================================
