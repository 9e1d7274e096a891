--------------------------- MODULE CollapseOrdered ----------------------------
(***************************************************************************)
(* thvm_collapse_ordered of src/src/inet/_.c: the leaves of a superposed   *)
(* term, most promising first.  Tasks wait in buckets; the lowest          *)
(* non-empty one is served.  Every INC around a task moves it one bucket   *)
(* down, and the branches of a superposition go one bucket up from it.     *)
(*                                                                         *)
(* A bucket is a queue (BucketQueue shows that the ring of the code is     *)
(* one).  A task is a term and the branches that led to it; the code keeps *)
(* no path and no trace of a move, the properties need them.               *)
(***************************************************************************)
EXTENDS Wnf

CONSTANTS Nets,       \* the nets to collapse: records [heap, term]
          Buckets,    \* COLLAPSE_BUCKETS, 64 in the code
          Limits      \* the limits the caller may pass

ASSUME BucketsAssumption == Buckets \in Nat \ {0}

VARIABLES buckets,    \* the tasks waiting, by key
          task,       \* the task being reduced: a sequence of at most one
          best,       \* its key
          leaves,     \* the result
          erased,     \* branches that turned out to be erasers
          moved,      \* history: a task has been put back for its INCs
          limit, net

walk == <<buckets, task, best, leaves, erased, moved, limit, net>>
vars == <<machine, walk>>

Keys == 0 .. Buckets - 1

\* bucket_push
Enqueue(bs, key, t) == [bs EXCEPT ![key] = Append(@, t)]

\* The middle bucket is 32 in the code.
Init == /\ net \in Nets /\ limit \in Limits
        /\ InitMachine(net)
        /\ buckets = Enqueue([k \in Keys |-> <<>>], Buckets \div 2,
                             [term |-> net.term, path |-> <<>>])
        /\ task = <<>> /\ best = 0 /\ leaves = <<>> /\ erased = <<>> /\ moved = FALSE

Waiting == {k \in Keys : buckets[k] # <<>>}
Lowest  == CHOOSE k \in Waiting : \A j \in Waiting : k <= j

Looking == mode = "idle" /\ task = <<>> /\ Len(leaves) < limit /\ Waiting # {}

Taken == Head(buckets[Lowest])
Rest1 == [buckets EXCEPT ![Lowest] = Tail(@)]

\* One key up, but not past the last.
Slip_Later(k) == k + 1
Later(k) == IF k < Buckets - 1 THEN k + 1 ELSE Buckets - 1

\* A term without the INCs around it, and the key they give it: one less for
\* each, but not below the first.
Slip_Peel(t, key) == [term |-> t, key |-> IF key > 0 THEN key - 1 ELSE 0]
Peel(t, key) ==
    LET inside[n \in Nat] == IF n = 0 THEN t ELSE heap[inside[n - 1].val]
        incs == CHOOSE n \in 0 .. Len(heap) :
                    /\ inside[n].tag # "INC"
                    /\ \A m \in 0 .. n - 1 : inside[m].tag = "INC"
    IN [term |-> inside[incs], key |-> IF incs \in 0 .. key THEN key - incs ELSE 0]

\* A task in INCs is put back under its new key.
Requeue ==
    /\ Looking /\ Taken.term.tag = "INC"
    /\ LET p == Peel(Taken.term, Lowest) IN
       buckets' = Enqueue(Rest1, p.key, [Taken EXCEPT !.term = p.term])
    /\ moved' = TRUE
    /\ UNCHANGED <<machine, task, best, leaves, erased, limit, net>>

Take ==
    /\ Looking /\ Taken.term.tag # "INC"
    /\ Begin(Taken.term, 0)
    /\ buckets' = Rest1 /\ task' = <<Taken>> /\ best' = Lowest
    /\ UNCHANGED <<leaves, erased, moved, limit, net>>

Work == Step /\ UNCHANGED walk

\* The two branches of a superposition, with the branch added to the path.
\* Labels of unordered ones are kept apart.
Branch1(i) ==
    LET sup   == Result.term
        label == IF sup.tag = "USP" THEN 100 + sup.ext ELSE sup.ext IN
    [term |-> heap'[sup.val + i], path |-> Append(task[1].path, <<label, i>>)]

Slip_Spread(key) == Enqueue(Enqueue(buckets, key, Branch1(0)), best, Branch1(1))
Spread(key) == Enqueue(Enqueue(buckets, key, Branch1(0)), key, Branch1(1))

Return ==
    /\ task # <<>> /\ End(Result.heap)
    /\ LET t == Result.term
           done == [task[1] EXCEPT !.term = t] IN
       \/ /\ Superposed(t)
          /\ buckets' = Spread(Later(best)) /\ UNCHANGED <<leaves, erased>>
       \/ /\ t.tag = "ERA"
          /\ erased' = Append(erased, done) /\ UNCHANGED <<buckets, leaves>>
       \/ /\ ~Superposed(t) /\ t.tag # "ERA"
          /\ leaves' = Append(leaves, done) /\ UNCHANGED <<buckets, erased>>
    /\ task' = <<>> /\ best' = 0
    /\ UNCHANGED <<moved, limit, net>>

Finished == mode = "idle" /\ task = <<>> /\ (Len(leaves) >= limit \/ Waiting = {})

Next == Requeue \/ Take \/ Work \/ Return \/ (Finished /\ UNCHANGED vars)

Spec == Init /\ [][Next]_vars /\ WF_vars(Next)

-----------------------------------------------------------------------------

\* Every branch the collapse has opened, decided or not, is an end: a position
\* in a list.
ListAt(s) == CASE s = -1 -> leaves [] s = -2 -> erased [] s = -3 -> task [] OTHER -> buckets[s]
Lists     == -3 .. Buckets - 1
Ends      == UNION {{s} \X DOMAIN ListAt(s) : s \in Lists}
PathOf(e) == ListAt(e[1])[e[2]].path

\* p is an initial part of q.
Above(p, q) == Len(p) <= Len(q) /\ \A i \in 1 .. Len(p) : p[i] = q[i]

\* The path q is like p up to its n-th superposition and takes the other branch there.
Turned(p, n, q) ==
    /\ n <= Len(q) /\ \A i \in 1 .. n - 1 : q[i] = p[i]
    /\ q[n] = <<p[n][1], 1 - p[n][2]>>

(***************************************************************************)
(* The buckets lose no branch and serve none twice: the branches decided   *)
(* and those waiting are at all times the ends of one binary tree.  No end *)
(* is above another, and wherever a path takes one branch of a             *)
(* superposition some end is in the other branch of it.                    *)
(***************************************************************************)
NothingLost ==
    /\ Ends # {}
    /\ \A e, d \in Ends : Above(PathOf(e), PathOf(d)) => e = d
    /\ \A e \in Ends : \A n \in 1 .. Len(PathOf(e)) :
           \E d \in Ends : Turned(PathOf(e), n, PathOf(d))

(***************************************************************************)
(* As long as no task was moved for its INCs, leaves come in the order of  *)
(* how many superpositions they are under, even when the keys have run     *)
(* into the last bucket: a limit keeps the leaves nearest to the root.     *)
(***************************************************************************)
ShallowestFirst ==
    ~moved =>
        \A i, j \in DOMAIN leaves : i < j => Len(leaves[i].path) <= Len(leaves[j].path)

(***************************************************************************)
(* The collapse ends, at the limit or when no task is left.                *)
(***************************************************************************)
Terminates == <>Finished

=============================================================================
