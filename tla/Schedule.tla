------------------------------ MODULE Schedule ------------------------------
(***************************************************************************)
(* Running the kernels of an evaluation (schedule/_.c, interact/_.c,       *)
(* interact/tensor_ops.c): EXEC triggers that force their dependencies,    *)
(* dispatch of a kernel into its output buffer, and release of the outputs *)
(* that have been read for the last time.                                  *)
(*                                                                         *)
(* The plan (module KernelPlan) lets outputs share a slot on the strength  *)
(* of the order it expects; the order that really happens is that of the   *)
(* reducer meeting the EXEC terms. This module is that second order. An    *)
(* output is written to a buffer that tensor_materialize gives it, unless  *)
(* it is handed on through a view: then dispatch moves it to the buffer of *)
(* its slot.                                                               *)
(*                                                                         *)
(* A definition Slip_X is a plausible mistake in X that the properties     *)
(* notice.                                                                 *)
(***************************************************************************)
EXTENDS Integers, Sequences, FiniteSets, SequencesExt

CONSTANTS Cases,     \* planned graphs an evaluation may start with
          Later,     \* planned graphs a later evaluation may be of
          MaxEvals   \* bound on the number of evaluations

VARIABLES
    job,      \* the planned graph being run (sched_kernels and its slots)
    evals,    \* evaluations so far
    agenda,   \* stack of EXEC terms being forced, and what each still waits for
    done,     \* kernels with a result (kid_results)
    uses,     \* sched_output_remaining_uses
    raw,      \* buffer of each raw_output_tid, 0 for none
    out,      \* buffer of the view of a viewed kernel, 0 for none
    slots,    \* sched_slots: buffer (0 for none), bytes, detached
    mem,      \* buffers in order of allocation: what they hold, and their bytes
    kept      \* results of earlier evaluations: buffer and value

vars == <<job, evals, agenda, done, uses, raw, out, slots, mem, kept>>

Kernel == DOMAIN job.deps
Slot == DOMAIN job.room

\* What a buffer may hold: the output of a kernel of some evaluation, or
Value(k) == <<evals, k>>
Zero  == <<0, 0>>    \* nothing yet
Bad   == <<0, 1>>    \* something computed from the wrong inputs
Freed == <<0, 2>>    \* the buffer was given back

Fresh(bytes) == [val |-> Zero, bytes |-> bytes]

IsRoot(k) == Contains(job.roots, k)

\* The tensor that readers of a kernel use (output_tid).
Output(k) == IF k \in job.viewed THEN out[k] ELSE raw[k]

(***************************************************************************)
(* What sched_install_kernel leaves behind. The term of a root is          *)
(* SEQ(d1, SEQ(d2, .. EXEC)), so its dependencies are forced first to      *)
(* last. The chain inside an EXEC was built by putting each dependency in  *)
(* front of the ones before, so there they are forced last to first. Of    *)
(* several roots, fields of one constructor, the normaliser takes the last *)
(* first.                                                                  *)
(***************************************************************************)
RootTerm(c, r) == Append(c.deps[r], r)
RootTerms(c) ==
    FlattenSeq([i \in DOMAIN c.roots |-> RootTerm(c, Reverse(c.roots)[i])])
DepChain(k) == Reverse(job.deps[k])

Frame(k, todo) == [kid |-> k, todo |-> todo]
Main == 0            \* the frame of the evaluation itself

(***************************************************************************)
(* What the fuser and the planner guarantee of a graph: dependencies come  *)
(* earlier in some order (terms are trees), and reads are counted right.   *)
(***************************************************************************)
Nodes(c) == DOMAIN c.deps
Readers(c, d, left) == {k \in left : Contains(c.deps[k], d)}
Ranks(c) == [Nodes(c) -> 0 .. Cardinality(Nodes(c))]
Acyclic(c, rank) ==
    \A k \in Nodes(c) : \A i \in DOMAIN c.deps[k] : rank[c.deps[k][i]] < rank[k]

GraphOK(c) ==
    /\ IsFiniteSet(Nodes(c)) /\ Nodes(c) \subseteq Nat \ {Main}
    /\ \A k \in Nodes(c) : c.deps[k] \in Seq(Nodes(c))
    /\ c.roots \in Seq(Nodes(c)) /\ RootTerms(c) \in Seq(Nodes(c))
    /\ \A r \in ToSet(c.roots) : Contains(RootTerms(c), r)
    /\ \E rank \in Ranks(c) : Acyclic(c, rank)
    /\ \A k \in Nodes(c) : c.size[k] \in Nat
    /\ c.uses \in [Nodes(c) -> Nat]
    /\ \A k \in Nodes(c) : c.uses[k] = Cardinality(Readers(c, k, Nodes(c)))

ASSUME GraphsOK == \A c \in Cases \cup Later : GraphOK(c)

StartEval(c) ==
    /\ job' = c
    /\ evals' = evals + 1
    /\ agenda' = <<Frame(Main, RootTerms(c))>>
    /\ done' = {}
    /\ uses' = c.uses
    /\ raw' = [k \in DOMAIN c.deps |-> 0]
    /\ out' = [k \in DOMAIN c.deps |-> 0]
    /\ slots' = [s \in DOMAIN c.room |->
                    [buf |-> 0, bytes |-> c.room[s], detached |-> FALSE]]

Init ==
    \E c \in Cases :
        /\ job = c
        /\ evals = 1
        /\ agenda = <<Frame(Main, RootTerms(c))>>
        /\ done = {}
        /\ uses = c.uses
        /\ raw = [k \in DOMAIN c.deps |-> 0]
        /\ out = [k \in DOMAIN c.deps |-> 0]
        /\ slots = [s \in DOMAIN c.room |->
                       [buf |-> 0, bytes |-> c.room[s], detached |-> FALSE]]
        /\ mem = << >>
        /\ kept = {}

Running == agenda # << >>
Top == Head(agenda)

Slip_Cached ==
    /\ Running
    /\ Top.todo # << >>
    /\ Head(Top.todo) \in done
    /\ UNCHANGED vars

\* The next EXEC of the chain has a result already.
Cached ==
    /\ Running
    /\ Top.todo # << >>
    /\ Head(Top.todo) \in done
    /\ agenda' = [agenda EXCEPT ![1].todo = Tail(@)]
    /\ UNCHANGED <<job, evals, done, uses, raw, out, slots, mem, kept>>

\* It has none: its own dependencies come first.
ForceDep ==
    /\ Running
    /\ Top.todo # << >>
    /\ Head(Top.todo) \notin done
    /\ LET k == Head(Top.todo)
       IN  agenda' = <<Frame(k, DepChain(k))>>
                        \o [agenda EXCEPT ![1].todo = Tail(@)]
    /\ UNCHANGED <<job, evals, done, uses, raw, out, slots, mem, kept>>

(***************************************************************************)
(* Dispatch of the kernel on top of the agenda. Ready says that it has     *)
(* nothing left to wait for. ENSURE gives the raw output a buffer if it    *)
(* has none. A viewed kernel whose view has no buffer is then bound to its *)
(* slot (sched_slot_bind_output), for which a buffer is allocated the      *)
(* first time.                                                             *)
(***************************************************************************)
Ready(k) == Running /\ Top.kid = k /\ Top.todo = << >>

Ensured(k) == IF raw[k] = 0 THEN Append(mem, Fresh(job.size[k])) ELSE mem
Binds(k) == k \in job.viewed /\ out[k] = 0
SlotOf(k) == slots[job.slot[k]]

MemoryFor(k) ==
    IF Binds(k) /\ SlotOf(k).buf = 0
    THEN Append(Ensured(k), Fresh(SlotOf(k).bytes))
    ELSE Ensured(k)

Target(k) ==
    IF Binds(k) /\ SlotOf(k).buf # 0 THEN SlotOf(k).buf
    ELSE IF Binds(k) \/ raw[k] = 0 THEN Len(MemoryFor(k)) ELSE raw[k]

\* The inputs hold what their kernels computed, none of them in the buffer
\* that is about to be written.
InputsIntact(k) ==
    \A i \in DOMAIN job.deps[k] :
        LET b == Output(job.deps[k][i])
        IN  b # 0 /\ b # Target(k) /\ mem[b].val = Value(job.deps[k][i])

OutputFits(k) == MemoryFor(k)[Target(k)].bytes >= job.size[k]

\* The inputs that were read for the last time (their count drops to zero).
Spent(k) == {d \in Kernel : Contains(job.deps[k], d) /\ uses[d] = 1 /\ ~IsRoot(d)}
\* sched_release_output_kid does nothing for an output without a buffer.
Released(k) == {d \in Spent(k) : raw[d] # 0}

\* The slots after a dispatch: the one that was bound, and those that take
\* over the buffers of released outputs. Inputs of one kernel are all last
\* used at its position, hence the planner gives them different slots.
Bound(k) ==
    IF Binds(k)
    THEN [slots EXCEPT ![job.slot[k]] =
             [@ EXCEPT !.buf = Target(k), !.detached = FALSE]]
    ELSE slots
Detach(k) ==
    [s \in Slot |->
        IF \E d \in Released(k) : job.slot[d] = s
        THEN LET d == CHOOSE d \in Released(k) : job.slot[d] = s
             IN  [buf |-> raw[d], bytes |-> job.size[d], detached |-> TRUE]
        ELSE Bound(k)[s]]

\* The buffers of the tensors after a dispatch.
Slip_RawAfter(k) == [raw EXCEPT ![k] = Target(k)]
RawAfter(k) ==
    [d \in Kernel |-> IF d = k THEN Target(k)
                      ELSE IF d \in Released(k) THEN 0 ELSE raw[d]]
OutAfter(k) ==
    [d \in Kernel |-> IF d = k /\ Binds(k) THEN Target(k)
                      ELSE IF d \in Released(k) THEN 0 ELSE out[d]]

Dispatch(k) ==
    /\ Ready(k)
    /\ mem' = [MemoryFor(k) EXCEPT ![Target(k)].val =
                  IF InputsIntact(k) /\ OutputFits(k) THEN Value(k) ELSE Bad]
    /\ done' = done \cup {k}
    /\ uses' = [d \in Kernel |-> IF Contains(job.deps[k], d) /\ uses[d] > 0
                                 THEN uses[d] - 1 ELSE uses[d]]
    /\ raw' = RawAfter(k)
    /\ out' = OutAfter(k)
    /\ slots' = Detach(k)
    /\ agenda' = Tail(agenda)
    /\ UNCHANGED <<job, evals, kept>>

(***************************************************************************)
(* The end of an evaluation gives the buffers of detached slots back       *)
(* (sched_planner_release_detached_slots); the next one forgets all slots. *)
(* What the roots computed stays, as a tensor of the caller.               *)
(***************************************************************************)
Slip_ToFree == {s \in Slot : slots[s].buf # 0}
ToFree == {s \in Slot : slots[s].detached /\ slots[s].buf # 0}
FreedBufs == {slots[s].buf : s \in ToFree}

Finish ==
    /\ Ready(Main)
    /\ agenda' = << >>
    /\ mem' = [b \in DOMAIN mem |-> IF b \in FreedBufs
                                    THEN [mem[b] EXCEPT !.val = Freed] ELSE mem[b]]
    /\ slots' = [s \in Slot |-> IF s \in ToFree
                                THEN [slots[s] EXCEPT !.buf = 0, !.detached = FALSE]
                                ELSE slots[s]]
    /\ UNCHANGED <<job, evals, done, uses, raw, out, kept>>

Again ==
    /\ ~Running
    /\ evals < MaxEvals
    /\ \E c \in Later : StartEval(c)
    /\ kept' = kept \cup {[buf |-> Output(r), val |-> Value(r)] : r \in ToSet(job.roots)}
    /\ UNCHANGED mem

Step == Cached \/ ForceDep \/ (\E k \in Kernel : Dispatch(k)) \/ Finish
Next == Step \/ Again

\* The evaluator is one thread and keeps going; a caller need not call again.
Spec == Init /\ [][Next]_vars /\ WF_vars(Step)
-----------------------------------------------------------------------------
\* Where a kernel is dispatched, each buffer it reads holds what the kernel
\* it depends on computed: no other output was written over it since, and it
\* is not the buffer written now.
ReadsIntact == \A k \in Kernel : Ready(k) => InputsIntact(k)

\* What WritesFit asks of a plan. The planner compares an output with the slot
\* it gives it. It does not look at the outputs of that slot which are written
\* elsewhere, and leave the slot a buffer of their own size when released.
FitsSlot(c, k) ==
    /\ c.slot[k] \in DOMAIN c.room
    /\ c.size[k] <= c.room[c.slot[k]]
FitsDonors(c, k) ==
    \A d \in Nodes(c) \ c.viewed :
        c.slot[d] = c.slot[k] /\ ~Contains(c.roots, d) => c.size[k] <= c.size[d]
Roomy(c) ==
    /\ \A s \in DOMAIN c.room : c.room[s] \in Nat
    /\ \A k \in Nodes(c) : k \in c.viewed => FitsSlot(c, k) /\ FitsDonors(c, k)

\* A kernel never writes to a buffer smaller than its output. The planner
\* compares sizes, but a slot takes over whatever buffer is released to it.
WritesFit == \A k \in Kernel : Ready(k) => OutputFits(k)

\* No buffer has two owners: finished outputs that have not been released,
\* detached slots (freed at the end) and results of earlier evaluations.
OneOwner ==
    /\ \A k1, k2 \in Kernel : k1 # k2 /\ raw[k1] # 0 => raw[k1] # raw[k2]
    /\ \A s \in Slot : slots[s].detached =>
           \A k \in Kernel : raw[k] # 0 => raw[k] # slots[s].buf
    /\ \A r \in kept : \A k \in Kernel : raw[k] # r.buf
    /\ \A s \in Slot : \A r \in kept : slots[s].buf # r.buf

\* After an evaluation every root holds its value, and the results of the
\* evaluations before still hold theirs.
ResultsRight ==
    /\ ~Running => \A r \in ToSet(job.roots) :
                      Output(r) # 0 /\ mem[Output(r)].val = Value(r)
    /\ \A r \in kept : mem[r.buf].val = r.val

\* Every evaluation comes to an end.
Terminates == Running ~> ~Running
=============================================================================
