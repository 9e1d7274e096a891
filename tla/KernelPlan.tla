----------------------------- MODULE KernelPlan -----------------------------
(***************************************************************************)
(* The planner of the kernel scheduler (schedule/_.c,                      *)
(* sched_plan_output_liveness): in which order the kernels of one          *)
(* evaluation are expected to run, when each output is read for the last   *)
(* time, and which outputs may share a slot, that is, a buffer.            *)
(*                                                                         *)
(* A graph is a record:                                                    *)
(*   deps    kernel -> the kernels whose outputs it reads, in the order    *)
(*           the fuser met them (KernelEntry.dep_kids);                    *)
(*   roots   the kernels whose value is asked for, in the order in which   *)
(*           their boundaries were found (external_count > 0);             *)
(*   viewed  the kernels whose output is handed on through a view of       *)
(*           another shape, so that output_tid # raw_output_tid;           *)
(*   size    kernel -> bytes of its output.                                *)
(* Every kernel is reachable from a root, and only roots are pinned.       *)
(* A definition Slip1_X or Slip2_X is a plausible mistake in X.            *)
(***************************************************************************)
EXTENDS Integers, Sequences, FiniteSets, SequencesExt

Kernels(g) == DOMAIN g.deps
Pinned(g, k) == \E i \in DOMAIN g.roots : g.roots[i] = k

\* sched_exec_order: dependencies first, each kernel where it is first met.
RECURSIVE Visit(_, _, _)
Visit(g, todo, order) ==
    IF todo = << >> THEN order
    ELSE LET k == Head(todo)
             next == IF Contains(order, k) THEN order
                     ELSE Append(Visit(g, g.deps[k], order), k)
         IN  Visit(g, Tail(todo), next)

ExecOrder(g) == Visit(g, g.roots, << >>)

Position(order, k) == CHOOSE p \in DOMAIN order : order[p] = k
Consumers(g, k) == {c \in Kernels(g) : Contains(g.deps[c], k)}

\* How often an output is read, and where in the order the last time. An
\* output nobody reads counts as read where it is written.
Uses(g) == [k \in Kernels(g) |-> Cardinality(Consumers(g, k))]
LastUse(g, order, k) == Max({Position(order, c) : c \in Consumers(g, k) \cup {k}})

(***************************************************************************)
(* Slots are given out along the order. A slot is free again once the last *)
(* read of its output is behind; an output that is not pinned takes the    *)
(* smallest free slot that is large enough, the first of equals, or else a *)
(* new one. A pinned output always has a slot of its own.                  *)
(***************************************************************************)
Slip1_FreeSlots(g, k, pos, slots) ==
    {s \in DOMAIN slots : /\ ~Pinned(g, k)
                          /\ ~slots[s].pinned
                          /\ slots[s].end <= pos
                          /\ slots[s].bytes >= g.size[k]}
Slip2_FreeSlots(g, k, pos, slots) ==
    {s \in DOMAIN slots : /\ ~Pinned(g, k)
                          /\ ~slots[s].pinned
                          /\ slots[s].end < pos}
FreeSlots(g, k, pos, slots) ==
    {s \in DOMAIN slots : /\ ~Pinned(g, k)
                          /\ ~slots[s].pinned
                          /\ slots[s].end < pos
                          /\ slots[s].bytes >= g.size[k]}

BestSlot(free, slots) ==
    CHOOSE s \in free : \A o \in free \ {s} :
        \/ slots[s].bytes < slots[o].bytes
        \/ slots[s].bytes = slots[o].bytes /\ s < o

PlaceOutput(g, order, plan, pos) ==
    LET k == order[pos]
        free == FreeSlots(g, k, pos, plan.slots)
        best == IF free = {} THEN Len(plan.slots) + 1 ELSE BestSlot(free, plan.slots)
        bytes == IF free = {} THEN g.size[k] ELSE plan.slots[best].bytes
        entry == [bytes |-> bytes, end |-> LastUse(g, order, k), pinned |-> Pinned(g, k)]
    IN  [slots |-> IF free = {} THEN Append(plan.slots, entry)
                   ELSE [plan.slots EXCEPT ![best] = entry],
         slot |-> [plan.slot EXCEPT ![k] = best]]

SlotPlan(g) ==
    LET order == ExecOrder(g)
    IN  FoldLeft(LAMBDA plan, pos : PlaceOutput(g, order, plan, pos),
                 [slots |-> << >>, slot |-> [k \in Kernels(g) |-> 0]],
                 [pos \in DOMAIN order |-> pos])

\* A graph together with what the run of it needs of its plan.
Planned(g) ==
    LET plan == SlotPlan(g)
    IN  [deps |-> g.deps, roots |-> g.roots, viewed |-> g.viewed, size |-> g.size,
         uses |-> Uses(g), slot |-> plan.slot,
         room |-> [s \in DOMAIN plan.slots |-> plan.slots[s].bytes]]
=============================================================================
