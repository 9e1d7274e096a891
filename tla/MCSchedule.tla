----------------------------- MODULE MCSchedule -----------------------------
(***************************************************************************)
(* Evaluations of every kernel graph with up to MaxKernels kernels in      *)
(* which the plan and the order of execution are compatible, each followed *)
(* by one of two kernels.  A program hands each value to one reader (what  *)
(* is shared sits under a DUP, which the scheduler treats as a root of its *)
(* own), so the graphs are ordered forests.                                *)
(***************************************************************************)
EXTENDS Schedule, KernelPlan

CONSTANT MaxKernels

\* Ordered forests of n nodes, numbered as a walk from the roots meets them:
\* the depth of each node is at most one more than that of the node before.
Depths(n) == {d \in [1 .. n -> 0 .. n - 1] :
                 d[1] = 0 /\ \A i \in 1 .. n - 1 : d[i + 1] <= d[i] + 1}
Parent(d, k) == IF d[k] = 0 THEN 0
                ELSE Max({j \in 1 .. k - 1 : d[j] = d[k] - 1})
ChildrenOf(d, k) == SelectSeq([j \in DOMAIN d |-> j], LAMBDA j : Parent(d, j) = k)
Forests(n) == {[deps |-> [k \in 1 .. n |-> ChildrenOf(d, k)], roots |-> ChildrenOf(d, 0)] :
                  d \in Depths(n)}

\* Outputs of one or two units.
Graphs(n) ==
    {[deps |-> f.deps, roots |-> f.roots, viewed |-> v, size |-> z] :
        f \in Forests(n), v \in SUBSET (1 .. n), z \in [1 .. n -> 1 .. 2]}

Inner(g) == DOMAIN g.deps \ ToSet(g.roots)

\* Only roots are handed on through a view: slots are planned and not used.
NoSlots(g) == g.viewed \subseteq ToSet(g.roots)

\* Inner kernels have one input, so that both orders agree within a tree.
InOrder(g) == \A k \in Inner(g) : Len(g.deps[k]) <= 1

\* No kernel released to a slot leaves a buffer too small for those bound to it.
SlotsFit(g) == \E c \in {Planned(g)} : \A k \in g.viewed : FitsDonors(c, k)

Sound(g) == NoSlots(g) \/ (InOrder(g) /\ SlotsFit(g))

SoundCases ==
    {Planned(g) : g \in {h \in UNION {Graphs(n) : n \in 1 .. MaxKernels} : Sound(h)}}

\* The evaluations that follow: two kernels, one after or beside the other,
\* each handed on through a view.
LaterCases == {Planned(g) : g \in {h \in Graphs(2) : h.viewed = {1, 2} /\ Sound(h)}}
=============================================================================
