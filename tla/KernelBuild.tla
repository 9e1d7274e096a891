---------------------------- MODULE KernelBuild ----------------------------
(***************************************************************************)
(* From a lazy expression to kernels: where it is cut (schedule/_.c), and  *)
(* what each kernel computes (fuse/_.c).                                   *)
(*                                                                         *)
(* A boundary is a node whose value gets a tensor of its own; everything   *)
(* between boundaries is fused into one kernel, which evaluates pointwise  *)
(* operations on leaves, each a tensor read through a view or a number,    *)
(* and may reduce the result over some axes.                               *)
(*                                                                         *)
(* A tensor is a record [st, of]: its tracker, and the tensor it is a view *)
(* of (itself when it has a buffer of its own).  A definition Slip_X is a  *)
(* plausible mistake in X.                                                 *)
(***************************************************************************)
EXTENDS TensorGraph

None == 0

IsReduction(heap, t) == heap[t].op \in Reductions
IsElementwise(heap, t) == heap[t].op \in Elementwise
Kernelizable(heap, t) == IsElementwise(heap, t) \/ IsReduction(heap, t)

RECURSIVE unwrap_views(_, _)
unwrap_views(heap, t) == IF IsMovement(heap, t) THEN unwrap_views(heap, heap[t].src[1]) ELSE t

-----------------------------------------------------------------------------
\* Boundaries.

NewBoundary(t) == [term |-> t, externals |-> 0, externalRoot |-> None,
                   consumers |-> 0, force |-> FALSE, forcedRoot |-> None]

\* Of several roots that are asked for, the value itself is taken.
Agreed(old, new, otherwise) == IF old \in {None, new} THEN new ELSE otherwise

\* A value is cut off if it is read through movements, or is a reduction.
Noted(heap, b, child, class) ==
    IF class = "external"
    THEN [b EXCEPT !.externals = @ + 1, !.externalRoot = Agreed(@, child, b.term)]
    ELSE LET forced == child # b.term \/ IsReduction(heap, b.term)
         IN  [b EXCEPT !.consumers = @ + 1,
                       !.force = @ \/ forced,
                       !.forcedRoot = IF forced THEN Agreed(@, child, b.term) ELSE @]

note_consumer(heap, bs, child, class) ==
    LET inner == unwrap_views(heap, child)
        at == {i \in DOMAIN bs : bs[i].term = inner}
    IN  IF ~Kernelizable(heap, inner) THEN bs
        ELSE IF at = {} THEN Append(bs, Noted(heap, NewBoundary(inner), child, class))
        ELSE [i \in DOMAIN bs |-> IF i \in at THEN Noted(heap, bs[i], child, class) ELSE bs[i]]

\* The reads under a node, <<child, class>>, as a walk with a stack meets them: movements
\* hand on the class of what reads them.
RECURSIVE Reads(_, _, _)
Reads(heap, t, inherited) ==
    LET class == IF IsMovement(heap, t) THEN inherited ELSE "compute"
        src == heap[t].src
    IN  FoldLeft(LAMBDA reads, s : reads \o Reads(heap, s, class),
                 [i \in DOMAIN src |-> <<src[i], class>>], Reverse(src))

collect_boundaries(heap, root) ==
    FoldLeft(LAMBDA bs, r : note_consumer(heap, bs, r[1], r[2]), << >>,
             <<<<root, "external">>>> \o Reads(heap, root, "external"))

\* The boundaries that become kernels, in order, with the node each one computes for.
select_boundaries(bs) ==
    LET chosen == SelectSeq(bs, LAMBDA b : b.force \/ b.externals > 0 \/ b.consumers > 1)
        root(b) == IF b.force /\ b.forcedRoot # None THEN b.forcedRoot
                   ELSE IF b.consumers = 0 /\ b.externalRoot # None THEN b.externalRoot ELSE b.term
    IN  [i \in DOMAIN chosen |-> [term |-> chosen[i].term, root |-> root(chosen[i])]]

\* The tensors of a boundary: of what the kernel computes, and of its view if it is
\* handed on in another shape.
prepare_output(heap, tensors, b) ==
    LET raw == Len(tensors) + 1
        first == Append(tensors, [st |-> st_from_view(view_create(View(heap, b.term).dims)), of |-> raw])
        st == heap[b.root].st
    IN  IF Last(st).dims # View(heap, b.term).dims \/ Len(st) > 1
        THEN [tensors |-> Append(first, [st |-> st, of |-> raw]), raw |-> raw, out |-> raw + 1]
        ELSE [tensors |-> first, raw |-> raw, out |-> raw]

-----------------------------------------------------------------------------
\* The walk that collects a kernel.  Its state: operations [uop, a, b], leaves
\* [kind, id, view, st], kernels depended on, and `at', what the walk gives back: a leaf, an
\* operation (numbered from OpBase) or None for failure.  A graph [heap, tensors,
\* cuts, root] has the boundaries' [loc, out], one for each kernel, and the node that is being built.

OpBase == 1000     \* WALK_LEAF_BASE * 2; leaves are numbered from 1

Failed(w) == [w EXCEPT !.at = None]

Leaf(kind, id, view, st) == [kind |-> kind, id |-> id, view |-> view, st |-> st]
append_leaf(w, leaf) == [w EXCEPT !.leaves = Append(@, leaf), !.at = Len(w.leaves) + 1]
append_leaf_tensor(w, tid, view, st) == append_leaf(w, Leaf("tensor", tid, view, st))

dep_add(w, kid) == IF Contains(w.deps, kid) THEN w ELSE [w EXCEPT !.deps = Append(@, kid)]

boundary_index(g, t) ==
    LET at == {i \in DOMAIN g.cuts : g.cuts[i].loc = t} IN IF at = {} THEN None ELSE Max(at)
Slip_IsCut(g, t) == boundary_index(g, t) # None
IsCut(g, t) == boundary_index(g, t) # None /\ t # g.root

\* A leaf that reads what lies under movements, through a given view.
Slip_make_boundary_leaf(g, t, view, w) ==
    LET cur == unwrap_views(g.heap, t)
        kid == boundary_index(g, cur)
        st == st_from_view(view)
    IN  CASE IsTensor(g.heap, cur) -> append_leaf_tensor(w, g.heap[cur].par, view, st)
          [] IsNumber(g.heap, cur) -> append_leaf(w, Leaf("num", g.heap[cur].par, view, st))
          [] kid # None -> append_leaf_tensor(w, g.cuts[kid].out, view, st)
          [] OTHER -> Failed(w)
make_boundary_leaf(g, t, view, w) ==
    LET cur == unwrap_views(g.heap, t)
        kid == boundary_index(g, cur)
        st == st_from_view(view)
    IN  CASE IsTensor(g.heap, cur) -> append_leaf_tensor(w, g.heap[cur].par, view, st)
          [] IsNumber(g.heap, cur) -> append_leaf(w, Leaf("num", g.heap[cur].par, view, st))
          [] kid # None -> append_leaf_tensor(dep_add(w, kid), g.cuts[kid].out, view, st)
          [] OTHER -> Failed(w)

\* A tensor that is a leaf already is not made one again.
WalkTensor(g, t, w) ==
    LET tid == g.heap[t].par
        same == {i \in DOMAIN w.leaves : w.leaves[i].kind = "tensor" /\ w.leaves[i].id = tid}
        st == g.tensors[tid].st
    IN  IF same # {} THEN [w EXCEPT !.at = Min(same)] ELSE append_leaf_tensor(w, tid, Last(st), st)

WalkNumber(g, t, w) ==
    LET n == g.heap[t].par
        same == {i \in DOMAIN w.leaves : w.leaves[i].kind = "num" /\ w.leaves[i].id = n}
        one == view_create(<<1>>)
    IN  IF same # {} THEN [w EXCEPT !.at = Min(same)] ELSE append_leaf(w, Leaf("num", n, one, st_from_view(one)))

WalkCut(g, t, w) ==
    LET kid == boundary_index(g, t)
        st == g.tensors[g.cuts[kid].out].st
    IN  append_leaf_tensor(dep_add(w, kid), g.cuts[kid].out, Last(st), st)

\* Movements that the walk does not go through: a reshape to another rank of
\* anything that is not a tensor.
CanWalk(g, t) ==
    LET s == g.heap[t].src[1]
    IN  /\ ~IsReduction(g.heap, s)
        /\ g.heap[t].op = "reshape" /\ IsTop(g.heap, s) => Len(g.heap[t].par) = Len(View(g.heap, s).dims)

\* An expression, a movement over leaves (what is computed under a movement is cut
\* off, so the walk below a movement ends in a leaf), or a leaf.
RECURSIVE Walk(_, _, _)
Walk(g, t, w) ==
    LET node == g.heap[t]
        under == Walk(g, node.src[1], w)
        other == Walk(g, node.src[2], under)
        base == under.leaves[under.at]
        op(v, a, b) == [v EXCEPT !.ops = Append(@, [uop |-> node.op, a |-> a, b |-> b]), !.at = OpBase + Len(v.ops) + 1]
    IN  CASE IsTensor(g.heap, t) -> WalkTensor(g, t, w)
          [] IsNumber(g.heap, t) -> WalkNumber(g, t, w)
          [] IsCut(g, t) -> WalkCut(g, t, w)
          [] IsMovement(g.heap, t) /\ (IsCut(g, unwrap_views(g.heap, t)) \/ ~CanWalk(g, t)) ->
               make_boundary_leaf(g, t, Last(node.st), w)
          [] IsMovement(g.heap, t) /\ ~IsCut(g, unwrap_views(g.heap, t)) /\ CanWalk(g, t) ->
               IF under.at = None THEN under
               ELSE append_leaf(under, [base EXCEPT !.view = Last(node.st), !.st = node.st])
          [] IsReduction(g.heap, t) /\ ~IsCut(g, t) -> make_boundary_leaf(g, t, Last(node.st), w)
          [] IsElementwise(g.heap, t) /\ ~IsCut(g, t) ->
               IF under.at = None THEN under
               ELSE IF node.op \in Unary THEN op(under, under.at, None)
               ELSE IF other.at = None THEN other ELSE op(other, under.at, other.at)

-----------------------------------------------------------------------------
\* The kernel.  Operands are leaves 1 .. n and, after them, operations.  The operand a
\* unary operation does not have is stored as 0, which is how the first leaf is stored.

Remapped(ref, n) == IF ref = None THEN 1 ELSE IF ref > OpBase THEN n + ref - OpBase ELSE ref
fuse_remap(ops, n) == [i \in DOMAIN ops |-> [ops[i] EXCEPT !.a = Remapped(@, n), !.b = Remapped(@, n)]]

\* A leaf of smaller rank whose dimensions can be found, in order, among those of the
\* iteration space.
Spread(v, dims) ==
    LET Step(acc, i) ==
            LET j == acc.next
                open == j <= Len(v.dims)
            IN  IF open /\ v.dims[j] = dims[i]
                THEN [acc EXCEPT !.dims = Append(@, dims[i]), !.strides = Append(@, v.strides[j]), !.next = j + 1]
                ELSE IF dims[i] = 1 \/ (open /\ v.dims[j] = 1)
                THEN [acc EXCEPT !.dims = Append(@, dims[i]), !.strides = Append(@, 0)]
                ELSE [acc EXCEPT !.ok = FALSE]
        end == FoldLeft(Step, [dims |-> << >>, strides |-> << >>, next |-> 1, ok |-> TRUE],
                        [i \in DOMAIN dims |-> i])
    IN  IF end.ok /\ end.next = Len(v.dims) + 1
        THEN [dims |-> end.dims, strides |-> end.strides, offset |-> v.offset, contiguous |-> FALSE, mask |-> << >>]
        ELSE NoView

\* The iteration space so far, joined with one more leaf; `ok' until one does not fit.
Join(acc, i) ==
    LET v == acc.leaves[i].view
        common == view_broadcast([dims |-> acc.dims], v)
        whole == view_create(acc.dims)
        wider == Len(v.dims) > Len(acc.dims)
        lo == IF wider THEN whole ELSE v
        hi == IF wider THEN v ELSE whole
        spread == IF Len(lo.dims) < Len(hi.dims) /\ Size(lo.dims) <= Size(hi.dims) THEN Spread(lo, hi.dims) ELSE NoView
    IN  IF ~acc.ok THEN acc
        ELSE IF acc.dims = << >> THEN [acc EXCEPT !.dims = v.dims]
        ELSE IF common # << >> THEN [acc EXCEPT !.dims = common]
        ELSE IF spread = NoView THEN [acc EXCEPT !.ok = FALSE]
        ELSE IF wider THEN [acc EXCEPT !.dims = v.dims]
        ELSE [acc EXCEPT !.leaves[i].view = spread]

NoKernel == [ok |-> FALSE]

\* The leaves some operation names; intermediate leaves of composed movements are dropped.
LiveLeaves(ops, at, n) ==
    SelectSeq([i \in 1 .. n |-> i],
              LAMBDA i : IF ops = << >> THEN i = at ELSE \E j \in DOMAIN ops : i \in {ops[j].a, ops[j].b})
Renamed(ref, live, n) == IF ref > n THEN ref - n + Len(live) ELSE CHOOSE j \in DOMAIN live : live[j] = ref

\* The axes a reduction names, of those there are.
ReducedAxes(given, dims) ==
    LET named == {a \in given : a <= Len(dims)} IN IF named # {} THEN named ELSE AxesOf(dims, << >>)

Assembled(w, ops, live, space, reduce, axes) ==
    IF ~space.ok \/ (reduce # "none" /\ axes = {}) THEN NoKernel
    ELSE [ok |-> TRUE,
          ops |-> [j \in DOMAIN ops |-> [ops[j] EXCEPT !.a = Renamed(@, live, Len(w.leaves)),
                                                      !.b = Renamed(@, live, Len(w.leaves))]],
          leaves |-> [j \in DOMAIN live |-> space.leaves[live[j]]],
          deps |-> w.deps, full |-> space.dims, reduce |-> reduce, axes |-> axes]

Spanned(w, live) == FoldLeft(Join, [dims |-> << >>, leaves |-> w.leaves, ok |-> TRUE], live)
Reducing(w, ops, live, space, node) ==
    Assembled(w, ops, live, space, IF node.op \in Reductions THEN node.op ELSE "none",
              IF node.op \in Reductions THEN ReducedAxes(ToSet(node.par), space.dims) ELSE {})
Trimmed(w, ops, live, node) == Reducing(w, ops, live, Spanned(w, live), node)
Collected(w, ops, node) == Trimmed(w, ops, LiveLeaves(ops, w.at, Len(w.leaves)), node)
Walked(w, node) == IF w.at = None THEN NoKernel ELSE Collected(w, fuse_remap(w.ops, Len(w.leaves)), node)

fuse_build_kernel(g, root) ==
    LET cur == unwrap_views(g.heap, root)
        body == IF IsReduction(g.heap, cur) THEN g.heap[cur].src[1] ELSE cur
    IN  Walked(Walk(g, body, [ops |-> << >>, leaves |-> << >>, deps |-> << >>, at |-> None]), g.heap[cur])

-----------------------------------------------------------------------------
\* All kernels of an expression, each with its tensors, and the tensors.
Prepare(heap, acc, b) ==
    LET p == prepare_output(heap, acc.tensors, b)
    IN  [tensors |-> p.tensors, cuts |-> Append(acc.cuts, [loc |-> b.term, raw |-> p.raw, out |-> p.out])]
KernelOf(g, b) ==
    LET cut == g.cuts[boundary_index(g, b.term)]
    IN  fuse_build_kernel([g EXCEPT !.root = b.term], b.root) @@ [raw |-> cut.raw, out |-> cut.out, term |-> b.term]
Planned(heap, bs, all) ==
    [tensors |-> all.tensors,
     kernels |-> [i \in DOMAIN bs |->
                    KernelOf([heap |-> heap, tensors |-> all.tensors, cuts |-> all.cuts, root |-> None], bs[i])]]
Planning(heap, tensors, bs) ==
    Planned(heap, bs, FoldLeft(LAMBDA acc, b : Prepare(heap, acc, b), [tensors |-> tensors, cuts |-> << >>], bs))
sched_all(heap, tensors, root) == Planning(heap, tensors, select_boundaries(collect_boundaries(heap, root)))
=============================================================================
