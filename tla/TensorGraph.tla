---------------------------- MODULE TensorGraph ----------------------------
(***************************************************************************)
(* Lazy tensor expressions: the constructors of ctx/init.c and the shape   *)
(* tracker each of them stores for the node it makes (tinyhvm.h,           *)
(* tensor/view/shapetracker.c).                                            *)
(*                                                                         *)
(* A heap is a sequence of nodes [op, src, par, st]: operation, operands   *)
(* (numbers of nodes), what else the operation needs (axes, shape, pairs;  *)
(* the tensor of a "ten", the value of a "num"), and shape tracker.  A     *)
(* tracker is a stack of views, the last of which has the node's shape;    *)
(* a number has none.  A constructor gives [heap, id].                     *)
(*                                                                         *)
(* A definition Slip_X is a plausible mistake in X.                        *)
(***************************************************************************)
EXTENDS ViewOps

\* F(x) for the only x of a set: x is evaluated once.
For(only, F(_)) == CHOOSE r \in {F(x) : x \in only} : TRUE

Unary == {"neg", "relu", "exp", "log", "sqrt"}
Binary == {"add", "sub", "mul", "div", "max", "cmp"}
Elementwise == Unary \cup Binary
Reductions == {"sum", "rmax"}
Movements == {"reshape", "permute", "expand", "shrink", "pad"}

MaxViews == 4      \* ST_MAX_VIEWS

-----------------------------------------------------------------------------
\* Shape trackers.

st_from_view(v) == <<v>>

\* The last view becomes r; if there is none, the new shape becomes one more view.
Composed(st, dims, r) ==
    IF r # NoView THEN Append(Front(st), r)
    ELSE IF Len(st) < MaxViews THEN Append(st, view_create(dims)) ELSE st
st_reshape(st, dims) ==
    IF Size(Last(st).dims) # Size(dims) THEN st ELSE Composed(st, dims, view_reshape(Last(st), dims))

st_permute(st, axes) == Append(Front(st), view_permute(Last(st), axes))

\* Unlike view_expand this leaves the mask alone.
Slip_Stretched(v, dims) == [v EXCEPT !.dims = dims, !.strides = view_create(dims).strides, !.contiguous = FALSE]
Stretched(v, dims) == [v EXCEPT !.dims = dims, !.strides = Repeated(v, dims), !.contiguous = FALSE]

st_expand(st, dims) == Append(Front(st), Stretched(Last(st), dims))
st_shrink(st, pairs) == Append(Front(st), view_shrink(Last(st), pairs))
st_pad(st, pairs) == Append(Front(st), view_pad(Last(st), pairs))

left_pad_ones(dims, rank) == [i \in 1 .. rank |-> IF i <= rank - Len(dims) THEN 1 ELSE dims[i - (rank - Len(dims))]]

\* The common shape of two operands, or << >>.
view_broadcast(a, b) ==
    LET rank == Max({Len(a.dims), Len(b.dims)})
        p == left_pad_ones(a.dims, rank)
        q == left_pad_ones(b.dims, rank)
    IN  IF \A i \in 1 .. rank : p[i] = q[i] \/ 1 \in {p[i], q[i]}
        THEN [i \in 1 .. rank |-> IF p[i] = 1 THEN q[i] ELSE p[i]]
        ELSE << >>

-----------------------------------------------------------------------------
\* Nodes.

IsNumber(heap, t) == heap[t].op = "num"
IsTensor(heap, t) == heap[t].op = "ten"
Tracked(heap, t) == heap[t].st # << >>
IsTop(heap, t) == ~IsNumber(heap, t) /\ ~IsTensor(heap, t)
IsMovement(heap, t) == heap[t].op \in Movements
View(heap, t) == Last(heap[t].st)

\* The shape a reduction leaves: without axes it is of the last dimension that has
\* more than one element.
AxesOf(dims, axes) ==
    IF axes # << >> THEN ToSet(axes)
    ELSE LET wide == {i \in DOMAIN dims : dims[i] > 1} IN IF wide = {} THEN {} ELSE {Max(wide)}
Without(dims, axes) == [i \in DOMAIN dims |-> IF i \in axes THEN 1 ELSE dims[i]]

\* The tracker stored for a node.  Pointwise operations on one operand, or with a
\* number, keep the operand's view as it is.
track_top_shape(heap, op, src, par) ==
    LET st == heap[src[1]].st
        v == Last(st)
        wide == SelectSeq(src, LAMBDA s : Tracked(heap, s))
    IN  CASE op = "reshape" -> IF Size(par) = Size(v.dims) THEN st_reshape(st, par)
                               ELSE st_from_view(view_create(par))
          [] op = "expand" -> IF st = << >> THEN st_from_view(view_create(par)) ELSE st_expand(st, par)
          [] op = "shrink" -> st_shrink(st, par)
          [] op = "pad" -> st_pad(st, par)
          [] op = "permute" -> st_permute(st, par)
          [] op \in Reductions -> st_from_view(view_create(Without(v.dims, AxesOf(v.dims, par))))
          [] OTHER ->
               IF wide = << >> THEN << >>
               ELSE IF Len(wide) = 1 THEN st_from_view(View(heap, wide[1]))
               ELSE LET dims == view_broadcast(View(heap, src[1]), View(heap, src[2]))
                    IN  st_from_view(IF dims # << >> THEN view_create(dims) ELSE View(heap, src[1]))

Made(heap, op, src, par) ==
    [heap |-> Append(heap, [op |-> op, src |-> src, par |-> par, st |-> track_top_shape(heap, op, src, par)]),
     id |-> Len(heap) + 1]

\* Movements other than reshape store one view again, whatever was composed.
Overwritten(made, v) == For({made}, LAMBDA m : [m EXCEPT !.heap[m.id].st = st_from_view(v)])

thvm_reshape(heap, t, dims) == Made(heap, "reshape", <<t>>, dims)
thvm_expand(heap, t, dims) ==
    Overwritten(Made(heap, "expand", <<t>>, dims),
                IF Tracked(heap, t) THEN Stretched(View(heap, t), dims) ELSE view_create(dims))
thvm_permute(heap, t, axes) ==
    Overwritten(Made(heap, "permute", <<t>>, axes), view_permute(View(heap, t), axes))
thvm_shrink(heap, t, pairs) ==
    Overwritten(Made(heap, "shrink", <<t>>, pairs), view_shrink(View(heap, t), pairs))
thvm_pad(heap, t, pairs) ==
    Overwritten(Made(heap, "pad", <<t>>, pairs), view_pad(View(heap, t), pairs))

\* An operand is brought to the common shape by movements of its own.
Stretch(made, dims, target) ==
    IF dims = target \/ \E i \in DOMAIN target : dims[i] \notin {1, target[i]} THEN made
    ELSE thvm_expand(made.heap, made.id, target)
Align(heap, t, dims, padded) ==
    IF padded = dims THEN [heap |-> heap, id |-> t] ELSE thvm_reshape(heap, t, padded)
explicit_broadcast(heap, t, target) ==
    LET dims == View(heap, t).dims
        padded == left_pad_ones(dims, Len(target))
    IN  IF Len(dims) > Len(target) THEN [heap |-> heap, id |-> t]
        ELSE For({Align(heap, t, dims, padded)}, LAMBDA made : Stretch(made, padded, target))

\* Operands of different shapes are brought to the common one, one after the other.
With(acc, m) == [heap |-> m.heap, src |-> Append(acc.src, m.id)]
Threaded(step(_, _), heap, seq) ==
    FoldLeft(LAMBDA acc, x : For({acc}, LAMBDA a : For({x}, LAMBDA b : step(a, b))), [heap |-> heap, src |-> << >>], seq)
OfShape(heap, src, dims) ==
    Threaded(LAMBDA acc, t : With(acc, explicit_broadcast(acc.heap, t, dims)), heap, src)
thvm_op(heap, op, src, par) ==
    For({IF op \in Binary /\ \A s \in ToSet(src) : Tracked(heap, s)
         THEN For({view_broadcast(View(heap, src[1]), View(heap, src[2]))}, LAMBDA dims : OfShape(heap, src, dims))
         ELSE [heap |-> heap, src |-> src]},
        LAMBDA m : Made(m.heap, op, m.src, par))

\* A matrix product is a product of expanded operands, summed.
Widened(made, dims) == thvm_expand(made.heap, made.id, dims)
Contracted(product, dims) ==
    LET summed == Made(product.heap, "sum", <<product.id>>, <<2>>) IN thvm_reshape(summed.heap, summed.id, dims)
OfRows(a, b, dims) ==
    LET bb == Widened(thvm_reshape(a.heap, b, <<1, dims[2], dims[3]>>), dims)
    IN  Contracted(thvm_op(bb.heap, "mul", <<a.id, bb.id>>, << >>), <<dims[1], dims[3]>>)
thvm_mm(heap, a, b) ==
    LET m == View(heap, a).dims[1]
        k == View(heap, a).dims[2]
        n == View(heap, b).dims[2]
    IN  OfRows(Widened(thvm_reshape(heap, a, <<m, k, 1>>), <<m, k, n>>), b, <<m, k, n>>)

-----------------------------------------------------------------------------
\* Unary operations use a only.
eval_uop(uop, a, b) ==
    CASE uop = "add" -> a + b
      [] uop = "sub" -> a - b
      [] uop = "mul" -> a * b
      [] uop = "max" -> IF a > b THEN a ELSE b
      [] uop = "cmp" -> IF a > b THEN 1 ELSE 0
      [] uop = "neg" -> -a
      [] uop = "relu" -> IF a > 0 THEN a ELSE 0

\* What a reduction starts from (-1e30 for a maximum), and how it goes on.
Lowest == -1000
Start(reduce) == IF reduce = "rmax" THEN Lowest ELSE 0
Accumulate(reduce, acc, a) == IF reduce = "rmax" THEN eval_uop("max", acc, a) ELSE acc + a
=============================================================================
