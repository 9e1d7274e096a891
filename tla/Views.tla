------------------------------- MODULE Views -------------------------------
(***************************************************************************)
(* Views of a tensor: tensor/view/, the movement operations of ctx/init.c  *)
(* and their rules in interact/tensor_ops.c, and the two ways elements are *)
(* read through a view (ops/_.c, backend/cpu/dispatch.c).                  *)
(*                                                                         *)
(* Movement operations give a tensor another view (module ViewOps) of the  *)
(* same buffer.  `meaning' is what the tensor is, element by element in    *)
(* row-major order, as if every operation had moved the data.  Buffer      *)
(* element k holds k.                                                      *)
(***************************************************************************)
EXTENDS ViewOps

CONSTANTS
    Bases,         \* shapes of the tensors that programs start with
    MaxSize,       \* bound on the elements of a tensor
    MaxRank,       \* bound on its dimensions (MAX_DIM is 8)
    MaxOps,        \* bound on the operations in a chain
    Asked(_, _)    \* which operations programs ask of a tensor with a given view

\* A tensor has at least one dimension (a scalar has shape 1) and none of size 0.
ASSUME BasesAssumption == Bases \subseteq Seq(Nat \ {0}) \ {<< >>}
ASSUME BoundsAssumption == MaxSize \in Nat /\ MaxRank \in Nat /\ MaxOps \in Nat

VARIABLES
    base,          \* elements of the buffer
    view,          \* the tensor's view
    meaning,       \* what it should hold
    ops            \* operations so far

vars == <<base, view, meaning, ops>>

Zero == -1         \* an element of the padding
Wild == -2         \* an element outside the buffer

-----------------------------------------------------------------------------
Shapes == UNION {[1 .. r -> 1 .. MaxSize] : r \in 1 .. MaxRank}
ShapesOf(n) == {s \in UNION {[1 .. r -> {d \in 1 .. n : n % d = 0}] : r \in 1 .. MaxRank} : Size(s) = n}

-----------------------------------------------------------------------------
\* The operations on a tensor that has a buffer: an alias with a new view is
\* made at once where that is possible, and by the reducer's rule for the lazy
\* operation otherwise (always while no_grad_alloc is set).

\* The rule: a reshape that cannot be expressed becomes a fresh view of the same
\* buffer.
RuleReshape(v, dims) ==
    LET r == view_reshape(v, dims)
    IN  IF r = NoView THEN view_create(dims) ELSE r

EagerReshape(v, dims) ==
    IF v.mask # << >> \/ view_reshape(v, dims) = NoView THEN RuleReshape(v, dims) ELSE view_reshape(v, dims)

\* Making an alias at once leaves the mask, and strides of single elements, alone.
EagerExpand(v, dims) == [v EXCEPT !.dims = dims, !.strides = Repeated(v, dims), !.contiguous = FALSE]
EagerShrink(v, pairs) == Shrunk(v, pairs)

\* What each operation means, on elements in row-major order.
Moved(from, to, source(_)) == [k \in 0 .. Size(to) - 1 |-> meaning[Flat(from, source(Coords(to, k)))]]

Init ==
    \E s \in Bases :
        /\ base = Size(s)
        /\ view = view_create(s)
        /\ meaning = [k \in 0 .. Size(s) - 1 |-> k]
        /\ ops = 0

Gives(v) == view' = v /\ ops' = ops + 1 /\ UNCHANGED base

Reshape(dims) ==
    /\ ops < MaxOps /\ Asked(view, <<"reshape", dims>>)
    /\ \/ Gives(EagerReshape(view, dims))
       \/ Gives(RuleReshape(view, dims))
    /\ UNCHANGED meaning

Expand(dims) ==
    /\ ops < MaxOps /\ Asked(view, <<"expand", dims>>)
    /\ \A i \in DOMAIN dims : view.dims[i] \in {1, dims[i]}
    /\ \/ Gives(EagerExpand(view, dims))
       \/ Gives(view_expand(view, dims))
    /\ meaning' = Moved(view.dims, dims, LAMBDA c : [i \in DOMAIN c |-> c[i] % view.dims[i]])

Permute(axes) ==
    /\ ops < MaxOps /\ Asked(view, <<"permute", axes>>)
    /\ Gives(view_permute(view, axes))
    /\ meaning' = Moved(view.dims, view'.dims, LAMBDA c : [i \in DOMAIN c |-> c[CHOOSE j \in DOMAIN axes : axes[j] = i]])

Shrink(pairs) ==
    /\ ops < MaxOps /\ Asked(view, <<"shrink", pairs>>)
    /\ \/ Gives(EagerShrink(view, pairs))
       \/ Gives(view_shrink(view, pairs))
    /\ meaning' = Moved(view.dims, view'.dims, LAMBDA c : [i \in DOMAIN c |-> c[i] + pairs[i][1]])

Pad(pairs) ==
    /\ ops < MaxOps /\ Asked(view, <<"pad", pairs>>)
    /\ Gives(view_pad(view, pairs))
    /\ LET inside(c) == \A i \in DOMAIN c : c[i] \in pairs[i][1] .. pairs[i][1] + view.dims[i] - 1
           old(c) == Flat(view.dims, [i \in DOMAIN c |-> c[i] - pairs[i][1]])
       IN  meaning' = [k \in 0 .. Size(view'.dims) - 1 |->
                         LET c == Coords(view'.dims, k) IN IF inside(c) THEN meaning[old(c)] ELSE Zero]

\* An operand of a binary operation is brought to the common shape: dimensions of
\* size 1 in front, then an expansion.
Broadcast(dims) ==
    LET padded == [i \in DOMAIN dims |->
                     IF i <= Len(dims) - Len(view.dims) THEN 1 ELSE view.dims[i - (Len(dims) - Len(view.dims))]]
        aligned == IF padded = view.dims THEN view ELSE EagerReshape(view, padded)
    IN  /\ ops < MaxOps /\ Asked(view, <<"broadcast", dims>>)
        /\ Len(dims) >= Len(view.dims) /\ dims # view.dims
        /\ \A i \in DOMAIN dims : padded[i] \in {1, dims[i]}
        /\ Gives(IF padded = dims THEN aligned ELSE EagerExpand(aligned, dims))
        /\ meaning' = Moved(padded, dims, LAMBDA c : [i \in DOMAIN c |-> c[i] % padded[i]])

\* One dimension is shrunk or padded at a time.
OneShrunk == {[j \in DOMAIN view.dims |-> IF j = i THEN <<p[1], p[2]>> ELSE <<0, view.dims[j]>>] :
                i \in DOMAIN view.dims, p \in {q \in (0 .. MaxSize) \X (0 .. MaxSize) : q[1] < q[2]}}
OnePadded == {[j \in DOMAIN view.dims |-> IF j = i THEN p ELSE <<0, 0>>] :
                i \in DOMAIN view.dims, p \in {<<1, 0>>, <<0, 1>>, <<1, 1>>}}

Next ==
    \/ \E dims \in ShapesOf(Size(view.dims)) : Reshape(dims)
    \/ \E dims \in {s \in Shapes : Len(s) = Len(view.dims) /\ Size(s) <= MaxSize} : Expand(dims)
    \/ \E dims \in {s \in Shapes : Size(s) <= MaxSize} : Broadcast(dims)
    \/ \E axes \in Bijection(DOMAIN view.dims, DOMAIN view.dims) : Permute(axes)
    \/ \E pairs \in {p \in OneShrunk : \A i \in DOMAIN p : p[i][2] <= view.dims[i]} : Shrink(pairs)
    \/ \E pairs \in {p \in OnePadded : Size([i \in DOMAIN p |-> view.dims[i] + p[i][1] + p[i][2]]) <= MaxSize} :
          Pad(pairs)

Spec == Init /\ [][Next]_vars

-----------------------------------------------------------------------------
\* Reading.

At(i) == IF i \in 0 .. base - 1 THEN i ELSE Wild

Masked(v, c) == \E i \in DOMAIN v.mask : c[i] < v.mask[i][1] \/ c[i] >= v.mask[i][2]

Place(v, c) == v.offset + Total([i \in DOMAIN c |-> c[i] * v.strides[i]])

\* Reading into the host's memory: as they are in the buffer if the view is marked
\* as contiguous, one by one otherwise.
thvm_to_host_raw(v, k) ==
    LET c == Coords(v.dims, k)
    IN  IF v.contiguous THEN At(k) ELSE IF Masked(v, c) THEN Zero ELSE At(Place(v, c))

\* Reading in a kernel that runs over the tensor's own shape.
leaf_read(v, k) ==
    LET c == Coords(v.dims, k)
    IN  IF Masked(v, c) \/ Place(v, c) < 0 THEN Zero ELSE At(Place(v, c))

\* How much of the buffer is copied before elements are picked from it.
Span(v) ==
    IF v.contiguous THEN Size(v.dims)
    ELSE Max({v.offset, 0}) + Total([i \in DOMAIN v.dims |-> (v.dims[i] - 1) * v.strides[i]]) + 1

-----------------------------------------------------------------------------
(* Whatever chain of operations made a tensor, at once or by rules, both ways  *)
(* of reading it give each element what the operations mean: strides, offset   *)
(* and mask together stay in step with the moves (ops/_.c:304, copying or      *)
(* picking, and leaf_read in backend/cpu/dispatch.c:89).                       *)
ReadRight ==
    \A k \in DOMAIN meaning : thvm_to_host_raw(view, k) = meaning[k] /\ leaf_read(view, k) = meaning[k]

(* What is copied from the buffer before elements are picked is no more than   *)
(* the buffer has, when nothing is padded (ops/_.c:321).                       *)
SpanFits == view.mask = << >> => Span(view) <= base

(* A reshape is refused only if no strides can express it: when some strides   *)
(* reach every element of the reshaped tensor, merging finds them              *)
(* (tensor/view/reshape.c:183, where the caller is told to do something else). *)
MergesWhenPossible ==
    view.mask = << >> =>
        \A dims \in ShapesOf(Size(view.dims)) :
            view_reshape(view, dims) = NoView =>
                LET unit(i) == [j \in DOMAIN dims |-> IF j = i /\ dims[j] > 1 THEN 1 ELSE 0]
                    step == [i \in DOMAIN dims |-> meaning[Flat(dims, unit(i))] - meaning[0]]
                IN  \E k \in DOMAIN meaning :
                        meaning[k] # meaning[0] + Total([i \in DOMAIN dims |-> Coords(dims, k)[i] * step[i]])
=============================================================================
