---------------------------- MODULE ViewOps ----------------------------
(***************************************************************************)
(* Views and what the movement operations make of them (tensor/view/).     *)
(*                                                                         *)
(* A view tells which element of a buffer each element of a tensor is:     *)
(* element c (a tuple of coordinates) is at offset plus the sum of         *)
(* c[i] * strides[i], or is zero where c is outside the mask.              *)
(***************************************************************************)
EXTENDS Integers, SequencesExt, FiniteSetsExt

-----------------------------------------------------------------------------
\* Shapes and coordinates (starting at 0).

Total(nums) ==
    LET sum[n \in 0 .. Len(nums)] == IF n = 0 THEN 0 ELSE sum[n - 1] + nums[n] IN sum[Len(nums)]

\* The product of the dimensions i to j: the elements of a block of them.
Block(dims, i, j) ==
    LET prod[n \in i .. j + 1] == IF n = j + 1 THEN 1 ELSE dims[n] * prod[n + 1] IN prod[i]

Size(dims) == Block(dims, 1, Len(dims))
\* The product of the dimensions after i: the stride of i in row-major order.
Inner(dims, i) == Block(dims, i + 1, Len(dims))
Coords(dims, k) == [i \in DOMAIN dims |-> (k \div Inner(dims, i)) % dims[i]]
Flat(dims, c) == Total([i \in DOMAIN dims |-> c[i] * Inner(dims, i)])

-----------------------------------------------------------------------------
\* Views.

Canonical(v) == [v EXCEPT !.strides = [i \in DOMAIN @ |-> IF v.dims[i] = 1 THEN 0 ELSE @[i]]]

RowMajor(dims) == [i \in DOMAIN dims |-> Inner(dims, i)]

view_create(dims) ==
    Canonical([dims |-> dims, strides |-> RowMajor(dims), offset |-> 0, contiguous |-> TRUE, mask |-> << >>])

view_permute(v, axes) ==
    Canonical([v EXCEPT !.dims = [i \in DOMAIN axes |-> v.dims[axes[i]]],
                        !.strides = [i \in DOMAIN axes |-> v.strides[axes[i]]],
                        !.mask = [i \in DOMAIN v.mask |-> v.mask[axes[i]]],
                        !.contiguous = FALSE])

\* A dimension of size 1 is taken to have stride 0 already.
Slip_Repeated(v, dims) == v.strides

\* The strides of an expansion: a dimension that grows repeats its one element.
Repeated(v, dims) == [i \in DOMAIN dims |-> IF v.dims[i] = 1 /\ dims[i] > 1 THEN 0 ELSE v.strides[i]]

view_expand(v, dims) ==
    [v EXCEPT !.dims = dims, !.strides = Repeated(v, dims), !.contiguous = FALSE,
              !.mask = [i \in DOMAIN v.mask |->
                          IF v.dims[i] = 1 /\ dims[i] > 1 THEN <<v.mask[i][1], dims[i]>> ELSE v.mask[i]]]

\* What shrinking to <<start, end>> in each dimension does to offset and shape.
Shrunk(v, pairs) ==
    [v EXCEPT !.offset = @ + Total([i \in DOMAIN pairs |-> pairs[i][1] * v.strides[i]]),
              !.dims = [i \in DOMAIN pairs |-> pairs[i][2] - pairs[i][1]],
              !.contiguous = FALSE]

view_shrink(v, pairs) == Canonical(Shrunk(v, pairs))

\* Padding <<before, after>>: the old elements become the mask.
view_pad(v, pairs) ==
    Canonical([v EXCEPT !.offset = @ - Total([i \in DOMAIN pairs |-> pairs[i][1] * v.strides[i]]),
                        !.dims = [i \in DOMAIN pairs |-> @[i] + pairs[i][1] + pairs[i][2]],
                        !.mask = [i \in DOMAIN pairs |-> <<pairs[i][1], pairs[i][1] + v.dims[i]>>],
                        !.contiguous = FALSE])

-----------------------------------------------------------------------------
\* Reshaping.  First neighbouring dimensions that can be walked with one stride
\* are merged, then the new dimensions are cut from the merged ones, innermost
\* first.

\* A dimension that the next one may always be merged into.
Narrow(v, i) == IF v.mask # << >> THEN v.mask[i][2] - v.mask[i][1] = 1 ELSE v.dims[i] = 1

\* The first merged dimension, and what the next one does to those before it.
First(v) ==
    [merging |-> Narrow(v, 1),
     merged  |-> <<[size |-> v.dims[1], stride |-> v.strides[1],
                    real |-> IF v.strides[1] # 0 THEN v.dims[1] ELSE 0]>>]

Merge(v, acc, i) ==
    LET s == v.dims[i]
        last == Last(acc.merged)
        joins == acc.merging \/ last.stride = s * v.strides[i]
    IN  IF s = 1 THEN acc
        ELSE [merging |-> Narrow(v, i),
              merged |->
                IF joins
                THEN Append(Front(acc.merged),
                            [size |-> last.size * s, stride |-> v.strides[i],
                             real |-> IF acc.merging THEN s ELSE last.real * s])
                ELSE Append(acc.merged, [size |-> s, stride |-> v.strides[i], real |-> s])]

merge_dims(v) ==
    LET acc[i \in 1 .. Len(v.dims)] == IF i = 1 THEN First(v) ELSE Merge(v, acc[i - 1], i)
    IN  acc[Len(v.dims)].merged

\* The walk goes one dimension too far.
Slip_CutFrom(dims, p, size) ==
    LET enough == {j \in 1 .. p : Block(dims, j, p) > size}
    IN  IF size = 1 THEN p + 1 ELSE IF enough = {} THEN 1 ELSE Max(enough)

\* The new dimensions up to p that are cut from a merged dimension of `size':
\* they start here.
CutFrom(dims, p, size) ==
    LET enough == {j \in 1 .. p : Block(dims, j, p) >= size}
    IN  IF size = 1 THEN p + 1 ELSE IF enough = {} THEN 1 ELSE Max(enough)

\* Strides of the new dimensions cut from m; `at' is the innermost dimension
\* without a stride yet, `ok' tells whether all cuts fit.
CutOne(dims, m, acc) ==
    LET p == acc.at
        q == CutFrom(dims, p, m.size)
        outer(j) == Block(dims, j + 1, p)
        stride(j) == IF j < p /\ m.real > 0 /\ outer(j) >= m.real THEN 0 ELSE m.stride * outer(j)
    IN  [ok |-> acc.ok /\ Block(dims, q, p) = m.size,
         at |-> q - 1,
         strides |-> [j \in DOMAIN dims |-> IF j \in q .. p THEN stride(j) ELSE acc.strides[j]]]

\* Of all, innermost merged dimension first.
Cut(dims, merged) ==
    LET acc[n \in 1 .. Len(merged) + 1] ==
            IF n > Len(merged) THEN [ok |-> TRUE, at |-> Len(dims), strides |-> [j \in DOMAIN dims |-> 0]]
            ELSE CutOne(dims, merged[n], acc[n + 1])
    IN  acc[1]

\* The mask of a reshaped view, dimension by dimension from the innermost, and
\* whether there is one.  `mask' is the part of the old mask being dealt with, `old'
\* the old dimensions it spans, `done' how much of it new dimensions took.
reshape_mask(v, dims) ==
    LET DimAt(s, i) == IF i >= 1 THEN s[i] ELSE 1
        MaskAt(i) == IF i >= 1 THEN v.mask[i] ELSE <<0, 1>>
        Go(st, n) ==
            LET next == DimAt(dims, st.ni) * st.done
                lo == st.mask[1]
                hi == st.mask[2]
                more == MaskAt(st.oi - 1)
            IN  IF st.ni = 0 \/ st.fails THEN st
                ELSE IF st.old = next THEN
                    [st EXCEPT !.out = <<<<lo \div st.done, (hi - 1) \div st.done + 1>>>> \o @,
                               !.done = 1, !.old = DimAt(v.dims, st.oi - 1), !.mask = more,
                               !.ni = @ - 1, !.oi = @ - 1]
                ELSE IF st.old > next THEN
                    IF st.old % next # 0
                       \/ ((lo % next # 0 \/ hi % next # 0) /\ lo \div next # (hi - 1) \div next)
                    THEN [st EXCEPT !.fails = TRUE]
                    ELSE [st EXCEPT !.out = <<<<(lo % next) \div st.done, ((hi - 1) % next) \div st.done + 1>>>> \o @,
                                    !.done = next, !.ni = @ - 1]
                ELSE IF lo # 0 /\ hi # 0 /\ lo # hi /\ more[2] - more[1] # 1
                THEN [st EXCEPT !.fails = TRUE]
                ELSE [st EXCEPT !.mask = <<more[1] * st.old + lo, (more[2] - 1) * st.old + hi>>,
                                !.old = @ * DimAt(v.dims, st.oi - 1), !.oi = @ - 1]
        r == Len(v.dims)
        end == FoldLeft(Go, [oi |-> r, ni |-> Len(dims), done |-> 1, old |-> v.dims[r], mask |-> v.mask[r],
                             out |-> << >>, fails |-> FALSE],
                        [n \in 1 .. r + Len(dims) |-> n])
    IN  [ok |-> ~end.fails, mask |-> end.out]

\* The new mask is taken to begin where the old one did.
Slip_MaskBegin(mask, strides) == 0

\* Where the mask begins, in the buffer.
MaskBegin(mask, strides) == Total([i \in DOMAIN mask |-> mask[i][1] * strides[i]])

\* The reshaped view, or none: the caller has to do something else.
NoView == [dims |-> << >>]

\* With strides found: `plain' is the view without its mask, `mask' the reshaped one.
Remasked(v, plain, mask) ==
    IF v.mask = << >> THEN plain
    ELSE IF ~mask.ok THEN [plain EXCEPT !.strides = RowMajor(plain.dims), !.contiguous = FALSE]
    ELSE [plain EXCEPT !.offset = @ + MaskBegin(v.mask, v.strides) - MaskBegin(mask.mask, plain.strides),
                       !.mask = IF \A i \in DOMAIN plain.dims : mask.mask[i] = <<0, plain.dims[i]>>
                                THEN << >> ELSE mask.mask]

\* The strides count up one by one, whatever the dimensions of size 1 have.
InOrder(dims, strides) == \A i \in DOMAIN dims : dims[i] > 1 => strides[i] = Inner(dims, i)

Restrided(v, dims, cut) ==
    IF ~cut.ok THEN NoView
    ELSE Canonical(Remasked(v, [dims |-> dims, strides |-> cut.strides, offset |-> v.offset,
                                contiguous |-> v.offset = 0 /\ v.mask = << >> /\ InOrder(dims, cut.strides),
                                mask |-> << >>],
                            reshape_mask(v, dims)))

view_reshape(v, dims) ==
    IF v.dims = dims THEN v
    ELSE IF v.contiguous
    THEN [view_create(dims) EXCEPT !.offset = v.offset, !.contiguous = v.offset = 0 /\ v.mask = << >>]
    ELSE Restrided(v, dims, Cut(dims, merge_dims(v)))
=============================================================================
