----------------------------- MODULE KernelRun -----------------------------
(***************************************************************************)
(* Running a kernel on the CPU: lowered to a straight program with a loop  *)
(* (lower/_.c) that an interpreter executes once for each element of the   *)
(* output (backend/cpu/uop.c), or interpreted as it stands                 *)
(* (backend/cpu/dispatch.c).                                               *)
(*                                                                         *)
(* Both give [out, stray]: the elements of the output buffer, and whether  *)
(* any index was outside the buffer it was used with.  A kernel's leaves   *)
(* come with the buffers they read, `bufs'.                                *)
(***************************************************************************)
EXTENDS KernelBuild

Wrap == 65536      \* indices are unsigned; 2^32 in the code
Junk == 777        \* what lies outside a buffer
MaxProgram == 512  \* KOP_MAX

Word(n) == n % Wrap

\* The elements of a kernel's output.
Kept(k) == [i \in DOMAIN k.full |-> IF i \in k.axes THEN 1 ELSE k.full[i]]
OutSize(k) == Size(Kept(k))
ReducedDims(k) == [i \in DOMAIN k.full |-> IF i \in k.axes THEN k.full[i] ELSE 1]

-----------------------------------------------------------------------------
\* Terms of the lowered kernel: tuples, constants included.

Const(n) == <<"const", n>>
IsConst(t) == t[1] = "const"
IsZero(t) == t = Const(0)
IsOne(t) == t = Const(1)
GlobalId == <<"gid">>
Index(a, b, scale) == <<"index", a, b, scale>>
Mod(a, m) == <<"mod", a, m>>
Div(a, d) == <<"div", a, d>>
Alu(a, b, uop) == <<"alu", a, b, uop>>
Load(index, leaf) == <<"load", index, leaf>>
Store(index, value) == <<"store", index, value>>
Mask(cond, value) == <<"mask", cond, value>>
Loop(n) == <<"range", n>>
EndLoop(loop, body) == <<"endrange", loop, body>>
AccInit(n) == <<"acc_init", n>>
Acc(acc, value, reduce) == <<"acc", acc, value, reduce>>
Sink(t) == <<"sink", t>>

Operands(t) ==
    CASE t[1] \in {"index", "alu", "store", "mask", "endrange", "acc"} -> {2, 3}
      [] t[1] \in {"mod", "div", "load", "sink"} -> {2}
      [] OTHER -> {}

Greater(a, b) == Alu(a, b, "cmp")
And(a, b) ==
    IF IsOne(a) THEN b ELSE IF IsOne(b) THEN a
    ELSE IF IsZero(a) \/ IsZero(b) THEN Const(0) ELSE Alu(a, b, "mul")

masked_load(access, leaf) ==
    IF IsOne(access.mask) THEN Load(access.index, leaf) ELSE Mask(access.mask, Load(access.index, leaf))

\* One rewriting of a term whose operands are rewritten already.
Rewritten(t) ==
    LET a == t[2]
        b == t[3]
    IN  CASE t[1] = "index" ->
               IF t[4] = 0 \/ (t[4] = 1 /\ IsZero(a)) THEN b
               ELSE IF t[4] = 1 /\ IsZero(b) THEN a
               ELSE IF IsConst(a) /\ IsConst(b) THEN Const(Word(a[2] * t[4] + b[2])) ELSE t
          [] t[1] = "mod" -> IF b <= 1 THEN Const(0) ELSE IF IsConst(a) THEN Const(a[2] % b) ELSE t
          [] t[1] = "div" -> IF b <= 1 THEN a ELSE IF IsConst(a) THEN Const(a[2] \div b) ELSE t
          [] t[1] = "alu" ->
               IF IsConst(a) /\ IsConst(b) THEN Const(eval_uop(t[4], a[2], b[2]))
               ELSE IF (t[4] \in {"add", "sub"} /\ IsZero(b)) \/ (t[4] = "mul" /\ IsOne(b)) THEN a
               ELSE IF t[4] = "mul" /\ IsZero(b) THEN Const(0)
               ELSE IF t[4] \in Unary /\ IsConst(a) THEN Const(eval_uop(t[4], a[2], 0)) ELSE t
          [] t[1] = "mask" -> IF ~IsConst(a) THEN t ELSE IF IsZero(a) THEN Const(0) ELSE b
          [] OTHER -> t

\* Rewriting from the leaves up leaves nothing to rewrite, so that the code's further passes
\* change nothing.
RECURSIVE normalize_term(_)
normalize_term(t) ==
    Rewritten([i \in DOMAIN t |-> IF i \in Operands(t) THEN normalize_term(t[i]) ELSE t[i]])

-----------------------------------------------------------------------------
\* Where a leaf is read, as terms over the coordinates of the iteration space:
\* [ok, index, mask].

NoAccess == [ok |-> FALSE]

Scaled(coord, stride) == IF stride = 1 THEN coord ELSE Index(coord, Const(0), stride)
FlatTerm(dims, coords) ==
    FoldLeft(LAMBDA t, i : Index(t, Scaled(coords[i], Inner(dims, i)), 1), Const(0), [i \in DOMAIN dims |-> i])

\* Coordinate c of a dimension against the mask's bounds there.
Within(mask, c, lo, hi, dim) ==
    LET low == IF lo > 0 THEN And(mask, Greater(c, Const(lo - 1))) ELSE mask
    IN  IF hi < dim THEN And(low, Greater(Const(hi), c)) ELSE low

simple_mask(v, coords) ==
    FoldLeft(LAMBDA m, i : Within(m, coords[i], v.mask[i][1], v.mask[i][2], v.dims[i]), Const(1),
             [i \in DOMAIN v.mask |-> i])

\* Coordinates index the view if they agree with its shape; otherwise the place in the
\* iteration space is taken apart by the view's dimensions, innermost first.
view_index(v, coords, full) ==
    LET agrees == /\ Len(v.dims) = Len(full)
                  /\ \A i \in DOMAIN full : v.dims[i] = full[i] \/ v.strides[i] = 0 \/ v.dims[i] = 1
        wide == SelectSeq([i \in DOMAIN full |-> i], LAMBDA i : v.strides[i] # 0 /\ v.dims[i] # 1)
        flat == FlatTerm(full, coords)
        part(i) == Mod(IF Inner(v.dims, i) = 1 THEN flat ELSE Div(flat, Inner(v.dims, i)), v.dims[i])
        strided == SelectSeq(Reverse([i \in DOMAIN v.dims |-> i]), LAMBDA i : v.strides[i] # 0)
        Sum(along, coord(_)) ==
            FoldLeft(LAMBDA t, i : Index(t, Scaled(coord(i), v.strides[i]), 1), Const(Word(v.offset)), along)
    IN  IF \E i \in DOMAIN v.strides : v.strides[i] < 0 THEN NoAccess
        ELSE [ok |-> TRUE, mask |-> simple_mask(v, coords),
              index |-> IF agrees THEN Sum(wide, LAMBDA i : coords[i]) ELSE Sum(strided, part)]

\* Through a stack of views: the place in the outer view is taken apart by its
\* dimensions, and the coordinates are used with the inner view's strides and mask.
tracker_index(st, coords, full) ==
    LET Through(acc, i) ==
            LET inner == st[i]
                outer == st[i + 1]
                dims == outer.dims
                part(d) == Mod(IF Inner(dims, d) = 1 THEN acc.index ELSE Div(acc.index, Inner(dims, d)), dims[d])
                wide == SelectSeq(Reverse([d \in DOMAIN dims |-> d]), LAMBDA d : dims[d] > 1 /\ d <= Len(inner.dims))
                strided == SelectSeq(wide, LAMBDA d : inner.strides[d] # 0)
            IN  [ok |-> acc.ok /\ \A d \in ToSet(wide) : inner.strides[d] >= 0,
                 index |-> FoldLeft(LAMBDA t, d : Index(t, Scaled(part(d), inner.strides[d]), 1),
                                    Const(Word(inner.offset)), strided),
                 mask |-> IF inner.mask = << >> THEN acc.mask
                          ELSE FoldLeft(LAMBDA m, d : Within(m, part(d), inner.mask[d][1], inner.mask[d][2],
                                                             inner.dims[d]), acc.mask, wide)]
    IN  FoldLeft(Through, [ok |-> TRUE, index |-> FlatTerm(full, coords), mask |-> Const(1)],
                 Reverse([i \in 1 .. Len(st) - 1 |-> i]))

Slip_leaf_access(leaf, coords, full) == view_index([leaf.view EXCEPT !.offset = 0], coords, full)
leaf_access(leaf, coords, full) ==
    IF Len(leaf.st) >= 2 THEN tracker_index(leaf.st, coords, full) ELSE view_index(leaf.view, coords, full)

-----------------------------------------------------------------------------
\* The program: instructions [type, a, b, imm, of], in the order in which terms are met.
\* An instruction is used again for the same term, `of', unless that is a constant.

Pure == {"gid", "range", "load", "alu", "acc_init", "index", "mod", "div", "mask"}
Memoized(t) == t[1] \in Pure \ {"gid"}
Emitted(code, t) == {i \in DOMAIN code : Memoized(t) /\ code[i].of = t}

Instruction(type, a, b, imm, of) == [type |-> type, a |-> a, b |-> b, imm |-> imm, of |-> of]
Emit(code, instruction) == [code |-> Append(code, instruction), at |-> Len(code) + 1]

\* The accumulator comes before the loop, and what is accumulated inside it.
RECURSIVE emit_term(_, _)
emit_term(code, t) ==
    LET a == emit_term(code, t[2])
        b == emit_term(a.code, t[3])
        Make(after, x, y, imm) == Emit(after, Instruction(t[1], x, y, imm, t))
        acc == emit_term(code, t[3][2])
        loop == emit_term(acc.code, t[2])
        value == emit_term(loop.code, t[3][3])
        added == Emit(value.code, Instruction("acc", acc.at, value.at, t[3][4], << >>))
    IN  IF Emitted(code, t) # {} THEN [code |-> code, at |-> Min(Emitted(code, t))]
        ELSE CASE t[1] \in {"const", "acc_init", "range"} -> Make(code, 0, 0, t[2])
               [] t[1] = "gid" -> Make(code, 0, 0, 0)
               [] t[1] = "index" -> Make(b.code, a.at, b.at, t[4])
               [] t[1] \in {"mod", "div", "load"} -> Make(a.code, a.at, 0, t[3])
               [] t[1] = "mask" -> Make(b.code, a.at, b.at, 0)
               [] t[1] = "alu" -> Make(b.code, a.at, b.at, t[4])
               [] t[1] = "store" -> [Make(b.code, a.at, b.at, 0) EXCEPT !.at = b.at]
               [] t[1] = "sink" -> a
               [] t[1] = "endrange" ->
                    [Emit(added.code, Instruction("endrange", loop.at, 0, 0, << >>)) EXCEPT !.at = acc.at]

\* The coordinates along the dimensions in `along', taken from a counter innermost first.
CoordsFrom(counter, dims, along) ==
    LET Take(acc, i) ==
            IF i \notin along \/ dims[i] = 1 THEN acc
            ELSE [rem |-> Div(acc.rem, dims[i]), coords |-> [acc.coords EXCEPT ![i] = Mod(acc.rem, dims[i])]]
    IN  FoldLeft(Take, [rem |-> counter, coords |-> [i \in DOMAIN dims |-> Const(0)]],
                 Reverse([i \in DOMAIN dims |-> i])).coords

\* Values of leaves, then of operations.
Results(k, leaves) == FoldLeft(LAMBDA vals, o : Append(vals, Alu(vals[o.a], vals[o.b], o.uop)), leaves, k.ops)
Result(k, vals) == IF k.ops = << >> THEN vals[1] ELSE Last(vals)

NoProgram == << >>

lower_kernel_uop(k) ==
    LET kept == DOMAIN k.full \ k.axes
        loop == Loop(Size(ReducedDims(k)))
        outer == CoordsFrom(GlobalId, k.full, kept)
        inner == CoordsFrom(loop, k.full, k.axes)
        coords == [i \in DOMAIN k.full |-> IF i \in k.axes THEN inner[i] ELSE outer[i]]
        access == [i \in DOMAIN k.leaves |-> leaf_access(k.leaves[i], coords, k.full)]
        vals == Results(k, [i \in DOMAIN k.leaves |-> masked_load(access[i], i)])
        body == IF k.reduce = "none" THEN Result(k, vals)
                ELSE EndLoop(loop, Acc(AccInit(Start(k.reduce)), Result(k, vals), k.reduce))
        code == emit_term(<< >>, normalize_term(Sink(Store(Index(GlobalId, Const(0), 1), body)))).code
    IN  IF \E i \in DOMAIN access : ~access[i].ok THEN NoProgram
        ELSE IF Len(code) > MaxProgram THEN NoProgram ELSE code

-----------------------------------------------------------------------------
\* The interpreter.  State: the value of each instruction, the output, and whether an
\* index went astray.

Inside(buf, i) == i \in DOMAIN buf
Fetch(buf, i) == IF Inside(buf, i) THEN buf[i] ELSE Junk

\* The end of the loop that begins at i.
LoopEnd(code, i) == CHOOSE e \in DOMAIN code : code[e].type = "endrange" /\ code[e].a = i

ExecOne(s, i, o, gid, bufs) ==
    LET a == s.val[o.a]
        b == s.val[o.b]
        Gives(n) == [s EXCEPT !.val[i] = n]
    IN  CASE o.type = "gid" -> Gives(gid)
          [] o.type \in {"const", "acc_init"} -> Gives(o.imm)
          [] o.type = "mod" -> Gives(a % o.imm)
          [] o.type = "div" -> Gives(a \div o.imm)
          [] o.type = "index" -> Gives(Word(a * o.imm + b))
          [] o.type = "load" ->
               [Gives(Fetch(bufs[o.imm], a)) EXCEPT !.stray = @ \/ ~Inside(bufs[o.imm], a)]
          [] o.type = "mask" -> Gives(IF a # 0 THEN b ELSE 0)
          [] o.type = "alu" -> Gives(eval_uop(o.imm, a, b))
          [] o.type = "acc" -> [s EXCEPT !.val[o.a] = Accumulate(o.imm, a, b)]
          [] o.type = "store" ->
               IF Inside(s.out, a) THEN [s EXCEPT !.out[a] = b] ELSE [s EXCEPT !.stray = TRUE]

RECURSIVE exec_block(_, _, _, _, _, _)
exec_block(code, i, stop, s, gid, bufs) ==
    LET end == LoopEnd(code, i)
        Turn(t, r) == exec_block(code, i + 1, end, [t EXCEPT !.val[i] = r], gid, bufs)
    IN  IF i >= stop THEN s
        ELSE IF code[i].type = "range"
        THEN exec_block(code, end + 1, stop, FoldLeft(Turn, s, [r \in 1 .. code[i].imm |-> r - 1]), gid, bufs)
        ELSE exec_block(code, i + 1, stop, ExecOne(s, i, code[i], gid, bufs), gid, bufs)

\* Each element starts with all values zero.
dispatch_uop_kernel(k, code, out, bufs) ==
    LET One(s, gid) ==
            exec_block(code, 1, Len(code) + 1, [s EXCEPT !.val = [i \in DOMAIN code |-> 0]], gid, bufs)
        end == FoldLeft(One, [val |-> << >>, out |-> out, stray |-> FALSE],
                        [n \in 1 .. OutSize(k) |-> n - 1])
    IN  [out |-> end.out, stray |-> end.stray]

-----------------------------------------------------------------------------
\* Without lowering: a leaf is read at the coordinates of the iteration space.  An index
\* below zero reads as zero: what is given back is a place, or Padding.

Padding == -1
OutOf(v, c) == \E i \in DOMAIN v.mask \cap DOMAIN c : c[i] < v.mask[i][1] \/ c[i] >= v.mask[i][2]

leaf_place(v, coords) ==
    LET c == [i \in 1 .. Min({Len(coords), Len(v.dims)}) |-> coords[i] % v.dims[i]]
    IN  IF OutOf(v, coords) THEN Padding
        ELSE Max({Padding, v.offset + Total([i \in DOMAIN c |-> c[i] * v.strides[i]])})

leaf_place_st(st, coords, full) ==
    LET Through(place, i) ==
            LET inner == st[i]
                c == Coords(inner.dims, Flat(st[i + 1].dims, Coords(st[i + 1].dims, place)))
            IN  IF place = Padding \/ OutOf(inner, c) THEN Padding
                ELSE Max({Padding, inner.offset + Total([d \in DOMAIN c |-> c[d] * inner.strides[d]])})
    IN  FoldLeft(Through, Flat(full, coords), Reverse([i \in 1 .. Len(st) - 1 |-> i]))

dispatch_kernel_rs(k, out, bufs) ==
    LET place(i, c) == IF Len(k.leaves[i].st) >= 2 THEN leaf_place_st(k.leaves[i].st, c, k.full)
                       ELSE leaf_place(k.leaves[i].view, c)
        read(i, c) == IF place(i, c) = Padding THEN 0 ELSE Fetch(bufs[i], place(i, c))
        vals(c) == FoldLeft(LAMBDA vs, o : Append(vs, eval_uop(o.uop, vs[o.a], vs[o.b])),
                            [i \in DOMAIN k.leaves |-> read(i, c)], k.ops)
        astray(c) == \E i \in DOMAIN k.leaves : place(i, c) # Padding /\ ~Inside(bufs[i], place(i, c))
        at(c) == Flat(Kept(k), [i \in DOMAIN c |-> IF i \in k.axes THEN 0 ELSE c[i]])
        One(s, n) ==
            LET c == Coords(k.full, n)
                r == Result(k, vals(c))
            IN  IF astray(c) \/ ~Inside(s.out, at(c)) THEN [s EXCEPT !.stray = TRUE]
                ELSE [s EXCEPT !.out[at(c)] = IF k.reduce = "none" THEN r ELSE Accumulate(k.reduce, @, r)]
        begin == IF k.reduce = "none" THEN out
                 ELSE [i \in DOMAIN out |-> IF i < OutSize(k) THEN Start(k.reduce) ELSE out[i]]
    IN  FoldLeft(One, [out |-> begin, stray |-> FALSE], [n \in 1 .. Size(k.full) |-> n - 1])
=============================================================================
