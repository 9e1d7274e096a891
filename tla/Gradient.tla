------------------------------ MODULE Gradient ------------------------------
(***************************************************************************)
(* Differentiation of tensor expressions by the reducer (wnf/_.c): GRAD    *)
(* (reverse mode), GRAD_FWD (forward mode) and GRAD_PIN (the value of what *)
(* is differentiated, beside its gradient).                                *)
(*                                                                         *)
(* A GRAD and its PIN are two views of one heap cell [body, target]; a     *)
(* cell whose body carries the SUB bit has been resolved, and holds the    *)
(* gradient where the target was.  Nodes are those of TensorGraph, and:    *)
(*    cell   src = <<body, target or gradient>>, par = the SUB bit         *)
(*    grad, fwd, pin   src = <<cell>>                                      *)
(*    full   a new tensor, filled with par                                 *)
(*    era    zero, where it was made an operand                            *)
(*    where  src = <<condition, then, else>>, without a tracker            *)
(*    junk   what is made of a cotangent that was never set (the term 0    *)
(*           with which the reverse rules start)                           *)
(*                                                                         *)
(* The reducer is a machine with a stack of frames: it enters a term, and  *)
(* applies the frames to what it finds.  A frame is [kind, node, held]:    *)
(*    fwd, vjp       differentiate what comes back (WNF_F_GRAD, _VJP;      *)
(*                   held is the cotangent of the latter)                  *)
(*    first, second  what comes back is the derivative of the first, or    *)
(*                   the last, operand of node (..._PHASE1; ..._PHASE2 and *)
(*                   ..._POST); held is what the first contributes         *)
(*    bin1, bin2     the same for the reverse rules; node is what is next  *)
(*                                                                         *)
(* A definition Slip_X is a plausible mistake in X.                        *)
(***************************************************************************)
EXTENDS Calculus

CONSTANTS
    Target,        \* the tensor that is differentiated by
    Numbers,       \* numbers used as operands
    Calls,         \* what may be a program's first operation, its second, ... (sets)
    MaxSize,       \* bound on the elements of a tensor
    Asks,          \* sequences of "fwd" and "rev": what programs ask for, in order
    Asked(_, _, _) \* which programs: the expression's heap, its operations, what is asked

VARIABLES
    heap,
    hand,          \* the nodes that the caller holds
    calls,
    asks,          \* what is left to ask for
    y,             \* what is differentiated, or Era while it is built
    truth,         \* what the gradients of y should be, and y
    root,          \* the term the caller asked for, replaced by what it reduces to
    place,         \* the operand that is being reduced: [node, i], i = 0 for root
    phase,         \* "build", "rest", "enter" or "apply"
    focus,         \* the term that is entered, or has come back
    stack,         \* frames, the last is the top
    slot,          \* cell of the GRAD entered last (g_wnf_current_grad_slot)
    cell,          \* cell of the GRAD the caller asked for last
    asked          \* the kind of that GRAD

machine == <<place, phase, focus, stack, slot>>
request == <<asks, y, truth, root, cell, asked>>
vars == <<heap, hand, calls, request, machine>>

Era == 0
Nowhere == [node |-> 0, i |-> 0]
X == Target    \* tensor i is node i

Init ==
    /\ heap = [i \in DOMAIN Inputs |->
                  [op |-> "ten", src |-> << >>, par |-> i, st |-> st_from_view(view_create(Inputs[i].dims))]]
    /\ asks \in Asks
    /\ hand = << >> /\ calls = 0 /\ y = Era /\ truth = << >> /\ root = Era
    /\ place = Nowhere /\ phase = "build" /\ focus = Era /\ stack = << >> /\ slot = 0 /\ cell = 0 /\ asked = "none"

-----------------------------------------------------------------------------
\* Heap operations.  Each gives [heap, id].

At(h, id) == [heap |-> h, id |-> id]
Put(h, node) == At(Append(h, node), Len(h) + 1)
Node(op, src, par, st) == [op |-> op, src |-> src, par |-> par, st |-> st]

ten(h, n, dims) == Put(h, Node("full", << >>, n, st_from_view(view_create(dims))))
num(h, n) == Put(h, Node("num", << >>, n, << >>))
thvm_where(h, c, a, b) == Put(h, Node("where", <<c, a, b>>, << >>, << >>))

\* A cell, and its two views.
CellNode(body, st) == Node("cell", <<body, X>>, FALSE, st)
Cell(body) == CellNode(body, heap[X].st)
Seen(op, c) == Node(op, <<c>>, << >>, heap[X].st)
Slip_Resolved(h, c, body, result) == [h EXCEPT ![c].src = <<result, result>>, ![c].par = TRUE]
Resolved(h, c, body, result) == [h EXCEPT ![c].src = <<body, result>>, ![c].par = TRUE]

-----------------------------------------------------------------------------
\* Terms to be made: an operation on terms to be made; a Ref is a node there is, or zero.

Expr(op, src, par) == [op |-> op, src |-> src, par |-> par]
Ref(t) == Expr("ref", << >>, t)
Num(n) == Expr("num", << >>, n)
Uop(op, src) == Expr(op, src, << >>)
Gone == Ref(Era)
IsGone(e) == e.op = "ref" /\ e.par = Era

mk_add(a, b) == IF IsGone(a) THEN b ELSE IF IsGone(b) THEN a ELSE Uop("add", <<a, b>>)
mk_neg(a) == IF IsGone(a) THEN Gone ELSE Uop("neg", <<a>>)
mk_sub(a, b) == IF IsGone(a) THEN Uop("neg", <<b>>) ELSE IF IsGone(b) THEN a ELSE Uop("sub", <<a, b>>)
mk_mul(a, b) == IF IsGone(a) \/ IsGone(b) THEN Gone ELSE Uop("mul", <<a, b>>)

\* Operands are made first; zero as an operand is a node.
Standing(m) == IF m.id = Era THEN Put(m.heap, Node("era", << >>, << >>, << >>)) ELSE m
Apply(m, op, par) ==
    CASE op \in {"num", "where"} -> Put(m.heap, Node(op, m.src, par, << >>))
      [] op = "reshape" -> thvm_reshape(m.heap, m.src[1], par)
      [] op = "permute" -> thvm_permute(m.heap, m.src[1], par)
      [] op = "expand" -> thvm_expand(m.heap, m.src[1], par)
      [] OTHER -> thvm_op(m.heap, op, m.src, par)
RECURSIVE Construct(_, _)
Construct(h, e) ==
    LET operand(acc, x) == For({Construct(acc.heap, x)}, LAMBDA m : With(acc, Standing(m)))
        operands == Threaded(operand, h, e.src)
    IN  IF e.op = "ref" THEN At(h, e.par) ELSE For({operands}, LAMBDA m : Apply(m, e.op, e.par))

-----------------------------------------------------------------------------
\* Building, as on a stack.

Building == phase = "build"
Held == Last(hand)
Other == hand[Len(hand) - 1]
HasTensor == hand # << >> /\ Tracked(heap, Held)
Dims == View(heap, Held).dims

Fetches(i) ==
    /\ Building /\ Len(hand) < 2
    /\ hand' = Append(hand, i)
    /\ UNCHANGED <<heap, calls, request, machine>>

Repeats ==
    /\ Building /\ Len(hand) = 1 /\ calls > 0
    /\ hand' = Append(hand, Held)
    /\ UNCHANGED <<heap, calls, request, machine>>

Names(n) ==
    /\ Building /\ Len(hand) < 2
    /\ \E made \in {num(heap, n)} : heap' = made.heap /\ hand' = Append(hand, made.id)
    /\ UNCHANGED <<calls, request, machine>>

Becomes(n, made) ==
    /\ Building
    /\ Asked(made.heap, calls + 1, asks)
    /\ Tracked(made.heap, made.id) => Size(View(made.heap, made.id).dims) \in 1 .. MaxSize
    /\ heap' = made.heap
    /\ hand' = Append(SubSeq(hand, 1, Len(hand) - n), made.id)
    /\ calls' = calls + 1
    /\ UNCHANGED <<request, machine>>

Applies1(op) == hand # << >> /\ heap[Held].op # "num" /\ Becomes(1, thvm_op(heap, op, <<Held>>, << >>))
Applies2(op) ==
    /\ Len(hand) = 2 /\ \E t \in ToSet(hand) : Tracked(heap, t)
    /\ \A t \in ToSet(hand) : Tracked(heap, t) \/ heap[t].op = "num"
    /\ (\A t \in ToSet(hand) : Tracked(heap, t)) => Fits(View(heap, Other), View(heap, Held))
    /\ Becomes(2, thvm_op(heap, op, hand, << >>))
\* A choice between two values, by the sign of the first.
Chooses ==
    /\ Len(hand) = 2 /\ \A t \in ToSet(hand) : Tracked(heap, t)
    /\ View(heap, Other).dims = Dims
    /\ \E cond \in {thvm_op(heap, "relu", <<Other>>, << >>)} : Becomes(2, thvm_where(cond.heap, cond.id, Other, Held))
Reduces(op, axes) ==
    /\ HasTensor /\ \A i \in ToSet(axes) : i \in DOMAIN Dims /\ Dims[i] > 1
    /\ Becomes(1, thvm_op(heap, op, <<Held>>, axes))
Reshapes(dims) == HasTensor /\ Size(dims) = Size(Dims) /\ dims # Dims /\ Becomes(1, thvm_reshape(heap, Held, dims))
Permutes(axes) == HasTensor /\ Len(axes) = Len(Dims) /\ Becomes(1, thvm_permute(heap, Held, axes))
Expands(dims) ==
    /\ HasTensor /\ Len(dims) = Len(Dims) /\ dims # Dims /\ \A i \in DOMAIN dims : Dims[i] \in {1, dims[i]}
    /\ Becomes(1, thvm_expand(heap, Held, dims))
Shrinks(pair) ==
    /\ HasTensor /\ Dims[1] = 2
    /\ Becomes(1, thvm_shrink(heap, Held, [i \in DOMAIN Dims |-> IF i = 1 THEN pair ELSE <<0, Dims[i]>>]))
Pads(pair) ==
    /\ HasTensor
    /\ Becomes(1, thvm_pad(heap, Held, [i \in DOMAIN Dims |-> IF i = 1 THEN pair ELSE <<0, 0>>]))

Offered == IF calls < Len(Calls) THEN Calls[calls + 1] ELSE {}
Build ==
    \/ \E i \in DOMAIN Inputs : Fetches(i)
    \/ Repeats
    \/ \E n \in Numbers : Names(n)
    \/ \E op \in Unary \cap Offered : Applies1(op)
    \/ \E op \in Binary \cap Offered : Applies2(op)
    \/ "where" \in Offered /\ Chooses
    \/ \E op \in Reductions \cap Offered, axes \in {<<1>>, <<2>>} : Reduces(op, axes)
    \/ "reshape" \in Offered /\ \E dims \in {<<1, 2>>, <<2, 1>>, <<4>>} : Reshapes(dims)
    \/ "permute" \in Offered /\ Permutes(<<2, 1>>)
    \/ "expand" \in Offered /\ Expands(<<2, 2>>)
    \/ "shrink" \in Offered /\ \E pair \in {<<0, 1>>, <<1, 2>>} : Shrinks(pair)
    \/ "pad" \in Offered /\ Pads(<<1, 0>>)

-----------------------------------------------------------------------------
\* What is asked.

RECURSIVE Within(_, _)
Within(h, t) == {t} \cup UNION {Within(h, s) : s \in ToSet(h[t].src)}

\* A reverse gradient is promised for products of tensors of the target's shape, which may
\* be summed in the end; a forward one, unless a maximum over an axis is involved.
IsProduct(h, t) ==
    \A s \in Within(h, t) :
        /\ h[s].op \in {"ten", "num", "mul", "cmp", "sum"}
        /\ h[s].op = "sum" => s = t
        /\ h[s].op \in {"ten", "mul", "cmp"} => View(h, s).dims = View(h, X).dims
HasPeak(h, t) == \E s \in Within(h, t) : h[s].op = "rmax"

Hands ==
    /\ Building /\ calls > 0 /\ Len(hand) = 1
    /\ y' = Held /\ phase' = "rest"
    /\ truth' = [value |-> Meaning(heap, Held), fwd |-> ForwardGradient(heap, Held, Target),
                 rev |-> IF "rev" \in ToSet(asks) THEN ReverseGradient(heap, Held, Target) ELSE << >>,
                 product |-> IsProduct(heap, Held), peak |-> HasPeak(heap, Held)]
    /\ UNCHANGED <<heap, hand, calls, asks, root, cell, asked, place, focus, stack, slot>>

\* Operands of what the caller has that are gradients still to be reduced.  Inside the value
\* of a PIN there are none.
RECURSIVE Reach(_, _)
Reach(h, t) ==
    {t} \cup (IF h[t].op = "pin" THEN {}
              ELSE IF h[t].op = "grad" THEN (IF h[h[t].src[1]].par THEN Reach(h, h[h[t].src[1]].src[2]) ELSE {})
              ELSE UNION {Reach(h, s) : s \in ToSet(h[t].src)})
Unresolved(h, t) == h[t].op = "grad" /\ ~h[h[t].src[1]].par
Pending == IF root = Era THEN {}
           ELSE {p \in [node : Reach(heap, root), i : 1 .. 3] :
                    p.i \in DOMAIN heap[p.node].src /\ Unresolved(heap, heap[p.node].src[p.i])}

Resting == phase = "rest" /\ Pending = {}

\* thvm_grad_split, thvm_grad_fwd: a cell, and a view of it, which is reduced.
thvm_grad(kind) ==
    LET c == Len(heap) + 1
    IN  IF kind = "rev" THEN heap \o <<Cell(y), Seen("grad", c)>>
        ELSE heap \o <<CellNode(y, heap[y].st), Node("fwd", <<c>>, << >>, heap[y].st)>>
Requests ==
    /\ Resting /\ asks # << >>
    /\ asks' = Tail(asks) /\ asked' = Head(asks)
    /\ heap' = thvm_grad(Head(asks))
    /\ cell' = Len(heap) + 1 /\ root' = Len(heap) + 2 /\ focus' = Len(heap) + 2
    /\ place' = Nowhere /\ phase' = "enter" /\ slot' = 0
    /\ UNCHANGED <<hand, calls, y, truth, stack>>

Resumes ==
    /\ phase = "rest" /\ \E p \in Pending : place' = p /\ focus' = heap[p.node].src[p.i]
    /\ phase' = "enter" /\ slot' = 0
    /\ UNCHANGED <<heap, hand, calls, request, stack>>

-----------------------------------------------------------------------------
\* Entering a term.  Operations on tensors are not reduced here.

Frame(kind, node, held) == [kind |-> kind, node |-> node, held |-> held]
Unset == -1
Op == heap[focus].op

EntersPin ==
    /\ phase = "enter" /\ Op = "pin"
    /\ focus' = heap[heap[focus].src[1]].src[1]
    /\ UNCHANGED <<heap, hand, calls, request, place, phase, stack, slot>>

EntersGradient ==
    /\ phase = "enter" /\ Op \in {"grad", "fwd"}
    /\ LET c == heap[focus].src[1]
       IN  IF heap[c].par
           THEN focus' = heap[c].src[2] /\ phase' = "apply" /\ UNCHANGED <<stack, slot>>
           ELSE /\ focus' = heap[c].src[1] /\ slot' = c
                /\ stack' = Append(stack, IF Op = "fwd" THEN Frame("fwd", 0, 0) ELSE Frame("vjp", 0, Unset))
                /\ UNCHANGED phase
    /\ UNCHANGED <<heap, hand, calls, request, place>>

EntersValue ==
    /\ phase = "enter" /\ Op \notin {"pin", "grad", "fwd"}
    /\ phase' = "apply"
    /\ UNCHANGED <<heap, hand, calls, request, place, focus, stack, slot>>

-----------------------------------------------------------------------------
\* Applying frames, in forward mode.

Top == Last(stack)
Applying(kind) == phase = "apply" /\ stack # << >> /\ Top.kind = kind
Pops(frames) == stack' = Front(stack) \o frames

Leaves == {"ten", "full", "num"}
IsLeaf == focus = Era \/ Op \in Leaves
Pairs == {"add", "sub", "mul", "div", "max", "where"}
Slip_Singles == Unary \cup (Movements \ {"permute"}) \cup {"sum"}
Singles == Unary \cup Movements \cup {"sum"}
Operands(t) == IF heap[t].op = "where" THEN Tail(heap[t].src) ELSE heap[t].src

Answers(m) == heap' = m.heap /\ focus' = m.id /\ UNCHANGED phase
Descends(t) == focus' = t /\ phase' = "enter"

ForwardLeaf ==
    /\ Applying("fwd") /\ IsLeaf
    /\ Answers(IF focus = X THEN ten(heap, 1, View(heap, X).dims) ELSE At(heap, Era))
    /\ Pops(<< >>)
    /\ UNCHANGED <<hand, calls, request, place, slot>>

ForwardFlat ==
    /\ Applying("fwd") /\ ~IsLeaf /\ Op = "cmp"
    /\ focus' = Era /\ Pops(<< >>)
    /\ UNCHANGED <<heap, hand, calls, request, place, phase, slot>>

ForwardPair ==
    /\ Applying("fwd") /\ ~IsLeaf /\ Op \in Pairs
    /\ Pops(<<Frame("first", focus, Era), Frame("fwd", 0, 0)>>)
    /\ Descends(Operands(focus)[1])
    /\ UNCHANGED <<heap, hand, calls, request, place, slot>>

ForwardSingle ==
    /\ Applying("fwd") /\ ~IsLeaf /\ Op \in Singles
    /\ Pops(<<Frame("second", focus, Era), Frame("fwd", 0, 0)>>)
    /\ Descends(heap[focus].src[1])
    /\ UNCHANGED <<heap, hand, calls, request, place, slot>>

\* The mask of the elements that attain the maximum is made before the descent.
Mask(h, a, axes) ==
    Uop("sub", <<Num(1), Uop("cmp", <<Expr("expand", <<Expr("rmax", <<Ref(a)>>, axes)>>, View(h, a).dims), Ref(a)>>)>>)
ForwardPeak ==
    /\ Applying("fwd") /\ ~IsLeaf /\ Op = "rmax"
    /\ \E mask \in {Construct(heap, Mask(heap, heap[focus].src[1], heap[focus].par))} :
          heap' = mask.heap /\ Pops(<<Frame("second", focus, mask.id), Frame("fwd", 0, 0)>>)
    /\ Descends(heap[focus].src[1])
    /\ UNCHANGED <<hand, calls, request, place, slot>>

\* What the first operand contributes is kept while the second is differentiated.
Slip_Contribution(op, a, b, da) == mk_mul(b, da)
Contribution(op, a, b, da) ==
    CASE op = "mul" -> mk_mul(b, da)
      [] op = "div" -> mk_mul(da, b)
      [] OTHER -> da
FirstDone ==
    /\ Applying("first")
    /\ LET ab == Operands(Top.node)
       IN  /\ \E e \in {Contribution(heap[Top.node].op, Ref(ab[1]), Ref(ab[2]), Ref(focus))} : \E l \in {Construct(heap, e)} :
                 heap' = l.heap /\ Pops(<<Frame("second", Top.node, l.id), Frame("fwd", 0, 0)>>)
           /\ Descends(ab[2])
    /\ UNCHANGED <<hand, calls, request, place, slot>>

\* (l - a * db) / (b * b)
Quotient(n, b) == IF IsGone(n) THEN Gone ELSE Uop("div", <<n, Uop("mul", <<b, b>>)>>)

\* da where a > b, db elsewhere.
Larger(a, b, da, db) ==
    LET mask == Uop("cmp", <<a, b>>)
    IN  mk_add(mk_mul(da, mask), mk_mul(db, Uop("sub", <<Num(1), mask>>)))

\* A branch that does not depend on the target is the number 0, expanded.
Zeroed(d) == IF IsGone(d) THEN Expr("expand", <<Num(0)>>, <<1>>) ELSE d
Branches(c, da, db) == IF IsGone(da) /\ IsGone(db) THEN Gone ELSE Uop("where", <<c, Zeroed(da), Zeroed(db)>>)

\* The derivative of node t of two operands, of which the first contributes l.
CombinedPair(t, a, b, l, db) ==
    LET op == heap[t].op
    IN  CASE op = "add" -> mk_add(l, db)
          [] op = "sub" -> mk_sub(l, db)
          [] op = "mul" -> mk_add(l, mk_mul(a, db))
          [] op = "div" -> Quotient(mk_sub(l, mk_mul(a, db)), b)
          [] op = "max" -> Larger(a, b, l, db)
          [] op = "where" -> Branches(Ref(heap[t].src[1]), l, db)

\* The derivative of node t of one operand, whose derivative da is not zero.
CombinedSingle(t, a, mask, da) ==
    LET op == heap[t].op
        par == heap[t].par
    IN  CASE op = "neg" -> mk_neg(da)
          [] op = "exp" -> mk_mul(Ref(t), da)
          [] op = "log" -> Uop("div", <<da, a>>)
          [] op = "sqrt" -> Uop("div", <<da, Uop("mul", <<Num(2), Ref(t)>>)>>)
          [] op = "relu" -> Uop("mul", <<da, Uop("cmp", <<a, Num(0)>>)>>)
          [] op \in {"reshape", "expand"} -> Expr(op, <<da>>, View(heap, t).dims)
          [] op \in {"permute", "shrink", "pad", "sum"} -> Expr(op, <<da>>, par)
          [] op = "rmax" -> Uop("mul", <<da, mask>>)

Combined(t, held, d) ==
    LET ab == Operands(t)
    IN  IF heap[t].op \in Pairs THEN CombinedPair(t, Ref(ab[1]), Ref(ab[2]), Ref(held), Ref(d))
        ELSE IF d = Era THEN Gone ELSE CombinedSingle(t, Ref(ab[1]), Ref(held), Ref(d))
SecondDone ==
    /\ Applying("second")
    /\ \E e \in {Combined(Top.node, Top.held, focus)} : \E m \in {Construct(heap, e)} : Answers(m)
    /\ Pops(<< >>)
    /\ UNCHANGED <<hand, calls, request, place, slot>>

-----------------------------------------------------------------------------
\* Applying frames, in reverse mode.  The cotangent of a frame is never set by what enters
\* a GRAD, and most rules build the operands' cotangents from it all the same.

Junk == Node("junk", << >>, << >>, << >>)
Reads(k) == heap[focus].src[k]

\* The answer at the target is ones, and is left in the cell; elsewhere there is no change.
LeafGradient ==
    IF focus # X THEN At(heap, Era)
    ELSE IF Top.held = Unset THEN ten(heap, 1, View(heap, X).dims) ELSE At(heap, Top.held)
VjpTensor ==
    /\ Applying("vjp") /\ focus # Era /\ Op \in {"ten", "full"}
    /\ \E g \in {LeafGradient} : heap' = Resolved(g.heap, slot, focus, g.id) /\ focus' = g.id
    /\ slot' = 0 /\ Pops(<< >>)
    /\ UNCHANGED <<hand, calls, request, place, phase>>

VjpFlat ==
    /\ Applying("vjp") /\ (focus = Era \/ Op \in {"num", "cmp"})
    /\ focus' = Era /\ Pops(<< >>)
    /\ UNCHANGED <<heap, hand, calls, request, place, phase, slot>>

\* Both operands of a product get a cell; the product keeps their values, and its gradient
\* is a sum of products with the gradients that are still to be found.
Slip_Leibniz(a, b, grad_a, grad_b) == Uop("add", <<Uop("mul", <<grad_a, a>>), Uop("mul", <<b, grad_b>>)>>)
Leibniz(a, b, grad_a, grad_b) == Uop("add", <<Uop("mul", <<grad_a, b>>), Uop("mul", <<a, grad_b>>)>>)
\* From sa on: two cells, two pins, two gradients.
WithCells(a, b, sa) ==
    heap \o <<Cell(a), Cell(b), Seen("pin", sa), Seen("pin", sa + 1), Seen("grad", sa), Seen("grad", sa + 1)>>
Commuted(a, b, sa) ==
    For({WithCells(a, b, sa)}, LAMBDA h : Construct(h, Leibniz(Ref(a), Ref(b), Ref(sa + 4), Ref(sa + 5))))
VjpProduct ==
    /\ Applying("vjp") /\ focus # Era /\ Op = "mul"
    /\ LET sa == Len(heap) + 1
       IN  /\ \E m \in {Commuted(Reads(1), Reads(2), sa)} :
                 /\ heap' = Resolved([m.heap EXCEPT ![focus].src = <<sa + 2, sa + 3>>], slot, focus, m.id)
                 /\ focus' = m.id
           /\ slot' = sa
    /\ Pops(<< >>)
    /\ UNCHANGED <<hand, calls, request, place, phase>>

\* The gradient of a sum is repeated along the axes that were summed.
VjpSum ==
    /\ Applying("vjp") /\ focus # Era /\ Op = "sum"
    /\ LET inner == Len(heap) + 1
           seen == heap \o <<Cell(Reads(1)), Seen("pin", inner), Seen("grad", inner)>>
       IN  /\ \E m \in {For({seen}, LAMBDA h : thvm_expand(h, inner + 2, View(h, Reads(1)).dims))} :
                 /\ heap' = Resolved([m.heap EXCEPT ![focus].src = <<inner + 1>>], slot, focus, m.id)
                 /\ focus' = m.id
           /\ slot' = inner
    /\ Pops(<< >>)
    /\ UNCHANGED <<hand, calls, request, place, phase>>

\* The cell now reads as the operand.
VjpSingle ==
    /\ Applying("vjp") /\ focus # Era /\ Op \in (Unary \cup Movements \cup {"rmax"})
    /\ heap' = Append([heap EXCEPT ![slot].src[1] = Reads(1)], Junk)
    /\ Pops(<<Frame("vjp", 0, Len(heap) + 1)>>)
    /\ Descends(Reads(1))
    /\ UNCHANGED <<hand, calls, request, place, slot>>

VjpPair ==
    /\ Applying("vjp") /\ focus # Era /\ Op \in {"add", "sub", "div", "max"}
    /\ heap' = heap \o <<Cell(Reads(1)), Cell(Reads(2)), Junk>>
    /\ Pops(<<Frame("bin1", Reads(2), Era), Frame("vjp", 0, Len(heap) + 3)>>)
    /\ Descends(Reads(1))
    /\ UNCHANGED <<hand, calls, request, place, slot>>

\* The second operand is entered without a frame that would differentiate it.
Bin1 ==
    /\ Applying("bin1")
    /\ Pops(<<Frame("bin2", 0, focus)>>)
    /\ Descends(Top.node)
    /\ UNCHANGED <<heap, hand, calls, request, place, slot>>

Bin2 ==
    /\ Applying("bin2")
    /\ \E m \in {Construct(heap, mk_add(Ref(Top.held), Ref(focus)))} : Answers(m)
    /\ Pops(<< >>)
    /\ UNCHANGED <<hand, calls, request, place, slot>>

-----------------------------------------------------------------------------
\* No change at all is zeros of the target's shape.
Zeros == LET zero == ten(heap, 0, [i \in DOMAIN View(heap, X).dims |-> 1])
         IN  thvm_expand(zero.heap, zero.id, View(heap, X).dims)
Returned == IF focus = Era THEN Zeros ELSE At(heap, focus)
Returns ==
    /\ phase = "apply" /\ stack = << >>
    /\ \E m \in {Returned} :
          IF place = Nowhere THEN heap' = m.heap /\ root' = m.id
          ELSE heap' = [m.heap EXCEPT ![place.node].src[place.i] = m.id] /\ UNCHANGED root
    /\ phase' = "rest" /\ focus' = Era /\ slot' = 0 /\ place' = Nowhere
    /\ UNCHANGED <<hand, calls, asks, y, truth, cell, asked, stack>>

Reduce ==
    \/ EntersPin \/ EntersGradient \/ EntersValue
    \/ ForwardLeaf \/ ForwardFlat \/ ForwardPair \/ ForwardSingle \/ ForwardPeak
    \/ FirstDone \/ SecondDone
    \/ VjpTensor \/ VjpFlat \/ VjpProduct \/ VjpSum \/ VjpSingle \/ VjpPair \/ Bin1 \/ Bin2
    \/ Returns \/ Resumes

Next == Build \/ Hands \/ Requests \/ Reduce
Spec == Init /\ [][Next]_vars /\ WF_vars(Reduce)

-----------------------------------------------------------------------------
\* The caller has its answer.
Answered(kind) == Resting /\ asked = kind
Vanishes(t) == \A k \in DOMAIN t.vals : t.vals[k] = 0

\* No reverse rule has been applied that leaves a value changed.
Undisturbed == truth.product \/ \A i \in DOMAIN heap : heap[i].op # "grad"

\* The forward gradient is the change of y when every element of the target grows at the
\* same rate: each rule takes the derivatives of the operands, which may be zero, and what
\* it keeps between the two descents, as its operation requires (a zero answer has the
\* target's shape, not that of y).
ForwardRight ==
    Answered("fwd") /\ Undisturbed /\ ~truth.peak =>
        LET d == Meaning(heap, root) IN d = truth.fwd \/ (Vanishes(d) /\ Vanishes(truth.fwd))

\* The reverse gradient of a product, summed or not, is that of the sum of y: cells are
\* resolved one after the other, in any order, with operands that are shared between
\* factors and replaced by pins.
ReverseRight == Answered("rev") /\ truth.product => Meaning(heap, root) = truth.rev

\* The value of what is differentiated is never disturbed, although the rules put pins
\* into it and what pins read moves from cell to cell (wnf_grad_split: the pin is y).
ValueKept ==
    phase = "rest" /\ Undisturbed =>
        /\ Meaning(heap, y) = truth.value
        /\ cell # 0 => Meaning(heap, heap[cell].src[1]) = truth.value

\* Every gradient asked for is found: the reducer leaves no gradient unresolved.
Terminates == (phase = "enter") ~> Resting
=============================================================================
