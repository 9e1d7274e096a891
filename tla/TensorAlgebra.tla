--------------------------- MODULE TensorAlgebra ---------------------------
(***************************************************************************)
(* What tensor operations mean, on whole tensors and without views: the    *)
(* definitions the engine's results are compared with.  A tensor is        *)
(* [dims, vals], vals in row-major order from 0.                           *)
(***************************************************************************)
EXTENDS TensorGraph

Tensor(dims, elem(_)) == [dims |-> dims, vals |-> [k \in 0 .. Size(dims) - 1 |-> elem(Coords(dims, k))]]
Elem(t, c) == t.vals[Flat(t.dims, c)]

\* Operands are aligned at their last dimensions; a dimension of one element repeats it.
Aligned(t, c) == Elem(t, [i \in DOMAIN t.dims |-> c[i + Len(c) - Len(t.dims)] % t.dims[i]])
Fits(s, t) == view_broadcast(s, t) # << >>

Pointwise1(op, t) == Tensor(t.dims, LAMBDA c : eval_uop(op, Elem(t, c), 0))
Pointwise2(op, s, t) ==
    Tensor(view_broadcast(s, t), LAMBDA c : eval_uop(op, Aligned(s, c), Aligned(t, c)))

Folded(op, nums) == IF op = "sum" THEN Total(nums) ELSE Max(ToSet(nums))
Reduced(op, t, axes) ==
    LET over == [i \in DOMAIN t.dims |-> IF i \in axes THEN t.dims[i] ELSE 1]
        part(c) == [n \in 1 .. Size(over) |->
                      Elem(t, [i \in DOMAIN c |-> c[i] + Coords(over, n - 1)[i]])]
    IN  Tensor([i \in DOMAIN t.dims |-> IF i \in axes THEN 1 ELSE t.dims[i]], LAMBDA c : Folded(op, part(c)))

Product(s, t) ==
    Tensor(<<s.dims[1], t.dims[2]>>,
           LAMBDA c : Total([n \in 1 .. s.dims[2] |-> Elem(s, <<c[1], n - 1>>) * Elem(t, <<n - 1, c[2]>>)]))

Moved(op, t, par) ==
    CASE op = "reshape" -> [t EXCEPT !.dims = par]
      [] op = "expand" -> Tensor(par, LAMBDA c : Aligned(t, c))
      [] op = "permute" ->
           Tensor([i \in DOMAIN par |-> t.dims[par[i]]],
                  LAMBDA c : Elem(t, [i \in DOMAIN par |-> c[CHOOSE j \in DOMAIN par : par[j] = i]]))
      [] op = "shrink" ->
           Tensor([i \in DOMAIN par |-> par[i][2] - par[i][1]],
                  LAMBDA c : Elem(t, [i \in DOMAIN c |-> c[i] + par[i][1]]))
      [] op = "pad" ->
           Tensor([i \in DOMAIN par |-> t.dims[i] + par[i][1] + par[i][2]],
                  LAMBDA c : IF \A i \in DOMAIN c : c[i] \in par[i][1] .. par[i][1] + t.dims[i] - 1
                             THEN Elem(t, [i \in DOMAIN c |-> c[i] - par[i][1]]) ELSE 0)
=============================================================================
