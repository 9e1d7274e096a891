------------------------------ MODULE Calculus ------------------------------
(***************************************************************************)
(* What tensor expressions and their derivatives mean: the definition that *)
(* the gradients of module Gradient are compared with.                     *)
(*                                                                         *)
(* Arithmetic is modulo a prime P, so that division is exact and equal     *)
(* values mean equal formulas.  exp, log and sqrt stand for functions that *)
(* the rules of differentiation know only by their derivatives.  Residues  *)
(* are ordered as -(P \div 2) .. P \div 2.                                 *)
(*                                                                         *)
(* A dual tensor is [v, d]: values, and their change when the tensor that  *)
(* is differentiated by changes by "seed".                                 *)
(***************************************************************************)
EXTENDS TensorAlgebra

CONSTANTS
    P,             \* the modulus
    Inputs         \* the tensors: a sequence of [dims, vals]

ASSUME ModulusIsPrime == P > 2 /\ \A n \in 2 .. P - 1 : P % n # 0

Residue == 0 .. P - 1
Inv == [a \in Residue |-> IF a = 0 THEN 0 ELSE CHOOSE b \in Residue : (a * b) % P = 1]
Signed(a) == IF a > P \div 2 THEN a - P ELSE a

Exp == [a \in Residue |-> FoldLeft(LAMBDA acc, n : (3 * acc) % P, 1, [n \in 1 .. a |-> n])]
Log == [a \in Residue |-> (a * a * a + 5) % P]
Root == [a \in Residue |-> (7 * a * a + a + 3) % P]

Value1(op, a) ==
    CASE op = "neg" -> (P - a) % P
      [] op = "relu" -> IF Signed(a) > 0 THEN a ELSE 0
      [] op = "exp" -> Exp[a]
      [] op = "log" -> Log[a]
      [] op = "sqrt" -> Root[a]
Slope1(op, a) ==
    CASE op = "neg" -> P - 1
      [] op = "relu" -> IF Signed(a) > 0 THEN 1 ELSE 0
      [] op = "exp" -> Exp[a]
      [] op = "log" -> Inv[a]
      [] op = "sqrt" -> Inv[(2 * Root[a]) % P]

Value2(op, a, b) ==
    CASE op = "add" -> (a + b) % P
      [] op = "sub" -> (a - b) % P
      [] op = "mul" -> (a * b) % P
      [] op = "div" -> (a * Inv[b]) % P
      [] op = "max" -> IF Signed(a) > Signed(b) THEN a ELSE b
      [] op = "cmp" -> IF Signed(a) > Signed(b) THEN 1 ELSE 0
\* By the first operand, and by the second.  Of two equal operands the second is the maximum.
Slope2(op, a, b) ==
    CASE op = "add" -> <<1, 1>>
      [] op = "sub" -> <<1, P - 1>>
      [] op = "mul" -> <<b, a>>
      [] op = "div" -> <<Inv[b], (-(a * Inv[b] * Inv[b])) % P>>
      [] op = "max" -> IF Signed(a) > Signed(b) THEN <<1, 0>> ELSE <<0, 1>>
      [] op = "cmp" -> <<0, 0>>

Filled(dims, n) == Tensor(dims, LAMBDA c : n)
Unit(dims, k) == [dims |-> dims, vals |-> [i \in 0 .. Size(dims) - 1 |-> IF i = k THEN 1 ELSE 0]]
Modulo(t) == [t EXCEPT !.vals = [k \in DOMAIN t.vals |-> t.vals[k] % P]]

Dual1(op, x) ==
    [v |-> Tensor(x.v.dims, LAMBDA c : Value1(op, Elem(x.v, c))),
     d |-> Tensor(x.v.dims, LAMBDA c : (Slope1(op, Elem(x.v, c)) * Elem(x.d, c)) % P)]

Sloped(slopes, da, db) == (slopes[1] * da + slopes[2] * db) % P
Dual2(op, x, y) ==
    LET dims == view_broadcast(x.v, y.v)
    IN  [v |-> Tensor(dims, LAMBDA c : Value2(op, Aligned(x.v, c), Aligned(y.v, c))),
         d |-> Tensor(dims, LAMBDA c : Sloped(Slope2(op, Aligned(x.v, c), Aligned(y.v, c)),
                                              Aligned(x.d, c), Aligned(y.d, c)))]

\* A choice by c, which itself does not change.
Chosen(c, s, t) ==
    Tensor(view_broadcast([dims |-> view_broadcast(c, s)], t),
           LAMBDA i : IF Aligned(c, i) # 0 THEN Aligned(s, i) ELSE Aligned(t, i))

\* The maximum over an axis changes with the elements that attain it.
Peak(t, axes) ==
    [t EXCEPT !.vals = Reduced("rmax", [t EXCEPT !.vals = [k \in DOMAIN @ |-> Signed(@[k])]], axes).vals,
              !.dims = [i \in DOMAIN @ |-> IF i \in axes THEN 1 ELSE @[i]]]
Attained(x, peak) == Tensor(x.v.dims, LAMBDA c : IF Signed(Elem(x.v, c)) = Aligned(peak, c) THEN Elem(x.d, c) ELSE 0)
DualPeak(x, axes) ==
    [v |-> Modulo(Peak(x.v, axes)), d |-> Modulo(Reduced("sum", Attained(x, Peak(x.v, axes)), axes))]

\* An erased operand erases the result, and is nothing to add.
Nothing == [dims |-> << >>, vals |-> << >>]
Erased == [v |-> Nothing, d |-> Nothing]

-----------------------------------------------------------------------------
\* The dual tensor of a node, when tensor `target' changes by `seed'.  A PIN means what its
\* cell differentiates; a GRAD that has been resolved, what it was resolved to.
RECURSIVE Dual(_, _, _, _)
Dual(heap, t, target, seed) ==
    LET node == heap[t]
        x == Dual(heap, node.src[1], target, seed)
        y == Dual(heap, node.src[2], target, seed)
        z == Dual(heap, node.src[3], target, seed)
        constant(v) == [v |-> v, d |-> Filled(v.dims, 0)]
    IN  CASE node.op = "era" -> Erased
          [] node.op = "add" /\ Erased \in {x, y} -> IF x = Erased THEN y ELSE x
          [] node.op \in Elementwise \cup Movements \cup Reductions /\ (x = Erased \/ (node.op \in Binary /\ y = Erased)) -> Erased
          [] node.op = "ten" ->
               IF node.par = target THEN [v |-> Inputs[node.par], d |-> seed] ELSE constant(Inputs[node.par])
          [] node.op = "full" -> constant(Filled(View(heap, t).dims, node.par))
          [] node.op = "num" -> constant(Filled(<<1>>, node.par))
          [] node.op \in Unary -> Dual1(node.op, x)
          [] node.op \in Binary -> Dual2(node.op, x, y)
          [] node.op \in Movements -> [v |-> Moved(node.op, x.v, node.par), d |-> Moved(node.op, x.d, node.par)]
          [] node.op = "sum" ->
               [v |-> Modulo(Reduced("sum", x.v, ToSet(node.par))), d |-> Modulo(Reduced("sum", x.d, ToSet(node.par)))]
          [] node.op = "rmax" -> DualPeak(x, ToSet(node.par))
          [] node.op = "where" -> [v |-> Chosen(x.v, y.v, z.v), d |-> Chosen(x.v, y.d, z.d)]
          [] node.op = "pin" -> Dual(heap, heap[node.src[1]].src[1], target, seed)
          [] node.op = "grad" -> Dual(heap, heap[node.src[1]].src[2], target, seed)

Meaning(heap, t) == Dual(heap, t, 0, Inputs[1]).v

\* What the gradients promise: the change of y when every element of the target changes
\* by one (forward), and the gradient of the sum of y (reverse).
ForwardGradient(heap, y, target) == Dual(heap, y, target, Filled(Inputs[target].dims, 1)).d
Summed(t) == FoldFunction(LAMBDA a, b : (a + b) % P, 0, t.vals)
ReverseGradient(heap, y, target) ==
    [Inputs[target] EXCEPT !.vals = [k \in DOMAIN @ |-> Summed(Dual(heap, y, target, Unit(Inputs[target].dims, k)).d)]]
=============================================================================
