----------------------------- MODULE MCKernels -----------------------------
(***************************************************************************)
(* Expressions on a matrix, a vector and a number, of the kind that the    *)
(* fuser and the backend get right; what is left out is in the README.     *)
(***************************************************************************)
EXTENDS Kernels

Row(seq) == [k \in 0 .. Len(seq) - 1 |-> seq[k + 1]]
Matrix == [dims |-> <<2, 2>>, vals |-> Row(<<3, -1, 2, -4>>)]
Vector == [dims |-> <<2>>, vals |-> Row(<<5, -7>>)]
BothInputs == <<Matrix, Vector>>

Nodes(h, ops) == {i \in DOMAIN h : h[i].op \in ops}
Operand(h, i) == h[h[i].src[1]]
\* Movements other than the stretching that operands of different shapes get.
Stretches(h, i) == h[i].op = "expand" \/ (h[i].op = "reshape" /\ Size(h[i].par) = Size(Operand(h, i).st[1].dims) /\ Head(h[i].par) = 1)
\* One view each; functions take no other movements; operations leave results in order; what
\* is padded is neither lowered nor moved; a moved tensor is no second operand.
Sound(h, lowered) ==
    /\ \A i \in DOMAIN h : Len(h[i].st) <= 1
    /\ Nodes(h, Unary) # {} => \A i \in Nodes(h, Movements) : Stretches(h, i)
    /\ \A i \in Nodes(h, Elementwise) : View(h, i).contiguous
    /\ lowered => Nodes(h, {"pad"}) = {}
    /\ \A i \in Nodes(h, Movements) : Operand(h, i).op # "pad"
    /\ \A i \in Nodes(h, Binary), j \in Nodes(h, Movements) : h[i].src[2] # h[j].src[1]
=============================================================================
