----------------------------- MODULE MCEvaluate -----------------------------
(***************************************************************************)
(* Programs for the evaluator, over three tensors w, g and x and, in the   *)
(* second call, the tensor r that an evaluation before it returned.        *)
(*                                                                         *)
(* They are those whose order the evaluator keeps.  Assignments stand in   *)
(* a chain of SEQs nested to the right and in the sources of assignments,  *)
(* not in operands, in pairs or in the first part of a SEQ that also holds *)
(* an expression; nothing assigns after an assignment whose source is such *)
(* a SEQ.  A sum meets a vector in an operation: no tensor has a shape.    *)
(* What is read as a SEQ begins with an assignment.                        *)
(***************************************************************************)
EXTENDS Evaluate

W == <<<<"in", 1>>>>
G == <<<<"in", 2>>>>
X == <<<<"in", 3>>>>
R == <<<<"in", 4>>>>

Contents == <<<<"w">>, <<"g">>, <<"x">>>>

Op1(tag, a) == Append(a, <<tag, 0>>)
Op2(tag, a, b) == Append(a \o b, <<tag, 0>>)

Neg(a) == Op1("neg", a)
Sum1(a) == Op1("sum", a)
Add(a, b) == Op2("add", a, b)
Mul(a, b) == Op2("mul", a, b)
Assign(a, e) == Op2("assign", a, e)
Seq2(a, b) == Op2("seq", a, b)
Ctr(a, b) == Op2("ctr", a, b)
Fuse(e) == Op1("fuse", e)

\* One kernel; two that meet; a reduction inside; one inside another.
Exprs == {Neg(G), Mul(Add(W, G), Neg(X)), Add(Sum1(Mul(W, X)), G), Add(Sum1(Add(Neg(Sum1(W)), G)), Neg(W))}

Effects == {Assign(a, e) : a \in {W, G}, e \in Exprs \cup {X}}
           \cup {Assign(X, Seq2(Assign(W, Neg(G)), e)) : e \in Exprs}
           \cup {Assign(W, Assign(G, Add(W, X))), Assign(X, Seq2(Add(W, G), G))}

Chains == {Seq2(f, e) : f \in Effects, e \in Exprs \cup {W}}
          \cup {Seq2(f, Seq2(Assign(G, Add(W, X)), e)) : f \in {Assign(W, Neg(G)), Assign(W, Add(Sum1(G), X))}, e \in Exprs}
          \cup {Seq2(e, f) : e \in Exprs, f \in {Assign(W, Neg(G)), Seq2(Assign(W, Neg(G)), Add(W, X))}}

Pairs == {Ctr(Neg(W), e) : e \in Exprs} \cup {Seq2(Assign(W, G), Ctr(e, Neg(W))) : e \in Exprs}

First == Exprs \cup Effects \cup Chains \cup Pairs \cup {Fuse(p) : p \in Exprs \cup {Seq2(Assign(W, Neg(G)), Neg(W)), Assign(W, Neg(G))}}

Second == {Add(W, G), Add(W, R), Seq2(Assign(R, Neg(W)), Add(R, Sum1(R))), Seq2(Assign(W, Add(R, G)), Mul(W, R))}

ReadFirst == Exprs \cup {Fuse(e) : e \in Exprs} \cup {Assign(X, Fuse(e)) : e \in Exprs} \cup {Assign(X, Seq2(Fuse(Neg(W)), G)), Seq2(Assign(W, Neg(G)), Add(W, X))}
ReadSecond == {Fuse(Add(W, Neg(G))), Add(Neg(W), R), Assign(R, Neg(W))}

Evals == <<First, Second>>
ReadSets == <<ReadFirst, ReadSecond>>
=============================================================================
