----------------------------- MODULE MCGradient -----------------------------
(***************************************************************************)
(* Expressions of up to three operations on small tensors, differentiated  *)
(* with respect to the first; numbers are those of a field of P elements.  *)
(***************************************************************************)
EXTENDS Gradient

\* A target, a tensor of its shape and a smaller one.  Two of their elements are equal at
\* the same place, and some are negative.
MCInputs ==
    << [dims |-> <<2, 2>>, vals |-> 0 :> 3 @@ 1 :> 30 @@ 2 :> 2 @@ 3 :> 5],
       [dims |-> <<2, 2>>, vals |-> 0 :> 7 @@ 1 :> 4 @@ 2 :> 2 @@ 3 :> 29],
       [dims |-> <<2>>, vals |-> 0 :> 6 @@ 1 :> 28] >>

MCAsks == {<<"fwd">>, <<"rev", "fwd">>}

\* Does the derivative of t have a part that is not erased?
RECURSIVE Moves(_, _)
Moves(h, t) ==
    \/ t = Target
    \/ h[t].op # "cmp" /\ \E s \in ToSet(IF h[t].op = "where" THEN Tail(h[t].src) ELSE h[t].src) : Moves(h, s)

\* Numbers do not divide, and a difference or a quotient has an operand that moves.
Sound(h) ==
    \A i \in DOMAIN h :
        /\ h[i].op = "div" => h[h[i].src[2]].op # "num"
        /\ h[i].op \in {"sub", "div"} => \E s \in ToSet(h[i].src) : Moves(h, s)
\* One operation of any kind, differentiated both ways (a choice is only differentiated
\* forward: the reverse rule reduces a cotangent that was never set); a product, or a square
\* of a product, summed; two operations, of which the second combines.
All == Elementwise \cup Reductions \cup Movements \cup {"where"}
Combines == {"mul", "div", "sqrt", "expand"}
MCCalls == <<All, Combines \cup {"sum"}, {"sum"}>>

Made_of(h, ops) == \A i \in DOMAIN h : h[i].op \in ops
Squares(h) == \A i \in DOMAIN h : h[i].op = "mul" => h[i].src \in {<<1, 2>>, <<4, 4>>, <<4, 1>>}
Pairs_of_calls(h) ==
    /\ Last(h).op \in Combines /\ ToSet(Last(h).src) \cap {2, 3} = {}
    /\ Made_of(h, {"ten"} \cup (All \ {"where"}))
MCAsked(h, n, what) ==
    /\ n > 1 => IF what = <<"fwd">> THEN n = 2 /\ Pairs_of_calls(h)
                ELSE Made_of(h, {"ten", "mul", "sum"}) /\ Squares(h)
    /\ what # <<"fwd">> => "where" \notin {h[i].op : i \in DOMAIN h}
    /\ Sound(h)
=============================================================================
