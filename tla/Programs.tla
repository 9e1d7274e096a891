------------------------------ MODULE Programs -------------------------------
(***************************************************************************)
(* Small programs for TLC.  A program is a syntax tree; Load lays it out   *)
(* in the heap with the constructors of inet/_.c, and Eval says what it    *)
(* means, with no heap, no sharing and no interaction rules: a             *)
(* call-by-name interpreter in which a superposition takes the branch that *)
(* a path prescribes.                                                      *)
(*                                                                         *)
(* A path gives, for each label, the branches still to be taken.  A        *)
(* projection DPi of a DUP with label L means its body with branch i of L  *)
(* put in front of the path: this is why a superposition of the same label *)
(* under a DUP cancels with it, and one of another label does not.         *)
(***************************************************************************)
EXTENDS Book, FiniteSets

LOCAL INSTANCE SequencesExt

(* Syntax trees.  Variables are counted from the innermost binder, 1, 2, ...;
   Dup(l, v, b) binds two in b: 1 is DP1 and 2 is DP0.                      *)
N(n)              == [k |-> "NUM", n |-> n]
V(i)              == [k |-> "VAR", n |-> i]
Fn(b)             == [k |-> "LAM", b |-> b]
Sup(l, a, b)      == [k |-> "SUP", n |-> l, a |-> a, b |-> b]
Dup(l, v, b)      == [k |-> "DUP", n |-> l, a |-> v, b |-> b]
Op(o, a, b)       == [k |-> "OP2", n |-> o, a |-> a, b |-> b]
App(a, b)         == [k |-> "APP", n |-> 0, a |-> a, b |-> b]
Mat(n, h, m)      == [k |-> "MAT", n |-> n, a |-> h, b |-> m]
Eql(a, b)         == [k |-> "EQL", n |-> 0, a |-> a, b |-> b]
And(a, b)         == [k |-> "AND", n |-> 0, a |-> a, b |-> b]
Or(a, b)          == [k |-> "OR", n |-> 0, a |-> a, b |-> b]
Seq2(a, b)        == [k |-> "SEQ", n |-> 0, a |-> a, b |-> b]
Wrap(k, a)        == [k |-> k, a |-> a]               \* "ANN", "INC", "ERASE"
Ctr(fields)       == [k |-> "CTR", fields |-> fields]
DynSup(l, a, b)   == [k |-> "DSU", l |-> l, a |-> a, b |-> b]
DynDup(l, v, b)   == [k |-> "DDU", l |-> l, a |-> v, b |-> b]
Usp(l, a, b)      == [k |-> "USP", n |-> l, a |-> a, b |-> b]
Udp(l, v)         == [k |-> "UDP", n |-> l, a |-> v]
Bri(b)            == [k |-> "BRI", b |-> b]
Ref(d)            == [k |-> "REF", n |-> d]           \* see Definitions
Open(b)           == [k |-> "OPEN", b |-> b]          \* the body of a lambda
Leaf(k)           == [k |-> k]                        \* "ERA", "ANY"

RECURSIVE Load(_, _, _), LoadAll(_, _, _)

\* The fields of a tree in a row: the heap and the sequence of terms.
LoadAll(h, env, trees) ==
    IF trees = <<>> THEN [heap |-> h, terms |-> <<>>]
    ELSE LET first == Load(h, env, Head(trees))
             rest  == LoadAll(first.heap, env, Tail(trees)) IN
         [heap |-> rest.heap, terms |-> <<first.term>> \o rest.terms]

\* A tree laid out in h, where env is what its variables stand for.
Load(h, env, t) ==
    LET alloc(tag, ext, trees) ==
            LET l == LoadAll(h, env, trees) IN
            Made(l.heap \o l.terms, Term(tag, ext, Next1(l.heap)))
        p == Next1(h) IN
    CASE t.k = "NUM" -> Made(h, Num(t.n))
      [] t.k = "VAR" -> Made(h, env[t.n])
      [] t.k = "ERA" -> Made(h, Era)
      [] t.k = "ANY" -> Made(h, Wild)
      [] t.k \in {"SUP", "USP", "OP2", "APP", "MAT", "EQL", "AND", "OR", "SEQ"} ->
            alloc(t.k, t.n, <<t.a, t.b>>)
      [] t.k \in {"DSU", "DDU"} -> alloc(t.k, 0, <<t.l, t.a, t.b>>)
      [] t.k = "ANN"   -> alloc("ANN", 0, <<t.a, Leaf("ANY")>>)
      [] t.k = "INC"   -> alloc("INC", 0, <<t.a>>)
      [] t.k = "UDP"   -> alloc("UDP", t.n, <<t.a>>)
      [] t.k = "REF"   -> Made(h, Term("REF", t.n, 0))
      [] t.k = "ERASE" -> alloc("ERA", 0, <<t.a>>)
      [] t.k = "CTR"   -> IF t.fields = <<>> THEN Made(h, Term("CTR", 0, 0))
                          ELSE alloc("CTR", Len(t.fields), t.fields)
      [] t.k \in {"LAM", "BRI", "OPEN"} ->
            LET var  == Term("VAR", 0, p)
                body == Load(h \o <<SetSub(var), Era>>, <<var>> \o env, t.b) IN
            Made([body.heap EXCEPT ![p + 1] = body.term],
                 IF t.k = "OPEN" THEN body.term ELSE Term(t.k, 0, p))
      [] t.k = "DUP" ->
            LET v == Load(Append(h, Era), env, t.a)
                b == Load(v.heap, <<Proj(1, t.n, p), Proj(0, t.n, p)>> \o env, t.b) IN
            Made([b.heap EXCEPT ![p] = v.term], b.term)

-----------------------------------------------------------------------------
(* What a program means.  A value is a number, a function, a matcher, a     *)
(* constructor with its fields unevaluated, or one of "ERA", "ANY", "STUCK".*)

\* A tree not yet evaluated; as an argument, base is the path of the function
\* it was given to.
Thunk(t, env, c) == [t |-> t, env |-> env, c |-> c, base |-> c]
Half(l, i, v)    == [k |-> "DP", n |-> l, i |-> i, a |-> v]
NumVal(n)         == [k |-> "NUM", n |-> n]
BoolVal(b)        == NumVal(IF b THEN 1 ELSE 0)

\* The path c with the branches of l replaced.
Turn(c, l, s) == (l :> s) @@ c
Unordered(l)  == 100 + l          \* the labels of unordered superpositions
Turns(c, l)   == IF l \in DOMAIN c THEN c[l] ELSE <<>>

\* The path under which an argument is used, where the function body has path
\* c: what the body added to the path of the function it adds to the argument,
\* except for the labels of DUPs the function itself came through.
UsePath(th, c) ==
    [l \in DOMAIN c \cup DOMAIN th.c |->
        IF Turns(th.base, l) = Turns(th.c, l) THEN Turns(c, l) ELSE Turns(th.c, l)]

RECURSIVE Eval(_, _, _), Apply2(_, _), Equal(_, _, _)

Force(th) == Eval(th.t, th.env, th.c)

\* A function value applied to a thunk.
Apply2(fun, arg) ==
    CASE fun.k \in {"LAM", "BRI"} -> Eval(fun.b, <<[arg EXCEPT !.base = fun.c]>> \o fun.env, fun.c)
      [] fun.k = "NUM" -> Force(arg)
      [] fun.k = "ERA" -> fun
      [] fun.k = "MAT" ->
            LET v       == Force(arg)
                handler == Eval(fun.a, fun.env, fun.c)
                rest    == Eval(fun.b, fun.env, fun.c) IN
            IF v.k = "CTR" THEN IF Len(v.fields) # fun.n THEN Apply2(rest, arg)
                                ELSE FoldLeft(Apply2, handler, v.fields)
            ELSE IF v.k = "NUM" THEN (IF v.n = fun.n THEN handler ELSE Apply2(rest, arg))
            ELSE IF v.k = "ERA" THEN v ELSE Leaf("STUCK")
      [] OTHER -> Leaf("STUCK")

\* Structural equality of two values; d numbers the variables of lambdas.
Equal(x, y, d) ==
    CASE "ERA" \in {x.k, y.k} -> FALSE
      [] "ANY" \in {x.k, y.k} -> TRUE
      [] x.k = "NUM" /\ y.k = "NUM" -> x.n = y.n
      [] x.k = "BOUND" /\ y.k = "BOUND" -> x.n = y.n
      [] x.k = "CTR" /\ y.k = "CTR" ->
            /\ Len(x.fields) = Len(y.fields)
            /\ \A i \in DOMAIN x.fields :
                  Equal(Force(x.fields[i]), Force(y.fields[i]), d)
      [] x.k = "LAM" /\ y.k = "LAM" ->
            LET arg == Thunk([k |-> "BOUND", n |-> d], <<>>, x.c) IN
            Equal(Apply2(x, arg), Apply2(y, arg), d + 1)
      [] OTHER -> FALSE

Eval(t, env, c) ==
    LET a == Eval(t.a, env, c)
        b == Eval(t.b, env, c)
        label == IF t.k \in {"DSU", "DDU"} THEN Eval(t.l, env, c) ELSE IF t.k \in {"USP", "UDP"} THEN NumVal(Unordered(t.n)) ELSE NumVal(t.n)
        half(i) == Thunk(Half(label.n, i, t.a), env, c) IN
    CASE t.k \in {"NUM", "ERA", "ANY", "BOUND"} -> t
      [] t.k = "VAR" -> Eval(env[t.n].t, env[t.n].env, UsePath(env[t.n], c))
      [] t.k = "DP"  -> Eval(t.a, env, Turn(c, t.n, <<t.i>> \o Turns(c, t.n)))
      [] t.k \in {"LAM", "BRI"} -> [k |-> t.k, b |-> t.b, env |-> env, c |-> c]
      [] t.k = "UDP" -> Eval(t.a, env, Turn(c, label.n, <<0>> \o Turns(c, label.n)))
      [] t.k = "REF" -> Leaf("STUCK")
      [] t.k = "OPEN" -> Eval(t.b, <<Thunk([k |-> "BOUND", n |-> 0], <<>>, c)>>, c)
      [] t.k = "ERASE" -> Leaf("ERA")
      [] t.k = "MAT" -> [k |-> "MAT", n |-> t.n, a |-> t.a, b |-> t.b, env |-> env, c |-> c]
      [] t.k = "CTR" ->
            IF Len(t.fields) = 1 THEN Eval(t.fields[1], env, c)
            ELSE IF t.fields # <<>> /\ t.fields[1] = Leaf("ERA")
            THEN Eval(Ctr(Tail(t.fields)), env, c)
            ELSE [k |-> "CTR",
                  fields |-> [i \in DOMAIN t.fields |-> Thunk(t.fields[i], env, c)]]
      [] t.k \in {"DSU", "DDU"} /\ label.k # "NUM" -> Leaf("STUCK")
      [] t.k \in {"SUP", "USP", "DSU"} ->
            LET s == Turns(c, label.n) IN
            IF s = <<>> THEN Leaf("STUCK")
            ELSE Eval(IF Head(s) = 0 THEN t.a ELSE t.b, env, Turn(c, label.n, Tail(s)))
      [] t.k = "DUP" -> Eval(t.b, <<half(1), half(0)>> \o env, c)
      [] t.k = "DDU" -> Apply2(Apply2(b, half(0)), half(1))
      [] t.k = "APP" -> Apply2(a, Thunk(t.b, env, c))
      [] t.k = "OP2" -> IF a.k = "NUM" /\ b.k = "NUM" THEN NumVal(Op2Result(t.n, a.n, b.n))
                        ELSE Leaf("STUCK")
      [] t.k \in {"ANN", "INC"} -> a
      [] t.k = "SEQ" -> b
      [] t.k \in {"AND", "OR"} ->
            IF a.k # "NUM" THEN (IF a.k = "ERA" THEN a ELSE Leaf("STUCK"))
            ELSE IF (a.n = 0) = (t.k = "OR") THEN b ELSE BoolVal(t.k = "OR")
      [] t.k = "EQL" -> IF "ERA" \in {a.k, b.k} THEN Leaf("ERA")
                        ELSE IF "MAT" \in {a.k, b.k} THEN Leaf("STUCK") ELSE BoolVal(Equal(a, b, 0))

-----------------------------------------------------------------------------
(* Programs.                                                                *)

\* First-order: numbers, operators, superpositions and DUPs that meet.
Small == {N(1), Sup(1, N(1), N(2)), Sup(2, N(3), N(5))}
Deep  == Small \cup {Sup(1, Sup(2, N(1), N(2)), N(3)), Sup(1, Sup(1, N(1), N(2)), N(3))}
Arith == {Op(1, a, b) : a \in Deep, b \in Deep}
Twice == {Dup(l, v, Op(1, V(i), V(3 - i))) :
             l \in {1, 2}, i \in {1, 2}, v \in Deep \cup {Op(0, a, b) : a, b \in Small}}

Id    == Fn(V(1))
IncBy(n) == Fn(Op(0, V(1), N(n)))

Logic == {And(a, b) : a \in Small \cup {N(0)}, b \in Deep}
         \cup {Or(a, b) : a \in Small \cup {N(0)}, b \in Deep}
         \cup {Eql(a, b) : a \in Small, b \in Deep}
         \cup {Seq2(a, b) : a \in Small, b \in Deep}

\* Functions, constructors, matches, dynamic labels, erasers.
Combinators ==
    { App(Id, N(7)), App(Fn(App(V(1), N(3))), IncBy(4)),
      App(Sup(1, IncBy(1), IncBy(2)), Sup(1, N(10), N(20))),
      App(Sup(1, IncBy(1), IncBy(2)), Sup(2, N(10), N(20))),
      App(Fn(Dup(1, V(1), Op(0, V(1), V(2)))), Sup(1, N(1), N(2))),
      App(Fn(Dup(2, V(1), Op(0, V(1), V(2)))), Sup(1, N(1), N(2))),
      \* functions used twice
      Dup(3, IncBy(5), Op(2, App(V(1), N(1)), App(V(2), N(2)))),
      Dup(3, Fn(Fn(Op(1, V(1), V(2)))), Op(2, App(App(V(1), N(1)), N(4)),
                                              App(App(V(2), N(2)), N(9)))),
      Dup(3, Sup(1, IncBy(1), IncBy(2)), Op(2, App(V(1), N(1)), App(V(2), N(2)))),
      \* matches
      App(Mat(2, Fn(Fn(Op(1, V(1), V(2)))), Fn(N(9))), Ctr(<<N(3), Sup(1, N(5), N(6))>>)),
      App(Mat(2, Fn(Fn(Op(1, V(1), V(2)))), Fn(N(9))),
          Sup(1, Ctr(<<N(3), N(5)>>), Ctr(<<>>))),
      App(Mat(0, N(4), IncBy(1)), N(0)), App(Mat(0, N(4), IncBy(1)), N(8)),
      App(Mat(1, N(4), IncBy(1)), Sup(2, N(1), N(2))),
      App(Mat(0, N(4), IncBy(1)), Ctr(<<N(6)>>)), App(Mat(0, N(4), Id), Leaf("ERA")),
      App(Sup(1, Mat(0, N(4), IncBy(1)), IncBy(3)), Sup(1, N(0), N(1))),
      Dup(3, Mat(0, N(4), IncBy(1)), Op(2, App(V(1), N(0)), App(V(2), N(8)))),
      \* equality, wrappers, sequencing, erasure
      Eql(Fn(V(1)), Fn(V(1))), Eql(Fn(Fn(V(1))), Fn(Fn(V(2)))), Eql(N(1), Id),
      Eql(Leaf("ANY"), N(3)), Eql(N(3), Leaf("ANY")), Eql(Leaf("ERA"), N(3)), Eql(N(3), Leaf("ERA")),
      Eql(N(1), Ctr(<<N(1), N(2)>>)), And(Leaf("ERA"), N(1)),
      Op(0, Wrap("ANN", N(1)), Wrap("INC", Sup(1, N(2), N(3)))),
      Ctr(<<Leaf("ERA"), Wrap("INC", N(6))>>), App(Leaf("ERA"), Op(0, N(1), N(2))),
      App(N(1), N(2)), Seq2(Leaf("ERA"), N(2)),
      Dup(1, Leaf("ANY"), Eql(V(1), V(2))),
      \* erasers: of a shared term, before and after the sibling took its half,
      \* of what a variable stands for, and of a tree
      Dup(9, Op(0, N(1), N(2)), Seq2(Wrap("ERASE", V(1)), Op(0, V(2), N(3)))),
      Dup(9, Sup(1, N(1), N(2)), Seq2(Wrap("ERASE", V(2)), V(1))),
      Dup(9, Fn(V(1)), Op(0, App(V(2), N(1)), Seq2(Wrap("ERASE", V(1)), N(5)))),
      App(Fn(Seq2(Wrap("ERASE", V(1)), N(3))), Op(0, N(1), Ctr(<<N(1), N(2), Id>>))),
      Seq2(Wrap("ERASE", Op(0, App(Id, N(1)), Eql(Id, Ctr(<<N(1), Id>>)))), N(3)),
      Dup(9, N(4), Seq2(Wrap("ERASE", Op(0, V(1), DynSup(N(1), N(2), N(3)))), V(2))),
      \* unordered superpositions and bridges
      Usp(1, N(1), Sup(1, N(2), N(3))), App(Usp(1, IncBy(1), IncBy(2)), Usp(1, N(10), N(20))),
      App(Usp(1, IncBy(1), IncBy(2)), Sup(1, N(10), N(20))), App(Usp(1, IncBy(1), Id), N(3)),
      And(Usp(1, N(1), N(2)), Usp(1, N(5), N(0))),
      Or(Usp(1, N(0), N(1)), N(5)), Eql(Usp(1, N(0), N(1)), Usp(1, N(0), N(0))),
      Eql(N(1), Usp(1, N(1), N(2))), Udp(1, Usp(1, N(4), N(5))), Udp(1, Usp(2, N(4), N(5))),
      Udp(1, Sup(1, N(4), N(5))), App(Udp(1, IncBy(1)), N(2)), Udp(1, Op(0, Id, N(1))),
      Dup(1, Usp(1, N(1), N(2)), Eql(V(1), V(2))), App(Bri(Op(0, V(1), N(1))), Sup(1, N(2), N(3))),
      Dup(3, Bri(Op(0, V(1), N(5))), Op(2, App(V(1), N(1)), App(V(2), N(2)))),
      \* terms nothing applies to
      Ref(99), Op(0, Usp(1, N(1), N(2)), N(1)),
      Op(0, Id, N(1)), Op(0, N(1), Id), App(Ctr(<<>>), N(1)), App(Mat(0, N(4), Id), Id),
      And(Id, N(1)), Eql(Id, Mat(0, N(4), Id)), DynSup(Id, N(1), N(2)),
      DynDup(Id, N(1), Fn(Fn(N(2)))), Dup(1, Op(0, Id, N(1)), Seq2(V(1), V(2))),
      Dup(1, DynSup(Id, N(1), N(2)), App(V(1), V(2))),
      \* under a lambda
      Open(Op(0, V(1), N(1))), Open(Dup(1, V(1), Op(0, V(1), V(2)))),
      Open(Seq2(Wrap("ERASE", V(1)), N(1))), Open(App(V(1), Sup(1, N(1), N(2)))),
      \* computed labels
      DynSup(Op(0, N(0), N(1)), N(5), N(6)),
      Op(0, DynSup(Op(0, N(0), N(1)), N(5), N(6)), Sup(1, N(10), N(20))),
      DynDup(Op(0, N(0), N(1)), Sup(1, N(5), N(6)), Fn(Fn(Op(1, V(1), V(2))))),
      DynDup(N(2), Sup(1, N(5), N(6)), Fn(Fn(Op(1, V(1), V(2))))) }

\* A net, the definitions it may use, the program it is, and what it should
\* collapse to if that is not said by its meaning (see Definitions).
NetOf(tree) ==
    LET l == Load(<<>>, <<>>, tree) IN
    [heap |-> l.heap, term |-> l.term, tree |-> tree,
     book |-> NoBook, budgets |-> {0, 1}, outcomes |-> {}]

FirstOrderNets == {NetOf(t) : t \in Arith \cup Twice \cup Logic}
CombinatorNets == {NetOf(t) : t \in Combinators}

-----------------------------------------------------------------------------

\* The branches taken on the way to a leaf, label by label.
PathChoices(path) ==
    [l \in {p[1] : p \in ToSet(path)} |->
        LET own == SelectSeq(path, LAMBDA p : p[1] = l) IN
        [i \in DOMAIN own |-> own[i][2]]]

\* What the tree is on that path, and whether a reduced term is that value.
Meaning(tree, path) == Eval(tree, <<>>, PathChoices(path))

IsValue(t, v) ==
    IF v.k \in {"STUCK", "BOUND"} THEN t.tag \notin {"NUM", "ERA", "LAM", "BRI", "CTR"}
    ELSE t.tag = v.k /\ (v.k = "NUM" => t.val = v.n)

=============================================================================
