----------------------------- MODULE Definitions ------------------------------
(***************************************************************************)
(* thvm_define of src/src/inet/_.c, which copies a term of the heap into   *)
(* the book (see Book); a book for TLC and programs that use it, each with *)
(* the numbers it should collapse to, worked out by hand.  The labels of   *)
(* these programs are above those that unfolding hands out, which start at *)
(* 0.                                                                      *)
(***************************************************************************)
EXTENDS Programs

-----------------------------------------------------------------------------
(* Definition: thvm_book_from_dynamic.  b holds the cells of the book, what *)
(* the locations of the heap became, and the term copied last.              *)

\* Room for a copy of the node t.
BookAlloc(b, t) ==
    LET new == -(Len(b.cells) + 1) IN
    [cells |-> b.cells \o [i \in 1 .. Arity(t) |-> Era],
     moved |-> (t.val :> new) @@ b.moved,
     term  |-> [t EXCEPT !.val = new]]

RECURSIVE FromDynamic(_, _, _), ChildrenFromDynamic(_, _, _, _, _)

\* The children of t in the slots from i on, copied into the node made for it.
ChildrenFromDynamic(h, b, t, new, i) ==
    LET c == FromDynamic(h, b, h[t.val + i - 1]) IN
    IF i > Arity(t) THEN b
    ELSE ChildrenFromDynamic(h, [c EXCEPT !.cells[i - 1 - new] = c.term], t, new, i + 1)

FromDynamic(h, b, t) ==
    LET r    == BookAlloc(b, t)
        new  == r.term.val
        fill(from, i) == [ChildrenFromDynamic(h, from, t, new, i) EXCEPT !.term = r.term] IN
    CASE t.val \in DOMAIN b.moved /\ t.tag \in {"VAR", "DP0", "DP1"} ->
            [b EXCEPT !.term = [t EXCEPT !.val = b.moved[t.val]]]
      [] Immediate(t) \/ Arity(t) = 0 -> [b EXCEPT !.term = t]
      [] t.tag = "VAR" /\ t.val \notin DOMAIN b.moved ->
            IF h[t.val].sub THEN [b EXCEPT !.term = t] ELSE FromDynamic(h, b, h[t.val])
      [] Binder(t) ->
            fill([r EXCEPT !.cells[-new] = SetSub(Term("VAR", 0, new))], 2)
      [] OTHER -> fill(r, 1)

\* thvm_define: the book with one more definition, the term t of heap h.
Define(book, h, t) ==
    LET b == FromDynamic(h, [cells |-> book.cells, moved |-> <<>>, term |-> Era], t) IN
    [cells |-> b.cells, roots |-> Append(book.roots, b.term)]

-----------------------------------------------------------------------------
(* A book.                                                                  *)

Coin == 2
Sums == 3
Rolls == 9

Bodies ==
    << IncBy(1),
       Sup(1, N(1), N(2)),
       \* n + (n - 1) + ... + 0
       Mat(0, N(0), Fn(Dup(1, V(1), Op(0, V(1), App(Ref(Sums), Op(1, V(2), N(1))))))),
       \* DUPs of closed terms: of a redex, of a superposition of the same
       \* label, of a number and of a half of another DUP
       Dup(1, Op(0, N(1), N(2)), Op(2, V(1), V(2))),
       Dup(1, Sup(1, N(1), N(2)), Op(1, V(1), V(2))),
       Dup(1, N(4), Dup(2, V(1), Op(0, Op(2, V(1), V(2)), V(4)))),
       Dup(1, Op(0, N(1), N(3)), Dup(2, V(1), Op(0, Op(2, V(1), V(2)), V(4)))),
       \* under binders
       Fn(Fn(App(V(2), App(Ref(1), V(1))))),
       \* n coins in a row, as digits
       Mat(0, N(0), Fn(Op(0, Ref(Coin), Op(2, N(10), App(Ref(Rolls), Op(1, V(1), N(1))))))),
       Udp(1, Usp(1, N(7), N(8))) >>

Defined ==
    LET book[i \in 0 .. Len(Bodies)] ==
            IF i = 0 THEN NoBook
            ELSE LET l == Load(<<>>, <<>>, Bodies[i]) IN Define(book[i - 1], l.heap, l.term)
    IN book[Len(Bodies)]

Case(tree, numbers) == [NetOf(tree) EXCEPT !.book = Defined, !.outcomes = numbers]

Digits(a, b) == Op(0, Op(2, N(10), a), b)

DefinitionCases ==
    <<Case(App(Ref(1), N(5)), {6}),
      Case(App(Ref(1), Sup(60, N(1), N(5))), {2, 6}),
      \* a coin tossed twice, and the same coin looked at twice
      Case(Digits(Ref(Coin), Ref(Coin)), {11, 12, 21, 22}),
      Case(Dup(60, Ref(Coin), Digits(V(1), V(2))), {11, 22}),
      Case(Digits(Sup(60, N(1), N(2)), Ref(Coin)), {11, 12, 21, 22}),
      Case(App(Ref(Sums), N(3)), {6}),
      Case(Ref(4), {9}), Case(Ref(6), {20}), Case(Ref(7), {20}),
      Case(Ref(5), {1}), Case(Dup(60, Ref(5), Op(0, V(1), V(2))), {2}),
      Case(App(App(Ref(8), IncBy(2)), N(1)), {4}),
      Case(App(App(Ref(8), Ref(1)), N(1)), {3}),
      Case(App(Ref(Rolls), N(2)), {11, 12, 21, 22}),
      Case(Ref(10), {7}) >>

\* Each with calls that have no budget, and with calls of one rule.
DefinitionNets ==
    {[DefinitionCases[i] EXCEPT !.budgets = {b}] : i \in DOMAIN DefinitionCases, b \in {0, 1}}

=============================================================================
