--------------------------------- MODULE Book ---------------------------------
(***************************************************************************)
(* Named definitions: the book (Definitions says how terms get into it),   *)
(* and the lazy copies that REF takes out of it (src/src/interact/_.c).    *)
(*                                                                         *)
(* A location of the book is written as a negative number, to tell it from *)
(* one of the heap.  Unfolding a definition copies one node at a time: the *)
(* children become ALO nodes, a term of the book each with the state under *)
(* which it is to be copied.  A state is an entry of alo_states: it says   *)
(* what one binder or label of the book became, and names the state before *)
(* it, its parent; 0 is the empty state.                                   *)
(*                                                                         *)
(* Definitions are closed, and their active erasers are left out (the code *)
(* copies them with the location they have in the heap).                   *)
(***************************************************************************)
EXTENDS Net, TLC

LOCAL INSTANCE SequencesExt

\* A book: its cells, and its definitions by number.
NoBook == [cells |-> <<>>, roots |-> <<>>]

\* F(x), with x computed once.
Once(x, F(_)) == CHOOSE y \in {F(z) : z \in {x}} : TRUE

\* Terms that are the same in the book, in the heap and in every copy.
Immediate(t) == t.tag \in {"NUM", "TEN", "ERA", "REF", "ANY"}

IsHalf(t) == t.tag \in {"DP0", "DP1"}

-----------------------------------------------------------------------------
(* States.  m is the memory: the book, the heap, next_sup_label and        *)
(* alo_states; an operator that makes a term adds it as m.term, one that    *)
(* makes a state adds it as m.at.                                           *)

\* thvm_alo_state_push: kind is "bind", "label", "alias" or "node".
PushState(m, parent, kind, from, to) ==
    [m EXCEPT !.states = Append(@, [parent |-> parent, kind |-> kind,
                                    from |-> from, to |-> to]),
              !.at = Len(m.states) + 1]

\* What the state at, or the nearest before it, says that from became, as a
\* sequence of at most one element.
Lookup(m, at, kind, from) ==
    LET search[s \in 0 .. Len(m.states)] ==
            IF s = 0 THEN <<>>
            ELSE IF m.states[s].kind = kind /\ m.states[s].from = from
            THEN <<m.states[s].to>> ELSE search[m.states[s].parent]
    IN search[at]

\* thvm_alo_get_or_add_label
Slip_Relabel(m, at, label) ==
    LET p == PushState([m EXCEPT !.fresh = @ + 1], at, "label", label, m.fresh) IN
    [p EXCEPT !.term = Num(m.fresh)]
Relabel(m, at, label) ==
    LET known == Lookup(m, at, "label", label)
        p == PushState([m EXCEPT !.fresh = @ + 1], at, "label", label, m.fresh) IN
    IF known # <<>> THEN [m EXCEPT !.term = Num(known[1]), !.at = at]
    ELSE [p EXCEPT !.term = Num(m.fresh)]

-----------------------------------------------------------------------------
(* Unfolding.                                                               *)

Alloc(m, cells) == [m EXCEPT !.heap = @ \o cells]

\* thvm_alo_suspend_child: a child of the book in the node being copied.
\* The two halves of a DUP never share an ALO node.
Suspend(m, child, at) ==
    LET bound == Lookup(m, at, "bind", child.val)
        alias == Lookup(m, at, "alias", child.val)
        alo   == Next1(m.heap)
        half  == child.val = 0 \/ IsHalf(child)
        made  == [Alloc(m, <<child, Num(at)>>) EXCEPT !.term = Term("ALO", 0, alo)] IN
    CASE Immediate(child) -> [m EXCEPT !.term = child]
      [] child.tag = "VAR" ->
            [m EXCEPT !.term = IF bound = <<>> THEN child ELSE [child EXCEPT !.val = bound[1]]]
      [] child.tag # "VAR" /\ ~half /\ alias # <<>> ->
            [m EXCEPT !.term = Term("ALO", 0, alias[1])]
      [] child.tag # "VAR" /\ ~half /\ alias = <<>> ->
            PushState(made, at, "alias", child.val, alo)
      [] OTHER -> made

\* The children of the book node t in the slots from i on, suspended one by one
\* in the node that the heap has for it at new.
SuspendChildren(m, t, new, i, at) ==
    FoldLeft(LAMBDA n, c : Once(Suspend(n, m.book.cells[c - 1 - t.val], at), LAMBDA s :
                               [s EXCEPT !.heap[new + c - 1] = s.term]),
             m, [c \in 1 .. Arity(t) - i + 1 |-> c + i - 1])

\* The value a chain of variables stands for (at most 8 long in the code).
Behind(h, t) ==
    LET chase[p \in {h[i] : i \in DOMAIN h} \cup {t}] ==
            IF p.tag = "VAR" /\ p.val > 0 /\ ~h[p.val].sub THEN chase[h[p.val]] ELSE p
    IN chase[t]

\* The copy of an ALO is kept in it.
Keep(m, alo) == [m EXCEPT !.heap[alo.val] = m.term, !.heap[alo.val + 1] = Era]

\* One node of the book that is no half of a DUP, in the heap.
RealizeNode(m, t, at) ==
    LET new   == Next1(m.heap)
        node  == [t EXCEPT !.val = new]
        room  == [i \in 1 .. Arity(t) |-> Era]
        r     == Relabel(m, at, t.ext)
        bound == Lookup(m, at, "bind", t.val)
        lam   == PushState(Alloc(m, <<SetSub(Term("VAR", 0, new)), Era>>), at, "bind", t.val, new)
        other == PushState(Alloc(m, room), at, "node", t.val, new)
        with(n, term) == [n EXCEPT !.term = term] IN
    CASE t.tag = "VAR" ->
            with(m, IF bound = <<>> THEN t ELSE [t EXCEPT !.val = bound[1]])
      [] t.tag \in {"SUP", "USP", "UDP"} ->
            with(SuspendChildren(Alloc(r, room), t, new, 1, r.at), [node EXCEPT !.ext = r.term.val])
      [] Binder(t) -> with(SuspendChildren(lam, t, new, 2, lam.at), node)
      [] Immediate(t) \/ Arity(t) = 0 -> with(m, t)
      [] OTHER -> with(SuspendChildren(other, t, new, 1, other.at), node)

\* An ALO forced before.  A kept half of a DUP is not handed out twice: it is
\* shared by a DUP of its own.
Reuse(m, alo) ==
    LET kept == m.heap[alo.val]
        dup  == Next1(m.heap)
        half == Shared(m.fresh, dup) IN
    IF IsHalf(kept)
    THEN [m EXCEPT !.heap = [Append(@, kept) EXCEPT ![alo.val] = half[2]],
                   !.fresh = @ + 1, !.term = half[1]]
    ELSE [m EXCEPT !.term = kept]

Unforced(h, alo) == h[alo.val + 1].tag = "NUM"

(***************************************************************************)
(* Halves of DUPs.  Copying one copies the body of its DUP, which may be a *)
(* half again, and so on: u.halves are those whose bodies are not there    *)
(* yet, innermost first, and u.more says that u.t is one more to copy.     *)
(***************************************************************************)

\* One half, under its new label.  The cell is made, and what is in it suspended,
\* unless the state says which cell it became.
OpenHalf(u) ==
    Once(Relabel(u.mem, u.at, u.t.ext), LAMBDA r :
        LET half(loc) == [u.t EXCEPT !.ext = r.term.val, !.val = loc]
            bound     == Lookup(r, r.at, "bind", u.t.val)
            cell      == Next1(r.heap) IN
        IF bound # <<>>
        THEN [u EXCEPT !.mem = [r EXCEPT !.term = half(bound[1])], !.more = FALSE]
        ELSE Once(Suspend(Alloc(r, <<Era>>), r.book.cells[-u.t.val], r.at), LAMBDA s :
            LET body  == Behind(s.heap, s.term)
                alo   == body.tag = "ALO"
                kept  == s.heap[body.val]
                state == s.heap[body.val + 1].val
                more  == alo /\ Unforced(s.heap, body) /\ IsHalf(kept)
                open  == [half |-> half(cell), from |-> u.t.val, at |-> r.at, body |-> s.term,
                          alo |-> IF alo THEN <<body>> ELSE <<>>, keep |-> more] IN
            [mem |-> IF ~alo \/ more THEN s
                     ELSE IF Unforced(s.heap, body) THEN Keep(RealizeNode(s, kept, state), body)
                     ELSE Reuse(s, body),
             halves |-> <<open>> \o u.halves,
             more |-> more, t |-> IF more THEN kept ELSE u.t, at |-> IF more THEN state ELSE u.at]))

\* The body was copied, as m.term: if that is a number it is what the half is.
\* The state that would say which cell the DUP became is not passed on to anyone.
CloseHalf(m, open) ==
    LET n == IF open.keep THEN Keep(m, open.alo[1]) ELSE m
        cell == open.half.val IN
    IF open.alo # <<>> /\ (n.term.tag \in {"TEN", "NUM"} \/ IsErased(n.term)) THEN n
    ELSE [PushState([n EXCEPT !.heap[cell] = open.body], open.at, "bind", open.from, cell)
             EXCEPT !.term = open.half]

\* There are no more halves inside one another than the book has cells.
RealizeHalf(m, t, at) ==
    LET start == [mem |-> m, halves |-> <<>>, more |-> TRUE, t |-> t, at |-> at]
        opened[n \in 0 .. Len(m.book.cells)] ==
            IF n = 0 THEN start
            ELSE Once(opened[n - 1], LAMBDA u : IF u.more THEN OpenHalf(u) ELSE u)
        all == opened[Len(m.book.cells)] IN
    FoldLeft(CloseHalf, all.mem, all.halves)

\* thvm_alo_realize: one node of the book, in the heap.
Realize(m, t, at) == IF IsHalf(t) THEN RealizeHalf(m, t, at) ELSE RealizeNode(m, t, at)

\* thvm_alo_force: the copy is made once and kept in the ALO node.
ForceAlo(m, alo) ==
    IF Unforced(m.heap, alo)
    THEN Keep(Realize(m, m.heap[alo.val], m.heap[alo.val + 1].val), alo)
    ELSE Reuse(m, alo)

=============================================================================
