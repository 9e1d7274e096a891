------------------------------ MODULE Collapse -------------------------------
(***************************************************************************)
(* collapse_dfs of src/src/inet/_.c: a term is reduced, a superposition is *)
(* taken apart, left branch first, and anything else is a leaf.            *)
(*                                                                         *)
(* A branch is reduced the way the step loop of TStep does it              *)
(* (docs/step_trampoline.md): one call of thvm_reduce_budget after the     *)
(* other, each with a budget of the caller's choice, until a call has      *)
(* nothing left to do.  With the budget 0 that is thvm_reduce.  path is    *)
(* what grouped_dfs records: the label and branch of every superposition   *)
(* above a leaf.                                                           *)
(***************************************************************************)
EXTENDS Wnf

CONSTANT Nets        \* the nets to start from: records [heap, term, book,
                     \* budgets, ...], budgets being those the client may pass

ASSUME BudgetAssumption == \A n \in Nets : n.budgets \subseteq Nat

VARIABLES work,      \* what is yet to be reduced, next first: [term, path]
          settled,   \* the first of them has nothing left to do
          leaves,    \* what has been found: [term, path]
          net        \* the net it all started from

client == <<work, settled, leaves, net>>
vars   == <<machine, client>>

Init == /\ net \in Nets
        /\ InitMachine(net)
        /\ work = <<[term |-> net.term, path |-> <<>>]>>
        /\ settled = IsAtom(net.term) /\ leaves = <<>>

Call == /\ work # <<>> /\ ~settled
        /\ \E b \in net.budgets : Begin(Head(work).term, b)
        /\ UNCHANGED client

Work == Step /\ UNCHANGED client

\* The client calls again unless the call had nothing to do.
Return ==
    \E r \in {Result} :
        /\ End(r.heap)
        /\ work' = <<[Head(work) EXCEPT !.term = r.term]>> \o Tail(work)
        /\ settled' = (IsAtom(r.term) \/ (~fired /\ r.term = Head(work).term))
        /\ UNCHANGED <<leaves, net>>

\* The two branches of a superposition, with their paths.  (grouped_dfs stops
\* at an unordered one; here its label is recorded as well, away from the others.)
Branches(item) ==
    LET label == item.term.ext + IF item.term.tag = "USP" THEN 100 ELSE 0 IN
    [i \in 1 .. 2 |-> [term |-> heap[item.term.val + i - 1],
                       path |-> Append(item.path, <<label, i - 1>>)]]

NextIsAtom(items) == items # <<>> /\ IsAtom(Head(items).term)

Split ==
    /\ mode = "idle" /\ settled
    /\ IF Superposed(Head(work).term)
       THEN work' = Branches(Head(work)) \o Tail(work) /\ UNCHANGED leaves
       ELSE work' = Tail(work) /\ leaves' = Append(leaves, Head(work))
    /\ settled' = NextIsAtom(work')
    /\ UNCHANGED <<machine, net>>

Finished == mode = "idle" /\ work = <<>>

Next == Call \/ Work \/ Return \/ Split \/ (Finished /\ UNCHANGED vars)

Spec == Init /\ [][Next]_vars /\ WF_vars(Next)

-----------------------------------------------------------------------------
\* What the call in progress would leave if it stopped here, and the terms the
\* client has.
Stopped ==
    LET net0  == Drained(heap, stack, cur)
        items == [i \in DOMAIN work |-> work[i].term]
        done  == [i \in DOMAIN leaves |-> leaves[i].term] IN
    net0.heap \o (IF mode = "idle" THEN items ELSE <<net0.term>> \o Tail(items)) \o done

AllAllocated(terms) == \A i \in DOMAIN terms : InHeap(heap, terms[i])

(***************************************************************************)
(* Wherever the reducer may be stopped, no term names cells that were not  *)
(* allocated: the tests loc >= heap_pos with which the rules of wnf/_.c    *)
(* begin never hold.                                                       *)
(***************************************************************************)
NoDangling == AllAllocated(Stopped)

\* That is so of a net without definitions if its own terms were allocated: of what
\* a heap of n cells may hold, ...
Twos == Pairs \cup {"LAM", "BRI", "SUP", "USP", "ANN"}
Ones == {"DP0", "DP1", "UDP", "VAR", "INC"}
Tags == Twos \cup Ones \cup {"DSU", "DDU", "ERA", "CTR", "NUM", "ANY", "TEN", "REF"}

Terms == [sub : BOOLEAN, tag : Tags, ext : Nat, val : Nat]

Fits(n) == {t \in Terms : Arity(t) > 0 => t.val >= 1 /\ t.val + Arity(t) - 1 <= n}

\* ... every cell and the root are.
Good(h)  == h \in Seq(Fits(Len(h)))
Plain(n) == n.book = NoBook /\ Good(n.heap) /\ n.term \in Fits(Len(n.heap))

=============================================================================
