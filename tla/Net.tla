--------------------------------- MODULE Net ---------------------------------
(***************************************************************************)
(* Terms and the heap of an interaction net (src/src/tinyhvm.h, term/con.c,*)
(* heap/alloc.c, inet/_.c), and the rewrites of the heap that the reducer  *)
(* is built from.                                                          *)
(*                                                                         *)
(* A term is the machine word of the code taken apart: the SUB bit, the    *)
(* tag, ext (a label, an opcode, an arity or a match tag) and val (a heap  *)
(* location or an immediate number).  The heap is the sequence of the      *)
(* cells allocated so far, so the bump pointer heap_pos is Len(h) + 1 and  *)
(* heap_alloc appends.  Location 0 is never allocated.                     *)
(*                                                                         *)
(* The operators here are pure: they take a heap and return one.           *)
(*                                                                         *)
(* As everywhere, Slip_X is a plausible mistake in X that nothing uses.    *)
(***************************************************************************)
EXTENDS Integers, Sequences

CONSTANT Word      \* the number of values of a 32-bit number

ASSUME WordAssumption == Word \in Nat /\ Word > 1

Term(tag, ext, val) == [sub |-> FALSE, tag |-> tag, ext |-> ext, val |-> val]

Num(n) == Term("NUM", 0, n)
Era    == Term("ERA", 0, 0)          \* the inert eraser
Wild   == Term("ANY", 0, 0)

SetSub(t)   == [t EXCEPT !.sub = TRUE]
StripSub(t) == [t EXCEPT !.sub = FALSE]

\* DP0 (i = 0) or DP1 (i = 1) of the DUP cell at loc.
Proj(i, label, loc) == Term(IF i = 0 THEN "DP0" ELSE "DP1", label, loc)

IsErased(t) == t.tag = "ERA" /\ t.val = 0

\* wnf_is_atom
IsAtom(t) == t.tag \in {"TEN", "NUM", "LAM", "SUP", "ANY"}

\* A superposition, ordered or not; a binder, a lambda or a bridge.
Superposed(t) == t.tag \in {"SUP", "USP"}
Binder(t)     == t.tag \in {"LAM", "BRI"}

\* Tags with two children and nothing else in the heap.
Pairs == {"APP", "OP2", "EQL", "AND", "OR", "MAT", "SEQ"}

\* The cells that belong to a term: WNF_ERA_ARITY, and ext for a constructor.
Arity(t) ==
    CASE t.tag \in Pairs \cup {"LAM", "BRI", "SUP", "USP", "ANN", "ALO"} -> 2
      [] t.tag \in {"DSU", "DDU"}                         -> 3
      [] t.tag \in {"DP0", "DP1", "UDP", "VAR", "INC"}    -> 1
      [] t.tag = "ERA"                                    -> IF t.val = 0 THEN 0 ELSE 1
      [] t.tag = "CTR"                                    -> t.ext
      [] OTHER                                            -> 0

\* They were all allocated.  (A location of the book, see Book, is negative.)
InHeap(h, t) ==
    Arity(t) > 0 /\ t.val >= 0 => t.val >= 1 /\ t.val + Arity(t) - 1 <= Len(h)

-----------------------------------------------------------------------------
(* Allocation.  Every operator returns the new heap and the term it made.   *)

Next1(h) == Len(h) + 1               \* where the next allocation begins

Made(h, t) == [heap |-> h, term |-> t]

\* thvm_app, thvm_sup, thvm_op2, thvm_eql, ...: a node with two children.
Node(h, tag, ext, a, b) ==
    Made(h \o <<a, b>>, Term(tag, ext, Next1(h)))

\* Two nodes of the same kind under a superposition like sup.
Branch(h, sup, tag, ext, left, right) ==
    LET n == Next1(h) IN
    Made(h \o left \o right \o <<Term(tag, ext, n), Term(tag, ext, n + 2)>>,
         [sup EXCEPT !.val = n + 4])

\* The interaction of a binary operator with a superposition: the operator
\* moves into both branches, and what it holds in its other slot is shared
\* between them through a DUP cell with the label of the superposition.
Slip_Shared(label, loc) == <<Proj(0, label, loc), Proj(0, label, loc)>>
Shared(label, loc) == <<Proj(0, label, loc), Proj(1, label, loc)>>

\* Between the branches of an unordered superposition, the two uses of one UDP.
Halves(sup, loc) ==
    IF sup.tag = "USP" THEN [i \in 1 .. 2 |-> Term("UDP", sup.ext, loc)]
    ELSE Shared(sup.ext, loc)

Distribute(h, sup, tag, ext, other) ==
    LET half == Halves(sup, Next1(h)) IN
    Branch(Append(h, other), sup, tag, ext,
           <<h[sup.val], half[1]>>, <<h[sup.val + 1], half[2]>>)

\* The same with the shared term in front: (MAT &L{a, b}).
DistributeFun(h, sup, fun) ==
    LET half == Halves(sup, Next1(h)) IN
    Branch(Append(h, fun), sup, "APP", 0,
           <<half[1], h[sup.val]>>, <<half[2], h[sup.val + 1]>>)

\* The same with a left operand that is copied as it stands.
DistributeCopy(h, sup, tag, ext, x) ==
    Branch(h, sup, tag, ext, <<x, h[sup.val]>>, <<x, h[sup.val + 1]>>)

-----------------------------------------------------------------------------
(* Copying: what a DUP does to the weak head normal form w it shares.  The  *)
(* result is the heap and what each of the two projections becomes.         *)

Copies(h, v0, v1) == [heap |-> h, v |-> <<v0, v1>>]

CopyAtom(h, w) == Copies(h, w, w)

\* Equal labels cancel, ...
Slip_Annihilate(h, w) == Copies(h, h[w.val + 1], h[w.val])
Annihilate(h, w) == Copies(h, h[w.val], h[w.val + 1])

\* ... different labels cross: the DUP moves into both branches.
Commute(h, label, w) ==
    LET d == Next1(h) IN
    Copies(h \o <<h[w.val + 1],
                  Proj(0, label, w.val), Proj(0, label, d),
                  Proj(1, label, w.val), Proj(1, label, d)>>,
           Term(w.tag, w.ext, d + 1), Term(w.tag, w.ext, d + 3))

\* A lambda is copied by copying its body; its variable becomes the
\* superposition of the variables of the copies.
CopyLam(h, label, w) ==
    LET d == Next1(h)
        var(l) == Term("VAR", 0, l)
        bound  == Term("SUP", label, d + 5) IN
    Copies([h EXCEPT ![w.val] = bound] \o
             <<h[w.val + 1],
               SetSub(var(d + 1)), Proj(0, label, d),
               SetSub(var(d + 3)), Proj(1, label, d),
               var(d + 1), var(d + 3)>>,
           Term(w.tag, 0, d + 1), Term(w.tag, 0, d + 3))

\* A node that is stuck is copied child by child.
CopyPair(h, label, w) ==
    LET r == Next1(h) IN
    Copies(h \o <<Proj(0, label, r + 4), Proj(0, label, r + 5),
                  Proj(1, label, r + 4), Proj(1, label, r + 5),
                  h[w.val], h[w.val + 1]>>,
           Term(w.tag, w.ext, r), Term(w.tag, w.ext, r + 2))

Copyable(w) == w.tag \in {"ERA", "NUM", "ANY", "CTR", "SUP", "USP", "LAM", "BRI"} \cup Pairs

Copy(h, label, w) ==
    CASE w.tag = "SUP" /\ w.ext = label -> Annihilate(h, w)
      [] Superposed(w) /\ ~(w.tag = "SUP" /\ w.ext = label) -> Commute(h, label, w)
      [] Binder(w)                      -> CopyLam(h, label, w)
      [] w.tag \in Pairs                -> CopyPair(h, label, w)
      [] OTHER                          -> CopyAtom(h, w)

-----------------------------------------------------------------------------
(* OP2 on two numbers: add, sub, mul, div, equal, mod.                      *)

Op2Result(opr, x, y) ==
    CASE opr = 0 -> (x + y) % Word
      [] opr = 1 -> (x - y) % Word
      [] opr = 2 -> (x * y) % Word
      [] opr = 3 -> IF y = 0 THEN 0 ELSE x \div y
      [] opr = 4 -> IF x = y THEN 1 ELSE 0
      [] opr = 5 -> IF y = 0 THEN 0 ELSE x % y
      [] OTHER   -> 0

=============================================================================
