------------------------------- MODULE Fusion -------------------------------
(***************************************************************************)
(* How lazy tensor expressions become kernels by local rewriting: FUSE,    *)
(* KERNEL and ASSIGN of interact/tensor_ops.c, with the helpers of         *)
(* interact/_.c, on a heap of terms.                                       *)
(*                                                                         *)
(* A term is a pair <<tag, n>>: a tensor, or a node whose cells begin at n *)
(* (for the empty eraser, n = 0).  The operations are one of each kind the *)
(* rules tell apart: pointwise with two operands and with one, and a       *)
(* reduction, whose second cell names its axes.  Movements are the subject *)
(* of Kernels; superpositions and erasers of tensors that of Wnf.          *)
(*                                                                         *)
(* A kernel has three cells: EMPTY, a marker put on the expression in its  *)
(* first cell; GROWING, an operation on two children; or MONOLITHIC, all   *)
(* of an expression as one payload.                                        *)
(***************************************************************************)
EXTENDS Integers, Sequences, SequencesExt

Binary   == {"add", "mul"}
Compute  == Binary \cup {"neg", "sum"}
Direct   == {"assign", "kernel", "exec", "fuse"}   \* reduce_top_direct_uop
Tops     == Compute \cup Direct
Structure == {"ctr", "seq", "assign", "fuse"}    \* what else a program is made of
Atoms    == {"ten", "num", "any"}

Tag(t) == t[1]
At(t)  == t[2]

Era      == <<"era", 0>>
Anything == <<"any", 0>>
Ten(i)  == <<"ten", i>>
Num(n)  == <<"num", n>>
Axes    == Ten(0)
NoOp    == "none"        \* UOP_COUNT

\* thvm_uop_storage_arity, reduce_net_term_arity
Arity(t) ==
    CASE Tag(t) \in {"kernel", "exec"} -> 3
      [] Tag(t) \in {"fuse", "neg"} -> 1
      [] Tag(t) \in {"ctr", "seq", "assign", "sum"} \cup Binary -> 2
      [] OTHER -> 0

\* A node of the given cells, put at the end of the heap.
Node(h, tag, cells) == [heap |-> h \o cells, term |-> <<tag, Len(h) + 1>>]

-----------------------------------------------------------------------------
\* Kernels.

root_uop(h, k) == At(h[At(k) + 2])
is_empty(h, k) == Tag(k) = "kernel" /\ root_uop(h, k) = NoOp
is_monolithic(h, k) == Tag(k) = "kernel" /\ h[At(k) + 1] = Anything
monolithic_payload(h, k) == h[At(k)]

make_empty_kernel(h, payload) == Node(h, "kernel", <<payload, Era, Num(NoOp)>>)
make_public_kernel(h, payload) == Node(h, "kernel", <<payload, Anything, Num(Tag(payload))>>)
make_growing_kernel(h, op, left, right) == Node(h, "kernel", <<left, right, Num(op)>>)

fuse_wrap_child(h, child) ==
    IF Tag(child) \in Compute THEN make_empty_kernel(h, child) ELSE [heap |-> h, term |-> child]

local_child_ready(h, child) == Tag(child) \in Tops => is_monolithic(h, child)

absorb_child(h, child) == IF is_monolithic(h, child) THEN monolithic_payload(h, child) ELSE child

\* The operation on children that are ready, or the growing kernel that waits for them.
make_visible_kernel(h, op, left, right) ==
    LET cells == <<absorb_child(h, left), absorb_child(h, right)>>
        payload == Node(h, op, IF op = "neg" THEN <<cells[1]>> ELSE cells)
    IN  IF local_child_ready(h, left) /\ local_child_ready(h, right)
        THEN make_public_kernel(payload.heap, payload.term)
        ELSE make_growing_kernel(h, op, left, right)

fuse_public_term(h, t) ==
    LET left == fuse_wrap_child(h, h[At(t)])
        right == CASE Tag(t) \in Binary -> fuse_wrap_child(left.heap, h[At(t) + 1])
                   [] Tag(t) = "neg" -> [left EXCEPT !.term = Era]
                   [] Tag(t) = "sum" -> [left EXCEPT !.term = h[At(t) + 1]]
    IN  make_visible_kernel(right.heap, Tag(t), left.term, right.term)

-----------------------------------------------------------------------------
\* Rules: the heap and the term that replaces t.

Same(h, t) == [heap |-> h, term |-> t]

make_fuse(h, payload) == Node(h, "fuse", <<payload>>)

\* A marker, FUSE or an empty kernel, on each of two cells that holds an expression without one.
MarkCell(h, at, tag) ==
    LET m == IF tag = "fuse" THEN make_fuse(h, h[at]) ELSE make_empty_kernel(h, h[at])
    IN  IF Tag(h[at]) \in {"ten", "era", "kernel", tag} THEN h ELSE [m.heap EXCEPT ![at] = m.term]
MarkFields(h, t, tag) == MarkCell(MarkCell(h, At(t), tag), At(t) + 1, tag)

\* FUSE moves through structure and makes a kernel of an expression, which it also leaves in
\* its own cell.  It does not enter a SEQ: what a SEQ runs first has to come first.
FuseRule(h, t) ==
    LET payload == h[At(t)]
        public == fuse_public_term(h, payload)
    IN  CASE Tag(payload) \in Compute ->
               [public EXCEPT !.heap[At(t)] = public.term]
          [] Tag(payload) = "assign" ->
               Same(MarkCell(h, At(payload) + 1, "fuse"), payload)
          [] Tag(payload) = "ctr" ->
               Same(MarkFields(h, payload, "fuse"), payload)
          [] Tag(payload) = "exec" -> Same(h, t)
          [] OTHER -> Same(h, payload)

\* The cell of what has been taken in is dead: it redirects to the kernel.
Dead(t) == <<"sub", At(t)>>

\* An empty kernel takes in its expression, in place.
EmptyRule(h, t) ==
    LET payload == h[At(t)]
        public == fuse_public_term(h, payload)
        from(i) == public.heap[At(public.term) + i]
    IN  CASE Tag(payload) \in Compute ->
               Same([public.heap EXCEPT ![At(t)] = from(0), ![At(t) + 1] = from(1), ![At(t) + 2] = from(2),
                                        ![At(payload)] = Dead(t)], t)
          [] Tag(payload) = "assign" ->
               Same(MarkCell(h, At(payload) + 1, "kernel"), payload)
          [] Tag(payload) = "ctr" ->
               Same([MarkFields(h, payload, "kernel") EXCEPT ![At(t)] = Dead(payload)],
                    payload)
          [] Tag(payload) \in {"exec", "fuse"} -> Same(h, t)
          [] OTHER -> Same(h, payload)

\* A growing kernel settles, in place, when both children have.
SettleRule(h, t) ==
    LET left == h[At(t)]
        right == h[At(t) + 1]
        inner == Node(h, root_uop(h, t), <<absorb_child(h, left), absorb_child(h, right)>>)
        settled == [inner.heap EXCEPT ![At(t)] = inner.term, ![At(t) + 1] = Anything]
        Bury(g, child) == IF Tag(child) = "kernel" THEN [g EXCEPT ![At(child)] = Dead(t)] ELSE g
    IN  IF local_child_ready(h, left) /\ local_child_ready(h, right)
        THEN Same(Bury(Bury(settled, left), right), t) ELSE Same(h, t)
=============================================================================
