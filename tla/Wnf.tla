--------------------------------- MODULE Wnf ---------------------------------
(***************************************************************************)
(* The reducer of src/src/wnf/_.c: thvm_reduce_budget, a machine with an   *)
(* enter phase, which walks down to the term a reduction needs next and    *)
(* pushes a frame for each term it passes, and an apply phase, which pops  *)
(* the frames and fires the interaction rule of frame and value.  When the *)
(* budget is spent the machine stops where it is, and wnf_drain_stack puts *)
(* the pending frames back into the heap so that a later call can go on.   *)
(*                                                                         *)
(* Modelled: the rules of the combinators (VAR, LAM, APP, SUP, DUP, ERA,   *)
(* NUM, OP2, CTR, MAT, EQL, AND, OR, SEQ, ANN, INC, ANY, DSU, DDU, BRI,    *)
(* USP, UDP) and of named definitions (REF, ALO).  The tests loc >=        *)
(* heap_pos of the code are left out: nothing here makes a location that   *)
(* was not allocated.  So is erasing an ALO that nobody forced.            *)
(*                                                                         *)
(* This module is the machine.  A module that EXTENDS it is a caller of    *)
(* thvm_reduce: it starts a call with Begin, lets the machine Step, and    *)
(* takes the result when the call is Done.                                 *)
(***************************************************************************)
EXTENDS Book

VARIABLES heap,      \* the cells allocated so far
          book,      \* the definitions, see Book
          fresh,     \* next_sup_label
          states,    \* alo_states
          stack,     \* the frames, topmost first
          mode,      \* "enter", "apply", "erase"; "idle" between calls
          cur,       \* next while entering, whnf while applying
          left,      \* rules this call may still fire, or Unbounded
          fired      \* whether this call fired a rule

machine == <<heap, book, fresh, states, stack, mode, cur, left, fired>>

Unbounded == -1

\* WNF_BUDGET_HIT
Hit == left = 0

\* WNF_FIRED
Fire == /\ fired' = TRUE
        /\ left' = IF left \in {Unbounded, 0} THEN left ELSE left - 1
Rest == UNCHANGED <<fired, left>>

Go(t)  == mode' = "enter" /\ cur' = t        \* next = t; goto enter
Ret(t) == mode' = "apply" /\ cur' = t        \* whnf = t; goto apply

Frame(kind, term, saved) == [kind |-> kind, term |-> term, saved |-> saved]
Push(f) == stack' = <<f>> \o stack

-----------------------------------------------------------------------------
(* Draining.                                                                *)

\* Puts the value w of what frame f was waiting for back where f found it.
\* The second phase of OP2, APP and EQL restores its first operand as well.
Install(h, f, w) ==
    LET loc == f.term.val IN
    IF f.kind \in {"OP2_Y", "EQL_Y", "APP_MAT"}
    THEN [h EXCEPT ![loc] = f.saved, ![loc + 1] = w]
    ELSE [h EXCEPT ![loc] = w]

\* wnf_drain_stack
DrainFrame(s, f) == Made(Install(s.heap, f, s.term), f.term)

Slip_Drained(h, frames, w) ==
    Made(h, IF frames = <<>> THEN w ELSE frames[Len(frames)].term)
Drained(h, frames, w) ==
    LET drained[n \in 0 .. Len(frames)] ==
            IF n = 0 THEN Made(h, w)
            ELSE Once(drained[n - 1], LAMBDA s : DrainFrame(s, frames[n]))
    IN drained[Len(frames)]

-----------------------------------------------------------------------------
(* Erasers.                                                                 *)

\* thvm_era_payload: what an eraser, or an eraser of an eraser, is to erase.  A chain
\* has no more of them than there are cells.
ActiveEraser(t) == t.tag = "ERA" /\ t.val # 0

Payload(h, t) ==
    LET chase[n \in 0 .. Len(h) + 1] ==
            [p \in {h[i] : i \in DOMAIN h} \cup {t} |->
                IF n > 0 /\ ActiveEraser(p) THEN chase[n - 1][h[p.val]] ELSE p]
    IN chase[Len(h) + 1][t]

\* thvm_make_active_era
ActiveEra(h, t) ==
    LET p == Payload(h, t) IN
    IF IsErased(p) THEN Made(h, Era)
    ELSE Made(Append(h, p), Term("ERA", 0, Next1(h)))

\* thvm_spawn_detached_era
Detach(h, t) ==
    LET e == ActiveEra(h, t) IN
    IF IsErased(e.term) THEN h ELSE Append(e.heap, e.term)

\* One child of an erased node: the first that is not erased already is what
\* the walk goes on with, the others get erasers of their own.
EraseChild(s, loc) ==
    LET child == Payload(s.heap, s.heap[loc])
        h     == [s.heap EXCEPT ![loc] = Era] IN
    CASE IsErased(child)  -> Made(h, s.term)
      [] ~IsErased(child) /\ IsErased(s.term)  -> Made(h, child)
      [] ~IsErased(child) /\ ~IsErased(s.term) -> Made(Detach(h, child), s.term)

EraseChildren(h, t) ==
    LET erased[n \in 0 .. Arity(t)] ==
            IF n = 0 THEN Made(h, Era)
            ELSE Once(erased[n - 1], LAMBDA s : EraseChild(s, t.val + n - 1))
    IN erased[Arity(t)]

\* One of the two projections of a DUP cell goes.  The other finds the cell
\* handed to it; if it was handed already nobody is left to take it.
EraseProj(h, t) ==
    LET cell == h[t.val] IN
    IF cell.sub THEN LET orphan == StripSub(cell) IN
                     [(IF orphan.tag = "ERA" THEN h ELSE Detach(h, orphan))
                         EXCEPT ![t.val] = Era]
    ELSE [h EXCEPT ![t.val] = SetSub(cell)]

\* The variable of a lambda not yet applied: its argument will be erased.
\* (Otherwise the walk goes on with what was substituted.)
EraseVar(h, t) ==
    LET cell == h[t.val] IN
    IF cell.sub
    THEN Made([Append(h, Era) EXCEPT ![t.val] = Term("ERA", 0, Next1(h))], Era)
    ELSE Made(h, Payload(h, cell))

\* One layer of the walk: the heap, and what is left to erase.
EraseLayer(h, t) ==
    CASE t.tag \in {"DP0", "DP1"} -> Made(EraseProj(h, t), Era)
      [] t.tag = "VAR"            -> EraseVar(h, t)
      [] OTHER                    -> EraseChildren(h, t)

-----------------------------------------------------------------------------
(* The enter phase.                                                         *)

Entering(tags) == mode = "enter" /\ ~Hit /\ cur.tag \in tags

names == <<book, fresh, states>>

Same == UNCHANGED <<heap, names>>

EnterSpent == mode = "enter" /\ Hit /\ Ret(cur) /\ Rest /\ Same /\ UNCHANGED stack

EnterNormal ==
    /\ Entering({"NUM", "LAM", "BRI", "SUP", "USP", "ANY", "MAT"})
    /\ Ret(cur) /\ Rest /\ Same /\ UNCHANGED stack

EnterVar ==
    /\ Entering({"VAR"})
    /\ UNCHANGED <<names, stack>>
    /\ LET s == heap[cur.val]
           e == ActiveEra(heap, s) IN
       \/ s.sub /\ Ret(cur) /\ Rest /\ UNCHANGED heap
       \/ ~s.sub /\ ActiveEraser(s) /\ heap' = e.heap /\ Ret(e.term) /\ Fire
       \/ ~s.sub /\ ~ActiveEraser(s) /\ Go(s) /\ Rest /\ UNCHANGED heap

\* ANN and INC are transparent.
EnterWrapper ==
    /\ Entering({"ANN", "INC"})
    /\ Go(heap[cur.val]) /\ Fire /\ Same /\ UNCHANGED stack

\* The constructor without its first field.
TailOf(ctr) == Term("CTR", ctr.ext - 1, ctr.val + 1)

\* A constructor of one field is the field; an erased first field falls off.
EnterCtr ==
    /\ Entering({"CTR"})
    /\ Same /\ UNCHANGED stack
    /\ CASE cur.ext = 0 -> Ret(cur) /\ Rest
         [] cur.ext = 1 -> Go(heap[cur.val]) /\ Fire
         [] cur.ext > 1 /\ heap[cur.val].tag = "ERA" -> Go(TailOf(cur)) /\ Fire
         [] OTHER -> Ret(cur) /\ Rest

\* A projection: take what the sibling left, or share the body.
EnterDup ==
    /\ Entering({"DP0", "DP1"})
    /\ Same
    /\ LET cell == heap[cur.val] IN
       \/ cell.sub /\ Ret(StripSub(cell)) /\ Fire /\ UNCHANGED stack
       \/ ~cell.sub /\ Push(Frame("DUP", cur, Era)) /\ Go(cell) /\ Rest

\* The frame an operator waits in for its first slot.  APP and SEQ keep their
\* second slot in the frame, the others read it when they need it.
FrameOf(t) ==
    CASE t.tag \in {"APP", "SEQ"} -> Frame(t.tag, t, heap[t.val + 1])
      [] t.tag \in {"AND", "OR"}  -> Frame("AND_OR", t, Era)
      [] t.tag = "OP2"            -> Frame("OP2_X", t, Era)
      [] t.tag = "EQL"            -> Frame("EQL_X", t, Era)
      [] OTHER                    -> Frame(t.tag, t, Era)

WaitFirst == Push(FrameOf(cur)) /\ Go(heap[cur.val]) /\ Rest /\ Same

EnterOperator == Entering({"OP2", "SEQ", "APP", "DSU", "DDU"}) /\ WaitFirst

EnterStrict == Entering({"AND", "OR", "EQL", "UDP"}) /\ WaitFirst

\* Names: a definition is unfolded by copying its topmost node, ...
Memory == [book |-> book, heap |-> heap, fresh |-> fresh, states |-> states, term |-> Era, at |-> 0]

Unfold(m) == /\ heap' = m.heap /\ fresh' = m.fresh /\ states' = m.states /\ UNCHANGED book
             /\ Go(m.term) /\ Fire

EnterRef ==
    /\ Entering({"REF"})
    /\ IF cur.ext \in DOMAIN book.roots
       THEN Unfold(Realize(Memory, book.roots[cur.ext], 0))
       ELSE Ret(cur) /\ Rest /\ Same
    /\ UNCHANGED stack

\* ... and the next ones when they are needed.
EnterAlo == Entering({"ALO"}) /\ Unfold(ForceAlo(Memory, cur)) /\ UNCHANGED stack

EnterEra ==
    /\ Entering({"ERA"})
    /\ IF cur.val = 0 THEN Ret(cur) ELSE mode' = "erase" /\ UNCHANGED cur
    /\ Rest /\ Same /\ UNCHANGED stack

\* The walk does not look at the budget until it is done.
EraseStep ==
    /\ mode = "erase"
    /\ LET e == EraseLayer(heap, Payload(heap, heap[cur.val])) IN
       /\ heap' = [e.heap EXCEPT ![cur.val] = e.term]
       /\ IF IsErased(e.term) THEN Ret(Era) ELSE UNCHANGED <<mode, cur>>
    /\ Fire /\ UNCHANGED <<names, stack>>

Enter == EnterSpent \/ EnterNormal \/ EnterVar \/ EnterWrapper \/ EnterCtr
         \/ EnterDup \/ EnterOperator \/ EnterStrict \/ EnterRef \/ EnterAlo
         \/ EnterEra \/ EraseStep

-----------------------------------------------------------------------------
(* The apply phase.  Each action pops the top frame, f, with the value cur. *)

f == Head(stack)

Popping(kind) == mode = "apply" /\ ~Hit /\ stack # <<>> /\ f.kind = kind

Pop == stack' = Tail(stack)
Wait(frame) == stack' = <<frame>> \o Tail(stack)

\* next = made; goto enter, and a rule has fired.
Build(made) == \E m \in {made} : heap' = m.heap /\ Go(m.term) /\ Fire /\ Pop

\* No rule: the term is rebuilt from what has been reduced.
Stuck == heap' = Install(heap, f, cur) /\ Ret(f.term) /\ Rest /\ Pop

Answer(t) == Ret(t) /\ Fire /\ UNCHANGED heap /\ Pop
Become(t) == Go(t) /\ Fire /\ UNCHANGED heap /\ Pop

\* The second slot of the term that waits.
Second == heap[f.term.val + 1]

EraseNode(h, loc) == [h EXCEPT ![loc] = Era, ![loc + 1] = Era]

ApplyOp2X ==
    /\ Popping("OP2_X")
    /\ IF cur.tag = "SUP"
       THEN Build(Distribute(heap, cur, "OP2", f.term.ext, Second))
       ELSE Wait(Frame("OP2_Y", f.term, cur)) /\ Go(Second) /\ Rest /\ UNCHANGED heap
    /\ UNCHANGED names

ApplyOp2Y ==
    /\ Popping("OP2_Y")
    /\ CASE cur.tag = "SUP" ->
                Build(DistributeCopy(heap, cur, "OP2", f.term.ext, f.saved))
         [] cur.tag = "NUM" /\ f.saved.tag = "NUM" ->
                Answer(Num(Op2Result(f.term.ext, f.saved.val, cur.val)))
         [] OTHER -> Stuck
    /\ UNCHANGED names

\* The projection that asked gets its copy; the other copy is left in the cell
\* for the sibling, marked with the SUB bit.
ForSibling(copies, side) == SetSub(copies.v[2 - side])

ApplyDup ==
    /\ Popping("DUP")
    /\ LET side   == IF f.term.tag = "DP1" THEN 1 ELSE 0
           copies == Copy(heap, f.term.ext, cur) IN
       IF Copyable(cur)
       THEN /\ heap' = [copies.heap EXCEPT ![f.term.val] = ForSibling(copies, side)]
            /\ Ret(copies.v[side + 1]) /\ Fire /\ Pop
       ELSE Stuck
    /\ UNCHANGED names

ApplySeq ==
    /\ Popping("SEQ")
    /\ IF cur.tag = "SUP" THEN Build(Distribute(heap, cur, "SEQ", 0, f.saved))
                          ELSE Become(f.saved)
    /\ UNCHANGED names

Beta(h, lam, arg, app) == EraseNode([h EXCEPT ![lam] = arg], app)

ApplyApp ==
    /\ Popping("APP")
    /\ LET app == f.term.val
           arg == f.saved
           split == Distribute(heap, cur, "APP", 0, arg) IN
       CASE cur.tag = "LAM" ->
                Build(Made(Beta(heap, cur.val, arg, app), heap[cur.val + 1]))
         [] cur.tag = "NUM" -> Become(arg)
         [] cur.tag = "ERA" -> heap' = Detach(heap, arg) /\ Ret(Era) /\ Fire /\ Pop
         [] cur.tag = "BRI" -> Build(Made([heap EXCEPT ![cur.val] = arg], heap[cur.val + 1]))
         [] Superposed(cur) -> Build(Made(EraseNode(split.heap, app), split.term))
         [] cur.tag = "MAT" ->
                Wait(Frame("APP_MAT", f.term, cur)) /\ Go(arg) /\ Rest /\ UNCHANGED heap
         [] OTHER -> Stuck
    /\ UNCHANGED names

\* The handler applied to the fields of a constructor, first field innermost.
ApplyTo(r, loc) == Node(r.heap, "APP", 0, r.term, r.heap[loc])

Fields(h, handler, ctr) ==
    LET applied[n \in 0 .. ctr.ext] ==
            IF n = 0 THEN Made(h, handler)
            ELSE Once(applied[n - 1], LAMBDA r : ApplyTo(r, ctr.val + n - 1))
    IN applied[ctr.ext]

ApplyMat ==
    /\ Popping("APP_MAT")
    /\ LET handler  == heap[f.saved.val]
           fallback == heap[f.saved.val + 1] IN
       CASE Superposed(cur) -> Build(DistributeFun(heap, cur, f.saved))
         [] cur.tag = "CTR" /\ f.saved.ext = cur.ext -> Build(Fields(heap, handler, cur))
         [] cur.tag = "NUM" /\ f.saved.ext = cur.val -> Become(handler)
         [] \/ cur.tag = "CTR" /\ f.saved.ext # cur.ext
            \/ cur.tag = "NUM" /\ f.saved.ext # cur.val ->
                Build(Node(heap, "APP", 0, fallback, cur))
         [] cur.tag = "ERA" -> Ret(Era) /\ Rest /\ UNCHANGED heap /\ Pop
         [] OTHER -> Stuck
    /\ UNCHANGED names

\* 0 .&. b is 0, n .&. b is b; 0 .|. b is b, n .|. b is 1.
ApplyAndOr ==
    /\ Popping("AND_OR")
    /\ CASE Superposed(cur) -> Build(Distribute(heap, cur, f.term.tag, 0, Second))
         [] cur.tag = "ERA" -> Answer(Era)
         [] cur.tag = "NUM" ->
                IF (cur.val = 0) = (f.term.tag = "OR") THEN Become(Second)
                ELSE Answer(Num(IF f.term.tag = "OR" THEN 1 ELSE 0))
         [] OTHER -> Stuck
    /\ UNCHANGED names

ApplyEqlX ==
    /\ Popping("EQL_X")
    /\ CASE Superposed(cur) -> Build(Distribute(heap, cur, "EQL", 0, Second))
         [] cur.tag = "ERA" -> Answer(Era)
         [] cur.tag = "ANY" -> Answer(Num(1))
         [] OTHER ->
                Wait(Frame("EQL_Y", f.term, cur)) /\ Go(Second) /\ Rest /\ UNCHANGED heap
    /\ UNCHANGED names

Values == {"NUM", "TEN", "CTR", "LAM"}

\* Two lambdas are equal if their bodies are, with both variables replaced by
\* one fresh number.
ApplyEqlY ==
    /\ Popping("EQL_Y")
    /\ LET x == f.saved IN
       CASE Superposed(cur) -> Build(DistributeCopy(heap, cur, "EQL", 0, x))
         [] cur.tag = "ERA" -> Answer(Era)
         [] cur.tag = "ANY" -> Answer(Num(1))
         [] cur.tag = "NUM" /\ x.tag = "NUM" ->
                Answer(Num(IF x.val = cur.val THEN 1 ELSE 0))
         [] cur.tag = "LAM" /\ x.tag = "LAM" ->
                Build(Node([heap EXCEPT ![x.val] = Num(fresh), ![cur.val] = Num(fresh)],
                           "EQL", 0, heap[x.val + 1], heap[cur.val + 1]))
         [] {cur.tag, x.tag} \subseteq Values /\ cur.tag # x.tag -> Answer(Num(0))
         [] cur.tag = x.tag /\ cur.tag \in {"CTR", "TEN"} -> Answer(Num(0))
         [] OTHER -> Stuck
    /\ UNCHANGED <<book, states>>
    /\ fresh' = IF cur.tag = "LAM" /\ f.saved.tag = "LAM" THEN fresh + 1 ELSE fresh

\* A superposition, or a DUP, whose label is computed.
ApplyDynamic ==
    /\ Popping(f.kind) /\ f.kind \in {"DSU", "DDU"}
    /\ LET a == Second
           b == heap[f.term.val + 2]
           cell == Append(heap, a)
           inner == Node(cell, "APP", 0, b, Proj(0, cur.val, Len(cell))) IN
       CASE cur.tag # "NUM" -> Stuck
         [] cur.tag = "NUM" /\ f.kind = "DSU" -> Build(Node(heap, "SUP", cur.val, a, b))
         [] cur.tag = "NUM" /\ f.kind = "DDU" ->
                Build(Node(inner.heap, "APP", 0, inner.term, Proj(1, cur.val, Len(cell))))
    /\ UNCHANGED names

\* A UDP takes one branch of an unordered superposition of its label and
\* leaves the other to the next use of its cell; it moves into any other
\* superposition, and into a lambda.
UdpBranches(h, udp, sup) ==
    LET d == Next1(h) IN
    Made(h \o <<h[sup.val], h[sup.val + 1],
                Term("UDP", udp.ext, d), Term("UDP", udp.ext, d + 1)>>,
         [sup EXCEPT !.val = d + 2])

UdpLam(h, udp, lam) ==
    LET d   == Next1(h)
        var == Term("VAR", 0, d + 1) IN
    Made([h EXCEPT ![lam.val] = Term("UDP", udp.ext, d + 3)]
           \o <<h[lam.val + 1], SetSub(var), Term("UDP", udp.ext, d), var>>,
         Term("LAM", 0, d + 1))

ApplyUdp ==
    /\ Popping("UDP")
    /\ LET udp == f.term
           lam == UdpLam(heap, udp, cur) IN
       CASE cur.tag = "USP" /\ cur.ext = udp.ext ->
                heap' = [heap EXCEPT ![udp.val] = heap[cur.val + 1]]
                /\ Go(heap[cur.val]) /\ Fire /\ Pop
         [] Superposed(cur) /\ ~(cur.tag = "USP" /\ cur.ext = udp.ext) ->
                Build(UdpBranches(heap, udp, cur))
         [] cur.tag \in {"NUM", "ERA", "TEN", "ANY"} -> Ret(cur) /\ Rest /\ UNCHANGED heap /\ Pop
         [] cur.tag = "LAM" -> heap' = lam.heap /\ Ret(lam.term) /\ Fire /\ Pop
         [] OTHER -> Stuck
    /\ UNCHANGED names

Apply == ApplyOp2X \/ ApplyOp2Y \/ ApplyDup \/ ApplySeq \/ ApplyApp \/ ApplyMat
         \/ ApplyAndOr \/ ApplyEqlX \/ ApplyEqlY \/ ApplyDynamic \/ ApplyUdp

-----------------------------------------------------------------------------
(* Calls.                                                                   *)

InitMachine(n) ==
    /\ heap = n.heap /\ book = n.book /\ fresh = 0 /\ states = <<>> /\ stack = <<>>
    /\ mode = "idle" /\ cur = Era /\ left = Unbounded /\ fired = FALSE

\* thvm_reduce_budget is called on t; a budget of 0 is no limit.
Begin(t, budget) ==
    /\ mode = "idle" /\ Go(t)
    /\ left' = IF budget = 0 THEN Unbounded ELSE budget
    /\ fired' = FALSE
    /\ UNCHANGED <<heap, names, stack>>

\* The call is over, with the budget spent or no frame left ...
Done == mode = "apply" /\ (Hit \/ stack = <<>>)

\* ... this is the heap it leaves and the term it returns ...
Result == Drained(heap, stack, cur)

\* ... and the caller goes on with heap h.
End(h) == /\ Done
          /\ heap' = h
          /\ mode' = "idle" /\ stack' = <<>> /\ cur' = Era
          /\ left' = Unbounded /\ fired' = FALSE
          /\ UNCHANGED names

Step == Enter \/ Apply

=============================================================================
