------------------------------ MODULE Kernels ------------------------------
(***************************************************************************)
(* An evaluation of a tensor expression, from the calls that build it to   *)
(* the values it leaves: constructors (TensorGraph), planning into kernels *)
(* (KernelBuild) and their execution, lowered or not (KernelRun).          *)
(*                                                                         *)
(* The caller builds an expression as on a stack, last operands first to   *)
(* be used, and uses every value once: values that are used again are put  *)
(* under a DUP, which the planner treats as one more root.  Tensors may be *)
(* used again.  Next to each value the caller holds what it should be.     *)
(*                                                                         *)
(* Kernels run in any order in which each follows those it depends on      *)
(* (the order of the reducer is the subject of module Schedule).           *)
(***************************************************************************)
EXTENDS KernelRun, TensorAlgebra

CONSTANTS
    Inputs,        \* the tensors: a sequence of [dims, vals]
    Numbers,       \* numbers used as operands
    Calls,         \* the operations programs use
    MaxCalls,      \* bound on the operations of a program
    MaxSize,       \* bound on the elements of a tensor
    Asked(_, _)    \* which expressions programs ask to evaluate, lowered or not

VARIABLES
    heap,          \* nodes of the expression
    hand,          \* what the caller holds: nodes, and what they mean
    calls,         \* operations so far
    lowers,        \* whether kernels are lowered (THVM_NO_LOWER is not set)
    tensors,       \* tensors, those of kernels included
    kernels,       \* the planned kernels (sched_kernels)
    data,          \* tensor -> elements of its buffer, for those that have one
    done,          \* kernels that have run
    astray         \* whether an index was outside its buffer

vars == <<heap, hand, calls, lowers, tensors, kernels, data, done, astray>>

Building == kernels = << >>

Init ==
    /\ heap = [i \in DOMAIN Inputs |->
                  [op |-> "ten", src |-> << >>, par |-> i, st |-> st_from_view(view_create(Inputs[i].dims))]]
    /\ tensors = [i \in DOMAIN Inputs |-> [st |-> heap[i].st, of |-> i]]
    /\ data = [i \in DOMAIN Inputs |-> Inputs[i].vals]
    /\ lowers \in BOOLEAN
    /\ hand = << >> /\ calls = 0 /\ kernels = << >> /\ done = {} /\ astray = FALSE

-----------------------------------------------------------------------------
\* Building.

Hold(id, value) == [id |-> id, value |-> value]

Fetches(i) ==
    /\ Building /\ Len(hand) < 2
    /\ hand' = Append(hand, Hold(i, Inputs[i]))
    /\ UNCHANGED <<heap, calls, lowers, tensors, kernels, data, done, astray>>

Names(n) ==
    /\ Building /\ Len(hand) < 2
    /\ heap' = Append(heap, [op |-> "num", src |-> << >>, par |-> n, st |-> << >>])
    /\ hand' = Append(hand, Hold(Len(heap'), [dims |-> <<1>>, vals |-> [k \in {0} |-> n]]))
    /\ UNCHANGED <<calls, lowers, tensors, kernels, data, done, astray>>

\* An operation on the last `n' values held.
Becomes(n, made, value) ==
    /\ Building /\ calls < MaxCalls /\ Size(value.dims) <= MaxSize
    /\ Asked(made.heap, lowers)
    /\ heap' = made.heap
    /\ hand' = Append(SubSeq(hand, 1, Len(hand) - n), Hold(made.id, value))
    /\ calls' = calls + 1
    /\ UNCHANGED <<lowers, tensors, kernels, data, done, astray>>

Held == Last(hand)
Other == hand[Len(hand) - 1]
HasTensor == hand # << >> /\ ~IsNumber(heap, Held.id)

Applies1(op) ==
    /\ HasTensor
    /\ Becomes(1, thvm_op(heap, op, <<Held.id>>, << >>), Pointwise1(op, Held.value))

Applies2(op) ==
    /\ Len(hand) = 2 /\ \E h \in ToSet(hand) : ~IsNumber(heap, h.id)
    /\ Fits(Other.value, Held.value)
    /\ Becomes(2, thvm_op(heap, op, <<Other.id, Held.id>>, << >>), Pointwise2(op, Other.value, Held.value))

\* Without axes there has to be a dimension to reduce.
Reduces(op, axes) ==
    /\ HasTensor
    /\ LET dims == Held.value.dims
           wide == {i \in DOMAIN dims : dims[i] > 1}
           over == IF axes = << >> THEN {Max(wide)} ELSE ToSet(axes)
       IN  /\ wide # {} /\ over \subseteq wide
           /\ Becomes(1, thvm_op(heap, op, <<Held.id>>, axes), Reduced(op, Held.value, over))

Reshapes(dims) ==
    /\ HasTensor /\ Size(dims) = Size(Held.value.dims) /\ dims # Held.value.dims
    /\ Becomes(1, thvm_reshape(heap, Held.id, dims), Moved("reshape", Held.value, dims))

Permutes(axes) ==
    /\ HasTensor /\ Len(axes) = Len(Held.value.dims)
    /\ Becomes(1, thvm_permute(heap, Held.id, axes), Moved("permute", Held.value, axes))

Expands(dims) ==
    /\ HasTensor /\ Len(dims) = Len(Held.value.dims) /\ dims # Held.value.dims
    /\ \A i \in DOMAIN dims : Held.value.dims[i] \in {1, dims[i]}
    /\ Becomes(1, thvm_expand(heap, Held.id, dims), Moved("expand", Held.value, dims))

\* One dimension is shrunk or padded at a time.
Along(i, pair, others(_)) ==
    [j \in DOMAIN Held.value.dims |-> IF j = i THEN pair ELSE others(Held.value.dims[j])]

Shrinks(i, pair) ==
    /\ HasTensor /\ i \in DOMAIN Held.value.dims
    /\ pair[2] <= Held.value.dims[i] /\ pair # <<0, Held.value.dims[i]>>
    /\ LET pairs == Along(i, pair, LAMBDA d : <<0, d>>)
       IN  Becomes(1, thvm_shrink(heap, Held.id, pairs), Moved("shrink", Held.value, pairs))

Pads(i, pair) ==
    /\ HasTensor /\ i \in DOMAIN Held.value.dims
    /\ LET pairs == Along(i, pair, LAMBDA d : <<0, 0>>)
       IN  Becomes(1, thvm_pad(heap, Held.id, pairs), Moved("pad", Held.value, pairs))

Multiplies ==
    /\ Len(hand) = 2 /\ HasTensor /\ ~IsNumber(heap, Other.id)
    /\ LET s == Other.value
           t == Held.value
       IN  /\ Len(s.dims) = 2 /\ Len(t.dims) = 2 /\ s.dims[2] = t.dims[1]
           /\ Becomes(2, thvm_mm(heap, Other.id, Held.id), Product(s, t))

-----------------------------------------------------------------------------
\* Evaluating.

\* An expression is planned if it computes anything; kernels that cannot be built leave it
\* unevaluated.
Evaluates ==
    /\ Building /\ Len(hand) = 1 /\ Kernelizable(heap, Held.id)
    /\ \E plan \in {sched_all(heap, tensors, Held.id)} : kernels' = plan.kernels /\ tensors' = plan.tensors
    /\ UNCHANGED <<heap, hand, calls, lowers, data, done, astray>>

Built == ~Building /\ \A k \in DOMAIN kernels : kernels[k].ok
Ready(k) == Built /\ k \notin done /\ ToSet(kernels[k].deps) \subseteq done

\* The buffer that a leaf reads: that of the tensor, or of the tensor it is a view of.
Home(leaf) == tensors[leaf.id].of
Bound(leaf) == leaf.kind = "num" \/ Home(leaf) \in DOMAIN data
Buffer(leaf) == IF leaf.kind = "num" THEN [i \in {0} |-> leaf.id] ELSE data[Home(leaf)]

Completes(k) ==
    /\ Ready(k) /\ \A i \in DOMAIN kernels[k].leaves : Bound(kernels[k].leaves[i])
    /\ done' = done \cup {k}

\* The backend runs the lowered kernel, or interprets it if it could not be lowered.
Ran(ke, code, fresh, bufs) ==
    IF code # NoProgram THEN dispatch_uop_kernel(ke, code, fresh, bufs) ELSE dispatch_kernel_rs(ke, fresh, bufs)
Outcome(ke) ==
    Ran(ke, IF lowers THEN lower_kernel_uop(ke) ELSE NoProgram,
        [i \in 0 .. Size(Last(tensors[ke.raw].st).dims) - 1 |-> 0],
        [i \in DOMAIN ke.leaves |-> Buffer(ke.leaves[i])])

\* The output is allocated, and the kernel runs.
Dispatches(k) ==
    /\ Completes(k)
    /\ \E ran \in {Outcome(kernels[k])} :
          /\ data' = (kernels[k].raw :> ran.out) @@ data
          /\ astray' = (astray \/ ran.stray)
    /\ UNCHANGED <<heap, hand, calls, lowers, tensors, kernels>>

Shapes == {<<1, 2>>, <<2, 1>>, <<2, 2>>, <<4>>}

Build ==
    \/ \E i \in DOMAIN Inputs : Fetches(i)
    \/ \E n \in Numbers : Names(n)
    \/ \E op \in Unary \cap Calls : Applies1(op)
    \/ \E op \in Binary \cap Calls : Applies2(op)
    \/ \E op \in Reductions \cap Calls, axes \in {<< >>, <<1>>} : Reduces(op, axes)
    \/ "reshape" \in Calls /\ \E dims \in Shapes : Reshapes(dims)
    \/ "permute" \in Calls /\ Permutes(<<2, 1>>)
    \/ "expand" \in Calls /\ \E dims \in Shapes : Expands(dims)
    \/ "shrink" \in Calls /\ \E i \in 1 .. 2, pair \in {<<0, 1>>, <<1, 2>>} : Shrinks(i, pair)
    \/ "pad" \in Calls /\ \E i \in 1 .. 2, pair \in {<<0, 1>>, <<1, 0>>} : Pads(i, pair)
    \/ "mm" \in Calls /\ Multiplies

Run == \E k \in DOMAIN kernels : Dispatches(k)
Next == Build \/ Evaluates \/ Run

\* The evaluator keeps going; the caller need not call again.  A step that completes a
\* kernel is one of Run.
Spec == Init /\ [][Next]_vars /\ WF_done(\E k \in DOMAIN kernels : Completes(k))

-----------------------------------------------------------------------------
Finished == Built /\ done = DOMAIN kernels

\* The kernel of the whole expression, and the tensor that is handed back.
Root == CHOOSE k \in DOMAIN kernels : kernels[k].term = Held.id
Answer == [dims |-> Last(tensors[kernels[Root].out].st).dims, vals |-> data[tensors[kernels[Root].out].of]]

(* Whatever was asked for, the values handed back are those the operations     *)
(* mean: cutting, composing views into leaves, dropping dead leaves, index     *)
(* arithmetic, loops and masks together change nothing (schedule/_.c:1868,     *)
(* fuse/_.c:1017, lower/_.c:765, backend/cpu/uop.c:112, dispatch.c:119).       *)
ResultRight == Finished => Answer = Held.value

(* No kernel reads or writes outside the buffers it was given (the interpreter *)
(* of backend/cpu/uop.c:63 checks no index).                                   *)
StaysInside == ~astray

(* A kernel whose recorded dependencies have run finds every buffer it reads;  *)
(* else dispatch gives up and the value is lost (schedule/_.c:2318).           *)
InputsReady == \A k \in DOMAIN kernels : Ready(k) => \A i \in DOMAIN kernels[k].leaves : Bound(kernels[k].leaves[i])

(* A planned expression gets its value: dependencies between kernels never     *)
(* form a ring, and nothing is waited for that no kernel computes.             *)
Terminates == ~Building ~> Finished
=============================================================================
