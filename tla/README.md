# TinyHVM in TLA+

Models, model-checking runs and machine-checked proofs for TinyHVM, a tensor
runtime written in C whose programs are interaction nets. Paths are relative to
the repository; "the engine" is everything under `src/` there that
`src/tinyhvm.c` includes.

Contents: [the system](#the-system) · [modules](#the-modules) ·
[runs](#the-runs) · [proofs](#the-proofs) · [disagreements](#disagreements-with-the-documentation) ·
[limits](#what-is-not-covered) · [plan](#plan)

## The system

A program builds **terms** (`thvm_app`, `thvm_sup`, `thvm_op2`, tensor
constructors, ...) in one heap of 64-bit cells, has them **reduced**, and
**collapses** the result: a superposition `&l{a, b}` stands for two results at
once, and a collapse lists all of them. Tensor operations are terms too
(`TAG_TOP`); they are fused into kernels, scheduled and run on a backend.

| Part | State it keeps | Operations | Interacts with |
|---|---|---|---|
| Terms and heap (`term/`, `heap/`, `tinyhvm.h`) | cells, bump pointer `heap_pos`, the SUB bit of a cell | `heap_alloc`, read, set, constructors | everything |
| Reducer (`wnf/_.c`) | a stack of frames (file static), fuel/budget, `next_sup_label` | `thvm_reduce`, `thvm_reduce_budget`, drain | rewrites the heap; calls the tensor handlers |
| Collapse (`inet/_.c`) | work list, result; 64 buckets; or one deque per thread and `ws_remaining` | `thvm_collapse`, `_ordered`, `_grouped`, `_par` | calls the reducer |
| Work-stealing deque (`parallel/wsdeque.c`) | `top`, `bot`, a ring of slots | push, pop, steal | parallel collapse, normaliser |
| Normaliser (`parallel/normalize.c`) | a stack of slots, a set of slots seen | `thvm_normalize` | calls the reducer |
| Banks (`heap/alloc.c`, `tensor/create.c`, `inet/_.c`) | `heap_pos`, `tensor_count`, per-thread ranges | allocate, split, finalize | parallel collapse |
| Definitions (`interact/_.c`, `inet/_.c`) | the book, states of lazy copies (`alo_states`) | `thvm_define`, REF, ALO | reducer |
| Gradients (`wnf/_.c`, `grad/_.c`) | cells shared by a GRAD and its PIN, with a SUB bit; frames of half-done rules | GRAD, GRAD_FWD, GRAD_PIN | reducer, tensors |
| Tensors and buffers (`tensor/`, `ctx/init.c`, `backend/*/pool`) | metadata with reference counts, pool of buffers | create, incref, release, reset | scheduler, backends |
| Views (`tensor/view/`, tracker table in `tinyhvm.h`) | strides, masks; a hash table keyed by heap location | reshape, permute, expand, shrink, pad | fusion, lowering |
| Fusion, scheduler (`fuse/`, `schedule/_.c`) | kernel table, planned order, output slots | FUSE, install, dispatch | reducer (kernels are terms), pool |
| Evaluator, kernel cache (`schedule/_.c`, `interact/tensor_ops.c`, `ops/_.c`) | `kid_results`, `buf_epoch`, epochs at dispatch, `dispatch_enabled`, `eval_depth` | `thvm_eval`, `thvm_to_host_raw`, KERNEL, EXEC, ASSIGN | reducer, normaliser, scheduler, pool |
| Lowering, CPU and Metal backends | code caches, command batches | lower, run | scheduler |
| Constructors of layers, dumps, bindings | none of interest | | |

What makes it hard:

- **Sharing.** A term used twice goes through a DUP cell that is fired by the
  first half to arrive and emptied by the second, with a bit in the cell saying
  which. Every rule must keep the net linear, also where reduction is stopped by
  a budget, put back into the heap and resumed (`wnf_drain_stack`).
- **Threads.** Parallel collapse runs a lock-free deque per thread, a shared
  counter for termination, allocation without locks from per-thread banks, and
  calls a reducer that was written for one thread.
- **Order.** Collapse by priority, the once-only walk of the normaliser, and the
  order in which kernels are planned against the order in which the reducer
  forces them.
- **Caches.** Kernel results by epoch, view trackers by location, terms by last
  use: each may be stale when it is read.
- **Effects in a lazy language.** Assignments are terms like any other, while
  fusion, scheduling and normalisation reach into everything at once; and the
  reducer evaluates the source of an assignment by calling the whole evaluator again.

What makes each part correct, in one line each: a collapse returns what the
program means, on every path of branches, once; a deque hands every task out
once; banks hand every cell out once; a normalised net has nothing left to
reduce; a gradient is the derivative; an expression evaluates to what its
operations mean, however it is cut into kernels; a cached result is the one recomputation would give;
no buffer is written while somebody may still read it.

The full list of what is hard to test, each at its line, is under `hazards` in
`PROJECT.json`.

## The modules

```
 Net ─ Book ─ Wnf ─┬─ Collapse ──────── MCCollapse         CollapseProof
                   │                    ├─ Definitions ─ Programs (what nets mean)
                   ├─ CollapseOrdered ─ MCCollapseOrdered  CollapseOrderedProof
                   └─ Normalize ─────── MCNormalize
 TaskSlots ────────┴─ ParCollapse ───── MCParCollapse  ParCollapseProof
 Banks ───────────────┘ (INSTANCE)                     BanksProof
 TaskDeque ◁── WsDeque ──────────────── MCWsDeque      WsDequeProof
 Fifo ◁─────── BucketQueue                             CollapseOrderedProof

 ViewOps ─┬─ Views ──────────────────── MCViews        ViewsProof
          └─ TensorGraph ─┬─ TensorAlgebra ─┬─ Calculus ─ Gradient ─ MCGradient
                          └─ KernelBuild ── KernelRun ─┴─ Kernels ── MCKernels
 Fusion ─ Evaluate ──────────────────── MCEvaluate     EvaluateProof
 KernelPlan ─┬───────────────────────── MCSchedule     ScheduleProof
 Schedule ───┘
```
(◁ is "is implemented by". `Banks` and `BucketQueue` are checked as they stand, their
constants given in their .cfg.) Modules of operations (`Net`, `Wnf`, `TaskSlots`,
`Banks`) are used by the specifications of their callers.

**Net, Wnf.** `Net` has terms (the machine word taken apart into SUB bit, tag,
ext, val), the heap as a sequence whose length is the bump pointer, and pure
operators for what rules do to it: `Node`, `Distribute` (an operator moves into
both branches of a superposition, its other operand shared by a DUP cell), `Copy`
(the DUP rules). `Wnf` is the machine of `thvm_reduce_budget`: `mode = "enter"` is
the code at label `enter` with `next = cur`, `mode = "apply"` the code at `apply`
with `whnf = cur`, `"erase"` the loop that walks an erased tree; `stack` is
`g_wnf_stack_buf`; one action per tag entered and per kind of frame popped; `left`
is the budget. A caller uses `Begin`, `Step`, `Done`/`Result`/`End`; `Result` is
what `wnf_drain_stack` leaves. Modelled rules: VAR, LAM, APP, SUP, USP, UDP, BRI, DUP, ERA,
NUM, OP2, CTR, MAT, EQL, AND, OR, SEQ, ANN, INC, ANY, DSU, DDU, ALO, REF. Numbers are modulo `Word`.

**Book** is the book of definitions (its locations are negative, to tell the two memories
apart) and what an unfolding does: `Realize` copies one node out when the reducer meets an
ALO. The copy's children become ALOs in turn; a *state* says what each binder, DUP and
label of the book has become in this unfolding. A half of a DUP or a UDP is realized in two
steps: `OpenHalf` finds or makes the shared cell, and where it is new its body is realized
next and put there by `CloseHalf`.

**Programs** gives programs as trees, loads them as nets (`NetOf`) and says what
they mean by a call-by-name evaluator (`Meaning`) that knows no DUP cells, no frames
and no budgets: a path says for each label which branches were taken, and a DUP
adds to the path. The models' leaves are compared with it. **Definitions** has `thvm_define` (`Define` copies
a term into the book), a book, and programs that use it, with the numbers they collapse to,
worked out by hand, since an unfolding makes labels up.

**Collapse** is `collapse_dfs`; each branch is reduced by one or several calls
with any budget its net allows (`net.budgets`), which is how the step loop of `docs/step_trampoline.md`
drives the reducer. **CollapseOrdered** is `thvm_collapse_ordered` with its buckets as
queues; the path of branches beside each task, and `moved` (a task was put back because
of INCs around it), are not in the code: they say what the properties are about. **BucketQueue** is the ring of one bucket, shown to be such a queue (`Fifo`).

**Normalize** is `thvm_normalize`: `deque` the stack of slots, `seen`, `anchor` the slot
of the root; called `Passes` times in a row.

**WsDeque** is the Chase-Lev deque with one action for each access to `top`,
`bot` or the ring, counters that wrap at `Word`, and the unsigned and signed comparisons of
the code. **TaskDeque** is the deque one would like to have: push, pop, steal in
one step. **TaskSlots** is that deque as `ParCollapse` and `Normalize` use it,
including what a push on a full ring does.

**Banks** is allocation alone and from banks, the split, and the watermark
afterwards, for cells and for tensor numbers.

**ParCollapse** composes them: the caller (seed one leaf at a time, spawn, join, copy the
workers' results one by one), each worker at
every deque operation and every access to `ws_remaining`, and the reducer's one
stack, `frames`, shared by all threads. What is collapsed is any tree of superpositions
(`IsTree`): a half of one that was met may turn out to be another. Its instance of `Banks` is shown to
behave as `Banks` allows (`BanksUsed`), so what is proved there carries over.

**KernelPlan, Schedule.** An evaluation of tensor terms is fused into kernels, a
graph in which `deps` says whose outputs a kernel reads. `KernelPlan` is
`sched_plan_output_liveness`: the order it expects (`ExecOrder`), the position of
the last read (`LastUse`), and the slots outputs are given (`PlaceOutput`).
`Schedule` is what happens then: the EXEC terms are forced by the reducer, from an
`agenda` of chains (`Cached`, `ForceDep`); a kernel that waits for nothing is
dispatched (`Dispatch`, with binding to a slot, the count of reads, and release of
what was read last); the end of an evaluation (`Finish`) and the next one
(`Again`). A buffer's content is the name of the kernel that wrote it; `Bad` is
what a kernel computes from anything but its inputs. `MCSchedule` enumerates
ordered forests, the graphs that linear terms give.

**Views.** A tensor is a buffer and a view, and a movement operation gives it
another view. `view` has the fields of the struct `View` (`mask = << >>` where
`has_mask` is 0); `meaning` is what the tensor holds had every operation moved
elements. Each operation is done at once on a tensor that has a buffer
(`EagerReshape` and so on, `ctx/init.c`) or by the reducer's rule (`RuleReshape`,
`view_expand`, ..., `interact/tensor_ops.c`), which treat strides and masks
differently; actions take either. `merge_dims`, `Cut` and `reshape_mask` are the
three parts of `view_reshape`. The operations on views themselves are in **ViewOps**.

**TensorGraph, TensorAlgebra.** The constructors of lazy expressions (`thvm_op`, `thvm_mm`,
movements, broadcasting) with the tracker each stores; and, independently, what operations
mean on whole tensors.

**KernelBuild, KernelRun, Kernels.** An expression from the calls that build it to its
values. `KernelBuild` decides where it is cut (`sched_all`) and walks each part into the
entries, leaves and trackers of a kernel (`fuse/_.c`). `KernelRun` lowers a kernel to a loop
of micro-ops, index arithmetic and masks included (`lower/_.c`), and interprets it
(`backend/cpu/uop.c`), or evaluates it as it stands (`dispatch.c`). `Kernels` is the state
machine: building steps, `Evaluates` (plan), `Dispatches(k)` in any order the recorded
dependencies allow; `astray` notes an index outside a buffer.

**Calculus, Gradient.** `Gradient` is the part of `thvm_reduce` that differentiates: one
action for each tag entered and each frame popped, cells `[body, target]` with the SUB bit,
and `slot`, the file-static `g_wnf_current_grad_slot`. `Calculus` says what the derivative is,
by dual numbers over a field of `P` elements, where equal values mean equal formulas.

**Fusion, Evaluate.** `Fusion` has the local rules of FUSE, KERNEL and ASSIGN, as
functions from a heap to a heap and a term. `Evaluate` has everything around them:
`thvm_eval` (fuse, schedule, run, settle), the scheduler pass that cuts the expression and
fills the table of kernels, EXEC triggers with their chains of dependencies, the cache by
epochs, the reducer and normaliser as far as these terms need them, and the
many ways in which `thvm_to_host_raw` makes a term a tensor. These functions call each other
recursively, so the C stack is a variable, `stack`, of frames still to be done; `ret` is the
value returned last. What a tensor holds is written as the expression that computed
it, in reverse Polish notation, as programs and the expressions of kernels are: a copy of an
expression (`Polish`, `Assembled`) is then a pass over a list. The caller (`Evaluates`, `Reads`, `ReadsAgain`, `Resets`) keeps beside each tensor what it
should hold, by evaluating the program one part after the other (`Meaning`).

In every module a definition `Slip_X` is a plausible mistake in `X`; it
documents what the properties notice. `PROJECT.json` (`mutants`) says which
property fails with which mistake, and (`map`) which lines each definition
stands for.

## The runs

`wnf_rules` takes two to three minutes, `kernels`, `gradient` and `evaluate` about one each,
`schedule` half a minute, the rest seconds.

| Run | Checks | Instance | Shows |
|---|---|---|---|
| `wsdeque` | `TypeOK`, `ExactlyOnce`, `Linearizable` | owner, 2 thieves (interchangeable), 2 slots, words of 16 values, 5 tasks of which one is seeded | no task lost or handed out twice in any interleaving; the deque implements `TaskDeque` |
| `wnf_rules` | `LeavesRight`, `Linear`, `Terminates` | 256 programs, budgets 1 and unlimited in every sequence (programs with definitions: one or the other) | every rule agrees with the meaning of programs; nets stay linear, and no reference dangles, at every point a reduction may be stopped; it ends |
| `normalize` | `SecondPassIdle`, `NormalForm`, `Terminates` | 19 nets, two passes | every reachable slot holds the right value, one pass is enough, the walk ends on cyclic nets too |
| `collapse_ordered` | `NothingLost`, `ShallowestFirst`, `LeavesRight`, `Terminates` | 17 nets, 5 of them with INCs, 4 buckets, limits 1, 3, 20 | no branch lost or served twice; leaves in order of depth until a task is put back for its INCs; values |
| `bucket_queue` | `RingOK`, `IsFifo` | first ring of 2, nine pushes | growing at any head position keeps the order |
| `banks` | `CellsOnce` | eleven cells, 2-3 threads, phases in any sequence | no cell handed out twice |
| `par_collapse` | `StopsLast`, `EveryLeafOnce`, `BanksUsed`, `Terminates` | 2-3 threads, up to 4 leaves, nested splits, one framed reduction | all interleavings return every branch once; no thread leaves early; all leave |
| `views` | `ReadRight`, `SpanFits`, `MergesWhenPossible` | five shapes, up to 8 elements and 3 dimensions, chains of 3 operations out of the family below | both readers find what the operations mean, within the buffer; a reshape is refused only where no strides exist |
| `kernels` | `ResultRight`, `StaysInside`, `InputsReady`, `Terminates` | every expression of 3 operations over a 2 by 2 matrix, a vector and a number, with and without lowering, out of the family below | the values are what the operations mean, no index leaves its buffer, kernels find their inputs, each planned expression is computed |
| `schedule` | `ReadsIntact`, `WritesFit`, `OneOwner`, `ResultsRight`, `Terminates` | every forest of up to 4 kernels, sizes 1 and 2, every choice of views, that is of one of the families below; then a second evaluation | a kernel reads what its inputs computed and writes where there is room; no buffer has two owners; roots, and results of the evaluation before, keep their values |
| `gradient` | `ForwardRight`, `ReverseRight`, `ValueKept`, `Terminates` | every single operation, products of products summed, pairs of operations; forward, and reverse then forward | gradients are derivatives, what is differentiated keeps its value, every gradient is found |
| `evaluate` | `ResultRight`, `Restored`, `OwnTable`, `Terminates` | 144 programs as first call, then another, with resets and repeated reads | every call returns what its program means and leaves the caller's tensors as it says; nested evaluations leave the outer one's triggers alone; flags are restored; calls return |

The programs of a second `evaluate` call may use the tensor the first one
returned, and meet the table of kernels, the epochs and the heap that it left.

**Why the bounds suffice.** In the deque, with five tasks on two slots the owner
meets an emptied deque, a full one, and the last task with two competing thieves, and
every slot is used again while a thief may still hold an index that names it. The programs of `wnf_rules` fire every rule, alone and
against superpositions of equal, different and nested labels; the systematic
families (`Arith`, `Twice`, `Logic`) combine all small operands, since the rules
look one level deep; definitions are unfolded inside one another, twice, recursively, and under
a DUP. Four buckets make keys saturate at both ends with programs five
superpositions deep, as 64 do with programs 32 deep. Rings of 2, 4, 8, 16
slots grow three times. Eleven cells let two phases succeed and a third run out.
Three threads are the fewest with two thieves on one victim while a third
party splits.

With four kernels a slot can be used, released, used again and read; the second
evaluation finds the buffers the first one kept. Three operations of three
dimensions on six elements make strides that are permuted, repeated, cut off and
merged again; chains of five from `2 2`, `3` and `1 2`, up to six elements, pass as well.
Three operations make a kernel inside a kernel, a reduction with operations on both
sides, and a movement between any two of them. In `gradient` a third operation is only
met by products, where cells are resolved one inside the other. The programs of `evaluate` have
one kernel, two that meet, one inside another, and assignments that make kernels of the same
call, or of the call before, stale.

**What the instances leave out.** Each of these families ends where the program stops being
right; what happens outside is listed [below](#disagreements-with-the-documentation).

- `wnf_rules`, `normalize`, `collapse_ordered`: nets are closed and linear, as `linear_use` is to
  make them. A first operand that is met by a superposed second is a value; no half
  of an unfired DUP over a superposition of its label is erased. In
  definitions, what is used twice is closed or a number; programs' labels are
  above those that unfolding hands out; no eraser meets an unforced ALO.
- `par_collapse`: at most one reduction at a time has a frame.
- `views`: reshapes that strides can express, and of a padded tensor only to be permuted, read, and,
  padded in its first dimension only, reshaped.
- `schedule`: graphs on which plan and execution agree: views only on roots (`NoSlots`), or
  inner kernels with one input each (`InOrder`) whose slots get no buffer too small for what
  is bound to them later (`SlotsFit`).
- `kernels` (`Sound` in `MCKernels`): trackers of one view; functions of one argument beside no movement
  but the stretching of broadcasts; operations whose results lie in order; no padding where
  kernels are lowered, and no movement of what was padded; a tensor that was moved is not the second operand
  of an operation.
- `gradient`: a sum or quotient has an operand that depends on the target; numbers do not divide; the reverse
  mode is claimed for products and sums over axes only.
- `evaluate`: assignments stand in a chain of SEQs nested to the right and in the sources of
  assignments, not in operands or pairs; a sum meets a vector in an operation, since no tensor
  has a shape there; what is read as a SEQ begins with an assignment; a fused term is read
  again only while what it reads is unchanged, and none is built after a reset.

**Fairness.** The sequential components (`Collapse`, `CollapseOrdered`,
`Normalize`) assume that the program goes on (`WF(Next)`). `Schedule`, `Gradient` and
`Evaluate` assume it within a call (`WF(Step)`, `WF(Reduce)`): the reducer's loop does not stop
by itself, and nothing makes the caller ask for more. `Kernels` assumes that a kernel
whose inputs are there is run, in no particular order (`WF_done` of a step that completes
one). `ParCollapse` assumes
weak fairness of the caller and of each worker: they are operating-system
threads, none waits on a lock, and an idle worker calls `sched_yield`. The deque
alone, `Banks`, `BucketQueue` and `Views` state only safety. Deadlock is checked where the
specification loops at its end (`wsdeque`, the collapses, `normalize`, `par_collapse`); the others stop when their
bounds are used up or the caller wants no more.

**Assumptions built in.** Memory is sequentially consistent: the fences of
`wsdeque.c` are not examined. Allocation does not fail, except in `Banks`.

The models of `Kernels`, `Gradient` and `Evaluate` were also run against the CPU build: the
first-call programs of `MCEvaluate` give the values of the binary, and what the
README says of the program below was reproduced with it.

## The proofs

Checked by tlapm for every value of the constants, under the assumptions named
in the modules and those stated here.

| Theorem | Says | Argument |
|---|---|---|
| `WsDequeProof!TasksExactlyOnce` | `Fits => (Spec => []ExactlyOnce)` | `Inv` relates `top` and `bot` to the point each thread has reached: a thread that read `t` and wins the exchange on `top = t` is the only one to move `top` past `t`, and the owner takes without an exchange only above every index a thief may still win; fewer indices than slots are in use, so they name different slots (`WindowMod`) |
| `WsDequeProof!CountersNeverWrap` | `Fits => (Spec => []TypeOK)` | part of the same invariant; it is what allows machine words to be treated as integers |
| `WsDequeProof!DequeLinearizable` | `Fits => (Spec => TaskDeque!Spec)` under the mapping of `Linearizable` | over `Inv`, each step is a step of the abstract deque or a stutter: a pop with more than one task takes effect where it reads `top`, the last one and a steal at the exchange that is won, "empty" where the bounds are read; the mapping counts the task of an owner that has lowered `bot` but not yet looked as still there |
| `BanksProof!NoCellTwice` | `Spec => []CellsOnce` | `Inv`: alone, all cells from `pos` up are free; in a phase the banks are disjoint, in order, above `pos`, and in each the cells from `bank_next` up are free; division loses cells but never overlaps (`BanksInOrder`) |
| `ParCollapseProof!WorkersStopLast` | `Spec => []StopsLast` | `Inv`: `ws_remaining` is the number of *units* (`Work`): positions of deques, what a worker has taken and not stored, and the half it has counted but not pushed. A task that moves takes its unit along, so a thread that reads 0 has seen that there is no unit anywhere, whatever the order in which it looked at the deques |
| `ParCollapseProof!CollapseUsesBanks`, `CollapseCellsOnce` | `Spec => Banks!Spec`, `Spec => []Banks!CellsOnce` | each step of the collapse is a step of `Banks` or leaves the cells alone; then `NoCellTwice` applies |
| `ParCollapseProof!EveryLeafReturned` | `Spec /\ []Undisturbed => []EveryLeafOnce` | `OneHolder`: each leaf below a root that was seeded has exactly one *token*, a path it begins with, which is a task in a deque, what a worker holds or a result stored (for a task being split, either half not yet pushed). When all workers have stopped there are no units left (`Inv`), so every token is a result; the merge copies them in order (`ResultOK`), and the result has each leaf at one position, hence is as long as there are leaves |
| `CollapseProof!CollapseNoDangling` | `(\A n \in Nets : Plain(n)) => (Spec => []NoDangling)` | `AllFit`: a term *fits* if the cells that belong to it are allocated. All cells fit, and so do the reducer's operand, what the client holds, and the terms a frame keeps, whose kind says which of their cells it will use. Each operator on heaps takes a heap that fits to one no shorter that fits (`Safe`), hence so does each rule, each frame that is drained and each branch that is split |
| `CollapseOrderedProof!NoBranchLost` | `Spec => []NothingLost` | `Inv`: the lists hold tasks whose paths, taken together, are the ends of one binary tree (`Tree`): none is above another, and where one turns off, another turns the other way. A task that moves to another list leaves the tree as it is (`TreeMoved`); one that splits becomes two ends (`TreeGrown`). The reducer is left opaque, so this holds whatever it makes of a task |
| `CollapseOrderedProof!InOrderOfDepth` | `Spec => []ShallowestFirst` | `Order`: until a task is put back, those that wait are of two neighbouring depths, each in the bucket of its depth and shallower before deeper there; the task at work is of the lower depth, and no leaf is deeper than what is left. `ShallowestFirst` speaks of leaves only and is not inductive. Past the last key all depths share a bucket, where the queue keeps them in order |
| `CollapseOrderedProof!RingAlwaysOK` | `BucketSpec => []RingOK` | the slots of the waiting tasks are distinct (`SlotsDiffer`) |
| `CollapseOrderedProof!BucketIsFifo` | `BucketSpec => Fifo!Spec` under the mapping of `IsFifo` | initial states map to initial states, each push or pop to a step of `Fifo`, over `RingOK` |
| `ViewsProof!ViewsReadRight`, `ViewsSpanFits` | `(\A v, o : Asked(v, o) => Simple(v, o)) => (Spec => []ReadRight)`, the same for `SpanFits` | `Kept`: the view is well formed and *tracks* the meaning (`Tracks`): every element outside the padding lies, by offset and strides, where in the buffer its meaning says, and a view marked as contiguous is the buffer in its own order. Expand, permute, shrink and pad move indices one dimension at a time. Reshape rests on its two loops: merged dimensions reach the elements of the old ones (`Fits`, kept by each round of `Merge`), and cutting them gives the new dimensions the strides that reach the same elements in row-major order (`Cutting`, kept by each round of `CutOne`); ones put in front, which is all a broadcast asks for, can always be cut (`FrontExpressible`) |
| `EvaluateProof!EvaluateRestored` | `Spec => []Restored` | `Balanced`: two kinds of frames matter. A *saver* will put the flag back: the one lowest on the stack holds "off", and where there is none the flag is off, so that the savers, done in turn, end with it off (`Unwinds`). A *round* belongs to an evaluation that was counted: the count is the number of rounds on the stack. Every other step replaces a plain frame by plain frames (`Quiet`) |
| `ScheduleProof!RoomyWritesFit` | `RoomyPlans => (Spec => []WritesFit)` | `Room`: every buffer that a slot is bound to, and every output whose release may leave its buffer to a slot, is large enough for all that the plan binds to that slot (`Serves`); so is what will be allocated for a slot that has no buffer yet. It holds when an output takes a slot over (`TargetServes`), when a slot takes a buffer over (`DispatchRoom`), and does not depend on the order in which kernels run |
| `ScheduleProof!PlainReadsIntact` | `Plain => (Spec => []ReadsIntact)` | `Inv`: an input of a kernel on the agenda has a result, is still in its chain, or is right above it, and ranks grow downwards, so no kernel is there twice (`AgendaOK`); unreleased outputs have buffers of their own that hold their values (`MemoryOK`); the count of an output is the number of readers without a result, and it is not released before that is zero (`UsesOK`) |
| `ScheduleProof!PlainOneOwner`, `PlainResultsRight` | `Plain => (Spec => []OneOwner)`, the same for `ResultsRight` | `Owners`, over `Inv`: what a slot is bound to is the buffer of one output not yet released, or was let go when another took the slot; every root still has, when the evaluation ends, the value of its kernel, and so has what was kept from the call before |

`RoomyPlans` says of a plan that an output bound to a slot is no larger than the slot (`FitsSlot`), which
the planner looks at (`FreeSlots`), nor than any output that is written outside the slot and leaves it
its own buffer when released (`FitsDonors`), which the planner does not look at: without the second, an output
is written past the end of its buffer ([below](#disagreements-with-the-documentation)). Views, slots that
are used again, buffers that change hands and any order of execution, the planned one or another, are all within the
theorem. `WritesFit` alone is not inductive: it looks at the kernel that is ready, when the slot has
the buffer already. The plans of the run satisfy `FitsDonors` (by `SlotsFit` in `MCSchedule`, or because only roots are
viewed, whose slots are shared with nothing), and `FitsSlot` is what the planner's comparison makes true of them.

In the other three, `Plain` says that no output is handed on through a view. It is the condition under
which the plan is not used, and it cannot be dropped: with views the plan does harm
([below](#disagreements-with-the-documentation)). Within it the theorems go beyond the runs: any acyclic
graph with outputs that are read several times, any assignment of slots, any number
of evaluations. `ReadsIntact` alone is not inductive, for it looks at the kernel on
top of the agenda only. The assumption `GraphsOK` is what fuser and planner
establish: no cycles, `uses` is the number of readers, every root is among the terms that are forced; the run evaluates it for its forests.

`ExactlyOnce` is not inductive: it counts tasks taken, and says nothing of a
thief that has read a slot and not yet competed for it. `Fits` says that a task is
seeded before the first pop and that no more tasks wait than there are slots
(`MaxWaiting`, the bound in the guard of `PushWrite`); how many are ever pushed does
not matter, indices go around the ring. Both conditions are needed. `ws_push` does not
look, and the ring does overflow: seeding pushes every initial leaf
(`inet/_.c:799`), and more than a deque holds overwrite the first. And where nothing
was ever pushed, a pop wraps `bot` to the largest word for a moment, in which
a thief's unsigned comparison finds work that is not there; both callers seed
every deque before they start.

`Simple(v, o)` says that a reshape is one `view_reshape` can express and that a padded tensor is only
permuted. The first cannot be dropped (a reshape that is refused loses the strides, see
[Views](#disagreements-with-the-documentation)); nor can the second, but the run's family is a little wider: it also reshapes
tensors padded in their first dimension, and `reshape_mask` is only model-checked, as is
`MergesWhenPossible`. Beyond the run, the theorem takes any shapes, any number of dimensions and
elements, and chains of any length. `ReadRight` alone is not inductive: it does not say that there are as
many elements as the view has, nor that an element found to be 0 is one of the padding and every other
lies inside the buffer, which what later operations read depends on.

`Restored` speaks of the moment a call returns; in between the flag goes on and off as calls
nest, and the invariant has to say where its old values are. Nothing is assumed of programs, heap or kernels.

`NoDangling` (in `Collapse`) is the first part of `Linear`. It is not inductive: it sees what a call
would leave if it stopped here, not which cells of its operands a frame is still to read, nor
the operands it has saved. `Plain` says that a net has no definitions and that its own terms are
allocated; `MCCollapse` has TLC evaluate it for every program without definitions of the run
(`PlainPrograms`). Nothing is assumed of how often a cell is referred to, so the theorem holds of nets that
are not linear, too: the tests `loc >= heap_pos` at the head of the rules of `wnf/_.c` never hold. With
definitions it would rest on the well-formedness of the book; there `Linear` is model-checked.

The recursive functions of the reducer (what is drained, erased, applied) are defined over the naturals;
that they exist is proved from repeated steps (`Repeated`), since the library's theorems on recursion
take operators as parameters.

The two theorems about `CollapseOrdered` have no hypothesis beyond `Buckets > 0`: nets,
limits and the rules of the reducer are arbitrary. They say nothing of the leaves' values.

`Undisturbed` says that reductions of two workers never overlap on the reducer's one stack
(`wnf/_.c:136`) and that no deque ever holds more than its capacity (`inet/_.c:799`); the code ensures
neither, and both are among the hazards. `IsTree`, assumed of the inputs of `ParCollapse`, says
that a superposition is met in a root or in a half of another one that is met.

Model-checked only:

- the rules of the reducer (`LeavesRight`, the counting part of `Linear`, and `NoDangling` for nets with
  definitions), what the normaliser leaves, and the values of leaves: these are stated against an evaluator
  of programs, a recursive definition, or count references over the
  cells that are reachable;
- schedules with views, where the plan is right for certain families of graphs only;
- masks that are reshaped, and that merging finds strides where there are any (`MergesWhenPossible`);
- kernels and gradients: folds over expressions, or models built from recursive operators;
- what the evaluator returns (`ResultRight`), and that a trigger finds the table it was made for
  (`OwnTable`): both depend on the programs and fail for others;
- liveness, and anything that needs ENABLED, which is outside what tlapm does.

Induction over data with an operator as parameter is not available to the provers; where a proof needs the least of some
numbers (`Least` in `CollapseOrderedProof` and `ViewsProof`) it is taken from well-foundedness.

## Disagreements with the documentation

Each of these was met while modelling and reproduced with the CPU build. The runs stay
on the side where the program is right; each property named fails when its
instance is widened by the case described.

**Reducer.** OP2 copies its left operand into both branches of a superposition on the right
as if it were a value; a DUP can hand back a redex (`wnf/_.c:2673`; the comment at 2654 says it
is in weak head normal form). `(50 or 60) + (9 - 2) + 7`, with `9 - 2` shared, has a leaf 67 where 74 is meant.
The reducer's stack is shared by the worker threads (`wnf/_.c:136`), though `inet/_.c:764` says "threads can reduce them
independently": 512 leaves that a second `thvm_reduce` takes from OP2 to NUM give a
wrong sum, an unreduced leaf or a segmentation fault with 2 or 4 threads.

**Definitions.** Labels are renewed for each superposition that is unfolded, not for each unfolding: a body
`&5{1, 2} + &5{10, 20}` collapses to four leaves instead of two. A parameter used twice is right for a
number; for a superposition or a function the sum of both uses is stuck, against the comment at
`interact/_.c:741`. The branches of a USP are
matched to UDPs in order of use, so AND of `&1{0, 1}` and `&1{5, 6}`, unordered, pairs 1 with 5.

**Sharing and walking.** After one half of an unfired DUP was
erased, the other is the body as it stands and does not select its branch
(`wnf/_.c:1108`): DP1 of `&1{1, 2}` is 2, but `{1, 2}` once DP0 is erased. EQL compares lambdas through a fresh
number that may equal a literal (`wnf/_.c:3322`), calls any two constructors
unequal, and shares an unreduced left operand as OP2 does (`wnf/_.c:3277`);
`thvm_normalize` on a list of 70000 elements overflows its deque and leaves some
of them unreduced; the parallel phase compares locations with a `heap_pos` that
stands still (`wnf/_.c:661`). A second `thvm_normalize` may write into a slot that
was already visited and leave it unreduced (`parallel/normalize.c:60`). Seeding a
parallel collapse does not look at the size of the deques (`inet/_.c:799`).

**Schedules.** The chain of dependencies inside an EXEC is forced last to
first, the plan takes them first to last, and two outputs that are alive at once
share a buffer (`schedule/_.c:2177`: `reshape(reshape(k)*C)` and `reshape(j)` summed,
reshaped and added to `G`). A
released output without a view donates its own buffer to a slot of more bytes, and
a larger output bound to that slot later is written past the end
(`schedule/_.c:189`). The buffer `ENSURE` gives a viewed output, and those that a slot drops
when another takes its place, are not given back before `thvm_reset`.

**Views.** A comment says of lazy reshapes that
`thvm_op` "composes ShapeTracker via st_reshape — always succeeds"
(`ctx/init.c:664`), but the rule makes a row-major view of the same buffer where merging
fails (`tensor_ops.c:1166`), and the branch that would copy the elements (from
line 1213) is not reached: `reshape(permute(a), 6)` of a 2 by 3 tensor has the elements
in the order 1 2 3 4 5 6, not 1 4 2 5 3 6. Padding a padded tensor replaces its mask
(`tensor/view/pad.c`), shrinking and expanding at once leave the mask of the old
shape (`ctx/init.c:696`, `:813`), and `view_reshape` goes on without a mask where
`reshape_mask` fails: padded and shrunk, `1 2` reads as `0 2`, and padded twice it reads
at a negative index. `reshape_mask` itself combines masks that do not unfold
(`tensor/view/reshape.c:111`: the condition asks for three things at once). Padding at the end makes the copy of
`thvm_to_host_raw` longer than the buffer (`ops/_.c:325`).

**Kernels.** A function of one argument over a movement reads its operand through the wrong view
(`neg(reshape(v, [2, 1]))` gives `-5 -5`; `fuse/_.c:986`, `:1082`). Operands are found among a
kernel's arguments by tensor, whatever was done to them before, so in an operation on `x` and a moved `x` the
first view serves both (`fuse/_.c:373`, against the comment at line 4). A lowered kernel loads before
it applies a mask, also where the index is outside the buffer. Pointwise results that
are not contiguous are written through the strides of an operand.

**Gradients.** `thvm_grad` is documented as the gradient with a seed of ones
(`tinyhvm.h:1453`). The reverse rules use 0 for "no cotangent yet", and the rules of MUL and SUM do not
multiply by the cotangent they were given, so only products of leaves with sums on top
come out right: for `a = [2,3]`, `b = [5,7]` the gradient of `a+b` is `5 7` and that of
`-(a*b)` is `5 7` (`docs/grad.md:89` has the rule of a sum). The rules of one argument
slide the cell on, so that a PIN reads the operand instead of the result
(`tinyhvm.h:1458`). Forward mode is right on the elementwise rules, but the difference of two absent derivatives
is the negation of nothing, which stays (`X - (W - W)`); the product in the rule of a maximum is not
reduced; a gradient of zeros has the target's shape; and where operands of MAX are equal the second one wins
(`docs/grad.md` says `a >= b`). A reduction that stops at its budget drops the
frames of a rule that is half done (`wnf/_.c:577`), and with them the parts of the
gradient they held.

**Evaluator.** The order of a SEQ is not kept everywhere: `SEQ(SEQ(w + g, w := g), b)` loses the assignment, the
comment at `tensor_ops.c:562` notwithstanding ("fires a first"); both
arms of `CTR(w + x, SEQ(w := g, w + x))` see the new `w`; in `SEQ(x := SEQ(w + g, w), SEQ(w := g, x))` the
later assignment overtakes; `neg(w := neg g)` stays unevaluated. `docs/fusion.md` distributes FUSE over
SEQ, which the rule does not do. A host read of a SEQ that begins with an expression, or of a
constructor, gives NULL (`ops/_.c:252`). `docs/kernel_cache.md:47` wants "same input buffer
epochs" for a cached result; the host read does not ask (`ops/_.c:50`): `FUSE(neg w)` read, `w` assigned,
read again gives the old values. The table of kernels outlives `thvm_reset` while
locations start again (`interact/_.c:569`): `FUSE(w + g)`, reset, `FUSE(w + x)` gives a
tensor without elements. A term other than a fused one is spent by being read: `(w + g) * -x`
read twice is NULL the second time, `sum(w * x) + g` changes from `310 320` to `10 20`.


## What is not covered

- Of the reducer: AGG; superpositions and erasers as operands of tensor operations; GRAD of a superposition;
  `thvm_collapse_grouped`.
- Of definitions: alias and node states that no program reaches, erasers in the book, `clone/_.c`
  (tracing only).
- Of gradients: the rules of MM (`thvm_op` never makes one), reverse WHERE (it reduces a cotangent
  that was never set), ASSIGN, DETACH, `thvm_grad_bundle`.
- Of the evaluator: the rescan of `sched_all` (idle for these programs), mixed dispatch (off), tracing and the
  step graph, the guards of 1024 and 32 rounds, TODEVICE, BUFFERIZE; slots and release
  are in `Schedule`, shapes and movements in `Kernels`, not here. A second round
  of `thvm_eval` does not arise for these programs.
- Of views: stacks of views (`shapetracker.c`), whose results the rules do not use, and the table
  of trackers with its collisions; `_pool`, flips.
- Reference counts and free lists of buffers, hash consing, `linear_use`, and anything that
  happens in tables of thousands of entries.
- Weak memory; allocation failure outside `Banks`.
- `parallel/shared.c`, `parallel/reduce.c`, `heap/take.c`, `rewrite/_.c` and
  `interact/grad.c` are not part of the build. The second half of `lower/_.c` and
  `interact/combinators.c` repeat what is done elsewhere. `main.c` is a driver.
- Numerical code, output formatting, the Metal backend, the bindings.

## Plan

What is left, in order of how much of a program's result hangs on it.

1. Theorems: no reference of the reducer dangles in nets with definitions, and in the
   other drivers; schedules with views whose slots are not shared; reshaped masks.
2. `Evaluate` over `Schedule`: release of outputs and the cache in one model.
3. **BufferPool** (`ctx/init.c`, `tensor/create.c`, `backend/*/pool`): reference
   counts, release, reset. Theorem: a live tensor's buffer is never handed out.
4. The table of trackers against a map; `leaf_read_st`.
5. `linear_use` and hash consing as the builders of the nets the reducer starts from.
6. The Metal pool, batches and recorded steps.
