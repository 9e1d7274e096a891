------------------------------ MODULE Evaluate ------------------------------
(***************************************************************************)
(* thvm_eval and thvm_to_host_raw: how a program of tensor expressions,    *)
(* assignments and sequences is reduced, fused, cut into kernels and run,  *)
(* and what a later call finds of an earlier one.                          *)
(*                                                                         *)
(* The functions call each other recursively (the reducer evaluates the    *)
(* source of an assignment with a thvm_eval of its own, a kernel that is   *)
(* run forces the ones it waits for), on one heap, one table of kernels    *)
(* and one dispatch flag.  They are written as a machine with a stack of   *)
(* frames, the steps still to be done: a frame takes `ret', what the one   *)
(* before it left, and leaves a term in its place.                         *)
(*                                                                         *)
(* What a tensor holds is written as the expression that computed it, so   *)
(* that a stale or a misplaced read shows.  A buffer has the number of its *)
(* tensor; sharing of buffers is the subject of Schedule.  A definition    *)
(* Slip_X is a plausible mistake in X.                                     *)
(***************************************************************************)
EXTENDS Fusion, FiniteSets, TLC

CONSTANTS Inputs,        \* the contents of the tensors the caller makes first
          Evaluated,     \* programs the i-th call may give to thvm_eval,
          Read,          \* and to thvm_to_host_raw; their lengths bound the calls
          MaxTensors     \* bound: tensors, the range of buf_epoch

ASSUME CallsAssumption == Len(Evaluated) = Len(Read)

VARIABLES heap,      \* ctx->heap
          tensors,   \* what each tensor's buffer holds
          epoch,     \* buf_epoch
          kernels,   \* sched_kernels, sched_kernel_locs, kid_results and what they were computed from
          rewrites,  \* ctx->sched_rewrites: by location, what a node became
          dispatch,  \* ctx->dispatch_enabled
          depth,     \* ctx->eval_depth
          itrs,      \* ctx->itrs
          stack,     \* frames, the next one last
          ret,       \* the term handed to it
          held,      \* the tensors the caller holds, by name
          means,     \* what each of them is to hold
          promise,   \* what the call under way is to return, and whether the caller keeps it
          asked,     \* the term read last, and the program it was
          calls,     \* calls begun
          resets     \* thvm_reset called

store    == <<heap, itrs>>
memory   == <<tensors, epoch>>
schedule == <<kernels, rewrites>>
mode     == <<dispatch, depth>>
caller   == <<held, means, promise, asked, calls, resets>>
vars     == <<store, memory, schedule, mode, stack, ret, caller>>

Unbacked == <<>>
None == <<>>

Do(step) == stack # <<>> /\ Last(stack)[1] = step
Frame == Last(stack)

\* The frame under way is replaced by others, the first to be done first.
Calls(t, frames) == ret' = t /\ stack' = Front(stack) \o Reverse(frames)
Returns(t) == Calls(t, <<>>)

REDUCE == <<"reduce">>
Stores(at, h) == <<"store", at, h[at]>>

-----------------------------------------------------------------------------
\* The reducer: thvm_reduce, to weak head normal form.

\* SEQ: its first part is reduced first; the second is read now.
ReduceSeq ==
    /\ Do("reduce") /\ Tag(ret) = "seq"
    /\ Calls(heap[At(ret)], <<REDUCE, <<"seq", ret, heap[At(ret) + 1]>>>>)
    /\ UNCHANGED <<store, memory, schedule, mode, caller>>

\* An operation that is blocked keeps the SEQ as it is; a value is dropped.
SeqPart ==
    IF Tag(ret) \in Tops
    THEN /\ heap' = [heap EXCEPT ![At(Frame[2])] = ret]
         /\ Returns(Frame[2]) /\ UNCHANGED itrs
    ELSE Calls(Frame[3], <<REDUCE>>) /\ itrs' = itrs + 1 /\ UNCHANGED heap

ReduceSeqPart ==
    /\ Do("seq") /\ SeqPart
    /\ UNCHANGED <<memory, schedule, mode, caller>>

\* A direct operation: its first cell, for ASSIGN the source as well, then its rule.
ReduceDirect ==
    /\ Do("reduce") /\ Tag(ret) \in Direct
    /\ Calls(heap[At(ret)],
             <<REDUCE, Stores(At(ret), heap)>>
             \o (IF Tag(ret) = "assign" THEN <<<<"operand", ret>>>> ELSE <<>>)
             \o <<<<"fire", ret>>>>)
    /\ UNCHANGED <<store, memory, schedule, mode, caller>>

ReduceOther ==
    /\ Do("reduce") /\ Tag(ret) \notin Direct \cup {"seq"}
    /\ Returns(ret)
    /\ UNCHANGED <<store, memory, schedule, mode, caller>>

ReduceOperand ==
    /\ Do("operand")
    /\ LET at == At(Frame[2]) + 1
       IN  Calls(heap[at], <<REDUCE, <<"materialise">>, Stores(at, heap)>>)
    /\ UNCHANGED <<store, memory, schedule, mode, caller>>

\* A source that is still an operation is evaluated on its own.
Materialise ==
    /\ Do("materialise")
    /\ Calls(ret, IF Tag(ret) \in Tops THEN <<<<"eval">>>> ELSE <<>>)
    /\ UNCHANGED <<store, memory, schedule, mode, caller>>

Store ==
    /\ Do("store")
    /\ heap' = IF ret = Frame[3] THEN heap ELSE [heap EXCEPT ![Frame[2]] = ret]
    /\ Returns(ret)
    /\ UNCHANGED <<itrs, memory, schedule, mode, caller>>

-----------------------------------------------------------------------------
\* Rules: thvm_interact.

\* r replaces t, or t stands as r left it.  What replaces a term is reduced in turn.
Fires(t, r) ==
    LET fired == r.term # t \/ r.heap[At(t)] # heap[At(t)]
    IN  /\ heap' = r.heap
        /\ itrs' = itrs + (IF fired THEN 1 ELSE 0)
        /\ Calls(r.term, IF r.term # t THEN <<REDUCE>> ELSE <<>>)

FireLocal ==
    /\ Do("fire")
    /\ LET t == Frame[2]
       IN  \/ Tag(t) = "fuse" /\ Fires(t, FuseRule(heap, t))
           \/ is_empty(heap, t) /\ Fires(t, EmptyRule(heap, t))
           \/ /\ Tag(t) = "kernel" /\ ~is_empty(heap, t) /\ ~is_monolithic(heap, t)
              /\ Fires(t, SettleRule(heap, t))
    /\ UNCHANGED <<memory, schedule, mode, caller>>

Bumped(i) == [epoch EXCEPT ![i] = @ + 1]

\* The copy, of a source that has a buffer.  The slip takes what a kernel computed to have been
\* written where it is assigned.
Slip_Copied(to, from) == IF \E k \in DOMAIN kernels : kernels[k].out = from THEN tensors
                         ELSE [tensors EXCEPT ![to] = tensors[from]]
Copied(to, from) == IF tensors[from] = Unbacked THEN tensors ELSE [tensors EXCEPT ![to] = tensors[from]]

\* ASSIGN copies its source into its destination, and kernels computed from what was there
\* are stale.
Assigns(t) ==
    LET dst == heap[At(t)]
        src == heap[At(t) + 1]
        ready == Tag(dst) = "ten" /\ Tag(src) = "ten"
        copies == ready /\ dst # src
    IN  /\ tensors' = IF copies THEN Copied(At(dst), At(src)) ELSE tensors
        /\ epoch' = IF copies THEN Bumped(At(dst)) ELSE epoch
        /\ CASE ready -> Fires(t, [heap |-> [heap EXCEPT ![At(t) + 1] = dst], term |-> dst])
             [] Tag(dst) = "ten" /\ src = Era ->
                   Fires(t, [heap |-> [heap EXCEPT ![At(t)] = Era, ![At(t) + 1] = Era], term |-> dst])
             [] OTHER -> Fires(t, Same(heap, t))

FireAssign ==
    /\ Do("fire") /\ Tag(Frame[2]) = "assign"
    /\ Assigns(Frame[2])
    /\ UNCHANGED <<schedule, mode, caller>>

\* A whole kernel is run only where dispatching is on: it is entered in the table first.
FireKernel ==
    /\ Do("fire") /\ is_monolithic(heap, Frame[2])
    /\ LET t == Frame[2]
       IN  Calls(t, IF dispatch THEN <<<<"register", t>>, <<"kernel", t>>>> ELSE <<>>)
    /\ UNCHANGED <<store, memory, schedule, mode, caller>>

\* The trigger of a scheduled kernel: what it waits for comes first.
FireExec ==
    /\ Do("fire") /\ Tag(Frame[2]) = "exec"
    /\ LET t == Frame[2] IN Calls(t, <<<<"force", At(t) + 1>>, <<"exec", t>>>>)
    /\ UNCHANGED <<store, memory, schedule, mode, caller>>


-----------------------------------------------------------------------------
\* The table of kernels.

\* F of x, with x worked out once.
Once(x, F(_)) == CHOOSE y \in {F(z) : z \in {x}} : TRUE

\* sched_unwrap_views
unwrap(h, t) == IF is_monolithic(h, t) THEN monolithic_payload(h, t) ELSE t

\* An expression in reverse Polish notation, the nodes of its operands before its own; what
\* an operand is taken for is Seen's to say.
Polish(h, t, Seen(_)) ==
    LET operations == {h[i] : i \in {j \in DOMAIN h : Tag(h[j]) \in Compute}}
        polish[u \in {t} \cup operations] ==
            LET Part(v) == IF Tag(v) \in Compute THEN polish[v] ELSE <<v>>
                operand(i) == Once(Seen(h[At(u) + i]), Part)
            IN  (IF Tag(u) \in Binary THEN operand(0) \o operand(1) ELSE operand(0)) \o <<u>>
    IN  IF Tag(t) \in Compute THEN polish[t] ELSE <<t>>

\* What an operation computes, down to tensors: those of the expressions in `cut', numbered
\* from `first' on, and those it is given.
Expr(h, t, cut, first) ==
    LET Tensor(u) == Ten(first + CHOOSE b \in DOMAIN cut : cut[b] = u)
        Operand(u) == IF Contains(cut, u) THEN Tensor(u) ELSE u
        e == Polish(h, t, LAMBDA u : Once(unwrap(h, u), Operand))
    IN  [i \in DOMAIN e |-> IF Tag(e[i]) = "ten" THEN e[i] ELSE <<Tag(e[i]), 0>>]
LeafOrder(e) == SelectSeq(e, LAMBDA u : Tag(u) = "ten")
Leaves(e) == {At(u) : u \in ToSet(LeafOrder(e))}
Value(e, mem) == FlattenSeq([i \in DOMAIN e |-> IF Tag(e[i]) = "ten" THEN mem[At(e[i])] ELSE <<Tag(e[i])>>])

\* The nodes of an expression in Polish notation, put on the heap again.
Operands(t) == IF Tag(t) \in {"neg", "sum", "fuse"} THEN 1 ELSE 2
Assembled(h, e) ==
    LET Add(s, t) ==
            LET rest == Len(s.terms) - Operands(t)
                axes == IF Tag(t) = "sum" THEN <<Axes>> ELSE <<>>
                node == Node(s.heap, Tag(t), SubSeq(s.terms, rest + 1, Len(s.terms)) \o axes)
            IN  IF Tag(t) \in Compute \cup Structure
                THEN [heap |-> node.heap, terms |-> Append(SubSeq(s.terms, 1, rest), node.term)]
                ELSE [s EXCEPT !.terms = Append(@, t)]
        done == FoldLeft(Add, [heap |-> h, terms |-> <<>>], e)
    IN  Same(done.heap, Last(done.terms))

Kernel(out, expr, deps, loc, term) ==
    [out |-> out, expr |-> expr, deps |-> deps, loc |-> loc, term |-> term, result |-> Era, read |-> {}]

Failed == <<"failed", 0>>

\* thvm_kernel_lookup_kid
Known(t) == {k \in DOMAIN kernels : At(t) \in {kernels[k].loc, At(kernels[k].term)}}

\* A kernel is entered with a tensor for its result, which has no buffer yet.
Enters(t, compute) ==
    /\ kernels' = Append(kernels, Kernel(Len(tensors) + 1, Expr(compute.heap, compute.term, <<>>, 0), <<>>,
                                         At(t), compute.term))
    /\ tensors' = Append(tensors, Unbacked)
    /\ heap' = compute.heap
    /\ Returns(Num(Len(kernels) + 1))

\* A copy of an expression that has settled: thvm_kernel_normalize_compute.
Copy(h, t) == Assembled(h, Polish(h, t, LAMBDA u : u))

RegisterKnown ==
    /\ Do("register") /\ Known(Frame[2]) # {}
    /\ Returns(Num(CHOOSE k \in Known(Frame[2]) : \A l \in Known(Frame[2]) : k <= l))
    /\ UNCHANGED <<store, memory, schedule, mode, caller>>

RegisterWhole ==
    /\ Do("register") /\ Known(Frame[2]) = {} /\ is_monolithic(heap, Frame[2])
    /\ Enters(Frame[2], Copy(heap, monolithic_payload(heap, Frame[2])))
    /\ UNCHANGED <<itrs, epoch, rewrites, mode, caller>>

\* An operation on kernels: they are run first, left before right.
RegisterGrowing ==
    /\ Do("register") /\ Known(Frame[2]) = {} /\ ~is_monolithic(heap, Frame[2])
    /\ IF is_empty(heap, Frame[2]) THEN Returns(Failed)
       ELSE Calls(heap[At(Frame[2])], <<<<"resolve">>, <<"right", Frame[2]>>>>)
    /\ UNCHANGED <<store, memory, schedule, mode, caller>>

RegisterRight ==
    /\ Do("right")
    /\ IF ret = Failed THEN Returns(Failed)
       ELSE Calls(heap[At(Frame[2]) + 1], <<<<"resolve">>, <<"enter", Frame[2], ret>>>>)
    /\ UNCHANGED <<store, memory, schedule, mode, caller>>

RegisterEnter ==
    /\ Do("enter")
    /\ LET op == root_uop(heap, Frame[2])
       IN  IF ret = Failed THEN Returns(Failed) /\ UNCHANGED <<heap, kernels, tensors>>
           ELSE Enters(Frame[2], Node(heap, op, IF op = "neg" THEN <<Frame[3]>> ELSE <<Frame[3], ret>>))
    /\ UNCHANGED <<itrs, epoch, rewrites, mode, caller>>

\* A child that is a kernel is replaced by its result; one that is neither a value nor an
\* operation is not ready.
Resolve ==
    /\ Do("resolve")
    /\ LET ran == {k \in DOMAIN kernels : kernels[k].loc = At(ret) /\ kernels[k].result # Era}
       IN  CASE Tag(ret) # "kernel" -> Returns(IF Tag(ret) \in {"fuse", "exec", "assign"} THEN Failed ELSE ret)
             [] Tag(ret) = "kernel" /\ ran # {} -> Returns(kernels[CHOOSE k \in ran : TRUE].result)
             [] Tag(ret) = "kernel" /\ ran = {} ->
                   IF dispatch THEN Calls(ret, <<<<"register", ret>>, <<"dispatch">>>>) ELSE Returns(Failed)
    /\ UNCHANGED <<store, memory, schedule, mode, caller>>

-----------------------------------------------------------------------------
\* Running a kernel.

Cached(k) ==
    /\ kernels[k].result # Era
    /\ \A r \in kernels[k].read : epoch[r[1]] = r[2]

\* thvm_sched_dispatch_kernel: the tensors and the table afterwards.  Every leaf has a buffer
\* when a kernel's turn comes, as Terminates shows.
Runnable(k) == \A i \in Leaves(kernels[k].expr) : tensors[i] # Unbacked
Runs(k, read) ==
    /\ tensors' = [tensors EXCEPT ![kernels[k].out] = Value(kernels[k].expr, tensors)]
    /\ kernels' = [kernels EXCEPT ![k].result = Ten(kernels[k].out), ![k].read = read]

\* The epochs of what it reads are kept with the result, to tell when it is stale.
Epochs(k) == {<<i, epoch[i]>> : i \in Leaves(kernels[k].expr)}
RunOrReuse(t, k) ==
    \/ /\ Cached(k)
       /\ Fires(t, Same(heap, kernels[k].result))
       /\ UNCHANGED <<tensors, kernels>>
    \/ /\ ~Cached(k) /\ Runnable(k)
       /\ Runs(k, Epochs(k))
       /\ Fires(t, Same(heap, Ten(kernels[k].out)))

RunKernel ==
    /\ Do("kernel")
    /\ RunOrReuse(Frame[2], At(ret))
    /\ UNCHANGED <<epoch, rewrites, mode, caller>>

\* Whether the dependencies in a cell have been replaced by values.
Forced(h, at) ==
    LET forced[a \in DOMAIN h] ==
            IF Tag(h[a]) = "ctr" THEN forced[At(h[a])] /\ forced[At(h[a]) + 1]
            ELSE Tag(h[a]) \notin Direct
    IN  forced[at]

RunExec ==
    /\ Do("exec")
    /\ LET t == Frame[2]
           kid == At(heap[At(t)])
       IN  CASE ~Forced(heap, At(t) + 1) \/ ~dispatch -> Returns(t) /\ UNCHANGED <<store, tensors, kernels>>
             [] OTHER -> IF kid > Len(kernels)
                         THEN Fires(t, Same(heap, Era)) /\ UNCHANGED <<tensors, kernels>>
                         ELSE RunOrReuse(t, kid)
    /\ UNCHANGED <<epoch, rewrites, mode, caller>>

\* thvm_exec_dep_force: a chain of triggers, each evaluated and replaced in its cell.
ForceDep ==
    /\ Do("force")
    /\ LET at == Frame[2]
           dep == heap[at]
       IN  Calls(dep, CASE Tag(dep) = "ctr" -> <<<<"force", At(dep)>>, <<"force", At(dep) + 1>>>>
                        [] Tag(dep) = "exec" -> <<<<"collect", TRUE>>, Stores(at, heap)>>
                        [] OTHER -> <<>>)
    /\ UNCHANGED <<store, memory, schedule, mode, caller>>

\* thvm_force_dispatch_kid, of the kernel a registration returned: without a look at the epochs.
Dispatch ==
    /\ Do("dispatch")
    /\ LET k == At(ret)
       IN  \/ /\ ret = Failed
              /\ Returns(Failed) /\ UNCHANGED <<tensors, kernels, itrs>>
           \/ /\ ret # Failed
              /\ kernels[k].result # Era
              /\ Returns(kernels[k].result) /\ UNCHANGED <<tensors, kernels, itrs>>
           \/ /\ ret # Failed
              /\ kernels[k].result = Era
              /\ Runnable(k)
              /\ Runs(k, kernels[k].read)
              /\ itrs' = itrs + 1
              /\ Returns(Ten(kernels[k].out))
    /\ UNCHANGED <<heap, epoch, rewrites, mode, caller>>

SetDispatch ==
    /\ Do("dispatch_is")
    /\ dispatch' = Frame[2]
    /\ Returns(ret)
    /\ UNCHANGED <<store, memory, schedule, depth, caller>>

-----------------------------------------------------------------------------
\* Fixed points: thvm_normalize and thvm_eval_collect_fixed_point.

\* Every cell that can be reached is reduced, those of a node last one first.
Normalize ==
    /\ Do("normalize")
    /\ IF Tag(ret) \in Atoms THEN Returns(ret) /\ UNCHANGED heap
       ELSE /\ heap' = Append(heap, ret)
            /\ Calls(ret, <<<<"walk", Len(heap) + 1, <<Len(heap) + 1>>, {}>>>>)
    /\ UNCHANGED <<itrs, memory, schedule, mode, caller>>

\* A cell met before, or one that holds an atom, is taken off the list all the same.
Slip_Passed(todo) == todo
Passed(todo) == Front(todo)

Walk ==
    /\ Do("walk")
    /\ LET root == Frame[2]
           todo == Frame[3]
           seen == Frame[4]
           at == Last(todo)
       IN  IF todo = <<>>
           THEN Returns(heap[root]) /\ heap' = [heap EXCEPT ![root] = Era]
           ELSE /\ UNCHANGED heap
                /\ IF at \in seen \/ Tag(heap[at]) \in Atoms
                   THEN Calls(ret, <<<<"walk", root, Passed(todo), seen \cup {at}>>>>)
                   ELSE Calls(heap[at], <<REDUCE, Stores(at, heap),
                                          <<"visit", root, Front(todo), seen \cup {at}>>>>)
    /\ UNCHANGED <<itrs, memory, schedule, mode, caller>>

Visit ==
    /\ Do("visit")
    /\ LET cells == [i \in 1 .. Arity(ret) |-> At(ret) + i - 1]
       IN  Calls(ret, <<<<"walk", Frame[2], Frame[3] \o cells, Frame[4]>>>>)
    /\ UNCHANGED <<store, memory, schedule, mode, caller>>

Round(was, saved) == <<REDUCE, <<"normalize">>, <<"again", was, saved>>>>

Collect ==
    /\ Do("collect")
    /\ dispatch' = Frame[2]
    /\ Calls(ret, Round(itrs, dispatch))
    /\ UNCHANGED <<store, memory, schedule, depth, caller>>

Slip_Again ==
    IF itrs = Frame[2] THEN Returns(ret) /\ UNCHANGED dispatch
    ELSE Calls(ret, Round(itrs, Frame[3])) /\ UNCHANGED dispatch
Again ==
    IF itrs = Frame[2] THEN Returns(ret) /\ dispatch' = Frame[3]
    ELSE Calls(ret, Round(itrs, Frame[3])) /\ UNCHANGED dispatch

CollectAgain ==
    /\ Do("again") /\ Again
    /\ UNCHANGED <<store, memory, schedule, depth, caller>>


-----------------------------------------------------------------------------
\* Cutting what has been fused into kernels: sched_all, as a compiler pass.

\* Who reads what, <<term, class of its reader>>, in the order a walk with a stack meets it:
\* a cell is followed once, and what is found there is unwrapped first.
Notes(h, root) ==
    LET Meet(s) ==
            LET t == Last(s.work)[1]
                class == IF Tag(t) \in Compute THEN "compute" ELSE "external"
                cells == [i \in 1 .. Arity(t) |-> At(t) + i - 1]
                Follow(cs) == [i \in DOMAIN cs |-> <<h[cs[i]], class>>]
            IN  IF is_monolithic(h, t)
                THEN [s EXCEPT !.work = Append(Front(@), <<monolithic_payload(h, t), Last(@)[2]>>)]
                ELSE [work |-> Front(s.work) \o Follow(SelectSeq(cells, LAMBDA c : c \notin s.seen)),
                      seen |-> s.seen \cup ToSet(cells), notes |-> s.notes \o Follow(cells)]
        first == <<<<root, "external">>>>
        met[n \in 0 .. 2 * Len(h) + 2] ==
            IF n = 0 THEN [work |-> first, seen |-> {}, notes |-> first]
            ELSE Once(met[n - 1], LAMBDA s : IF s.work = <<>> THEN s ELSE Meet(s))
    IN  met[2 * Len(h) + 2].notes
ComputesRead(h, root) ==
    LET notes == Notes(h, root)
    IN  SelectSeq([i \in DOMAIN notes |-> <<unwrap(h, notes[i][1]), notes[i][2]>>],
                  LAMBDA n : Tag(n[1]) \in Compute)

\* The expressions that get a tensor of their own, in the order they are met: what is read by
\* anything but an operation, reductions, and what is read twice.
Cut(t, notes) ==
    \/ Tag(t) = "sum"
    \/ Contains(notes, <<t, "external">>)
    \/ Cardinality({i \in DOMAIN notes : notes[i][1] = t}) > 1
Boundaries(h, root) ==
    Once(ComputesRead(h, root), LAMBDA notes :
         LET first == SelectSeq([i \in DOMAIN notes |-> i],
                                LAMBDA i : \A j \in 1 .. i - 1 : notes[j][1] # notes[i][1])
         IN  SelectSeq([i \in DOMAIN first |-> notes[first[i]][1]], LAMBDA t : Cut(t, notes)))

\* The kernels of the cut, the trigger of the i-th at base + 3 * i - 2.
Trigger(base, i) == <<"exec", base + 3 * i - 2>>
Entry(h, cut, i, first) ==
    LET e == Expr(h, cut[i], cut, first)
        deps == SelectSeq(LeafOrder(e), LAMBDA u : At(u) > first)
    IN  Kernel(first + i, e, [d \in DOMAIN deps |-> At(deps[d]) - first], At(Trigger(Len(h), i)), cut[i])

\* Kernel i put in its place: its trigger waits for a chain of those it reads, which also
\* come before it in SEQs; it replaces the expression and every kernel node around it.
Installed(s, base, k, i) ==
    LET chained == FoldLeft(LAMBDA c, d : Node(c.heap, "ctr", <<Trigger(base, d), c.term>>),
                            Same(s.heap, Era), k.deps)
        Sequenced(c) == FoldLeft(LAMBDA q, d : Node(q.heap, "seq", <<Trigger(base, d), q.term>>),
                                 Same([c.heap EXCEPT ![k.loc + 1] = c.term], Trigger(base, i)), Reverse(k.deps))
        InPlace(q) ==
            LET Carries(t) == is_monolithic(q.heap, t) /\ unwrap(q.heap, t) = k.term
                gone == {k.term} \cup {q.heap[at] : at \in {a \in DOMAIN q.heap : Carries(q.heap[a])}}
            IN  [heap |-> [at \in DOMAIN q.heap |-> IF q.heap[at] \in gone THEN q.term ELSE q.heap[at]],
                 rewrites |-> [at \in {At(t) : t \in gone} |-> q.term] @@ s.rewrites]
    IN  Once(Once(chained, Sequenced), InPlace)

\* The table is cleared first, whether or not there is anything to cut.
Slip_Table(ks) == kernels \o ks
Table(ks) == ks

\* thvm_sched_global_pass
AllInstalled(s, base, ks) ==
    LET installed[n \in 0 .. Len(ks)] ==
            IF n = 0 THEN s ELSE Once(installed[n - 1], LAMBDA g : Installed(g, base, ks[n], n))
    IN  installed[Len(ks)]
Planned(root, ks) ==
    LET from == unwrap(heap, root)
        seeds == FlattenSeq([i \in DOMAIN ks |-> <<Num(i), Era, Num(0)>>])
        Became(t, s) == IF Tag(t) \in Tops /\ At(t) \in DOMAIN s.rewrites THEN s.rewrites[At(t)] ELSE t
        Plan(s) == [heap |-> s.heap, kernels |-> Table(ks), rewrites |-> s.rewrites,
                    term |-> IF Became(root, s) # root THEN Became(root, s)
                             ELSE IF Became(from, s) # from THEN Became(from, s) ELSE root]
    IN  Once(AllInstalled([heap |-> heap \o seeds, rewrites |-> <<>>], Len(heap), ks), Plan)

Schedule ==
    /\ Do("schedule")
    /\ \E cut \in {Boundaries(heap, unwrap(heap, ret))} :
       \E ks \in {[i \in DOMAIN cut |-> Entry(heap, cut, i, Len(tensors))]} :
       \E plan \in {Planned(ret, ks)} :
          /\ heap' = plan.heap
          /\ kernels' = plan.kernels
          /\ rewrites' = plan.rewrites
          /\ tensors' = tensors \o [i \in DOMAIN ks |-> Unbacked]
          /\ Returns(plan.term)
    /\ UNCHANGED <<itrs, epoch, mode, caller>>

-----------------------------------------------------------------------------
\* thvm_eval: fuse, schedule, run, settle, and another round if that left more to do.

Eval ==
    /\ Do("eval")
    /\ depth' = depth + 1
    /\ LET wraps == depth = 0 /\ Tag(ret) \in Tops \ {"fuse", "kernel", "exec", "assign"}
           t == IF wraps THEN make_fuse(heap, ret) ELSE Same(heap, ret)
       IN  heap' = t.heap /\ Calls(t.term, <<<<"round", FALSE>>>>)
    /\ UNCHANGED <<itrs, memory, schedule, dispatch, caller>>

EvalRound ==
    /\ Do("round")
    /\ Calls(ret, (IF Frame[2] THEN <<REDUCE>> ELSE <<>>) \o <<<<"stages", Frame[2], itrs>>>>)
    /\ UNCHANGED <<store, memory, schedule, mode, caller>>

EvalStages ==
    /\ Do("stages")
    /\ LET again == Frame[2]
           fused == again /\ Tag(ret) \in {"exec", "kernel"} /\ ~is_empty(heap, ret)
       IN  Calls(ret, (IF fused THEN <<>> ELSE <<<<"fuse">>>>)
                      \o <<<<"schedule">>, <<"collect", TRUE>>, <<"collect", FALSE>>,
                           <<"finish", again, Frame[3], ret>>>>)
    /\ UNCHANGED <<store, memory, schedule, mode, caller>>

\* The marker is left out around what is marked already.
EvalFuse ==
    /\ Do("fuse")
    /\ LET marked == \/ Tag(ret) \in {"fuse", "kernel"}
                     \/ /\ Tag(ret) = "ctr"
                        /\ \A i \in 0 .. 1 : Tag(heap[At(ret) + i]) \in {"ten", "era", "num", "fuse", "kernel"}
           t == IF marked THEN Same(heap, ret) ELSE make_fuse(heap, ret)
       IN  heap' = t.heap /\ Calls(t.term, <<<<"collect", FALSE>>>>)
    /\ UNCHANGED <<itrs, memory, schedule, mode, caller>>

EvalFinish ==
    /\ Do("finish")
    /\ LET again == Frame[2]
           t == IF Tag(ret) = "fuse" THEN heap[At(ret)] ELSE ret
           carrier == again /\ Tag(t) \in {"kernel", "exec"}
           more == Tag(t) \in {"seq", "assign", "fuse"} \/ carrier
           progressed == itrs # Frame[3] \/ (t # Frame[4] /\ carrier)
       IN  IF more /\ progressed
           THEN Calls(t, <<<<"round", TRUE>>>>) /\ UNCHANGED depth
           ELSE Returns(t) /\ depth' = depth - 1
    /\ UNCHANGED <<store, memory, schedule, dispatch, caller>>

-----------------------------------------------------------------------------
\* thvm_force_tensor_term: a term made a tensor, for the host to read.

Host ==
    /\ Do("host")
    /\ Calls(ret, <<REDUCE, <<"host_kernel">>, <<"host_assign">>, <<"host_rewritten">>, <<"host_rest">>,
                    <<"host_dispatch">>, <<"host_kernel">>>>)
    /\ UNCHANGED <<store, memory, schedule, mode, caller>>

\* thvm_force_kernel_term: dispatching is on while the kernel is entered.
HostKernel ==
    /\ Do("host_kernel")
    /\ LET kernel == Tag(ret) = "kernel"
       IN  /\ Calls(ret, IF kernel THEN <<<<"register", ret>>, <<"dispatch_is", dispatch>>, <<"dispatch">>,
                                          <<"tensor_or", ret>>>> ELSE <<>>)
           /\ dispatch' = (dispatch \/ kernel)
    /\ UNCHANGED <<store, memory, schedule, depth, caller>>

TensorOr ==
    /\ Do("tensor_or")
    /\ Returns(IF Tag(ret) = "ten" THEN ret ELSE Frame[2])
    /\ UNCHANGED <<store, memory, schedule, mode, caller>>

\* An assignment that waits for its source: the source is forced, and it is reduced again.
HostAssign ==
    /\ Do("host_assign")
    /\ IF Tag(ret) = "assign" THEN Calls(heap[At(ret) + 1], <<<<"host">>, <<"host_source", ret>>>>)
       ELSE Returns(ret)
    /\ UNCHANGED <<store, memory, schedule, mode, caller>>

HostSource ==
    /\ Do("host_source")
    /\ LET t == Frame[2]
       IN  IF Tag(ret) = "ten"
           THEN /\ heap' = [heap EXCEPT ![At(t) + 1] = ret]
                /\ dispatch' = TRUE
                /\ Calls(t, <<REDUCE, <<"dispatch_is", dispatch>>, <<"tensor_or", t>>>>)
           ELSE Returns(t) /\ UNCHANGED <<heap, dispatch>>
    /\ UNCHANGED <<itrs, memory, schedule, depth, caller>>

HostRewritten ==
    /\ Do("host_rewritten")
    /\ IF Tag(ret) = "kernel" /\ At(ret) \in DOMAIN rewrites
       THEN Calls(rewrites[At(ret)], <<<<"collect", TRUE>>>>) ELSE Returns(ret)
    /\ UNCHANGED <<store, memory, schedule, mode, caller>>

HostRest ==
    /\ Do("host_rest")
    /\ Calls(ret, CASE Tag(ret) \in {"seq", "exec", "fuse"} -> <<<<"collect", TRUE>>>>
                    [] Tag(ret) \in Tops \ {"exec", "fuse"} -> <<<<"eval">>>>
                    [] OTHER -> <<>>)
    /\ UNCHANGED <<store, memory, schedule, mode, caller>>

HostDispatch ==
    /\ Do("host_dispatch")
    /\ Calls(ret, IF Tag(ret) = "ten" THEN <<>> ELSE <<REDUCE, <<"dispatch_is", dispatch>>>>)
    /\ dispatch' = (dispatch \/ Tag(ret) # "ten")
    /\ UNCHANGED <<store, memory, schedule, depth, caller>>

-----------------------------------------------------------------------------
\* The caller.

\* A program is written in Polish notation as well; <<"in", i>> is the i-th tensor that the
\* caller holds.  On the heap:
Built(h, p) == Assembled(h, [i \in DOMAIN p |-> IF Tag(p[i]) = "in" THEN Ten(held[At(p[i])]) ELSE p[i]])

\* What a program means: its parts one after the other.  What an assignment writes to is named
\* by its first part.
Meaning(mem, p) ==
    LET Do1(s, t) ==
            LET a == Last(Front(s.parts))
                b == Last(s.parts)
                Leave(n, part) == [s EXCEPT !.parts = Append(SubSeq(@, 1, Len(@) - n), part)]
                Makes(n, value) == Leave(n, [at |-> 0, value |-> value])
            IN  CASE Tag(t) = "in" -> Leave(0, [at |-> At(t), value |-> s.mem[At(t)]])
                  [] Tag(t) = "fuse" -> s
                  [] Tag(t) = "seq" -> Leave(2, b)
                  [] Tag(t) = "assign" -> [Leave(2, b) EXCEPT !.mem[a.at] = b.value]
                  [] Tag(t) \in {"neg", "sum"} -> Makes(1, b.value \o <<Tag(t)>>)
                  [] OTHER -> Makes(2, a.value \o b.value \o <<Tag(t)>>)
        done == FoldLeft(Do1, [mem |-> mem, parts |-> <<>>], p)
    IN  [mem |-> done.mem, value |-> Last(done.parts).value]

Names(p) == {At(t) : t \in {u \in ToSet(p) : Tag(u) = "in"}}

Init ==
    /\ heap = <<>> /\ itrs = 0
    /\ tensors = Inputs /\ epoch = [i \in 1 .. MaxTensors |-> 0]
    /\ kernels = <<>> /\ rewrites = <<>>
    /\ dispatch = FALSE /\ depth = 0
    /\ stack = <<>> /\ ret = Era
    /\ held = [i \in DOMAIN Inputs |-> i] /\ means = Inputs
    /\ promise = None /\ asked = None /\ calls = 0 /\ resets = 0

Idle == stack = <<>> /\ promise = None

\* A call with term t, program p: the frame that begins it, and what it is to return.
Begins(p, t, frame, keeps) ==
    /\ calls' = calls + 1
    /\ ret' = t
    /\ stack' = <<frame>>
    /\ \E m \in {Meaning(means, p)} : means' = m.mem /\ promise' = [value |-> m.value, keeps |-> keeps]
    /\ UNCHANGED <<itrs, memory, schedule, mode, held, resets>>

Evaluates(p) ==
    /\ Names(p) \subseteq DOMAIN held
    /\ \E b \in {Built(heap, p)} : heap' = b.heap /\ Begins(p, b.term, <<"eval">>, TRUE)
    /\ UNCHANGED asked

\* After a reset the table still names kernels by where their nodes were, and a fused
\* expression built there would be taken for one of them.
Reads(p) ==
    /\ Names(p) \subseteq DOMAIN held
    /\ Tag(Last(p)) = "fuse" => resets = 0
    /\ \E b \in {Built(heap, p)} :
          heap' = b.heap /\ asked' = <<b.term, p, Meaning(means, p).value>> /\ Begins(p, b.term, <<"host">>, FALSE)

\* A fused expression read again, if what it reads is as it was then: a kernel's result is
\* handed out without a look at the epochs of what it read.  Other terms are spent by reading.
ReadsAgain ==
    /\ asked # None /\ Tag(Last(asked[2])) = "fuse"
    /\ Meaning(means, asked[2]) = [mem |-> means, value |-> asked[3]]
    /\ Begins(asked[2], asked[1], <<"host">>, FALSE)
    /\ UNCHANGED <<heap, asked>>

\* thvm_reset, keeping the inputs: heap and tensors go, the kernels and the epochs stay.
Resets ==
    /\ Idle /\ resets = 0 /\ calls > 0
    /\ resets' = 1
    /\ heap' = <<>> /\ rewrites' = <<>>
    /\ tensors' = SubSeq(tensors, 1, Len(Inputs))
    /\ held' = SubSeq(held, 1, Len(Inputs)) /\ means' = SubSeq(means, 1, Len(Inputs))
    /\ asked' = None
    /\ UNCHANGED <<itrs, epoch, kernels, mode, stack, ret, promise, calls>>

\* The call is over; the caller keeps the tensor an evaluation returned.
Takes ==
    /\ stack = <<>> /\ promise # None
    /\ promise' = None
    /\ IF promise.keeps /\ Tag(ret) = "ten" /\ ~Contains(held, At(ret))
       THEN held' = Append(held, At(ret)) /\ means' = Append(means, promise.value)
       ELSE UNCHANGED <<held, means>>
    /\ UNCHANGED <<store, memory, schedule, mode, stack, ret, asked, calls, resets>>

Step ==
    \/ ReduceSeq \/ ReduceSeqPart \/ ReduceDirect \/ ReduceOther \/ ReduceOperand
    \/ Materialise \/ Store
    \/ FireLocal \/ FireAssign \/ FireKernel \/ FireExec
    \/ RegisterKnown \/ RegisterWhole \/ RegisterGrowing \/ RegisterRight \/ RegisterEnter \/ Resolve
    \/ RunKernel \/ RunExec \/ ForceDep \/ Dispatch \/ SetDispatch
    \/ Normalize \/ Walk \/ Visit \/ Collect \/ CollectAgain
    \/ Schedule
    \/ Eval \/ EvalRound \/ EvalStages \/ EvalFuse \/ EvalFinish
    \/ Host \/ HostKernel \/ TensorOr \/ HostAssign \/ HostSource \/ HostRewritten \/ HostRest \/ HostDispatch

Next ==
    \/ Idle /\ calls < Len(Evaluated) /\ \E p \in Evaluated[calls + 1] : Evaluates(p)
    \/ Idle /\ calls < Len(Read) /\ \E p \in Read[calls + 1] : Reads(p)
    \/ Idle /\ calls < Len(Read) /\ ReadsAgain
    \/ Takes
    \/ Resets
    \/ Step

Spec == Init /\ [][Next]_vars /\ WF_vars(Step)

-----------------------------------------------------------------------------
\* Properties.

\* What the caller sees of a term.
Shown(t) ==
    CASE Tag(t) = "ten" -> tensors[At(t)]
      [] Tag(t) = "ctr" -> FlattenSeq([i \in 1 .. 2 |-> IF Tag(heap[At(t) + i - 1]) = "ten"
                                                    THEN tensors[At(heap[At(t) + i - 1])] ELSE <<"stuck">>])
                           \o <<"ctr">>
      [] OTHER -> <<"stuck">>

\* Every call returns what its program means, and leaves every tensor the caller holds as the
\* programs so far, taken in order, make it.
ResultRight ==
    stack = <<>> =>
        /\ promise # None => Shown(ret) = promise.value
        /\ \A i \in DOMAIN held : tensors[held[i]] = means[i]

\* The trigger that runs belongs to the kernel it names: the table has not been replaced
\* since it was put in place.
OwnTable ==
    stack # <<>> /\ Frame[1] = "exec" /\ dispatch =>
        LET kid == At(heap[At(Frame[2])])
        IN  kid \in DOMAIN kernels /\ kernels[kid].loc = At(Frame[2])

\* However a call ends, the flag that lets kernels run and the count of evaluations under way
\* are as it found them.
Restored == stack = <<>> => ~dispatch /\ depth = 0

\* Every call returns.
Terminates == promise # None ~> stack = <<>>
=============================================================================
