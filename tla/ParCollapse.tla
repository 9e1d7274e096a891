------------------------------ MODULE ParCollapse ------------------------------
(***************************************************************************)
(* thvm_collapse_par of src/src/inet/_.c: what a serial collapse returned  *)
(* is reduced once more by several threads, each with a deque of its own,  *)
(* stealing from the others when that is empty.  A reduction may find      *)
(* another superposition, whose halves are tasks again.  ws_remaining      *)
(* counts the tasks in flight and waiting; the threads stop at 0.          *)
(*                                                                         *)
(* A task is its path: <<i>> is leaf i of the serial collapse, p \o <<b>>  *)
(* half b of what p reduced to.  A reduction that has to wait for another  *)
(* keeps a frame on the stack of wnf/_.c, which is a file-static variable: *)
(* all threads use the same one.  A reduction without a frame (an atom, a  *)
(* substituted variable) is one step here.                                 *)
(*                                                                         *)
(* The deque operations are single steps (WsDeque implements TaskDeque);   *)
(* the accesses to ws_remaining are atomic in the code.                    *)
(***************************************************************************)
EXTENDS TaskSlots, FiniteSets, SequencesExt

CONSTANTS Inputs,      \* what is collapsed: records [threads, count, splits, framed]
          Grain,       \* leaves per thread that make threads worthwhile: 64
          Cells, MaxThreads, Sizes, Reserves        \* see Banks

\* A superposition is met in a leaf of the serial collapse or in half of one
\* met before.
IsTree(splits, count) ==
    /\ splits \subseteq Seq(Nat)
    /\ \A p \in splits : /\ Len(p) > 0 /\ p[1] \in 1 .. count
                         /\ \A i \in 2 .. Len(p) : p[i] \in {0, 1} /\ SubSeq(p, 1, i - 1) \in splits

ASSUME InputsAssumption == \A in \in Inputs : /\ in.threads \in Nat /\ in.count \in Nat
                                             /\ IsTree(in.splits, in.count)
ASSUME BanksAssumption == /\ MaxThreads \in Nat /\ MaxThreads > 1
                          /\ Cells \in Nat \ {0} /\ Sizes \subseteq Nat /\ Reserves \subseteq Nat

VARIABLES input,
          call,        \* where the caller is: begin, seed, threads, merge, or how it returned
          result,      \* the leaves returned
          seeded,      \* leaves put into the deques before any thread starts
          spawned,     \* pthread_create's done, plus one
          merged,      \* results of workers copied into the one returned
          pc,          \* where each worker is
          task,        \* what it works on
          victim,      \* how many deques further it steals
          base,        \* wnf: g_wnf_stack_pos on entry
          popped,      \* wnf: the frames taken from the stack since
          stored,      \* each worker's own result
          deque,       \* each worker's deque
          remaining,   \* ws_remaining
          frames,      \* g_wnf_stack_buf up to g_wnf_stack_pos
          pos, n_threads, bank_next, bank_end, taken, twice, aborted

B == INSTANCE Banks

banks   == <<pos, n_threads, bank_next, bank_end, taken, twice, aborted>>
workers == <<pc, task, victim, base, popped, stored>>
caller  == <<input, call, result, seeded, spawned, merged>>
vars    == <<caller, workers, deque, remaining, frames, banks>>

Tids    == B!Tids
NoTask  == <<>>
Garbage == <<0>>         \* a term made with another thread's frame

Roots == {<<i>> : i \in 1 .. input.count}
Tasks == Roots \cup {p \o <<b>> : p \in input.splits, b \in {0, 1}}
Leaves == Tasks \ input.splits

Slip_Threads == input.threads
Threads == IF input.threads < MaxThreads THEN input.threads ELSE MaxThreads

Init ==
    /\ input \in Inputs
    /\ call = "begin" /\ result = <<>> /\ seeded = 0 /\ spawned = 0 /\ merged = 0
    /\ pc = [w \in Tids |-> "none"] /\ task = [w \in Tids |-> NoTask]
    /\ victim = [w \in Tids |-> 0] /\ base = [w \in Tids |-> 0]
    /\ popped = [w \in Tids |-> <<>>] /\ stored = [w \in Tids |-> <<>>]
    /\ deque = [w \in Tids |-> <<>>]
    /\ remaining = 0 /\ frames = <<>>
    /\ B!InitCells

-----------------------------------------------------------------------------
(* The caller.                                                              *)

Worthwhile == input.threads > 1 /\ input.count >= Threads * Grain /\ input.count > 0

\* One thread, or not enough work to justify threading.
ReturnSerial ==
    /\ call = "begin" /\ ~Worthwhile
    /\ call' = "serial"
    /\ result' = [i \in 1 .. input.count |-> <<i>>]
    /\ UNCHANGED <<input, seeded, spawned, merged, workers, deque, remaining, frames, banks>>

GoParallel ==
    /\ call = "begin" /\ Worthwhile
    /\ call' = "seed"
    /\ B!InitBanks(Threads)
    /\ UNCHANGED <<input, result, seeded, spawned, merged, workers, deque, remaining, frames>>

\* Round robin: worker w gets leaves w + 1, w + 1 + nt, ...
Seed ==
    /\ call = "seed" /\ seeded < input.count
    /\ deque' = [deque EXCEPT ![seeded % Threads] = Put(@, <<seeded + 1>>)]
    /\ seeded' = seeded + 1
    /\ UNCHANGED <<input, call, result, spawned, merged, workers, remaining, frames, banks>>

CountSeeded ==
    /\ call = "seed" /\ seeded = input.count
    /\ remaining' = seeded
    /\ call' = "threads" /\ spawned' = 1
    /\ UNCHANGED <<input, result, seeded, merged, workers, deque, frames, banks>>

\* Threads 1, 2, ... are created one by one; then the caller is worker 0.
Spawn ==
    /\ call = "threads" /\ spawned <= Threads
    /\ pc' = [pc EXCEPT ![spawned % Threads] = "pop"]
    /\ spawned' = spawned + 1
    /\ UNCHANGED <<input, call, result, seeded, merged, task, victim, base, popped, stored,
                   deque, remaining, frames, banks>>

Join ==
    /\ call = "threads" /\ \A w \in 0 .. Threads - 1 : pc[w] = "done"
    /\ B!FinalizeBanks
    /\ call' = "merge"
    /\ UNCHANGED <<input, result, seeded, spawned, merged, workers, deque, remaining, frames>>

\* The workers' results, one after the other.
Slip_AllMerged == merged = Threads - 1
AllMerged == merged = Threads

Merge ==
    /\ call = "merge" /\ ~AllMerged
    /\ result' = result \o stored[merged]
    /\ merged' = merged + 1
    /\ UNCHANGED <<input, call, seeded, spawned, workers, deque, remaining, frames, banks>>

ReturnMerged ==
    /\ call = "merge" /\ AllMerged
    /\ call' = "parallel"
    /\ UNCHANGED <<input, result, seeded, spawned, merged, workers, deque, remaining, frames, banks>>

-----------------------------------------------------------------------------
(* ws_collapse_fn: the worker's own deque, the others', the count.          *)

Goto(w, l) == pc' = [pc EXCEPT ![w] = l]
Hold(w, t) == task' = [task EXCEPT ![w] = t]

Pop(w) ==
    /\ pc[w] = "pop"
    /\ IF deque[w] = <<>>
       THEN /\ Goto(w, "steal") /\ victim' = [victim EXCEPT ![w] = 1]
            /\ UNCHANGED <<task, deque>>
       ELSE /\ Goto(w, "reduce") /\ Hold(w, Newest(deque[w]))
            /\ deque' = [deque EXCEPT ![w] = WithoutNewest(@)]
            /\ UNCHANGED victim
    /\ UNCHANGED <<caller, base, popped, stored, remaining, frames, banks>>

Victim(w) == (w + victim[w]) % Threads

Steal(w) ==
    /\ pc[w] = "steal"
    /\ deque[Victim(w)] # <<>>
    /\ Goto(w, "reduce") /\ Hold(w, Head(deque[Victim(w)]))
    /\ deque' = [deque EXCEPT ![Victim(w)] = Tail(@)]
    /\ victim' = [victim EXCEPT ![w] = 0]
    /\ UNCHANGED <<caller, base, popped, stored, remaining, frames, banks>>

\* Nothing there, or another thread was quicker: the next one, or give up.
StealNothing(w) ==
    /\ pc[w] = "steal"
    /\ IF victim[w] + 1 < Threads
       THEN victim' = [victim EXCEPT ![w] = @ + 1] /\ UNCHANGED pc
       ELSE victim' = [victim EXCEPT ![w] = 0] /\ Goto(w, "check")
    /\ UNCHANGED <<caller, task, base, popped, stored, deque, remaining, frames, banks>>

Slip_NoneRemaining == remaining <= 1
NoneRemaining == remaining <= 0

Check(w) ==
    /\ pc[w] = "check"
    /\ Goto(w, IF NoneRemaining THEN "done" ELSE "pop")
    /\ UNCHANGED <<caller, task, victim, base, popped, stored,
                   deque, remaining, frames, banks>>

-----------------------------------------------------------------------------
(* ws_process: thvm_reduce, then a leaf or two new tasks.                   *)

Reduce(w) ==
    /\ pc[w] = "reduce"
    /\ IF task[w] \in input.framed
       THEN /\ base' = [base EXCEPT ![w] = Len(frames)]
            /\ frames' = Append(frames, task[w])
            /\ popped' = [popped EXCEPT ![w] = <<>>]
            /\ Goto(w, "frame")
       ELSE Goto(w, "place") /\ UNCHANGED <<base, frames, popped>>
    /\ UNCHANGED <<caller, task, victim, stored, deque, remaining, banks>>

\* while (g_wnf_stack_pos > base): apply the frame on top.
Apply(w) ==
    /\ pc[w] = "frame" /\ Len(frames) > base[w]
    /\ popped' = [popped EXCEPT ![w] = Append(@, Last(frames))]
    /\ frames' = Front(frames)
    /\ \E size \in Sizes : B!BankAlloc(w, size)
    /\ UNCHANGED <<caller, pc, task, victim, base, stored, deque, remaining>>

\* The term is what it should be if exactly its own frame was applied.
Reduced(w) ==
    /\ pc[w] = "frame" /\ Len(frames) <= base[w]
    /\ Hold(w, IF popped[w] = <<task[w]>> THEN task[w] ELSE Garbage)
    /\ base' = [base EXCEPT ![w] = 0] /\ popped' = [popped EXCEPT ![w] = <<>>]
    /\ Goto(w, "place")
    /\ UNCHANGED <<caller, victim, stored, deque, remaining, frames, banks>>

StoreLeaf(w) ==
    /\ pc[w] = "place" /\ task[w] \notin input.splits
    /\ stored' = [stored EXCEPT ![w] = Append(@, task[w])]
    /\ remaining' = remaining - 1
    /\ Hold(w, NoTask) /\ Goto(w, "pop")
    /\ UNCHANGED <<caller, victim, base, popped, deque, frames, banks>>

\* Two children more, itself less: counted before they can be stolen.
Slip_NetChange == 2
NetChange == 1

Split(w) ==
    /\ pc[w] = "place" /\ task[w] \in input.splits
    /\ remaining' = remaining + NetChange
    /\ Goto(w, "push0")
    /\ UNCHANGED <<caller, task, victim, base, popped, stored, deque, frames, banks>>

PushHalf(w, b) == deque' = [deque EXCEPT ![w] = Put(@, task[w] \o <<b>>)]

PushLeft(w) ==
    /\ pc[w] = "push0" /\ PushHalf(w, 0) /\ Goto(w, "push1")
    /\ UNCHANGED <<caller, task, victim, base, popped, stored, remaining, frames, banks>>

PushRight(w) ==
    /\ pc[w] = "push1" /\ PushHalf(w, 1) /\ Goto(w, "pop") /\ Hold(w, NoTask)
    /\ UNCHANGED <<caller, victim, base, popped, stored, remaining, frames, banks>>

Worker(w) ==
    \/ Pop(w) \/ Steal(w) \/ StealNothing(w) \/ Check(w)
    \/ Reduce(w) \/ Apply(w) \/ Reduced(w) \/ StoreLeaf(w)
    \/ Split(w) \/ PushLeft(w) \/ PushRight(w)

Caller == ReturnSerial \/ GoParallel \/ Seed \/ CountSeeded \/ Spawn
          \/ Join \/ Merge \/ ReturnMerged

Returned == call \in {"serial", "parallel"}

Next == \/ ~aborted /\ (Caller \/ \E w \in Tids : Worker(w))
        \/ (Returned \/ aborted) /\ UNCHANGED vars

\* The operating system runs every thread, the caller's included.
Spec == /\ Init /\ [][Next]_vars
        /\ WF_vars(~aborted /\ Caller)
        /\ \A w \in Tids : WF_vars(~aborted /\ Worker(w))

-----------------------------------------------------------------------------

(***************************************************************************)
(* A thread that has stopped has not stopped too early: no task waits in   *)
(* any deque and no other thread holds one, though the deques are looked   *)
(* at one after the other and tasks move between them meanwhile.           *)
(***************************************************************************)
StopsLast ==
    \A w \in Tids : pc[w] = "done" =>
        \A v \in Tids : deque[v] = <<>> /\ task[v] = NoTask

\* What the reducer's one stack and the deques' rings ask for: reductions that
\* need a frame do not overlap, and no deque holds more than its slots.
Undisturbed ==
    /\ \A v, w \in Tids : pc[v] = "frame" /\ pc[w] = "frame" => v = w
    /\ \A w \in Tids : Len(deque[w]) <= Cap

(***************************************************************************)
(* The caller is given every branch once: none lost in a race for a task   *)
(* or on the way through ws_remaining, none handed to two threads.         *)
(***************************************************************************)
EveryLeafOnce ==
    call = "parallel" => /\ ToSet(result) = Leaves
                         /\ Len(result) = Cardinality(Leaves)

(***************************************************************************)
(* The threads take cells as Banks says a program does, so that what is    *)
(* proved there of cells handed out twice holds here.                      *)
(***************************************************************************)
BanksUsed == B!Spec

(***************************************************************************)
(* The call returns, or ends the program for want of cells: no thread      *)
(* waits for a task that will never be.                                    *)
(***************************************************************************)
Terminates == <>(Returned \/ aborted)

=============================================================================
