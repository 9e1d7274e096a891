--------------------------- MODULE ParCollapseProof ----------------------------
(***************************************************************************)
(* No worker of a parallel collapse stops while a task is left, and the    *)
(* workers take cells as Banks lets them, hence none twice: for any number *)
(* of threads, any leaves, any superpositions found on the way, deques     *)
(* that overflow, and reductions that spoil one another's stack.           *)
(*                                                                         *)
(* And a collapse returns every leaf once, as long as reductions do not    *)
(* overlap on the reducer's one stack and no deque overflows.              *)
(***************************************************************************)
EXTENDS ParCollapse, FiniteSetTheorems, FunctionTheorems, SequenceTheorems, TLAPS

BP == INSTANCE BanksProof

(***************************************************************************)
(* Termination is detected by a count. What it counts is a set here: a     *)
(* unit is a position of a deque, or what a worker has taken from one and  *)
(* not yet stored, or the half that it will push besides.                  *)
(***************************************************************************)
Busy == {"reduce", "frame", "place", "push0", "push1"}
Labels == Busy \cup {"none", "pop", "steal", "check", "done"}

Unit(w, i) ==
    \/ i \in 1 .. Len(deque[w])
    \/ i = 0 /\ pc[w] \in Busy
    \/ i = -1 /\ pc[w] = "push0"

Work == {u \in Tids \X Int : Unit(u[1], u[2])}

Path == Seq(Nat)

TypesOK ==
    /\ input \in Inputs
    /\ call \in {"begin", "serial", "seed", "threads", "merge", "parallel"}
    /\ seeded \in Nat /\ spawned \in Nat /\ remaining \in Int
    /\ pc \in [Tids -> Labels] /\ task \in [Tids -> Path]
    /\ victim \in [Tids -> Nat] /\ deque \in [Tids -> Seq(Path)]

\* Workers are started one by one, each once, when the deques are ready.
WorkersOK ==
    /\ call = "threads" => spawned \in 1 .. Threads + 1
    /\ \A w \in Tids : pc[w] # "none" => /\ call \in {"threads", "merge", "parallel"}
                                         /\ w < Threads
                                         /\ spawned = Threads + 1 \/ (0 < w /\ w < spawned)
    /\ call \in {"merge", "parallel"} => \A w \in Tids : pc[w] \in {"none", "done"}
    /\ \A w \in Tids : pc[w] \notin Busy => task[w] = NoTask

\* ws_remaining is the number of units, and a worker that stopped saw none.
WorkOK ==
    /\ IsFiniteSet(Work)
    /\ call \in {"begin", "seed"} => Cardinality(Work) = seeded
    /\ call \in {"threads", "merge", "parallel"} => Cardinality(Work) = remaining
    /\ \A w \in Tids : pc[w] = "done" => Work = {}

BanksOK ==
    /\ call \in {"begin", "serial"} => n_threads = 0
    /\ call \in {"seed", "threads"} => n_threads = Threads
    /\ call \in {"seed", "threads", "merge", "parallel"} => Threads \in 2 .. MaxThreads

Inv == TypesOK /\ WorkersOK /\ WorkOK /\ BanksOK

-----------------------------------------------------------------------------
(* Sets of units.                                                           *)

LEMMA Swapped ==
  ASSUME NEW S, IsFiniteSet(S), NEW a \in S, NEW b, b \notin S, NEW T, T = (S \ {a}) \cup {b}
  PROVE  IsFiniteSet(T) /\ Cardinality(T) = Cardinality(S)
<1>1. IsFiniteSet(S \ {a}) /\ Cardinality(S \ {a}) = Cardinality(S) - 1
  BY FS_RemoveElement
<1>2. IsFiniteSet(T) /\ Cardinality(T) = Cardinality(S \ {a}) + 1
  BY <1>1, FS_AddElement
<1>3. Cardinality(S) \in Nat
  BY FS_CardinalityType
<1> QED BY <1>1, <1>2, <1>3

LEMMA WorkIs ==
  ASSUME NEW S \in SUBSET (Tids \X Int),
         \A w \in Tids, i \in Int : Unit(w, i)' <=> <<w, i>> \in S
  PROVE  Work' = S
<1>1. \A u \in Tids \X Int : u[1] \in Tids /\ u[2] \in Int /\ u = <<u[1], u[2]>>
  OBVIOUS
<1>2. \A u \in Tids \X Int : Unit(u[1], u[2])' <=> u \in S
  BY <1>1
<1>3. Work' = {u \in Tids \X Int : Unit(u[1], u[2])'}
  BY DEF Work
<1> QED BY <1>2, <1>3

LEMMA UnitIn ==
  ASSUME NEW w \in Tids, NEW i \in Int
  PROVE  <<w, i>> \in Work <=> Unit(w, i)
BY DEF Work

\* What a worker holds is a unit, hence nobody has stopped.
LEMMA BusyWork ==
  ASSUME NEW w \in Tids, pc[w] \in Busy
  PROVE  <<w, 0>> \in Work
BY UnitIn DEF Unit

\* Threads to look after, and the deque the k-th leaf is put into.
LEMMA ThreadsOK ==
  ASSUME input \in Inputs
  PROVE  /\ Threads \in Nat /\ Threads <= MaxThreads /\ Tids = 0 .. MaxThreads - 1
         /\ input.count \in Nat
         /\ Worthwhile => Threads \in 2 .. MaxThreads
<1>1. input.threads \in Nat /\ input.count \in Nat /\ MaxThreads \in Nat /\ MaxThreads > 1
  BY InputsAssumption, BanksAssumption
<1> QED BY <1>1 DEF Threads, Worthwhile, Tids, B!Tids

LEMMA RoundRobin ==
  ASSUME NEW n \in Nat, n >= 2, NEW k \in Nat
  PROVE  k % n \in 0 .. n - 1
OBVIOUS

-----------------------------------------------------------------------------
(* The deques, a task more or less.                                         *)

LEMMA PutOK ==
  ASSUME NEW q \in Seq(Path), NEW t \in Path
  PROVE  Put(q, t) \in Seq(Path) /\ Len(Put(q, t)) = Len(q) + 1
<1> DEFINE n == Len(q) + 1
           at(i) == IF (n - i) % Cap = 0 THEN t ELSE q[i]
<1>1. n \in Nat /\ \A i \in 1 .. n : i # n => i \in 1 .. Len(q) /\ q[i] \in Path
  OBVIOUS
<1>2. (n - n) % Cap = 0
  BY <1>1, CapAssumption
<1>3. \A i \in 1 .. n : at(i) \in Path
  BY <1>1, <1>2
<1>4. Put(q, t) = [i \in 1 .. n |-> at(i)]
  BY DEF Put
<1> HIDE DEF at, n
<1>5. Put(q, t) \in Seq(Path) /\ Len(Put(q, t)) = n
  BY <1>1, <1>3, <1>4
<1> QED BY <1>5 DEF n

LEMMA TakeOK ==
  ASSUME NEW q \in Seq(Path), q # <<>>
  PROVE  /\ Len(q) \in Nat /\ Len(q) > 0
         /\ WithoutNewest(q) \in Seq(Path) /\ Len(WithoutNewest(q)) = Len(q) - 1
         /\ Newest(q) \in Path
         /\ Tail(q) \in Seq(Path) /\ Len(Tail(q)) = Len(q) - 1 /\ Head(q) \in Path
<1>1. Len(q) \in Nat /\ Len(q) > 0 /\ q[Len(q)] \in Path
  OBVIOUS
<1>2. WithoutNewest(q) \in Seq(Path) /\ Len(WithoutNewest(q)) = Len(q) - 1
  <2> DEFINE m == Len(q) - 1
             rest == SubSeq(q, 1, m)
  <2>1. m \in Nat /\ \A i \in 1 .. m : q[i] \in Path
    OBVIOUS
  <2>2. WithoutNewest(q) = rest
    BY DEF WithoutNewest
  <2> HIDE DEF m
  <2>3. rest \in Seq(Path) /\ Len(rest) = IF 1 <= m THEN m - 1 + 1 ELSE 0
    BY <2>1, SubSeqProperties
  <2> HIDE DEF rest
  <2>4. Len(rest) = m
    BY <2>1, <2>3
  <2> QED BY <2>2, <2>3, <2>4 DEF m
<1> QED BY <1>1, <1>2 DEF Newest

-----------------------------------------------------------------------------
(* The caller's steps.                                                      *)

LEMMA InitInv == Init => Inv
<1> SUFFICES ASSUME Init
             PROVE  Inv
  OBVIOUS
<1>1. /\ input \in Inputs /\ call = "begin" /\ seeded = 0 /\ spawned = 0 /\ remaining = 0
      /\ pc = [w \in Tids |-> "none"] /\ task = [w \in Tids |-> NoTask]
      /\ victim = [w \in Tids |-> 0] /\ deque = [w \in Tids |-> <<>>] /\ n_threads = 0
  BY DEF Init, B!InitCells
<1>2. TypesOK
  BY <1>1 DEF TypesOK, Labels, NoTask, Path
<1>3. WorkersOK
  BY <1>1 DEF WorkersOK
<1>4. Work = {}
  BY <1>1 DEF Work, Unit, Busy
<1>5. WorkOK
  BY <1>1, <1>4, FS_EmptySet DEF WorkOK
<1>6. BanksOK
  BY <1>1 DEF BanksOK
<1> QED BY <1>2, <1>3, <1>5, <1>6 DEF Inv

\* Where deques and workers stay as they are, so do the units.
LEMMA SameWork ==
  ASSUME deque' = deque,
         \A w \in Tids : /\ pc'[w] \in Busy <=> pc[w] \in Busy
                         /\ pc'[w] = "push0" <=> pc[w] = "push0"
  PROVE  Work' = Work
<1>1. \A w \in Tids, i \in Int : Unit(w, i)' <=> <<w, i>> \in Work
  BY UnitIn DEF Unit
<1>2. Work \in SUBSET (Tids \X Int)
  BY DEF Work
<1> QED BY <1>1, <1>2, WorkIs

LEMMA ReturnSerialInv == Inv /\ ReturnSerial => Inv'
<1> SUFFICES ASSUME Inv, ReturnSerial
             PROVE  Inv'
  OBVIOUS
<1>1. /\ call = "begin" /\ call' = "serial" /\ input' = input /\ seeded' = seeded
      /\ spawned' = spawned /\ remaining' = remaining /\ pc' = pc /\ task' = task
      /\ victim' = victim /\ deque' = deque /\ n_threads' = n_threads
  BY DEF ReturnSerial, workers, banks
<1>2. Work' = Work
  BY <1>1, SameWork
<1>3. TypesOK'
  BY <1>1 DEF Inv, TypesOK
<1>4. WorkersOK'
  BY <1>1 DEF Inv, WorkersOK
<1>5. WorkOK'
  BY <1>1, <1>2 DEF Inv, WorkOK
<1>6. BanksOK'
  BY <1>1 DEF Inv, BanksOK
<1> QED BY <1>3, <1>4, <1>5, <1>6 DEF Inv

LEMMA GoParallelInv == Inv /\ GoParallel => Inv'
<1> SUFFICES ASSUME Inv, GoParallel
             PROVE  Inv'
  OBVIOUS
<1>1. /\ call = "begin" /\ Worthwhile /\ call' = "seed" /\ input' = input /\ seeded' = seeded
      /\ spawned' = spawned /\ remaining' = remaining /\ pc' = pc /\ task' = task
      /\ victim' = victim /\ deque' = deque /\ n_threads' = Threads
  BY DEF GoParallel, workers, B!InitBanks
<1>2. Work' = Work
  BY <1>1, SameWork
<1>3. TypesOK'
  BY <1>1 DEF Inv, TypesOK
<1>4. WorkersOK'
  BY <1>1 DEF Inv, WorkersOK
<1>5. WorkOK'
  BY <1>1, <1>2 DEF Inv, WorkOK
<1>6. BanksOK'
  <2>1. Threads' = Threads /\ Threads \in 2 .. MaxThreads
    BY <1>1, ThreadsOK DEF Inv, TypesOK, Threads
  <2> QED BY <1>1, <2>1 DEF BanksOK
<1> QED BY <1>3, <1>4, <1>5, <1>6 DEF Inv

LEMMA SeedInv == Inv /\ Seed => Inv'
<1> SUFFICES ASSUME Inv, Seed
             PROVE  Inv'
  OBVIOUS
<1> DEFINE v == seeded % Threads
           n == Len(deque[v])
<1>1. /\ call = "seed" /\ call' = call /\ input' = input /\ seeded' = seeded + 1
      /\ spawned' = spawned /\ remaining' = remaining /\ pc' = pc /\ task' = task
      /\ victim' = victim /\ n_threads' = n_threads
      /\ deque' = [deque EXCEPT ![v] = Put(@, <<seeded + 1>>)]
  BY DEF Seed, workers, banks
<1>2. /\ Threads \in 2 .. MaxThreads /\ Tids = 0 .. MaxThreads - 1 /\ MaxThreads \in Nat
      /\ seeded \in Nat /\ deque \in [Tids -> Seq(Path)]
  BY <1>1, ThreadsOK, BanksAssumption DEF Inv, BanksOK, TypesOK
<1>3. v \in Tids
  BY <1>2, RoundRobin
<1>4. <<seeded + 1>> \in Path /\ deque[v] \in Seq(Path) /\ n \in Nat
  BY <1>2, <1>3 DEF Path
<1> HIDE DEF v
<1>5. /\ Len(deque'[v]) = n + 1 /\ deque' \in [Tids -> Seq(Path)]
      /\ \A w \in Tids : w # v => deque'[w] = deque[w]
  BY <1>1, <1>2, <1>3, <1>4, PutOK
<1>6. TypesOK'
  BY <1>1, <1>2, <1>5 DEF Inv, TypesOK
<1>7. WorkersOK'
  BY <1>1 DEF Inv, WorkersOK
<1>8. WorkOK'
  <2>1. \A w \in Tids : pc[w] = "none"
    BY <1>1 DEF Inv, WorkersOK
  <2>2. Work' = Work \cup {<<v, n + 1>>}
    <3>1. ASSUME NEW w \in Tids, NEW i \in Int
          PROVE  Unit(w, i)' <=> Unit(w, i) \/ (w = v /\ i = n + 1)
      <4>1. CASE w = v
        <5>1. i \in 1 .. n + 1 <=> i \in 1 .. n \/ i = n + 1
          BY <1>4
        <5> QED BY <1>1, <1>5, <4>1, <5>1 DEF Unit
      <4>2. CASE w # v
        BY <1>1, <1>5, <4>2 DEF Unit
      <4> QED BY <4>1, <4>2
    <3>3. \A w \in Tids, i \in Int :
             Unit(w, i)' <=> <<w, i>> \in Work \cup {<<v, n + 1>>}
      BY <3>1, UnitIn
    <3>2. Work \cup {<<v, n + 1>>} \in SUBSET (Tids \X Int)
      BY <1>3, <1>4 DEF Work
    <3> QED BY <3>2, <3>3, WorkIs
  <2>3. <<v, n + 1>> \notin Work
    BY <1>3, <1>4, <2>1, UnitIn DEF Unit, Busy
  <2>4. IsFiniteSet(Work') /\ Cardinality(Work') = Cardinality(Work) + 1
    BY <2>2, <2>3, FS_AddElement DEF Inv, WorkOK
  <2>5. Cardinality(Work) = seeded
    BY <1>1 DEF Inv, WorkOK
  <2> QED BY <1>1, <2>1, <2>4, <2>5 DEF WorkOK
<1>9. BanksOK'
  BY <1>1 DEF Inv, BanksOK, Threads
<1> QED BY <1>6, <1>7, <1>8, <1>9 DEF Inv

LEMMA CountSeededInv == Inv /\ CountSeeded => Inv'
<1> SUFFICES ASSUME Inv, CountSeeded
             PROVE  Inv'
  OBVIOUS
<1>1. /\ call = "seed" /\ call' = "threads" /\ input' = input /\ seeded' = seeded
      /\ spawned' = 1 /\ remaining' = seeded /\ pc' = pc /\ task' = task
      /\ victim' = victim /\ deque' = deque /\ n_threads' = n_threads
  BY DEF CountSeeded, workers, banks
<1>2. Work' = Work /\ \A w \in Tids : pc[w] = "none"
  BY <1>1, SameWork DEF Inv, WorkersOK
<1>3. TypesOK'
  BY <1>1 DEF Inv, TypesOK
<1>4. Threads' = Threads /\ Threads \in 2 .. MaxThreads
  BY <1>1 DEF Inv, BanksOK, Threads
<1>5. WorkersOK'
  BY <1>1, <1>2, <1>4, BanksAssumption DEF Inv, WorkersOK
<1>6. WorkOK'
  BY <1>1, <1>2 DEF Inv, WorkOK
<1>7. BanksOK'
  BY <1>1, <1>4 DEF Inv, BanksOK
<1> QED BY <1>3, <1>5, <1>6, <1>7 DEF Inv

LEMMA SpawnInv == Inv /\ Spawn => Inv'
<1> SUFFICES ASSUME Inv, Spawn
             PROVE  Inv'
  OBVIOUS
<1> DEFINE v == spawned % Threads
<1>1. /\ call = "threads" /\ call' = call /\ input' = input /\ seeded' = seeded
      /\ spawned <= Threads /\ spawned' = spawned + 1 /\ remaining' = remaining
      /\ pc' = [pc EXCEPT ![v] = "pop"] /\ task' = task
      /\ victim' = victim /\ deque' = deque /\ n_threads' = n_threads
  BY DEF Spawn, banks
<1>2. /\ Threads \in 2 .. MaxThreads /\ Tids = 0 .. MaxThreads - 1 /\ MaxThreads \in Nat
      /\ spawned \in 1 .. Threads /\ pc \in [Tids -> Labels] /\ Threads' = Threads
  <2>1. Threads \in 2 .. MaxThreads /\ pc \in [Tids -> Labels] /\ Threads' = Threads
    BY <1>1 DEF Inv, BanksOK, TypesOK, Threads
  <2>2. Tids = 0 .. MaxThreads - 1 /\ MaxThreads \in Nat
    BY ThreadsOK, BanksAssumption DEF Inv, TypesOK
  <2>3. spawned \in 1 .. Threads + 1
    BY <1>1 DEF Inv, WorkersOK
  <2> QED BY <1>1, <2>1, <2>2, <2>3
<1>3. v \in Tids /\ v < Threads /\ (v = spawned \/ (v = 0 /\ spawned = Threads))
  <2>1. CASE spawned < Threads
    BY <1>2, <2>1
  <2>2. CASE spawned = Threads
    BY <1>2, <2>2
  <2> QED BY <1>2, <2>1, <2>2
<1> HIDE DEF v
<1>4. pc[v] = "none"
  BY <1>2, <1>3 DEF Inv, WorkersOK
<1>5. /\ pc'[v] = "pop" /\ \A w \in Tids : w # v => pc'[w] = pc[w]
      /\ pc' \in [Tids -> Labels]
  BY <1>1, <1>2, <1>3 DEF Labels
<1>6. Work' = Work
  BY <1>1, <1>4, <1>5, SameWork DEF Busy
<1>7. TypesOK'
  BY <1>1, <1>2, <1>5 DEF Inv, TypesOK
<1>8. WorkersOK'
  <2>1. spawned' \in 1 .. Threads + 1
    BY <1>1, <1>2
  <2>2. ASSUME NEW w \in Tids, pc'[w] # "none"
        PROVE  w < Threads /\ (spawned' = Threads + 1 \/ (0 < w /\ w < spawned'))
    BY <1>1, <1>2, <1>3, <1>5, <2>2 DEF Inv, WorkersOK
  <2>3. \A w \in Tids : pc'[w] \notin Busy => task'[w] = NoTask
    BY <1>1, <1>4, <1>5 DEF Inv, WorkersOK, Busy
  <2> QED BY <1>1, <1>2, <2>1, <2>2, <2>3 DEF WorkersOK
<1>9. WorkOK'
  BY <1>1, <1>5, <1>6 DEF Inv, WorkOK
<1>10. BanksOK'
  BY <1>1, <1>2 DEF Inv, BanksOK
<1> QED BY <1>7, <1>8, <1>9, <1>10 DEF Inv

LEMMA JoinInv == Inv /\ Join => Inv'
<1> SUFFICES ASSUME Inv, Join
             PROVE  Inv'
  OBVIOUS
<1>1. /\ call = "threads" /\ call' = "merge" /\ input' = input /\ seeded' = seeded
      /\ spawned' = spawned /\ remaining' = remaining /\ pc' = pc /\ task' = task
      /\ victim' = victim /\ deque' = deque
      /\ \A w \in 0 .. Threads - 1 : pc[w] = "done"
  BY DEF Join, workers
<1>2. /\ Threads \in 2 .. MaxThreads /\ Tids = 0 .. MaxThreads - 1 /\ MaxThreads \in Nat
      /\ Threads' = Threads /\ Work' = Work
  BY <1>1, SameWork, ThreadsOK, BanksAssumption DEF Inv, BanksOK, TypesOK, Threads
<1>3. TypesOK'
  BY <1>1 DEF Inv, TypesOK
<1>4. WorkersOK'
  <2>1. \A w \in Tids : pc[w] \in {"none", "done"}
    BY <1>1, <1>2 DEF Inv, WorkersOK
  <2> QED BY <1>1, <1>2, <2>1 DEF Inv, WorkersOK
<1>5. WorkOK'
  BY <1>1, <1>2 DEF Inv, WorkOK
<1>6. BanksOK'
  BY <1>1, <1>2 DEF Inv, BanksOK
<1> QED BY <1>3, <1>4, <1>5, <1>6 DEF Inv

LEMMA MergeInv == Inv /\ (Merge \/ ReturnMerged) => Inv'
<1> SUFFICES ASSUME Inv, Merge \/ ReturnMerged
             PROVE  Inv'
  OBVIOUS
<1>1. /\ call = "merge" /\ call' \in {"merge", "parallel"} /\ input' = input /\ seeded' = seeded
      /\ spawned' = spawned /\ remaining' = remaining /\ pc' = pc /\ task' = task
      /\ victim' = victim /\ deque' = deque /\ n_threads' = n_threads
  BY DEF Merge, ReturnMerged, workers, banks
<1>2. Work' = Work /\ Threads' = Threads
  BY <1>1, SameWork DEF Threads
<1>3. TypesOK'
  BY <1>1 DEF Inv, TypesOK
<1>4. WorkersOK'
  BY <1>1, <1>2 DEF Inv, WorkersOK
<1>5. WorkOK'
  BY <1>1, <1>2 DEF Inv, WorkOK
<1>6. BanksOK'
  BY <1>1, <1>2 DEF Inv, BanksOK
<1> QED BY <1>3, <1>4, <1>5, <1>6 DEF Inv

-----------------------------------------------------------------------------
(* The workers' steps.                                                      *)

LEMMA AtWork ==
  ASSUME Inv, NEW w \in Tids, pc[w] \notin {"none", "done"}
  PROVE  /\ call = "threads" /\ w < Threads /\ Threads \in 2 .. MaxThreads
         /\ Tids = 0 .. MaxThreads - 1 /\ MaxThreads \in Nat
         /\ IsFiniteSet(Work) /\ Cardinality(Work) = remaining /\ remaining \in Int
         /\ Work # {} => \A x \in Tids : pc[x] # "done"
<1>1. call = "threads" /\ w < Threads
  BY DEF Inv, WorkersOK
<1>2. Threads \in 2 .. MaxThreads /\ Tids = 0 .. MaxThreads - 1 /\ MaxThreads \in Nat
  BY <1>1, ThreadsOK, BanksAssumption DEF Inv, TypesOK, BanksOK
<1> QED BY <1>1, <1>2 DEF Inv, TypesOK, WorkOK

\* What a worker's step has to do, and may not touch.
LEMMA WorkerStep ==
  ASSUME Inv, NEW w \in Tids, pc[w] \notin {"none", "done"},
         UNCHANGED <<input, call, seeded, spawned, n_threads>>,
         pc' \in [Tids -> Labels], task' \in [Tids -> Path],
         victim' \in [Tids -> Nat], deque' \in [Tids -> Seq(Path)], remaining' \in Int,
         \A x \in Tids : x # w => pc'[x] = pc[x] /\ task'[x] = task[x],
         pc'[w] # "none", pc'[w] \notin Busy => task'[w] = NoTask,
         IsFiniteSet(Work'), Cardinality(Work') = remaining',
         \A x \in Tids : pc'[x] = "done" => Work' = {}
  PROVE  Inv'
<1>1. Threads' = Threads
  BY DEF Threads
<1>2. TypesOK'
  BY DEF Inv, TypesOK
<1>3. WorkersOK'
  <2>1. \A x \in Tids : pc'[x] # "none" => pc[x] # "none"
    OBVIOUS
  <2>2. \A x \in Tids : pc'[x] \notin Busy => task'[x] = NoTask
    BY DEF Inv, WorkersOK
  <2> QED BY <1>1, <2>1, <2>2, AtWork DEF Inv, WorkersOK
<1>4. WorkOK'
  BY AtWork DEF WorkOK
<1>5. BanksOK'
  BY <1>1 DEF Inv, BanksOK
<1> QED BY <1>2, <1>3, <1>4, <1>5 DEF Inv

\* A step that moves no unit.
LEMMA QuietStep ==
  ASSUME Inv, NEW w \in Tids, pc[w] \notin {"none", "done", "push0"},
         NEW l \in Labels \ {"none", "push0"}, pc' = [pc EXCEPT ![w] = l],
         l \in Busy <=> pc[w] \in Busy, l = "done" => Work = {},
         NEW t \in Path, task' = [task EXCEPT ![w] = t], l \notin Busy => t = task[w],
         victim' \in [Tids -> Nat],
         UNCHANGED <<input, call, seeded, spawned, deque, remaining, n_threads>>
  PROVE  Inv'
<1>1. pc \in [Tids -> Labels] /\ task \in [Tids -> Path]
  BY DEF Inv, TypesOK
<1>2. /\ pc' \in [Tids -> Labels] /\ task' \in [Tids -> Path]
      /\ pc'[w] = l /\ task'[w] = t
      /\ \A x \in Tids : x # w => pc'[x] = pc[x] /\ task'[x] = task[x]
  BY <1>1
<1>3. Work' = Work
  BY <1>2, SameWork
<1>4. \A x \in Tids : pc'[x] = "done" => Work' = {}
  BY <1>2, <1>3 DEF Inv, WorkOK
<1>5. pc'[w] \notin Busy => task'[w] = NoTask
  BY <1>2 DEF Inv, WorkersOK
<1>6. deque' \in [Tids -> Seq(Path)] /\ remaining' \in Int
  BY DEF Inv, TypesOK
<1>7. IsFiniteSet(Work') /\ Cardinality(Work') = remaining'
  BY <1>3, AtWork
<1> QED BY <1>2, <1>4, <1>5, <1>6, <1>7, WorkerStep

\* A task goes from a deque, its own or a victim's, to a worker.
LEMMA TakeStep ==
  ASSUME Inv, NEW w \in Tids, NEW v \in Tids, pc[w] \in {"pop", "steal"},
         deque[v] # <<>>, NEW q \in Seq(Path), Len(q) = Len(deque[v]) - 1, NEW t \in Path,
         pc' = [pc EXCEPT ![w] = "reduce"], task' = [task EXCEPT ![w] = t],
         deque' = [deque EXCEPT ![v] = q], victim' \in [Tids -> Nat],
         UNCHANGED <<input, call, seeded, spawned, remaining, n_threads>>
  PROVE  Inv'
<1> DEFINE n == Len(deque[v])
<1>1. pc \in [Tids -> Labels] /\ task \in [Tids -> Path] /\ deque \in [Tids -> Seq(Path)]
  BY DEF Inv, TypesOK
<1>2. n \in Nat /\ n > 0 /\ Len(q) = n - 1
  BY <1>1, TakeOK
<1>3. /\ pc' \in [Tids -> Labels] /\ task' \in [Tids -> Path]
      /\ deque' \in [Tids -> Seq(Path)]
      /\ pc'[w] = "reduce" /\ deque'[v] = q
      /\ \A x \in Tids : x # w => pc'[x] = pc[x] /\ task'[x] = task[x]
      /\ \A x \in Tids : x # v => deque'[x] = deque[x]
  BY <1>1 DEF Labels, Busy
<1> HIDE DEF n
<1>4. ASSUME NEW x \in Tids, NEW i \in Int
      PROVE  Unit(x, i)' <=> \/ Unit(x, i) /\ ~(x = v /\ i = n)
                             \/ x = w /\ i = 0
  <2>1. i \in 1 .. Len(deque'[x]) <=> i \in 1 .. Len(deque[x]) /\ ~(x = v /\ i = n)
    <3>1. CASE x = v
      <4>1. i \in 1 .. n - 1 <=> i \in 1 .. n /\ i # n
        BY <1>2
      <4> QED BY <1>2, <1>3, <3>1, <4>1 DEF n
    <3>2. CASE x # v
      BY <1>3, <3>2
    <3> QED BY <3>1, <3>2
  <2>2. n # 0 /\ n # -1
    BY <1>2
  <2>3. (i = 0 /\ pc'[x] \in Busy) <=> (i = 0 /\ pc[x] \in Busy) \/ (x = w /\ i = 0)
    BY <1>3 DEF Busy
  <2>4. (i = -1 /\ pc'[x] = "push0") <=> (i = -1 /\ pc[x] = "push0")
    BY <1>3
  <2> QED BY <2>1, <2>2, <2>3, <2>4 DEF Unit
<1>5. <<v, n>> \in Work /\ <<w, 0>> \notin Work
  <2>1. Unit(v, n) /\ ~Unit(w, 0)
    BY <1>2 DEF Unit, n, Busy
  <2> QED BY <1>2, <2>1, UnitIn
<1>6. Work' = (Work \ {<<v, n>>}) \cup {<<w, 0>>}
  <2> DEFINE S == (Work \ {<<v, n>>}) \cup {<<w, 0>>}
  <2>1. S \in SUBSET (Tids \X Int)
    BY DEF Work
  <2>2. \A x \in Tids, i \in Int : Unit(x, i)' <=> <<x, i>> \in S
    BY <1>4, UnitIn
  <2> HIDE DEF S
  <2>3. Work' = S
    BY <2>1, <2>2, WorkIs
  <2> QED BY <2>3 DEF S
<1>7. IsFiniteSet(Work') /\ Cardinality(Work') = remaining' /\ remaining' \in Int
  <2>1. IsFiniteSet(Work) /\ Cardinality(Work) = remaining /\ remaining \in Int
    BY AtWork
  <2>2. IsFiniteSet(Work') /\ Cardinality(Work') = Cardinality(Work)
    BY <1>5, <1>6, <2>1, Swapped
  <2> QED BY <2>1, <2>2
<1>8. \A x \in Tids : pc'[x] # "done"
  BY <1>3, <1>5, AtWork
<1> QED BY <1>3, <1>7, <1>8, WorkerStep DEF Busy

\* Half of what a worker holds goes to its deque.
LEMMA GiveStep ==
  ASSUME Inv, NEW w \in Tids, NEW q \in Seq(Path), Len(q) = Len(deque[w]) + 1,
         NEW l, NEW a, NEW t \in Path,
         \/ pc[w] = "push0" /\ l = "push1" /\ a = -1 /\ t = task[w]
         \/ pc[w] = "push1" /\ l = "pop" /\ a = 0 /\ t = NoTask,
         pc' = [pc EXCEPT ![w] = l], task' = [task EXCEPT ![w] = t],
         deque' = [deque EXCEPT ![w] = q],
         UNCHANGED <<input, call, seeded, spawned, victim, remaining, n_threads>>
  PROVE  Inv'
<1> DEFINE n == Len(deque[w])
<1>1. pc \in [Tids -> Labels] /\ task \in [Tids -> Path] /\ deque \in [Tids -> Seq(Path)]
      /\ victim' \in [Tids -> Nat]
  BY DEF Inv, TypesOK
<1>2. n \in Nat /\ Len(q) = n + 1 /\ a \in Int /\ l \in Labels /\ l \notin {"none", "done"}
  BY <1>1 DEF Labels, Busy
<1>3. /\ pc' \in [Tids -> Labels] /\ task' \in [Tids -> Path]
      /\ deque' \in [Tids -> Seq(Path)]
      /\ pc'[w] = l /\ task'[w] = t /\ deque'[w] = q
      /\ \A x \in Tids : x # w => /\ pc'[x] = pc[x] /\ task'[x] = task[x]
                                  /\ deque'[x] = deque[x]
  BY <1>1, <1>2
<1> HIDE DEF n
<1>4. ASSUME NEW x \in Tids, NEW i \in Int
      PROVE  Unit(x, i)' <=> \/ Unit(x, i) /\ ~(x = w /\ i = a)
                             \/ x = w /\ i = n + 1
  <2>1. CASE x = w
    <3>1. i \in 1 .. Len(deque'[w]) <=> i \in 1 .. n \/ i = n + 1
      BY <1>2, <1>3
    <3>2. i \in 1 .. n => i # a
      BY <1>2
    <3>3. n + 1 # a
      BY <1>2
    <3> QED BY <1>3, <2>1, <3>1, <3>2, <3>3 DEF Unit, n, Busy
  <2>2. CASE x # w
    BY <1>3, <2>2 DEF Unit
  <2> QED BY <2>1, <2>2
<1>5. <<w, a>> \in Work /\ <<w, n + 1>> \notin Work
  <2>1. Unit(w, a) /\ ~Unit(w, n + 1)
    BY <1>2 DEF Unit, n, Busy
  <2> QED BY <1>2, <2>1, UnitIn
<1>6. Work' = (Work \ {<<w, a>>}) \cup {<<w, n + 1>>}
  <2> DEFINE S == (Work \ {<<w, a>>}) \cup {<<w, n + 1>>}
  <2>1. S \in SUBSET (Tids \X Int)
    BY <1>2 DEF Work
  <2>2. \A x \in Tids, i \in Int : Unit(x, i)' <=> <<x, i>> \in S
    BY <1>4, UnitIn
  <2> HIDE DEF S
  <2>3. Work' = S
    BY <2>1, <2>2, WorkIs
  <2> QED BY <2>3 DEF S
<1>7. IsFiniteSet(Work') /\ Cardinality(Work') = remaining' /\ remaining' \in Int
  <2>0. pc[w] \notin {"none", "done"}
    OBVIOUS
  <2>1. IsFiniteSet(Work) /\ Cardinality(Work) = remaining /\ remaining \in Int
    BY <2>0, AtWork
  <2> DEFINE u == <<w, a>>
             v == <<w, n + 1>>
  <2>2. u \in Work /\ v \notin Work /\ Work' = (Work \ {u}) \cup {v}
    BY <1>5, <1>6
  <2> HIDE DEF u, v
  <2>3. IsFiniteSet(Work') /\ Cardinality(Work') = Cardinality(Work)
    BY <2>1, <2>2, Swapped
  <2> QED BY <2>1, <2>3
<1>8. \A x \in Tids : pc'[x] # "done"
  BY <1>2, <1>3, <1>5, AtWork
<1> QED BY <1>1, <1>2, <1>3, <1>7, <1>8, WorkerStep DEF Busy

LEMMA PopInv ==
  ASSUME Inv, NEW w \in Tids, Pop(w)
  PROVE  Inv'
<1>1. /\ pc[w] = "pop" /\ UNCHANGED <<caller, remaining, banks>>
      /\ victim \in [Tids -> Nat] /\ deque \in [Tids -> Seq(Path)] /\ task \in [Tids -> Path]
  BY DEF Pop, Inv, TypesOK
<1>2. CASE deque[w] = <<>>
  <2>1. /\ pc' = [pc EXCEPT ![w] = "steal"] /\ victim' = [victim EXCEPT ![w] = 1]
        /\ task' = task /\ deque' = deque
    BY <1>2 DEF Pop, Goto
  <2>2. victim' \in [Tids -> Nat] /\ task' = [task EXCEPT ![w] = task[w]] /\ task[w] \in Path
    BY <1>1, <2>1
  <2>3. "steal" \in Labels \ {"none", "push0"} /\ ("steal" \in Busy <=> pc[w] \in Busy)
    BY <1>1 DEF Labels, Busy
  <2> QED BY <1>1, <2>1, <2>2, <2>3, QuietStep DEF caller, banks, Busy
<1>3. CASE deque[w] # <<>>
  <2>1. /\ pc' = [pc EXCEPT ![w] = "reduce"]
        /\ task' = [task EXCEPT ![w] = Newest(deque[w])] /\ victim' = victim
        /\ deque' = [deque EXCEPT ![w] = WithoutNewest(deque[w])]
    BY <1>3 DEF Pop, Goto, Hold
  <2>2. /\ WithoutNewest(deque[w]) \in Seq(Path) /\ Newest(deque[w]) \in Path
        /\ Len(WithoutNewest(deque[w])) = Len(deque[w]) - 1
    BY <1>1, <1>3, TakeOK
  <2> QED BY <1>1, <1>3, <2>1, <2>2, TakeStep DEF caller, banks
<1> QED BY <1>2, <1>3

LEMMA StealInv ==
  ASSUME Inv, NEW w \in Tids, Steal(w)
  PROVE  Inv'
<1> DEFINE v == Victim(w)
<1>1. /\ pc[w] = "steal" /\ UNCHANGED <<caller, remaining, banks>> /\ deque[v] # <<>>
      /\ pc' = [pc EXCEPT ![w] = "reduce"] /\ task' = [task EXCEPT ![w] = Head(deque[v])]
      /\ deque' = [deque EXCEPT ![v] = Tail(deque[v])]
      /\ victim' = [victim EXCEPT ![w] = 0]
      /\ victim \in [Tids -> Nat] /\ deque \in [Tids -> Seq(Path)]
  BY DEF Steal, Goto, Hold, Inv, TypesOK
<1>2. /\ Threads \in Nat /\ Threads >= 2 /\ Threads <= MaxThreads
      /\ Tids = 0 .. MaxThreads - 1 /\ MaxThreads \in Nat
  <2>1. pc[w] \notin {"none", "done"}
    BY <1>1
  <2>2. /\ Threads \in 2 .. MaxThreads
        /\ Tids = 0 .. MaxThreads - 1 /\ MaxThreads \in Nat
    BY <2>1, AtWork
  <2> QED BY <2>2
<1>3. v \in Tids
  <2>1. w + victim[w] \in Nat
    BY <1>1, <1>2
  <2>2. (w + victim[w]) % Threads \in 0 .. Threads - 1
    BY <1>2, <2>1, RoundRobin
  <2> QED BY <1>2, <2>2 DEF Victim
<1> HIDE DEF v
<1>4. /\ Tail(deque[v]) \in Seq(Path) /\ Head(deque[v]) \in Path
      /\ Len(Tail(deque[v])) = Len(deque[v]) - 1 /\ victim' \in [Tids -> Nat]
  BY <1>1, <1>3, TakeOK
<1> QED BY <1>1, <1>3, <1>4, TakeStep DEF caller, banks

LEMMA StealNothingInv ==
  ASSUME Inv, NEW w \in Tids, StealNothing(w)
  PROVE  Inv'
<1>1. /\ pc[w] = "steal" /\ UNCHANGED <<caller, task, deque, remaining, banks>>
      /\ victim \in [Tids -> Nat] /\ task \in [Tids -> Path] /\ pc \in [Tids -> Labels]
  BY DEF StealNothing, Inv, TypesOK
<1>2. task' = [task EXCEPT ![w] = task[w]] /\ task[w] \in Path
  BY <1>1
<1>3. PICK l \in {"steal", "check"} :
         pc' = [pc EXCEPT ![w] = l] /\ victim' \in [Tids -> Nat]
  BY <1>1 DEF StealNothing, Goto
<1>4. l \in Labels \ {"none", "push0"} /\ l # "done" /\ (l \in Busy <=> pc[w] \in Busy)
  BY <1>1, <1>3 DEF Labels, Busy
<1> QED BY <1>1, <1>2, <1>3, <1>4, QuietStep DEF caller, banks

\* The worker that reads a count of nothing knows of every deque.
LEMMA CheckInv ==
  ASSUME Inv, NEW w \in Tids, Check(w)
  PROVE  Inv'
<1> DEFINE l == IF NoneRemaining THEN "done" ELSE "pop"
<1>1. /\ pc[w] = "check" /\ UNCHANGED <<caller, task, victim, deque, remaining, banks>>
      /\ pc' = [pc EXCEPT ![w] = l]
      /\ victim \in [Tids -> Nat] /\ task \in [Tids -> Path]
  BY DEF Check, Goto, Inv, TypesOK
<1>2. task' = [task EXCEPT ![w] = task[w]] /\ task[w] \in Path
  BY <1>1
<1>3. l = "done" => Work = {}
  <2> SUFFICES ASSUME remaining <= 0
               PROVE  Work = {}
    BY DEF NoneRemaining
  <2>1. IsFiniteSet(Work) /\ Cardinality(Work) = remaining
    BY <1>1, AtWork
  <2>2. Cardinality(Work) \in Nat /\ (Cardinality(Work) = 0 <=> Work = {})
    BY <2>1, FS_CardinalityType, FS_EmptySet
  <2> QED BY <2>1, <2>2
<1>4. l \in Labels \ {"none", "push0"} /\ (l \in Busy <=> pc[w] \in Busy)
  BY <1>1 DEF Labels, Busy
<1> HIDE DEF l
<1> QED BY <1>1, <1>2, <1>3, <1>4, QuietStep DEF caller, banks

LEMMA ReduceInv ==
  ASSUME Inv, NEW w \in Tids, Reduce(w)
  PROVE  Inv'
<1>1. /\ pc[w] = "reduce" /\ UNCHANGED <<caller, task, victim, deque, remaining, banks>>
      /\ victim \in [Tids -> Nat] /\ task \in [Tids -> Path]
  BY DEF Reduce, Inv, TypesOK
<1>2. task' = [task EXCEPT ![w] = task[w]] /\ task[w] \in Path
  BY <1>1
<1>3. PICK l \in {"frame", "place"} : pc' = [pc EXCEPT ![w] = l]
  BY DEF Reduce, Goto
<1>4. l \in Labels \ {"none", "push0"} /\ l # "done" /\ l \in Busy /\ pc[w] \in Busy
  BY <1>1, <1>3 DEF Labels, Busy
<1> QED BY <1>1, <1>2, <1>3, <1>4, QuietStep DEF caller, banks

LEMMA ApplyInv ==
  ASSUME Inv, NEW w \in Tids, Apply(w)
  PROVE  Inv'
<1>1. /\ pc[w] = "frame" /\ UNCHANGED <<caller, pc, task, victim, deque, remaining, n_threads>>
      /\ victim \in [Tids -> Nat] /\ task \in [Tids -> Path] /\ pc \in [Tids -> Labels]
  BY DEF Apply, B!BankAlloc, Inv, TypesOK
<1>2. /\ task' = [task EXCEPT ![w] = task[w]] /\ task[w] \in Path
      /\ pc' = [pc EXCEPT ![w] = "frame"]
  BY <1>1
<1>3. "frame" \in Labels \ {"none", "push0"} /\ "frame" \in Busy
  BY DEF Labels, Busy
<1> QED BY <1>1, <1>2, <1>3, QuietStep DEF caller

\* Even a task spoilt by another thread's frame is one task.
LEMMA ReducedInv ==
  ASSUME Inv, NEW w \in Tids, Reduced(w)
  PROVE  Inv'
<1> DEFINE t == IF popped[w] = <<task[w]>> THEN task[w] ELSE Garbage
<1>1. /\ pc[w] = "frame" /\ UNCHANGED <<caller, victim, deque, remaining, banks>>
      /\ task' = [task EXCEPT ![w] = t] /\ pc' = [pc EXCEPT ![w] = "place"]
      /\ victim \in [Tids -> Nat] /\ task \in [Tids -> Path]
  BY DEF Reduced, Goto, Hold, Inv, TypesOK
<1>2. t \in Path
  BY <1>1 DEF Garbage, Path
<1>3. "place" \in Labels \ {"none", "push0"} /\ "place" \in Busy /\ pc[w] \in Busy
  BY <1>1 DEF Labels, Busy
<1> HIDE DEF t
<1> QED BY <1>1, <1>2, <1>3, QuietStep DEF caller, banks

LEMMA StoreLeafInv ==
  ASSUME Inv, NEW w \in Tids, StoreLeaf(w)
  PROVE  Inv'
<1>1. /\ pc[w] = "place" /\ UNCHANGED <<caller, victim, deque, banks>>
      /\ remaining' = remaining - 1
      /\ task' = [task EXCEPT ![w] = NoTask] /\ pc' = [pc EXCEPT ![w] = "pop"]
      /\ victim \in [Tids -> Nat] /\ task \in [Tids -> Path] /\ pc \in [Tids -> Labels]
      /\ deque \in [Tids -> Seq(Path)]
  BY DEF StoreLeaf, Goto, Hold, Inv, TypesOK
<1>2. /\ pc' \in [Tids -> Labels] /\ task' \in [Tids -> Path]
      /\ pc'[w] = "pop" /\ task'[w] = NoTask
      /\ \A x \in Tids : x # w => pc'[x] = pc[x] /\ task'[x] = task[x]
  BY <1>1 DEF Labels, NoTask, Path
<1>3. <<w, 0>> \in Work
  BY <1>1, BusyWork DEF Busy
<1>4. Work' = Work \ {<<w, 0>>}
  <2>1. ASSUME NEW x \in Tids, NEW i \in Int
        PROVE  Unit(x, i)' <=> Unit(x, i) /\ ~(x = w /\ i = 0)
    <3>1. \A z : ~(0 \in 1 .. Len(z))
      OBVIOUS
    <3>2. deque[x] \in Seq(Path) /\ deque' = deque
      BY <1>1
    <3>3. ~(0 \in 1 .. Len(deque[x]))
      BY <3>2
    <3> QED BY <1>1, <1>2, <3>2, <3>3 DEF Unit, Busy
  <2>2. \A x \in Tids, i \in Int : Unit(x, i)' <=> <<x, i>> \in Work \ {<<w, 0>>}
    BY <2>1, UnitIn
  <2>3. Work \ {<<w, 0>>} \in SUBSET (Tids \X Int)
    BY DEF Work
  <2> QED BY <2>2, <2>3, WorkIs
<1>5. IsFiniteSet(Work') /\ Cardinality(Work') = remaining' /\ remaining' \in Int
  <2>1. IsFiniteSet(Work) /\ Cardinality(Work) = remaining /\ remaining \in Int
    BY <1>1, AtWork
  <2>2. IsFiniteSet(Work \ {<<w, 0>>}) /\ Cardinality(Work \ {<<w, 0>>}) = Cardinality(Work) - 1
    BY <1>3, <2>1, FS_RemoveElement
  <2> QED BY <1>1, <1>4, <2>1, <2>2
<1>6. \A x \in Tids : pc'[x] # "done"
  BY <1>1, <1>2, <1>3, AtWork
<1> QED BY <1>1, <1>2, <1>5, <1>6, WorkerStep DEF caller, banks

LEMMA SplitInv ==
  ASSUME Inv, NEW w \in Tids, Split(w)
  PROVE  Inv'
<1>1. /\ pc[w] = "place" /\ UNCHANGED <<caller, task, victim, deque, banks>>
      /\ remaining' = remaining + 1 /\ pc' = [pc EXCEPT ![w] = "push0"]
      /\ victim \in [Tids -> Nat] /\ task \in [Tids -> Path] /\ pc \in [Tids -> Labels]
      /\ deque \in [Tids -> Seq(Path)]
  BY DEF Split, NetChange, Goto, Inv, TypesOK
<1>2. /\ pc' \in [Tids -> Labels] /\ pc'[w] = "push0"
      /\ \A x \in Tids : x # w => pc'[x] = pc[x]
  BY <1>1 DEF Labels, Busy
<1>3. ~Unit(w, -1) /\ Unit(w, 0)
  <2>1. deque[w] \in Seq(Path)
    BY <1>1
  <2>2. ~(-1 \in 1 .. Len(deque[w]))
    BY <2>1
  <2> QED BY <1>1, <2>2 DEF Unit, Busy
<1>4. <<w, -1>> \notin Work /\ Work # {}
  <2>1. -1 \in Int /\ 0 \in Int
    OBVIOUS
  <2>2. <<w, -1>> \notin Work
    BY <1>3, <2>1, UnitIn
  <2>3. <<w, 0>> \in Work
    BY <1>3, <2>1, UnitIn
  <2> QED BY <2>2, <2>3
<1>5. Work' = Work \cup {<<w, -1>>}
  <2>1. \A x \in Tids, i \in Int : Unit(x, i)' <=> Unit(x, i) \/ (x = w /\ i = -1)
    BY <1>1, <1>2 DEF Unit, Busy
  <2>2. \A x \in Tids, i \in Int : Unit(x, i)' <=> <<x, i>> \in Work \cup {<<w, -1>>}
    BY <2>1, UnitIn
  <2>3. Work \cup {<<w, -1>>} \in SUBSET (Tids \X Int)
    BY DEF Work
  <2> QED BY <2>2, <2>3, WorkIs
<1>6. IsFiniteSet(Work') /\ Cardinality(Work') = remaining' /\ remaining' \in Int
  <2>1. IsFiniteSet(Work) /\ Cardinality(Work) = remaining /\ remaining \in Int
    BY <1>1, AtWork
  <2>2. /\ IsFiniteSet(Work \cup {<<w, -1>>})
        /\ Cardinality(Work \cup {<<w, -1>>}) = Cardinality(Work) + 1
    BY <1>4, <2>1, FS_AddElement
  <2> QED BY <1>1, <1>5, <2>1, <2>2
<1>7. \A x \in Tids : pc'[x] # "done"
  BY <1>1, <1>2, <1>4, AtWork
<1> QED BY <1>1, <1>2, <1>6, <1>7, WorkerStep DEF caller, banks, Busy

LEMMA PushInv ==
  ASSUME Inv, NEW w \in Tids, PushLeft(w) \/ PushRight(w)
  PROVE  Inv'
<1>1. /\ task \in [Tids -> Path] /\ deque \in [Tids -> Seq(Path)] /\ NoTask \in Path
      /\ task' = [task EXCEPT ![w] = task[w]] \/ ~(task' = task)
  BY DEF Inv, TypesOK, NoTask, Path
<1>2. \A b \in {0, 1} : task[w] \o <<b>> \in Path
  BY <1>1 DEF Path
<1>3. \A b \in {0, 1} : /\ Put(deque[w], task[w] \o <<b>>) \in Seq(Path)
                        /\ Len(Put(deque[w], task[w] \o <<b>>)) = Len(deque[w]) + 1
  BY <1>1, <1>2, PutOK
<1>4. CASE PushLeft(w)
  <2>1. /\ pc[w] = "push0" /\ pc' = [pc EXCEPT ![w] = "push1"]
        /\ task' = [task EXCEPT ![w] = task[w]] /\ task[w] \in Path
        /\ deque' = [deque EXCEPT ![w] = Put(deque[w], task[w] \o <<0>>)]
        /\ UNCHANGED <<caller, victim, remaining, banks>>
    BY <1>1, <1>4 DEF PushLeft, PushHalf, Goto
  <2> QED BY <1>3, <2>1, GiveStep DEF caller, banks
<1>5. CASE PushRight(w)
  <2>1. /\ pc[w] = "push1" /\ pc' = [pc EXCEPT ![w] = "pop"]
        /\ task' = [task EXCEPT ![w] = NoTask]
        /\ deque' = [deque EXCEPT ![w] = Put(deque[w], task[w] \o <<1>>)]
        /\ UNCHANGED <<caller, victim, remaining, banks>>
    BY <1>5 DEF PushRight, PushHalf, Goto, Hold
  <2> QED BY <1>1, <1>3, <2>1, GiveStep DEF caller, banks
<1> QED BY <1>4, <1>5

LEMMA StutterInv == Inv /\ UNCHANGED vars => Inv'
<1> SUFFICES ASSUME Inv, UNCHANGED vars
             PROVE  Inv'
  OBVIOUS
<1>1. UNCHANGED <<input, call, seeded, spawned, pc, task, victim, deque, remaining, n_threads>>
  BY DEF vars, caller, workers, banks
<1>2. Work' = Work /\ Threads' = Threads
  BY <1>1, SameWork DEF Threads
<1> QED BY <1>1, <1>2 DEF Inv, TypesOK, WorkersOK, WorkOK, BanksOK

LEMMA NextInv == Inv /\ [Next]_vars => Inv'
<1> SUFFICES ASSUME Inv, [Next]_vars
             PROVE  Inv'
  OBVIOUS
<1>1. CASE Caller
  BY <1>1, ReturnSerialInv, GoParallelInv, SeedInv, CountSeededInv, SpawnInv, JoinInv, MergeInv
     DEF Caller
<1>2. ASSUME NEW w \in Tids, Worker(w)
      PROVE  Inv'
  BY <1>2, PopInv, StealInv, StealNothingInv, CheckInv, ReduceInv, ApplyInv, ReducedInv,
     StoreLeafInv, SplitInv, PushInv DEF Worker
<1>3. CASE UNCHANGED vars
  BY <1>3, StutterInv
<1> QED BY <1>1, <1>2, <1>3 DEF Next

LEMMA Invariant == Spec => []Inv
<1>1. Init /\ [][Next]_vars => []Inv
  BY InitInv, NextInv, PTL
<1> QED BY <1>1, PTL DEF Spec

-----------------------------------------------------------------------------
\* ws_collapse_fn: a worker that reads ws_remaining as 0 and returns leaves
\* no task behind, in no deque and with no other worker, and none comes into
\* being afterwards: for any number of threads, leaves and superpositions,
\* even when deques overflow or reductions apply one another's frames.
THEOREM WorkersStopLast == Spec => []StopsLast
<1>1. Inv => StopsLast
  <2> SUFFICES ASSUME Inv, NEW w \in Tids, pc[w] = "done", NEW v \in Tids
               PROVE  deque[v] = <<>> /\ task[v] = NoTask
    BY DEF StopsLast
  <2>1. Work = {} /\ deque[v] \in Seq(Path)
    BY DEF Inv, WorkOK, TypesOK
  <2>2. deque[v] = <<>>
    <3>1. CASE deque[v] # <<>>
      <4>1. 1 \in 1 .. Len(deque[v])
        BY <2>1, <3>1
      <4>2. Unit(v, 1)
        BY <4>1 DEF Unit
      <4> QED BY <2>1, <4>2, UnitIn
    <3> QED BY <3>1
  <2>3. pc[v] \notin Busy
    BY <2>1, BusyWork
  <2>4. task[v] = NoTask
    BY <2>3 DEF Inv, WorkersOK
  <2> QED BY <2>2, <2>4
<1> QED BY <1>1, Invariant, PTL

-----------------------------------------------------------------------------
(* What the collapse does with the cells is what Banks says a program does. *)

LEMMA BanksInit == Init => B!Init
BY DEF Init, B!Init

LEMMA BanksStep == Inv /\ [Next]_vars => [B!Next]_(B!bankVars)
<1> SUFFICES ASSUME Inv, [Next]_vars
             PROVE  B!Next \/ UNCHANGED banks
  BY DEF banks, B!bankVars
<1>1. CASE GoParallel /\ ~aborted
  <2>1. n_threads = 0 /\ Threads \in 2 .. MaxThreads /\ B!InitBanks(Threads)
    BY <1>1, ThreadsOK DEF GoParallel, Inv, BanksOK, TypesOK
  <2> QED BY <1>1, <2>1 DEF B!Next, B!Begin
<1>2. CASE Join /\ ~aborted
  <2>1. n_threads \in 2 .. MaxThreads /\ B!FinalizeBanks
    BY <1>2 DEF Join, Inv, BanksOK
  <2>2. n_threads > 1
    BY <2>1, BanksAssumption
  <2> QED BY <1>2, <2>1, <2>2 DEF B!Next, B!End
<1>3. ASSUME NEW w \in Tids, Apply(w), ~aborted
      PROVE  B!Next
  <2>1. PICK size \in Sizes : B!BankAlloc(w, size)
    BY <1>3 DEF Apply
  <2>2. pc[w] = "frame"
    BY <1>3 DEF Apply
  <2>3. call = "threads" /\ w < Threads /\ Threads \in 2 .. MaxThreads /\ Tids = 0 .. MaxThreads - 1
    BY <2>2, AtWork
  <2>4. n_threads = Threads
    BY <2>3 DEF Inv, BanksOK
  <2>5. w \in 0 .. n_threads - 1
    BY <2>3, <2>4, BanksAssumption
  <2> QED BY <1>3, <2>1, <2>5 DEF B!Next, B!Alloc
<1>4. CASE ReturnSerial \/ Seed \/ CountSeeded \/ Spawn \/ Merge \/ ReturnMerged
  BY <1>4 DEF ReturnSerial, Seed, CountSeeded, Spawn, Merge, ReturnMerged
<1>5. ASSUME NEW w \in Tids, Worker(w), ~Apply(w)
      PROVE  UNCHANGED banks
  BY <1>5 DEF Worker, Pop, Steal, StealNothing, Check, Reduce, Reduced, StoreLeaf, Split,
              PushLeft, PushRight
<1>6. CASE UNCHANGED vars
  BY <1>6 DEF vars
<1> QED BY <1>1, <1>2, <1>3, <1>4, <1>5, <1>6 DEF Next, Caller

\* thvm_collapse_par uses heap_alloc and the banks only as module Banks
\* allows: banks are made when the program runs alone, for at least two
\* threads and no more than there are, and only a thread that has a bank
\* allocates from it.
THEOREM CollapseUsesBanks == Spec => BanksUsed
<1>1. Init => B!Init
  BY BanksInit
<1>2. Inv /\ [Next]_vars => [B!Next]_(B!bankVars)
  BY BanksStep
<1> QED BY <1>1, <1>2, Invariant, PTL DEF Spec, BanksUsed, B!Spec

\* Hence no cell is handed out twice in a parallel collapse.
THEOREM CollapseCellsOnce == Spec => []B!CellsOnce
<1>1. BP!Spec => []BP!CellsOnce
  BY BP!NoCellTwice, BanksAssumption
<1>2. B!Init => BP!Init
  BY DEF B!Init, BP!Init, B!InitCells, BP!InitCells, B!Tids, BP!Tids
<1>3. [B!Next]_(B!bankVars) => [BP!Next]_(BP!bankVars)
  BY DEF B!Next, BP!Next, B!bankVars, BP!bankVars, B!Begin, BP!Begin, B!Alloc, BP!Alloc,
         B!End, BP!End, B!InitBanks, BP!InitBanks, B!BankAlloc, BP!BankAlloc,
         B!SerialAlloc, BP!SerialAlloc, B!FinalizeBanks, BP!FinalizeBanks, B!Tids, BP!Tids,
         B!BankStart, BP!BankStart, B!BankEnd, BP!BankEnd, B!PerThread, BP!PerThread,
         B!HandOut, BP!HandOut, B!Refuse, BP!Refuse, B!Reached, BP!Reached
<1>4. BP!CellsOnce => B!CellsOnce
  BY DEF B!CellsOnce, BP!CellsOnce
<1> QED BY <1>1, <1>2, <1>3, <1>4, CollapseUsesBanks, PTL DEF BanksUsed, B!Spec, BP!Spec

-----------------------------------------------------------------------------
(* Every leaf once.                                                         *)
(*                                                                          *)
(* The argument follows a leaf from its root to the result.  At any moment  *)
(* exactly one token stands for it, a path that it begins with: a task in a *)
(* deque, what a worker holds, or a result stored.                          *)

\* p is an initial part of q.
Above(p, q) == Len(p) <= Len(q) /\ \A i \in 1 .. Len(p) : p[i] = q[i]

\* Tokens: the units of Work, and position n of a worker's results as -1 - n.
Places == Tids \X Int
Token(w, i) == Unit(w, i) \/ -1 - i \in 1 .. Len(stored[w])

\* The path a token stands for: of a task that is being split, either half.
Val(w, i) ==
    IF i > 0 THEN deque[w][i]
    ELSE IF i < -1 THEN stored[w][-1 - i]
    ELSE IF pc[w] \in {"push0", "push1"} THEN task[w] \o <<i + 1>> ELSE task[w]

Holds(w, i, l) == Token(w, i) /\ Above(Val(w, i), l)
Holders(l) == {u \in Places : Holds(u[1], u[2], l)}

StoredOK ==
    /\ stored \in [Tids -> Seq(Path)]
    /\ \A w \in Tids : stored[w] # <<>> => pc[w] # "none"

SeededOK ==
    /\ call \in {"begin", "serial"} => seeded = 0
    /\ seeded <= input.count
    /\ call \in {"threads", "merge", "parallel"} => seeded = input.count

ValuesOK ==
    \A w \in Tids, i \in Int :
        Token(w, i) => Val(w, i) \in Tasks /\ (i < -1 => Val(w, i) \in Leaves)

\* Each leaf whose root has been put into a deque has one token.
OneHolder ==
    \A l \in Leaves : /\ l[1] <= seeded => \E u \in Places : Holders(l) = {u}
                      /\ l[1] > seeded => Holders(l) = {}

\* The stack is empty, or holds the frame of the one worker that needs one.
FramesOK ==
    /\ base \in [Tids -> Nat] /\ popped \in [Tids -> Seq(Path)] /\ frames \in Seq(Path)
    /\ \A w \in Tids : pc[w] = "frame" =>
          /\ base[w] = 0
          /\ \/ frames = <<task[w]>> /\ popped[w] = <<>>
             \/ frames = <<>> /\ popped[w] = <<task[w]>>
    /\ (\A w \in Tids : pc[w] # "frame") => frames = <<>>

\* The results of the workers below `merged', each once.
ResultOK ==
    /\ result \in Seq(Path) /\ merged \in Nat
    /\ call \in {"begin", "seed", "threads"} => result = <<>> /\ merged = 0
    /\ call = "merge" => merged <= Threads
    /\ call = "parallel" => merged = Threads
    /\ call \in {"merge", "parallel"} =>
          /\ \A w \in 0 .. Threads - 1 : pc[w] = "done"
          /\ \A j \in 1 .. Len(result) : \E w \in Tids : /\ w < merged
                \* its worker and the place there
                /\ \E n \in 1 .. Len(stored[w]) : result[j] = stored[w][n]
          /\ \A w \in Tids : w < merged => \A n \in 1 .. Len(stored[w]) :
                \E j \in 1 .. Len(result) : result[j] = stored[w][n]
          /\ \A i, j \in 1 .. Len(result) : result[i] = result[j] => i = j

LeavesInv == StoredOK /\ SeededOK /\ ValuesOK /\ OneHolder /\ FramesOK /\ ResultOK

-----------------------------------------------------------------------------
(* Paths.                                                                   *)

\* A task is a path whose first step is a leaf of the serial collapse and
\* whose others are halves.
LEMMA TaskPath ==
  ASSUME input \in Inputs, NEW p \in Tasks
  PROVE  /\ p \in Path /\ Len(p) > 0 /\ p[1] \in 1 .. input.count
         /\ \A i \in 2 .. Len(p) : p[i] \in {0, 1} /\ SubSeq(p, 1, i - 1) \in input.splits
<1>1. /\ input.splits \subseteq Seq(Nat) /\ input.count \in Nat
      /\ \A q \in input.splits : /\ Len(q) > 0 /\ q[1] \in 1 .. input.count
            /\ \A i \in 2 .. Len(q) : q[i] \in {0, 1} /\ SubSeq(q, 1, i - 1) \in input.splits
  BY InputsAssumption DEF IsTree
<1>2. CASE p \in Roots
  <2>1. PICK k \in 1 .. input.count : p = <<k>>
    BY <1>2 DEF Roots
  <2> QED BY <1>1, <2>1 DEF Path
<1>3. ASSUME NEW q \in input.splits, NEW b \in {0, 1}, p = q \o <<b>>
      PROVE  /\ p \in Path /\ Len(p) > 0 /\ p[1] \in 1 .. input.count
             /\ \A i \in 2 .. Len(p) : p[i] \in {0, 1} /\ SubSeq(p, 1, i - 1) \in input.splits
  <2>1. q \in Seq(Nat) /\ Len(q) \in Nat /\ Len(q) > 0
    BY <1>1
  <2>2. /\ p \in Seq(Nat) /\ Len(p) = Len(q) + 1
        /\ p[Len(q) + 1] = b /\ \A i \in 1 .. Len(q) : p[i] = q[i]
    BY <1>3, <2>1
  <2>3. ASSUME NEW i \in 2 .. Len(p)
        PROVE  p[i] \in {0, 1} /\ SubSeq(p, 1, i - 1) \in input.splits
    <3>1. SubSeq(p, 1, i - 1) = SubSeq(q, 1, i - 1)
      <4>1. i - 1 \in Nat /\ i - 1 <= Len(q) /\ \A j \in 1 .. i - 1 : p[j] = q[j]
        BY <2>1, <2>2
      <4>2. SubSeq(p, 1, i - 1) = [j \in 1 .. i - 1 |-> p[j]]
        BY <2>1, <2>2, <4>1
      <4>3. SubSeq(q, 1, i - 1) = [j \in 1 .. i - 1 |-> q[j]]
        BY <2>1, <4>1
      <4> QED BY <4>1, <4>2, <4>3
    <3>2. CASE i = Len(q) + 1
      <4>1. SubSeq(q, 1, i - 1) = q
        BY <2>1, <3>2
      <4> QED BY <2>2, <3>1, <3>2, <4>1
    <3>3. CASE i # Len(q) + 1
      <4>1. i \in 2 .. Len(q)
        BY <2>1, <2>2, <3>3
      <4>2. q[i] \in {0, 1} /\ SubSeq(q, 1, i - 1) \in input.splits
        BY <1>1, <4>1
      <4>3. p[i] = q[i]
        BY <2>2, <4>1
      <4> QED BY <3>1, <4>2, <4>3
    <3> QED BY <3>2, <3>3
  <2>4. p[1] \in 1 .. input.count /\ Len(p) > 0
    BY <1>1, <2>1, <2>2
  <2> QED BY <2>2, <2>3, <2>4 DEF Path
<1> QED BY <1>2, <1>3 DEF Tasks

\* Only one task can still become a leaf, that leaf itself.
LEMMA LeafAlone ==
  ASSUME input \in Inputs, NEW l \in Leaves, NEW t \in Tasks, t \notin input.splits, Above(t, l)
  PROVE  l = t
<1>1. /\ l \in Seq(Nat) /\ t \in Seq(Nat) /\ Len(t) > 0 /\ Len(t) \in Nat /\ Len(l) \in Nat
      /\ \A i \in 2 .. Len(l) : SubSeq(l, 1, i - 1) \in input.splits
  BY TaskPath DEF Leaves, Path
<1>2. Len(t) <= Len(l) /\ \A i \in 1 .. Len(t) : t[i] = l[i]
  BY DEF Above
<1>3. CASE Len(t) = Len(l)
  BY <1>1, <1>2, <1>3
<1>4. CASE Len(t) < Len(l)
  <2> DEFINE k == Len(t) + 1
  <2>1. k \in 2 .. Len(l) /\ k - 1 = Len(t)
    BY <1>1, <1>4
  <2>2. SubSeq(l, 1, k - 1) = [j \in 1 .. k - 1 |-> l[j]]
    BY <1>1, <2>1
  <2>3. t = [j \in 1 .. k - 1 |-> t[j]]
    BY <1>1, <2>1
  <2>4. SubSeq(l, 1, k - 1) = t
    BY <1>2, <2>1, <2>2, <2>3
  <2> QED BY <1>1, <2>1, <2>4
<1> QED BY <1>1, <1>2, <1>3, <1>4

\* A leaf below a superposition is below one of its halves.
LEMMA OneHalf ==
  ASSUME input \in Inputs, NEW l \in Leaves, NEW t \in Tasks, t \in input.splits
  PROVE  /\ \A b \in {0, 1} : t \o <<b>> \in Tasks
         /\ \A b \in {0, 1} : Above(t \o <<b>>, l) => Above(t, l)
         /\ Above(t, l) => \E b \in {0, 1} : /\ Above(t \o <<b>>, l)
                                             /\ ~Above(t \o <<1 - b>>, l)
<1>1. /\ l \in Seq(Nat) /\ t \in Seq(Nat) /\ Len(t) > 0 /\ Len(t) \in Nat /\ Len(l) \in Nat
      /\ \A i \in 2 .. Len(l) : l[i] \in {0, 1}
  BY TaskPath DEF Leaves, Path
<1>2. ASSUME NEW b \in {0, 1}
      PROVE  /\ Len(t \o <<b>>) = Len(t) + 1 /\ (t \o <<b>>)[Len(t) + 1] = b
             /\ \A i \in 1 .. Len(t) : (t \o <<b>>)[i] = t[i]
  BY <1>1
<1>3. ASSUME NEW b \in {0, 1}
      PROVE  Above(t \o <<b>>, l) <=> Above(t, l) /\ Len(t) < Len(l) /\ l[Len(t) + 1] = b
  <2> DEFINE n == Len(t)
  <2>1. n \in Nat /\ \A i \in 1 .. n + 1 : i \in 1 .. n \/ i = n + 1
    BY <1>1
  <2>2. n + 1 \in 1 .. n + 1 /\ \A i \in 1 .. n : i \in 1 .. n + 1
    BY <1>1
  <2>3. n + 1 <= Len(l) <=> n <= Len(l) /\ n < Len(l)
    BY <1>1
  <2> QED BY <1>2, <2>1, <2>2, <2>3 DEF Above
<1>4. \A b \in {0, 1} : t \o <<b>> \in Tasks
  BY DEF Tasks
<1>5. ASSUME Above(t, l)
      PROVE  Len(t) < Len(l) /\ l[Len(t) + 1] \in {0, 1}
  <2>1. Len(t) # Len(l)
    <3>1. CASE Len(t) = Len(l)
      <4>1. t = l
        BY <1>1, <1>5, <3>1 DEF Above
      <4> QED BY <4>1 DEF Leaves
    <3> QED BY <3>1
  <2>2. Len(t) < Len(l)
    BY <1>1, <1>5, <2>1 DEF Above
  <2>3. Len(t) + 1 \in 2 .. Len(l)
    BY <1>1, <2>2
  <2> QED BY <1>1, <2>2, <2>3
<1>6. ASSUME Above(t, l)
      PROVE  \E b \in {0, 1} : Above(t \o <<b>>, l) /\ ~Above(t \o <<1 - b>>, l)
  <2> DEFINE b == l[Len(t) + 1]
  <2>1. b \in {0, 1} /\ 1 - b \in {0, 1} /\ 1 - b # b
    BY <1>5, <1>6
  <2> HIDE DEF b
  <2>2. Above(t \o <<b>>, l) /\ ~Above(t \o <<1 - b>>, l)
    BY <1>3, <1>5, <1>6, <2>1 DEF b
  <2> QED BY <2>1, <2>2
<1> QED BY <1>3, <1>4, <1>6

\* The root of a leaf is where it begins.
LEMMA RootAbove ==
  ASSUME input \in Inputs, NEW l \in Leaves, NEW k \in Nat
  PROVE  Above(<<k>>, l) <=> l[1] = k
<1>1. l \in Seq(Nat) /\ Len(l) > 0 /\ Len(l) \in Nat
  BY TaskPath DEF Leaves, Path
<1>2. Len(<<k>>) = 1 /\ <<k>>[1] = k
  OBVIOUS
<1> QED BY <1>1, <1>2 DEF Above


-----------------------------------------------------------------------------
(* Tokens that move.                                                        *)

LEMMA OneMoved ==
  ASSUME NEW S \in SUBSET Places, NEW T \in SUBSET Places,
         NEW a \in Places, NEW b \in Places, b \notin S,
         \A x \in Places : x \in T <=> (x \in S /\ x # a) \/ (x = b /\ a \in S)
  PROVE  /\ (\E u \in Places : S = {u}) => (\E u \in Places : T = {u})
         /\ S = {} => T = {}
<1>1. ASSUME NEW u \in Places, S = {u}
      PROVE  \E z \in Places : T = {z}
  <2>1. CASE u = a
    <3>1. T = {b}
      BY <1>1, <2>1
    <3> QED BY <3>1
  <2>2. CASE u # a
    <3>1. T = {u}
      BY <1>1, <2>2
    <3> QED BY <3>1
  <2> QED BY <2>1, <2>2
<1>2. S = {} => T = {}
  OBVIOUS
<1> QED BY <1>1, <1>2

LEMMA HoldersIn ==
  ASSUME NEW w \in Tids, NEW i \in Int, NEW l
  PROVE  <<w, i>> \in Holders(l) <=> Holds(w, i, l)
BY DEF Holders, Places

\* What the holders are after a step, given what holds l then.
LEMMA HoldersAfter ==
  ASSUME NEW S \in SUBSET Places, NEW l,
         \A w \in Tids, i \in Int : (Token(w, i)' /\ Above(Val(w, i)', l)) <=> <<w, i>> \in S
  PROVE  {u \in Places : Token(u[1], u[2])' /\ Above(Val(u[1], u[2])', l)} = S
<1>1. \A u \in Places : u[1] \in Tids /\ u[2] \in Int /\ u = <<u[1], u[2]>>
  BY DEF Places
<1> QED BY <1>1

\* A token goes from place <<v, n>> to <<w, k>>; all others stay.
LEMMA Move ==
  ASSUME ValuesOK, OneHolder, UNCHANGED <<input, seeded>>,
         NEW v \in Tids, NEW n \in Int, NEW w \in Tids, NEW k \in Int,
         Token(v, n), ~Token(w, k),
         \A x \in Tids, i \in Int :
            Token(x, i)' <=> (Token(x, i) /\ ~(x = v /\ i = n)) \/ (x = w /\ i = k),
         \A x \in Tids, i \in Int :
            Token(x, i) /\ ~(x = v /\ i = n) => Val(x, i)' = Val(x, i),
         Val(w, k)' = Val(v, n),
         k < -1 => Val(v, n) \in Leaves
  PROVE  ValuesOK' /\ OneHolder'
<1>1. Tasks' = Tasks /\ Leaves' = Leaves
  BY DEF Tasks, Leaves, Roots
<1>2. ValuesOK'
  <2>1. ASSUME NEW x \in Tids, NEW i \in Int, Token(x, i)'
        PROVE  Val(x, i)' \in Tasks /\ (i < -1 => Val(x, i)' \in Leaves)
    <3>1. CASE Token(x, i) /\ ~(x = v /\ i = n)
      <4>1. Val(x, i)' = Val(x, i)
        BY <3>1
      <4> QED BY <3>1, <4>1 DEF ValuesOK
    <3>2. CASE x = w /\ i = k
      BY <3>2 DEF ValuesOK
    <3> QED BY <2>1, <3>1, <3>2
  <2> QED BY <1>1, <2>1 DEF ValuesOK
<1>3. ASSUME NEW l \in Leaves
      PROVE  /\ (\E u \in Places : Holders(l) = {u}) => (\E u \in Places : Holders(l)' = {u})
             /\ Holders(l) = {} => Holders(l)' = {}
  <2> DEFINE T == {u \in Places : Token(u[1], u[2])' /\ Above(Val(u[1], u[2])', l)}
             a == <<v, n>>
             b == <<w, k>>
  <2>1. Holders(l)' = T
    BY DEF Holders, Holds, Places, Above
  <2>2. a \in Places /\ b \in Places /\ b \notin Holders(l) /\ Holders(l) \in SUBSET Places
    BY HoldersIn DEF Places, Holders, Holds
  <2>3. ASSUME NEW x \in Tids, NEW i \in Int
        PROVE  <<x, i>> \in T <=> \/ <<x, i>> \in Holders(l) /\ <<x, i>> # a
                                  \/ <<x, i>> = b /\ a \in Holders(l)
    <3>1. <<x, i>> \in T <=> Token(x, i)' /\ Above(Val(x, i)', l)
      BY DEF Places
    <3>2. <<x, i>> \in Holders(l) <=> Holds(x, i, l)
      BY HoldersIn
    <3>3. a \in Holders(l) <=> Holds(v, n, l)
      BY HoldersIn
    <3>4. (<<x, i>> # a <=> ~(x = v /\ i = n)) /\ (<<x, i>> = b <=> x = w /\ i = k)
      OBVIOUS
    <3>5. Token(x, i)' /\ Above(Val(x, i)', l)
            <=> (Holds(x, i, l) /\ ~(x = v /\ i = n)) \/ (x = w /\ i = k /\ Holds(v, n, l))
      <4>1. CASE x = w /\ i = k
        <5>1. Token(x, i)' /\ Val(x, i)' = Val(v, n) /\ ~Holds(x, i, l)
          BY <4>1 DEF Holds
        <5> QED BY <4>1, <5>1 DEF Holds
      <4>2. CASE ~(x = w /\ i = k)
        <5>1. Token(x, i)' <=> Token(x, i) /\ ~(x = v /\ i = n)
          BY <4>2
        <5>2. Token(x, i)' => Val(x, i)' = Val(x, i)
          BY <5>1
        <5> QED BY <4>2, <5>1, <5>2 DEF Holds
      <4> QED BY <4>1, <4>2
    <3> QED BY <3>1, <3>2, <3>3, <3>4, <3>5
  <2>4. \A x \in Places : x \in T <=> (x \in Holders(l) /\ x # a) \/ (x = b /\ a \in Holders(l))
    <3>1. \A x \in Places : x[1] \in Tids /\ x[2] \in Int /\ x = <<x[1], x[2]>>
      BY DEF Places
    <3> HIDE DEF T, a, b
    <3> QED BY <2>3, <3>1
  <2>5. T \in SUBSET Places
    OBVIOUS
  <2> HIDE DEF T, a, b
  <2>6. ASSUME NEW S \in SUBSET Places, S = Holders(l)
        PROVE  /\ (\E u \in Places : S = {u}) => (\E u \in Places : T = {u})
               /\ S = {} => T = {}
    <3>1. b \notin S /\ \A x \in Places : x \in T <=> (x \in S /\ x # a) \/ (x = b /\ a \in S)
      BY <2>2, <2>4, <2>6
    <3> QED BY <2>2, <2>5, <3>1, OneMoved
  <2> QED BY <2>1, <2>2, <2>6
<1>4. OneHolder'
  BY <1>1, <1>3 DEF OneHolder
<1> QED BY <1>2, <1>4

\* Nothing moves.
LEMMA Stay ==
  ASSUME ValuesOK, OneHolder, UNCHANGED <<input, seeded>>,
         \A x \in Tids, i \in Int : /\ Token(x, i)' <=> Token(x, i)
                                    /\ Token(x, i) => Val(x, i)' = Val(x, i)
  PROVE  ValuesOK' /\ OneHolder'
<1>1. Tasks' = Tasks /\ Leaves' = Leaves
  BY DEF Tasks, Leaves, Roots
<1>2. ValuesOK'
  BY <1>1 DEF ValuesOK
<1>3. ASSUME NEW l
      PROVE  Holders(l)' = Holders(l)
  <2>1. Holders(l)' = {u \in Places : Token(u[1], u[2])' /\ Above(Val(u[1], u[2])', l)}
    BY DEF Holders, Holds, Places, Above
  <2>2. \A w \in Tids, i \in Int : (Token(w, i)' /\ Above(Val(w, i)', l)) <=> <<w, i>> \in Holders(l)
    BY HoldersIn DEF Holds
  <2>3. Holders(l) \in SUBSET Places
    BY DEF Holders
  <2> QED BY <2>1, <2>2, <2>3, HoldersAfter
<1>4. OneHolder'
  BY <1>1, <1>3 DEF OneHolder
<1> QED BY <1>2, <1>4

\* Deques, results and what workers hold stay as they are.
LEMMA SamePlaces ==
  ASSUME ValuesOK, OneHolder, UNCHANGED <<input, seeded, deque, stored>>,
         \A x \in Tids : /\ pc'[x] \in Busy <=> pc[x] \in Busy
                         /\ pc'[x] = "push0" <=> pc[x] = "push0"
                         /\ pc'[x] = "push1" <=> pc[x] = "push1"
                         /\ pc[x] \in Busy => task'[x] = task[x]
  PROVE  ValuesOK' /\ OneHolder'
<1>1. \A x \in Tids, i \in Int : Token(x, i)' <=> Token(x, i)
  BY DEF Token, Unit
<1>2. ASSUME NEW x \in Tids, NEW i \in Int, Token(x, i)
      PROVE  Val(x, i)' = Val(x, i)
  <2>1. CASE i > 0 \/ i < -1
    BY <2>1 DEF Val
  <2>2. CASE i \in {0, -1}
    <3>1. pc[x] \in Busy
      BY <1>2, <2>2 DEF Token, Unit, Busy
    <3>2. /\ task'[x] = task[x]
          /\ pc'[x] \in {"push0", "push1"} <=> pc[x] \in {"push0", "push1"}
      BY <3>1
    <3> QED BY <2>2, <3>2 DEF Val
  <2> QED BY <2>1, <2>2
<1> QED BY <1>1, <1>2, Stay

LEMMA SameFrames ==
  ASSUME FramesOK, UNCHANGED <<base, popped, frames>>,
         \A x \in Tids : /\ pc'[x] = "frame" <=> pc[x] = "frame"
                         /\ pc[x] = "frame" => task'[x] = task[x]
  PROVE  FramesOK'
BY DEF FramesOK

LEMMA SameStored ==
  ASSUME StoredOK, stored' = stored, \A x \in Tids : pc[x] # "none" => pc'[x] # "none"
  PROVE  StoredOK'
BY DEF StoredOK

LEMMA SameResult ==
  ASSUME ResultOK, call \in {"begin", "seed", "threads"}, call' \in {"begin", "seed", "threads"},
         UNCHANGED <<result, merged>>
  PROVE  ResultOK'
BY DEF ResultOK

\* What is left to show of a worker's step.
LEMMA WorkerLeaves ==
  ASSUME Inv, LeavesInv, NEW w \in Tids, pc[w] \notin {"none", "done"}, UNCHANGED caller,
         StoredOK', ValuesOK', OneHolder', FramesOK'
  PROVE  LeavesInv'
<1>1. call = "threads" /\ UNCHANGED <<input, call, result, seeded, merged>>
  BY AtWork DEF caller
<1>2. ResultOK'
  BY <1>1, SameResult DEF LeavesInv
<1>3. SeededOK'
  BY <1>1 DEF LeavesInv, SeededOK
<1> QED BY <1>2, <1>3 DEF LeavesInv

-----------------------------------------------------------------------------
(* The caller.                                                              *)

LEMMA InitLeaves == Init => LeavesInv
<1> SUFFICES ASSUME Init
             PROVE  LeavesInv
  OBVIOUS
<1>1. /\ input \in Inputs /\ call = "begin" /\ result = <<>> /\ seeded = 0 /\ merged = 0
      /\ pc = [w \in Tids |-> "none"] /\ stored = [w \in Tids |-> <<>>]
      /\ deque = [w \in Tids |-> <<>>] /\ frames = <<>>
      /\ base = [w \in Tids |-> 0] /\ popped = [w \in Tids |-> <<>>]
  BY DEF Init
<1>2. \A w \in Tids, i \in Int : ~Token(w, i)
  BY <1>1 DEF Token, Unit, Busy
<1>3. ValuesOK
  BY <1>2 DEF ValuesOK
<1>4. OneHolder
  <2>1. \A l : Holders(l) = {}
    BY <1>2 DEF Holders, Holds, Places
  <2>2. \A l \in Leaves : ~(l[1] <= seeded)
    <3>1. \A l \in Leaves : l[1] \in Nat /\ l[1] > 0
      BY <1>1, TaskPath, InputsAssumption DEF Leaves
    <3> QED BY <1>1, <3>1
  <2> QED BY <2>1, <2>2 DEF OneHolder
<1>5. StoredOK
  BY <1>1 DEF StoredOK, Path
<1>6. SeededOK
  BY <1>1, InputsAssumption DEF SeededOK
<1>7. FramesOK
  <2>1. base \in [Tids -> Nat] /\ popped \in [Tids -> Seq(Path)] /\ frames \in Seq(Path)
    BY <1>1
  <2> QED BY <1>1, <2>1 DEF FramesOK
<1>8. ResultOK
  BY <1>1 DEF ResultOK, Path
<1> QED BY <1>3, <1>4, <1>5, <1>6, <1>7, <1>8 DEF LeavesInv

\* Steps of the caller that touch neither tokens nor the result.
LEMMA QuietCallerLeaves ==
  ASSUME Inv, LeavesInv, GoParallel \/ CountSeeded \/ Spawn
  PROVE  LeavesInv'
<1>1. /\ UNCHANGED <<input, result, seeded, merged, task, base, popped, stored, deque, frames>>
      /\ call \in {"begin", "seed", "threads"} /\ call' \in {"seed", "threads"}
      /\ call' = "seed" => call = "begin"
      /\ call' = "threads" => call = "threads" \/ seeded = input.count
  BY DEF GoParallel, CountSeeded, Spawn, workers
<1>2. \A x \in Tids : pc'[x] = pc[x] \/ (pc[x] \notin Busy /\ pc'[x] = "pop")
  <2>1. CASE GoParallel \/ CountSeeded
    BY <2>1 DEF GoParallel, CountSeeded, workers
  <2>2. CASE Spawn
    <3> DEFINE v == spawned % Threads
    <3>1. /\ Threads \in 2 .. MaxThreads /\ spawned \in 1 .. Threads /\ pc \in [Tids -> Labels]
          /\ pc' = [pc EXCEPT ![v] = "pop"]
      BY <2>2 DEF Spawn, Inv, BanksOK, WorkersOK, TypesOK
    <3>2. v = spawned \/ (v = 0 /\ spawned = Threads)
      <4>1. CASE spawned < Threads
        BY <3>1, <4>1
      <4>2. CASE spawned = Threads
        BY <3>1, <4>2
      <4> QED BY <3>1, <4>1, <4>2
    <3> HIDE DEF v
    <3>3. v \in Tids => pc[v] = "none"
      BY <3>1, <3>2, BanksAssumption DEF Inv, WorkersOK
    <3> QED BY <3>1, <3>3 DEF Busy
  <2> QED BY <2>1, <2>2
<1>3. ValuesOK' /\ OneHolder'
  BY <1>1, <1>2, SamePlaces DEF LeavesInv, Busy
<1>4. FramesOK'
  BY <1>1, <1>2, SameFrames DEF LeavesInv, Busy
<1>5. StoredOK'
  BY <1>1, <1>2, SameStored DEF LeavesInv
<1>6. ResultOK'
  BY <1>1, SameResult DEF LeavesInv
<1>7. SeededOK'
  BY <1>1 DEF LeavesInv, SeededOK
<1> QED BY <1>3, <1>4, <1>5, <1>6, <1>7 DEF LeavesInv

LEMMA ReturnSerialLeaves ==
  ASSUME Inv, LeavesInv, ReturnSerial
  PROVE  LeavesInv'
<1>1. /\ UNCHANGED <<input, seeded, merged, pc, task, base, popped, stored, deque, frames>>
      /\ call = "begin" /\ call' = "serial" /\ result' = [i \in 1 .. input.count |-> <<i>>]
  BY DEF ReturnSerial, workers
<1>2. ValuesOK' /\ OneHolder'
  BY <1>1, SamePlaces DEF LeavesInv
<1>3. FramesOK' /\ StoredOK'
  BY <1>1, SameFrames, SameStored DEF LeavesInv
<1>4. ResultOK'
  <2>1. input.count \in Nat
    BY InputsAssumption DEF Inv, TypesOK
  <2>2. \A i \in 1 .. input.count : <<i>> \in Path
    BY DEF Path
  <2>3. result' \in Seq(Path)
    BY <1>1, <2>1, <2>2
  <2> QED BY <1>1, <2>3 DEF LeavesInv, ResultOK
<1>5. SeededOK'
  BY <1>1 DEF LeavesInv, SeededOK
<1> QED BY <1>2, <1>3, <1>4, <1>5 DEF LeavesInv

\* While a deque is not full a push changes no other position of it.
LEMMA PutLast ==
  ASSUME NEW q \in Seq(Path), NEW t \in Path, Len(Put(q, t)) <= Cap
  PROVE  /\ Len(q) \in Nat /\ Len(Put(q, t)) = Len(q) + 1 /\ Put(q, t)[Len(q) + 1] = t
         /\ \A i \in 1 .. Len(q) : Put(q, t)[i] = q[i]
<1> DEFINE n == Len(q) + 1
<1>1. n \in Nat /\ n > 0 /\ n <= Cap /\ Len(Put(q, t)) = n /\ Len(q) \in Nat
  <2>1. Len(q) \in Nat
    OBVIOUS
  <2>2. Len(Put(q, t)) = Len(q) + 1
    BY PutOK
  <2> QED BY <2>1, <2>2
<1>2. \A i \in 1 .. n : Put(q, t)[i] = IF (n - i) % Cap = 0 THEN t ELSE q[i]
  BY DEF Put
<1>3. (n - n) % Cap = 0
  BY <1>1, CapAssumption
<1>4. ASSUME NEW i \in 1 .. Len(q)
      PROVE  (n - i) % Cap # 0 /\ i \in 1 .. n
  <2>1. n - i \in 1 .. Cap - 1 /\ Cap \in Nat /\ Cap > 0
    BY <1>1, CapAssumption
  <2>2. \A k \in 1 .. Cap - 1 : k % Cap = k
    BY CapAssumption
  <2>3. (n - i) % Cap = n - i
    BY <2>1, <2>2
  <2>4. i \in 1 .. n
    BY <1>1
  <2> QED BY <2>1, <2>3, <2>4
<1> HIDE DEF n
<1>5. n \in 1 .. n
  BY <1>1
<1>6. Put(q, t)[n] = t /\ \A i \in 1 .. Len(q) : Put(q, t)[i] = q[i]
  BY <1>2, <1>3, <1>4, <1>5
<1> QED BY <1>1, <1>6 DEF n

\* A root put into a deque is the token of every leaf below it.
LEMMA SeedLeaves ==
  ASSUME Inv, LeavesInv, Undisturbed', Seed
  PROVE  LeavesInv'
<1>1. PICK v, n, k :
         /\ v = seeded % Threads /\ n = Len(deque[v]) /\ k = seeded + 1
         /\ call = "seed" /\ seeded < input.count /\ seeded' = k
         /\ UNCHANGED <<input, call, result, merged, pc, task, base, popped, stored, frames>>
         /\ deque' = [deque EXCEPT ![v] = Put(@, <<k>>)]
  BY DEF Seed, workers
<1>2. /\ Threads \in 2 .. MaxThreads /\ Tids = 0 .. MaxThreads - 1 /\ MaxThreads \in Nat
      /\ seeded \in Nat /\ deque \in [Tids -> Seq(Path)] /\ input \in Inputs /\ input.count \in Nat
  BY <1>1, ThreadsOK, BanksAssumption DEF Inv, BanksOK, TypesOK
<1>3. v \in Tids /\ k \in 1 .. input.count /\ k \in Nat /\ <<k>> \in Path
  <2>1. k \in 1 .. input.count /\ k \in Nat
    BY <1>1, <1>2
  <2>2. seeded % Threads \in 0 .. Threads - 1
    BY <1>2, RoundRobin
  <2>3. v \in Tids
    BY <1>1, <1>2, <2>2
  <2> QED BY <2>1, <2>3 DEF Path
<1>4. \A w \in Tids : pc[w] = "none"
  BY <1>1 DEF Inv, WorkersOK
<1>5. deque'[v] = Put(deque[v], <<k>>) /\ \A w \in Tids : w # v => deque'[w] = deque[w]
  BY <1>1, <1>2, <1>3
<1>6. /\ n \in Nat /\ Len(deque'[v]) = n + 1 /\ deque'[v][n + 1] = <<k>>
      /\ \A i \in 1 .. n : deque'[v][i] = deque[v][i]
  <2>1. Len(Put(deque[v], <<k>>)) <= Cap /\ deque[v] \in Seq(Path)
    BY <1>2, <1>3, <1>5 DEF Undisturbed
  <2> QED BY <1>1, <1>3, <1>5, <2>1, PutLast
<1>7. ASSUME NEW w \in Tids, NEW i \in Int
      PROVE  /\ Token(w, i)' <=> Token(w, i) \/ (w = v /\ i = n + 1)
             /\ Token(w, i) => Val(w, i)' = Val(w, i) /\ ~(w = v /\ i = n + 1)
  <2>1. pc[w] \notin Busy /\ pc'[w] = pc[w] /\ pc[w] # "push0" /\ stored' = stored
    BY <1>1, <1>4 DEF Busy
  <2>2. CASE w = v
    <3>1. (i \in 1 .. n + 1 <=> i \in 1 .. n \/ i = n + 1) /\ ~(n + 1 \in 1 .. n)
      BY <1>6
    <3>2. Unit(w, i)' <=> Unit(w, i) \/ i = n + 1
      BY <1>1, <1>6, <2>1, <2>2, <3>1 DEF Unit
    <3>3. Token(w, i)' <=> Token(w, i) \/ i = n + 1
      BY <2>1, <3>2 DEF Token
    <3>4. i = n + 1 => i > 0 /\ ~Token(w, i)
      <4>1. i = n + 1 => i > 0 /\ ~(i = -1) /\ ~(i = 0) /\ -1 - i < 0
        BY <1>6
      <4> QED BY <1>1, <2>1, <2>2, <3>1, <4>1 DEF Token, Unit
    <3>5. Token(w, i) => Val(w, i)' = Val(w, i)
      <4>1. CASE i > 0
        <5>1. Token(w, i) => i \in 1 .. n
          <6>1. i # 0 /\ i # -1 /\ -1 - i < 0
            BY <4>1
          <6> QED BY <1>1, <2>2, <6>1 DEF Token, Unit
        <5> QED BY <1>6, <2>2, <4>1, <5>1 DEF Val
      <4>2. CASE ~(i > 0)
        BY <1>1, <2>1, <4>2 DEF Val
      <4> QED BY <4>1, <4>2
    <3> QED BY <2>2, <3>3, <3>4, <3>5
  <2>3. CASE w # v
    BY <1>1, <1>5, <2>3 DEF Token, Unit, Val
  <2> QED BY <2>2, <2>3
<1>8. Tasks' = Tasks /\ Leaves' = Leaves
  BY <1>1 DEF Tasks, Leaves, Roots
<1>9. Val(v, n + 1)' = <<k>> /\ n + 1 \in Int /\ n + 1 > 0
  BY <1>6 DEF Val
<1>10. ValuesOK'
  <2>1. <<k>> \in Tasks
    BY <1>3 DEF Tasks, Roots
  <2>2. ASSUME NEW w \in Tids, NEW i \in Int, Token(w, i)'
        PROVE  Val(w, i)' \in Tasks /\ (i < -1 => Val(w, i)' \in Leaves)
    <3>1. CASE Token(w, i)
      <4>1. Val(w, i)' = Val(w, i)
        BY <1>7, <3>1
      <4> QED BY <3>1, <4>1 DEF LeavesInv, ValuesOK
    <3>2. CASE w = v /\ i = n + 1
      BY <1>9, <2>1, <3>2
    <3> QED BY <1>7, <2>2, <3>1, <3>2
  <2> QED BY <1>8, <2>2 DEF ValuesOK
<1>11. OneHolder'
  <2>1. ASSUME NEW l \in Leaves
        PROVE  /\ l[1] # k => Holders(l)' = Holders(l)
               /\ l[1] = k => Holders(l)' = Holders(l) \cup {<<v, n + 1>>}
    <3> DEFINE S == IF l[1] = k THEN Holders(l) \cup {<<v, n + 1>>} ELSE Holders(l)
    <3>1. Holders(l)' = {u \in Places : Token(u[1], u[2])' /\ Above(Val(u[1], u[2])', l)}
      BY DEF Holders, Holds, Places, Above
    <3>2. S \in SUBSET Places
      BY <1>3, <1>9 DEF Holders, Places
    <3>3. Above(<<k>>, l) <=> l[1] = k
      BY <1>2, <1>3, RootAbove
    <3>4. ASSUME NEW w \in Tids, NEW i \in Int
          PROVE  (Token(w, i)' /\ Above(Val(w, i)', l)) <=> <<w, i>> \in S
      <4>1. CASE Token(w, i)
        <5>1. Token(w, i)' /\ Val(w, i)' = Val(w, i) /\ <<w, i>> # <<v, n + 1>>
          BY <1>7, <4>1
        <5> QED BY <4>1, <5>1, HoldersIn DEF Holds
      <4>2. CASE w = v /\ i = n + 1
        <5>1. Token(w, i)' /\ ~Token(w, i)
          BY <1>7, <4>2
        <5>2. <<w, i>> \notin Holders(l)
          BY <5>1, HoldersIn DEF Holds
        <5> QED BY <1>9, <3>3, <4>2, <5>1, <5>2
      <4>3. CASE ~Token(w, i) /\ ~(w = v /\ i = n + 1)
        <5>1. <<w, i>> # <<v, n + 1>> /\ ~Token(w, i)' /\ <<w, i>> \notin Holders(l)
          BY <1>7, <4>3, HoldersIn DEF Holds
        <5> QED BY <5>1
      <4> QED BY <4>1, <4>2, <4>3
    <3> HIDE DEF S
    <3>5. Holders(l)' = S
      BY <3>1, <3>2, <3>4, HoldersAfter
    <3> QED BY <3>5 DEF S
  <2>2. ASSUME NEW l \in Leaves
        PROVE  /\ l[1] <= k => \E u \in Places : Holders(l)' = {u}
               /\ l[1] > k => Holders(l)' = {}
    <3>1. l[1] \in Nat
      BY <1>2, TaskPath DEF Leaves
    <3>2. /\ l[1] <= seeded => \E u \in Places : Holders(l) = {u}
          /\ l[1] > seeded => Holders(l) = {}
      BY DEF LeavesInv, OneHolder
    <3>3. CASE l[1] = k
      <4>1. l[1] > seeded /\ ~(l[1] > k)
        BY <1>1, <1>2, <3>3
      <4>2. Holders(l)' = {<<v, n + 1>>}
        BY <2>1, <3>2, <3>3, <4>1
      <4>3. <<v, n + 1>> \in Places
        BY <1>3, <1>9 DEF Places
      <4> QED BY <4>1, <4>2, <4>3
    <3>4. CASE l[1] # k
      <4>1. (l[1] <= k => l[1] <= seeded) /\ (l[1] > k => l[1] > seeded)
        <5>1. k = seeded + 1 /\ \A m \in Nat : m # k => (m <= k => m <= seeded) /\ (m > k => m > seeded)
          BY <1>1, <1>2
        <5> QED BY <3>1, <3>4, <5>1
      <4>2. Holders(l)' = Holders(l)
        BY <2>1, <3>4
      <4> QED BY <3>2, <4>1, <4>2
    <3> QED BY <3>3, <3>4
  <2> QED BY <1>1, <1>8, <2>2 DEF OneHolder
<1>12. FramesOK' /\ StoredOK' /\ ResultOK'
  BY <1>1, SameFrames, SameStored, SameResult DEF LeavesInv
<1>13. SeededOK'
  BY <1>1, <1>3 DEF SeededOK
<1> QED BY <1>10, <1>11, <1>12, <1>13 DEF LeavesInv

-----------------------------------------------------------------------------
(* A worker's steps.                                                        *)

\* What the tokens of each kind are, before a step and after.
LEMMA TokenKinds ==
  ASSUME NEW x \in Tids, NEW i \in Int
  PROVE  /\ i > 0 => /\ Token(x, i) <=> i \in 1 .. Len(deque[x])
                     /\ Token(x, i)' <=> i \in 1 .. Len(deque'[x])
                     /\ Val(x, i) = deque[x][i] /\ Val(x, i)' = deque'[x][i]
         /\ i = 0 => (Token(x, i) <=> pc[x] \in Busy) /\ (Token(x, i)' <=> pc'[x] \in Busy)
         /\ i = -1 => (Token(x, i) <=> pc[x] = "push0") /\ (Token(x, i)' <=> pc'[x] = "push0")
         /\ i < -1 => /\ Token(x, i) <=> -1 - i \in 1 .. Len(stored[x])
                      /\ Token(x, i)' <=> -1 - i \in 1 .. Len(stored'[x])
                      /\ Val(x, i) = stored[x][-1 - i] /\ Val(x, i)' = stored'[x][-1 - i]
<1>1. CASE i > 0
  <2>1. i # 0 /\ i # -1 /\ ~(i < -1) /\ -1 - i < 0
    BY <1>1
  <2> QED BY <1>1, <2>1 DEF Token, Unit, Val
<1>2. CASE i = 0
  <2>1. ~(i > 0) /\ ~(i < -1) /\ i # -1 /\ -1 - i < 0
    BY <1>2
  <2> QED BY <1>2, <2>1 DEF Token, Unit
<1>3. CASE i = -1
  <2>1. ~(i > 0) /\ ~(i < -1) /\ i # 0 /\ -1 - i = 0
    BY <1>3
  <2> QED BY <1>3, <2>1 DEF Token, Unit
<1>4. CASE i < -1
  <2>1. ~(i > 0) /\ i # 0 /\ i # -1
    BY <1>4
  <2> QED BY <1>4, <2>1 DEF Token, Unit, Val
<1> QED BY <1>1, <1>2, <1>3, <1>4

LEMMA Elsewhere ==
  ASSUME NEW x \in Tids, pc'[x] = pc[x], task'[x] = task[x], stored'[x] = stored[x],
         deque'[x] = deque[x], NEW i \in Int
  PROVE  (Token(x, i)' <=> Token(x, i)) /\ Val(x, i)' = Val(x, i)
BY DEF Token, Unit, Val

LEMMA QuietLeaves ==
  ASSUME Inv, LeavesInv, Undisturbed, Undisturbed', NEW w \in Tids,
         StealNothing(w) \/ Check(w) \/ Reduce(w) \/ Apply(w) \/ Reduced(w)
  PROVE  LeavesInv'
<1>1. /\ pc[w] \notin {"none", "done"} /\ UNCHANGED <<caller, stored, deque>>
      /\ \A x \in Tids : x # w => pc'[x] = pc[x] /\ task'[x] = task[x]
      /\ pc[w] \notin {"push0", "push1"} /\ pc'[w] \notin {"push0", "push1", "none"}
      /\ pc'[w] \in Busy <=> pc[w] \in Busy
  <2>1. pc \in [Tids -> Labels] /\ task \in [Tids -> Path]
    BY DEF Inv, TypesOK
  <2> QED BY <2>1 DEF StealNothing, Check, Reduce, Apply, Reduced, Goto, Hold, Busy
<1>2. /\ base \in [Tids -> Nat] /\ popped \in [Tids -> Seq(Path)] /\ frames \in Seq(Path)
      /\ pc \in [Tids -> Labels] /\ task \in [Tids -> Path]
  BY DEF Inv, TypesOK, LeavesInv, FramesOK
<1>3. FramesOK' /\ (pc[w] \in Busy => task'[w] = task[w])
  <2>1. CASE StealNothing(w) \/ Check(w) \/ (Reduce(w) /\ task[w] \notin input.framed)
    <3>1. UNCHANGED <<base, popped, frames, task>>
      BY <2>1 DEF StealNothing, Check, Reduce
    <3>2. pc[w] # "frame" /\ pc'[w] # "frame"
      BY <1>2, <2>1 DEF StealNothing, Check, Reduce, Goto
    <3> QED BY <1>1, <3>1, <3>2, SameFrames DEF LeavesInv
  <2>2. CASE Reduce(w) /\ task[w] \in input.framed
    <3>1. /\ base' = [base EXCEPT ![w] = Len(frames)] /\ frames' = Append(frames, task[w])
          /\ popped' = [popped EXCEPT ![w] = <<>>] /\ pc' = [pc EXCEPT ![w] = "frame"]
          /\ pc[w] = "reduce" /\ task' = task
      BY <2>2 DEF Reduce, Goto
    <3>2. \A x \in Tids : x # w => pc'[x] # "frame"
      BY <1>2, <3>1 DEF Undisturbed
    <3>3. \A x \in Tids : pc[x] # "frame"
      BY <1>1, <3>1, <3>2
    <3>4. frames = <<>>
      BY <3>3 DEF LeavesInv, FramesOK
    <3>5. /\ base'[w] = 0 /\ frames' = <<task'[w]>> /\ popped'[w] = <<>>
          /\ base' \in [Tids -> Nat] /\ popped' \in [Tids -> Seq(Path)] /\ frames' \in Seq(Path)
          /\ pc'[w] = "frame"
      BY <1>2, <3>1, <3>4
    <3> QED BY <3>1, <3>2, <3>5 DEF FramesOK
  <2>3. CASE Apply(w)
    <3>1. /\ pc[w] = "frame" /\ Len(frames) > base[w] /\ pc' = pc /\ task' = task /\ base' = base
          /\ popped' = [popped EXCEPT ![w] = Append(@, Last(frames))] /\ frames' = Front(frames)
      BY <2>3 DEF Apply
    <3>2. base[w] = 0 /\ frames = <<task[w]>> /\ popped[w] = <<>>
      BY <3>1 DEF LeavesInv, FramesOK
    <3>3. Last(frames) = task[w] /\ Front(frames) = <<>>
      BY <3>2 DEF Last, Front
    <3>4. \A x \in Tids : x # w => pc'[x] # "frame"
      BY <3>1 DEF Undisturbed
    <3>5. /\ base'[w] = 0 /\ frames' = <<>> /\ popped'[w] = <<task'[w]>>
          /\ base' \in [Tids -> Nat] /\ popped' \in [Tids -> Seq(Path)] /\ frames' \in Seq(Path)
      BY <1>2, <3>1, <3>2, <3>3
    <3> QED BY <3>1, <3>4, <3>5 DEF FramesOK
  <2>4. CASE Reduced(w)
    <3>1. /\ pc[w] = "frame" /\ Len(frames) <= base[w] /\ pc' = [pc EXCEPT ![w] = "place"]
          /\ task' = [task EXCEPT ![w] = IF popped[w] = <<task[w]>> THEN task[w] ELSE Garbage]
          /\ base' = [base EXCEPT ![w] = 0] /\ popped' = [popped EXCEPT ![w] = <<>>]
          /\ frames' = frames
      BY <2>4 DEF Reduced, Goto, Hold
    <3>2. base[w] = 0 /\ frames = <<>> /\ popped[w] = <<task[w]>>
      BY <3>1 DEF LeavesInv, FramesOK
    <3>3. \A x \in Tids : pc'[x] # "frame"
      BY <1>2, <3>1 DEF Undisturbed
    <3>4. task'[w] = task[w]
      BY <1>2, <3>1, <3>2
    <3>5. /\ base' \in [Tids -> Nat] /\ popped' \in [Tids -> Seq(Path)] /\ frames' = <<>>
          /\ frames' \in Seq(Path)
      BY <1>2, <3>1, <3>2
    <3> QED BY <3>3, <3>4, <3>5 DEF FramesOK
  <2> QED BY <2>1, <2>2, <2>3, <2>4
<1>4. UNCHANGED <<input, seeded>>
  BY <1>1 DEF caller
<1>5. \A x \in Tids : /\ pc'[x] \in Busy <=> pc[x] \in Busy
                      /\ pc'[x] = "push0" <=> pc[x] = "push0"
                      /\ pc'[x] = "push1" <=> pc[x] = "push1"
                      /\ pc[x] \in Busy => task'[x] = task[x]
                      /\ pc[x] # "none" => pc'[x] # "none"
  BY <1>1, <1>3
<1>6. ValuesOK' /\ OneHolder'
  BY <1>1, <1>4, <1>5, SamePlaces DEF LeavesInv
<1>7. StoredOK'
  BY <1>1, <1>5, SameStored DEF LeavesInv
<1> QED BY <1>1, <1>3, <1>6, <1>7, WorkerLeaves

\* What a worker does outside wnf leaves the frames as they are.
LEMMA NoFrame ==
  ASSUME LeavesInv, NEW w \in Tids, UNCHANGED <<base, popped, frames>>,
         pc[w] # "frame", pc'[w] # "frame",
         \A x \in Tids : x # w => pc'[x] = pc[x] /\ task'[x] = task[x]
  PROVE  FramesOK'
BY SameFrames DEF LeavesInv

LEMMA PopLeaves ==
  ASSUME Inv, LeavesInv, NEW w \in Tids, Pop(w)
  PROVE  LeavesInv'
<1>1. /\ pc[w] = "pop" /\ UNCHANGED <<caller, base, popped, stored, frames>>
      /\ pc \in [Tids -> Labels] /\ task \in [Tids -> Path] /\ deque \in [Tids -> Seq(Path)]
  BY DEF Pop, Inv, TypesOK
<1>2. CASE deque[w] = <<>>
  <2>1. pc' = [pc EXCEPT ![w] = "steal"] /\ UNCHANGED <<task, deque>>
    BY <1>2 DEF Pop, Goto
  <2>2. \A x \in Tids : (x # w => pc'[x] = pc[x]) /\ pc'[w] = "steal"
    BY <1>1, <2>1
  <2>3. UNCHANGED <<input, seeded, deque, stored>>
    BY <1>1, <2>1 DEF caller
  <2>4. ValuesOK' /\ OneHolder'
    BY <1>1, <2>1, <2>2, <2>3, SamePlaces DEF LeavesInv, Busy
  <2>5. StoredOK'
    BY <1>1, <2>2, SameStored DEF LeavesInv
  <2>6. FramesOK'
    BY <1>1, <2>1, <2>2, NoFrame
  <2> QED BY <1>1, <2>4, <2>5, <2>6, WorkerLeaves
<1>3. CASE deque[w] # <<>>
  <2>1. PICK n : n = Len(deque[w])
    OBVIOUS
  <2>2. /\ pc' = [pc EXCEPT ![w] = "reduce"] /\ task' = [task EXCEPT ![w] = deque[w][n]]
        /\ deque' = [deque EXCEPT ![w] = SubSeq(deque[w], 1, n - 1)]
    BY <1>3, <2>1 DEF Pop, Goto, Hold, Newest, WithoutNewest
  <2>3. n \in Nat /\ n > 0 /\ n \in 1 .. n /\ n - 1 \in Nat
    BY <1>1, <1>3, <2>1
  <2>4. /\ Len(deque'[w]) = n - 1 /\ \A i \in 1 .. n - 1 : deque'[w][i] = deque[w][i]
        /\ pc'[w] = "reduce" /\ task'[w] = deque[w][n]
        /\ \A x \in Tids : x # w => pc'[x] = pc[x] /\ task'[x] = task[x] /\ deque'[x] = deque[x]
    <3>1. deque'[w] = SubSeq(deque[w], 1, n - 1)
      BY <1>1, <2>2
    <3>2. SubSeq(deque[w], 1, n - 1) = [i \in 1 .. n - 1 |-> deque[w][i]]
      BY <1>1, <2>1, <2>3
    <3>3. Len([i \in 1 .. n - 1 |-> deque[w][i]]) = n - 1
      BY <2>3
    <3> QED BY <1>1, <2>2, <3>1, <3>2, <3>3
  <2>5. UNCHANGED <<input, seeded, stored>>
    BY <1>1 DEF caller
  <2>6. Token(w, n) /\ ~Token(w, 0) /\ Val(w, 0)' = Val(w, n)
    <3>1. n \in Int /\ 0 \in Int
      BY <2>3
    <3>2. Token(w, n) /\ Val(w, n) = deque[w][n]
      BY <2>1, <2>3, <3>1, TokenKinds
    <3>3. ~Token(w, 0)
      BY <1>1, <3>1, TokenKinds DEF Busy
    <3>4. Val(w, 0)' = task'[w]
      BY <2>4 DEF Val
    <3> QED BY <2>4, <3>2, <3>3, <3>4
  <2>7. ASSUME NEW x \in Tids, NEW i \in Int
        PROVE  /\ Token(x, i)' <=> (Token(x, i) /\ ~(x = w /\ i = n)) \/ (x = w /\ i = 0)
               /\ Token(x, i) /\ ~(x = w /\ i = n) => Val(x, i)' = Val(x, i)
    <3>1. CASE x # w
      <4>1. (Token(x, i)' <=> Token(x, i)) /\ Val(x, i)' = Val(x, i)
        BY <2>4, <2>5, <3>1, Elsewhere
      <4> QED BY <3>1, <4>1
    <3>2. CASE x = w /\ i > 0
      <4>1. i \in 1 .. n - 1 <=> i \in 1 .. n /\ i # n
        BY <2>3
      <4>2. (Token(x, i) <=> i \in 1 .. n) /\ (Token(x, i)' <=> i \in 1 .. n - 1)
        BY <2>1, <2>4, <3>2, TokenKinds
      <4>3. Val(x, i) = deque[w][i] /\ Val(x, i)' = deque'[w][i]
        BY <3>2, TokenKinds
      <4> QED BY <2>4, <3>2, <4>1, <4>2, <4>3
    <3>3. CASE x = w /\ i = 0
      <4>1. Token(x, i)' /\ ~Token(x, i)
        BY <1>1, <2>4, <3>3, TokenKinds DEF Busy
      <4> QED BY <3>3, <4>1
    <3>4. CASE x = w /\ i = -1
      <4>1. ~Token(x, i)' /\ ~Token(x, i)
        BY <1>1, <2>4, <3>4, TokenKinds
      <4> QED BY <3>4, <4>1
    <3>5. CASE x = w /\ i < -1
      <4>1. (Token(x, i)' <=> Token(x, i)) /\ Val(x, i)' = Val(x, i) /\ i # n /\ i # 0
        BY <2>3, <2>5, <3>5, TokenKinds
      <4> QED BY <4>1
    <3> QED BY <3>1, <3>2, <3>3, <3>4, <3>5
  <2>8. ValuesOK' /\ OneHolder'
    <3>1. ValuesOK /\ OneHolder /\ n \in Int /\ 0 \in Int /\ ~(0 < -1)
      BY <2>3 DEF LeavesInv
    <3> QED BY <2>5, <2>6, <2>7, <3>1, Move
  <2>9. StoredOK'
    BY <1>1, <2>4, SameStored DEF LeavesInv
  <2>10. FramesOK'
    BY <1>1, <2>4, NoFrame
  <2> QED BY <1>1, <2>8, <2>9, <2>10, WorkerLeaves
<1> QED BY <1>2, <1>3

LEMMA PushLeaves ==
  ASSUME Inv, LeavesInv, Undisturbed', NEW w \in Tids, PushLeft(w) \/ PushRight(w)
  PROVE  LeavesInv'
<1>1. PICK n, t, j :
         /\ n = Len(deque[w]) /\ t = task[w] \o <<j + 1>>
         /\ \/ pc[w] = "push0" /\ j = -1 /\ pc' = [pc EXCEPT ![w] = "push1"] /\ task' = task
            \/ pc[w] = "push1" /\ j = 0 /\ pc' = [pc EXCEPT ![w] = "pop"]
               /\ task' = [task EXCEPT ![w] = NoTask]
         /\ deque' = [deque EXCEPT ![w] = Put(@, t)]
         /\ UNCHANGED <<caller, base, popped, stored, frames>>
  <2>1. CASE PushLeft(w)
    <3>1. task[w] \o <<0>> = task[w] \o <<-1 + 1>>
      OBVIOUS
    <3> QED BY <2>1, <3>1 DEF PushLeft, PushHalf, Goto
  <2>2. CASE PushRight(w)
    <3>1. task[w] \o <<1>> = task[w] \o <<0 + 1>>
      OBVIOUS
    <3> QED BY <2>2, <3>1 DEF PushRight, PushHalf, Goto, Hold
  <2> QED BY <2>1, <2>2
<1>2. /\ pc \in [Tids -> Labels] /\ task \in [Tids -> Path] /\ deque \in [Tids -> Seq(Path)]
      /\ j \in Int /\ j \in {-1, 0} /\ UNCHANGED <<input, seeded, stored>>
  BY <1>1 DEF Inv, TypesOK, caller
<1>3. Token(w, j) /\ Val(w, j) = t
  <2>1. Token(w, j)
    BY <1>1, <1>2, TokenKinds DEF Busy
  <2>2. ~(j > 0) /\ ~(j < -1)
    BY <1>2
  <2> QED BY <1>1, <2>1, <2>2 DEF Val
<1>4. t \in Path
  BY <1>2, <1>3, TaskPath DEF LeavesInv, ValuesOK, Inv, TypesOK
<1>5. /\ pc'[w] = (IF j = -1 THEN "push1" ELSE "pop") /\ (j = -1 => task'[w] = task[w])
      /\ deque'[w] = Put(deque[w], t)
      /\ \A x \in Tids : x # w => pc'[x] = pc[x] /\ task'[x] = task[x] /\ deque'[x] = deque[x]
  BY <1>1, <1>2
<1>6. /\ n \in Nat /\ Len(deque'[w]) = n + 1 /\ deque'[w][n + 1] = t
      /\ \A i \in 1 .. n : deque'[w][i] = deque[w][i]
  <2>1. Len(Put(deque[w], t)) <= Cap /\ deque[w] \in Seq(Path)
    BY <1>2, <1>5 DEF Undisturbed
  <2>2. /\ Len(deque[w]) \in Nat /\ Len(deque'[w]) = Len(deque[w]) + 1
        /\ deque'[w][Len(deque[w]) + 1] = t
        /\ \A i \in 1 .. Len(deque[w]) : deque'[w][i] = deque[w][i]
    BY <1>4, <1>5, <2>1, PutLast
  <2> QED BY <1>1, <2>2
<1>7. PICK k : k = n + 1
  OBVIOUS
<1>8. k \in Int /\ k > 0 /\ k \in 1 .. k /\ ~(k \in 1 .. n) /\ ~(k < -1)
      /\ \A i : i \in 1 .. k <=> i \in 1 .. n \/ i = k
  BY <1>6, <1>7
<1>9. ~Token(w, k) /\ Val(w, k)' = Val(w, j)
  BY <1>1, <1>3, <1>6, <1>7, <1>8, TokenKinds
<1>10. ASSUME NEW x \in Tids, NEW i \in Int
       PROVE  /\ Token(x, i)' <=> (Token(x, i) /\ ~(x = w /\ i = j)) \/ (x = w /\ i = k)
              /\ Token(x, i) /\ ~(x = w /\ i = j) => Val(x, i)' = Val(x, i)
  <2>1. CASE x # w
    <3>1. (Token(x, i)' <=> Token(x, i)) /\ Val(x, i)' = Val(x, i)
      BY <1>2, <1>5, <2>1, Elsewhere
    <3> QED BY <2>1, <3>1
  <2>2. CASE x = w /\ i > 0
    <3>3. n = Len(deque[w]) /\ k = Len(deque'[w])
      BY <1>1, <1>6, <1>7
    <3>1. (Token(x, i) <=> i \in 1 .. n) /\ (Token(x, i)' <=> i \in 1 .. k)
      BY <2>2, <3>3, TokenKinds
    <3>4. i # j
      BY <1>2, <2>2
    <3>2. Val(x, i) = deque[w][i] /\ Val(x, i)' = deque'[w][i]
      BY <2>2, TokenKinds
    <3> QED BY <1>6, <1>8, <2>2, <3>1, <3>2, <3>4
  <2>3. CASE x = w /\ i = 0
    <3>1. Token(x, i) /\ (Token(x, i)' <=> j = -1) /\ i # k
      BY <1>1, <1>2, <1>5, <1>8, <2>3, TokenKinds DEF Busy
    <3>2. j = -1 => Val(x, i) = task[w] \o <<1>> /\ Val(x, i)' = task'[w] \o <<1>>
      BY <1>1, <1>5, <2>3 DEF Val
    <3>3. j = -1 => Val(x, i)' = Val(x, i) /\ i # j
      <4>1. j = -1 => task'[w] = task[w] /\ i # j
        BY <1>5, <2>3
      <4> QED BY <3>2, <4>1, Zenon
    <3>4. j # -1 => i = j
      BY <1>2, <2>3
    <3> QED BY <2>3, <3>1, <3>3, <3>4
  <2>4. CASE x = w /\ i = -1
    <3>1. (Token(x, i) <=> j = -1) /\ ~Token(x, i)' /\ i # k
      BY <1>1, <1>2, <1>5, <1>8, <2>4, TokenKinds
    <3> QED BY <1>2, <2>4, <3>1
  <2>5. CASE x = w /\ i < -1
    <3>1. (Token(x, i)' <=> Token(x, i)) /\ Val(x, i)' = Val(x, i)
      BY <1>2, <2>5, TokenKinds
    <3>2. i # j /\ i # k
      BY <1>2, <1>8, <2>5
    <3> QED BY <3>1, <3>2
  <2> QED BY <2>1, <2>2, <2>3, <2>4, <2>5
<1>11. ValuesOK' /\ OneHolder'
  BY <1>2, <1>3, <1>8, <1>9, <1>10, Move DEF LeavesInv
<1>12. StoredOK'
  BY <1>2, <1>5, SameStored DEF LeavesInv
<1>13. FramesOK'
  BY <1>1, <1>5, NoFrame
<1> QED BY <1>1, <1>11, <1>12, <1>13, WorkerLeaves

LEMMA StoreLeafLeaves ==
  ASSUME Inv, LeavesInv, NEW w \in Tids, StoreLeaf(w)
  PROVE  LeavesInv'
<1>1. PICK n, k :
         /\ n = Len(stored[w]) /\ k = -1 - (n + 1)
         /\ pc[w] = "place" /\ task[w] \notin input.splits
         /\ stored' = [stored EXCEPT ![w] = Append(@, task[w])]
         /\ pc' = [pc EXCEPT ![w] = "pop"] /\ task' = [task EXCEPT ![w] = NoTask]
         /\ UNCHANGED <<caller, base, popped, deque, frames>>
  BY DEF StoreLeaf, Goto, Hold
<1>2. /\ pc \in [Tids -> Labels] /\ task \in [Tids -> Path] /\ stored \in [Tids -> Seq(Path)]
      /\ UNCHANGED <<input, seeded, deque>>
  BY <1>1 DEF Inv, TypesOK, LeavesInv, StoredOK, caller
<1>3. /\ n \in Nat /\ k \in Int /\ k < -1 /\ -1 - k = n + 1 /\ 0 \in Int
      /\ stored' \in [Tids -> Seq(Path)] /\ Len(stored'[w]) = n + 1 /\ stored'[w][n + 1] = task[w]
      /\ \A i \in 1 .. n : stored'[w][i] = stored[w][i]
      /\ pc'[w] = "pop"
      /\ \A x \in Tids : x # w => pc'[x] = pc[x] /\ task'[x] = task[x] /\ stored'[x] = stored[x]
  <2>1. stored[w] \in Seq(Path) /\ task[w] \in Path /\ n = Len(stored[w]) /\ n \in Nat
    BY <1>1, <1>2
  <2>2. k \in Int /\ k < -1 /\ -1 - k = n + 1
    BY <1>1, <2>1
  <2>3. stored'[w] = Append(stored[w], task[w])
    BY <1>1, <1>2
  <2>4. /\ Len(stored'[w]) = n + 1 /\ stored'[w][n + 1] = task[w]
        /\ \A i \in 1 .. n : stored'[w][i] = stored[w][i]
    BY <2>1, <2>3
  <2>5. stored' \in [Tids -> Seq(Path)] /\ pc'[w] = "pop"
    BY <1>1, <1>2
  <2>6. \A x \in Tids : x # w => pc'[x] = pc[x] /\ task'[x] = task[x] /\ stored'[x] = stored[x]
    BY <1>1, <1>2
  <2> QED BY <2>1, <2>2, <2>4, <2>5, <2>6
<1>4. Token(w, 0) /\ Val(w, 0) = task[w]
  <2>1. Token(w, 0)
    BY <1>1, <1>3, TokenKinds DEF Busy
  <2> QED BY <1>1, <2>1 DEF Val
<1>5. Val(w, 0) \in Leaves
  BY <1>1, <1>3, <1>4 DEF LeavesInv, ValuesOK, Leaves
<1>6. ~Token(w, k) /\ Val(w, k)' = Val(w, 0)
  <2>1. ~(n + 1 \in 1 .. n)
    BY <1>3
  <2>2. (Token(w, k) <=> n + 1 \in 1 .. n) /\ Val(w, k)' = stored'[w][n + 1]
    BY <1>1, <1>3, TokenKinds
  <2> QED BY <1>3, <1>4, <2>1, <2>2
<1>7. ASSUME NEW x \in Tids, NEW i \in Int
      PROVE  /\ Token(x, i)' <=> (Token(x, i) /\ ~(x = w /\ i = 0)) \/ (x = w /\ i = k)
             /\ Token(x, i) /\ ~(x = w /\ i = 0) => Val(x, i)' = Val(x, i)
  <2>1. CASE x # w
    <3>1. (Token(x, i)' <=> Token(x, i)) /\ Val(x, i)' = Val(x, i)
      BY <1>2, <1>3, <2>1, Elsewhere
    <3> QED BY <2>1, <3>1
  <2>2. CASE x = w /\ i > 0
    <3>1. (Token(x, i)' <=> Token(x, i)) /\ Val(x, i)' = Val(x, i)
      BY <1>2, <2>2, TokenKinds
    <3>2. i # 0 /\ i # k
      BY <1>3, <2>2
    <3> QED BY <3>1, <3>2
  <2>3. CASE x = w /\ i = 0
    <3>1. ~Token(x, i)' /\ i # k
      BY <1>3, <2>3, TokenKinds DEF Busy
    <3> QED BY <2>3, <3>1
  <2>4. CASE x = w /\ i = -1
    <3>1. ~Token(x, i) /\ ~Token(x, i)' /\ i # k
      BY <1>1, <1>3, <2>4, TokenKinds
    <3> QED BY <3>1
  <2>5. CASE x = w /\ i < -1
    <3>1. PICK m : m = -1 - i
      OBVIOUS
    <3>2. /\ m \in Int /\ (m \in 1 .. n + 1 <=> m \in 1 .. n \/ m = n + 1)
          /\ (m = n + 1 <=> i = k) /\ i # 0
      BY <1>3, <2>5, <3>1
    <3>3. /\ Token(x, i) <=> m \in 1 .. n
          /\ Token(x, i)' <=> m \in 1 .. n + 1
          /\ Val(x, i) = stored[w][m] /\ Val(x, i)' = stored'[w][m]
      <4>1. /\ Token(x, i) <=> -1 - i \in 1 .. Len(stored[w])
            /\ Token(x, i)' <=> -1 - i \in 1 .. Len(stored'[w])
            /\ Val(x, i) = stored[w][-1 - i] /\ Val(x, i)' = stored'[w][-1 - i]
        BY <2>5, TokenKinds
      <4>2. Len(stored[w]) = n /\ Len(stored'[w]) = n + 1 /\ -1 - i = m
        BY <1>1, <1>3, <3>1
      <4> QED BY <4>1, <4>2
    <3> QED BY <1>3, <2>5, <3>2, <3>3
  <2> QED BY <2>1, <2>2, <2>3, <2>4, <2>5
<1>8. ValuesOK' /\ OneHolder'
  <2>1. ValuesOK /\ OneHolder /\ UNCHANGED <<input, seeded>> /\ 0 \in Int /\ k \in Int
    BY <1>2, <1>3 DEF LeavesInv
  <2> QED BY <1>4, <1>5, <1>6, <1>7, <2>1, Move
<1>9. StoredOK'
  <2>1. ASSUME NEW x \in Tids, stored'[x] # <<>>
        PROVE  pc'[x] # "none"
    BY <1>3, <2>1 DEF LeavesInv, StoredOK
  <2> QED BY <1>3, <2>1 DEF StoredOK
<1>10. FramesOK'
  BY <1>1, <1>3, NoFrame
<1> QED BY <1>1, <1>8, <1>9, <1>10, WorkerLeaves

\* Both halves of a superposition are below it, each leaf below one of them.
LEMMA SplitLeaves ==
  ASSUME Inv, LeavesInv, NEW w \in Tids, Split(w)
  PROVE  LeavesInv'
<1> DEFINE t == task[w]
           a == <<w, 0>>
           b == <<w, -1>>
<1>1. /\ pc[w] = "place" /\ t \in input.splits /\ pc' = [pc EXCEPT ![w] = "push0"]
      /\ UNCHANGED <<caller, task, base, popped, stored, deque, frames>>
  BY DEF Split, Goto
<1>2. /\ pc \in [Tids -> Labels] /\ input \in Inputs /\ UNCHANGED <<input, seeded>>
      /\ 0 \in Int /\ -1 \in Int
  BY <1>1 DEF Inv, TypesOK, caller
<1>3. pc'[w] = "push0" /\ \A x \in Tids : x # w => pc'[x] = pc[x] /\ task'[x] = task[x]
  BY <1>1, <1>2
<1>4. /\ Token(w, 0) /\ Val(w, 0) = t /\ t \in Tasks
      /\ ~Token(w, -1)
      /\ Token(w, 0)' /\ Val(w, 0)' = t \o <<1>>
      /\ Token(w, -1)' /\ Val(w, -1)' = t \o <<0>>
  <2>1. Token(w, 0) /\ ~Token(w, -1) /\ Token(w, 0)' /\ Token(w, -1)'
    BY <1>1, <1>2, <1>3, TokenKinds DEF Busy
  <2>2. Val(w, 0) = t
    BY <1>1 DEF Val
  <2>3. t \in Tasks
    BY <1>2, <2>1, <2>2 DEF LeavesInv, ValuesOK
  <2>4. Val(w, 0)' = t \o <<0 + 1>> /\ Val(w, -1)' = t \o <<-1 + 1>>
    BY <1>1, <1>3 DEF Val
  <2>5. 0 + 1 = 1 /\ -1 + 1 = 0
    OBVIOUS
  <2> QED BY <2>1, <2>2, <2>3, <2>4, <2>5
<1>5. ASSUME NEW x \in Tids, NEW i \in Int, ~(x = w /\ i \in {0, -1})
      PROVE  (Token(x, i)' <=> Token(x, i)) /\ (Token(x, i) => Val(x, i)' = Val(x, i))
  <2>1. CASE x # w
    BY <1>1, <1>3, <2>1, Elsewhere
  <2>2. CASE x = w /\ i > 0
    BY <1>1, <2>2, TokenKinds
  <2>3. CASE x = w /\ i < -1
    BY <1>1, <2>3, TokenKinds
  <2> QED BY <1>5, <2>1, <2>2, <2>3
<1>6. Tasks' = Tasks /\ Leaves' = Leaves
  BY <1>2 DEF Tasks, Leaves, Roots
<1>7. t \o <<0>> \in Tasks /\ t \o <<1>> \in Tasks
  <2>1. 0 \in {0, 1} /\ 1 \in {0, 1}
    OBVIOUS
  <2>2. \A p \in input.splits, c \in {0, 1} : p \o <<c>> \in Tasks
    BY DEF Tasks
  <2> QED BY <1>1, <2>1, <2>2
<1>8. ValuesOK'
  <2>1. ASSUME NEW x \in Tids, NEW i \in Int, Token(x, i)'
        PROVE  Val(x, i)' \in Tasks /\ (i < -1 => Val(x, i)' \in Leaves)
    <3>1. CASE x = w /\ i = 0
      <4>1. ~(i < -1) /\ Val(x, i)' = t \o <<1>>
        BY <1>4, <3>1
      <4> QED BY <1>7, <4>1
    <3>2. CASE x = w /\ i = -1
      <4>1. ~(i < -1) /\ Val(x, i)' = t \o <<0>>
        BY <1>4, <3>2
      <4> QED BY <1>7, <4>1
    <3>3. CASE ~(x = w /\ i \in {0, -1})
      <4>1. Token(x, i) /\ Val(x, i)' = Val(x, i)
        BY <1>5, <2>1, <3>3
      <4> QED BY <4>1 DEF LeavesInv, ValuesOK
    <3> QED BY <3>1, <3>2, <3>3
  <2> QED BY <1>6, <2>1 DEF ValuesOK
<1>9. a \in Places /\ b \in Places /\ a # b
  BY <1>2 DEF Places
<1>10. ASSUME NEW l \in Leaves
       PROVE  /\ (\E u \in Places : Holders(l) = {u}) => (\E u \in Places : Holders(l)' = {u})
              /\ Holders(l) = {} => Holders(l)' = {}
  <2>1. PICK T \in SUBSET Places : T = Holders(l)'
    BY DEF Holders, Places
  <2>2. PICK S \in SUBSET Places : S = Holders(l)
    BY DEF Holders
  <2>3. /\ Above(t \o <<0>>, l) => Above(t, l) /\ ~Above(t \o <<1>>, l)
        /\ Above(t \o <<1>>, l) => Above(t, l)
        /\ Above(t, l) => Above(t \o <<0>>, l) \/ Above(t \o <<1>>, l)
    <3>1. 0 \in {0, 1} /\ 1 \in {0, 1} /\ 1 - 0 = 1 /\ 1 - 1 = 0
      OBVIOUS
    <3>2. \A c \in {0, 1} : Above(t \o <<c>>, l) => Above(t, l)
      BY <1>1, <1>2, <1>4, OneHalf
    <3>3. Above(t, l) => \E c \in {0, 1} : Above(t \o <<c>>, l) /\ ~Above(t \o <<1 - c>>, l)
      BY <1>1, <1>2, <1>4, OneHalf
    <3> HIDE DEF t
    <3>4. Above(t, l) => \/ Above(t \o <<0>>, l) /\ ~Above(t \o <<1>>, l)
                         \/ Above(t \o <<1>>, l) /\ ~Above(t \o <<0>>, l)
      <4>1. SUFFICES ASSUME Above(t, l), NEW c \in {0, 1},
                            Above(t \o <<c>>, l), ~Above(t \o <<1 - c>>, l)
                     PROVE  \/ Above(t \o <<0>>, l) /\ ~Above(t \o <<1>>, l)
                            \/ Above(t \o <<1>>, l) /\ ~Above(t \o <<0>>, l)
        BY <3>3
      <4>2. CASE c = 0
        <5>1. 1 - c = 1
          BY <4>2
        <5> QED BY <4>1, <4>2, <5>1, Zenon
      <4>3. CASE c = 1
        <5>1. 1 - c = 0
          BY <4>3
        <5> QED BY <4>1, <4>3, <5>1, Zenon
      <4> QED BY <4>2, <4>3
    <3> QED BY <3>1, <3>2, <3>4
  <2>4. (a \in T <=> Above(t \o <<1>>, l)) /\ (b \in T <=> Above(t \o <<0>>, l))
    <3>1. \A x \in Tids, i \in Int : <<x, i>> \in T <=> Token(x, i)' /\ Above(Val(x, i)', l)
      BY <2>1 DEF Holders, Holds, Places, Above
    <3> HIDE DEF t
    <3> QED BY <1>2, <1>4, <3>1
  <2>5. (a \in S <=> Above(t, l)) /\ b \notin S
    BY <1>2, <1>4, <2>2, HoldersIn DEF Holds
  <2>6. \A u \in Places : u # a /\ u # b => (u \in T <=> u \in S)
    <3>1. ASSUME NEW x \in Tids, NEW i \in Int, ~(x = w /\ i \in {0, -1})
          PROVE  <<x, i>> \in T <=> <<x, i>> \in S
      <4>1. <<x, i>> \in T <=> Token(x, i)' /\ Above(Val(x, i)', l)
        BY <2>1 DEF Holders, Holds, Places, Above
      <4>2. <<x, i>> \in S <=> Token(x, i) /\ Above(Val(x, i), l)
        BY <2>2, HoldersIn DEF Holds
      <4> QED BY <1>5, <3>1, <4>1, <4>2
    <3>2. \A u \in Places : u[1] \in Tids /\ u[2] \in Int /\ u = <<u[1], u[2]>>
      BY DEF Places
    <3> QED BY <3>1, <3>2
  <2> HIDE DEF a, b
  <2>7. CASE Above(t, l)
    <3>1. (a \in T /\ b \notin T) \/ (b \in T /\ a \notin T)
      BY <2>3, <2>4, <2>7
    <3>2. (\E u \in Places : S = {u}) => S = {a}
      BY <2>5, <2>7
    <3>3. S = {a} => T = {a} \/ T = {b}
      BY <1>9, <2>6, <3>1
    <3>4. S # {}
      BY <2>5, <2>7
    <3> QED BY <1>9, <2>1, <2>2, <3>2, <3>3, <3>4
  <2>8. CASE ~Above(t, l)
    <3>1. T = S
      BY <2>3, <2>4, <2>5, <2>6, <2>8
    <3> QED BY <2>1, <2>2, <3>1
  <2> QED BY <2>7, <2>8
<1>11. OneHolder'
  BY <1>2, <1>6, <1>10 DEF OneHolder, LeavesInv
<1>12. StoredOK'
  BY <1>1, <1>3, SameStored DEF LeavesInv
<1>13. FramesOK'
  BY <1>1, <1>3, NoFrame
<1> QED BY <1>1, <1>8, <1>11, <1>12, <1>13, WorkerLeaves

\* Every token is carried along by h, back by g.
LEMMA Renamed ==
  ASSUME ValuesOK, OneHolder, UNCHANGED <<input, seeded>>,
         NEW h \in [Places -> Places], NEW g \in [Places -> Places],
         \A u \in Places : Token(u[1], u[2]) =>
            /\ g[h[u]] = u /\ Token(h[u][1], h[u][2])'
            /\ Val(h[u][1], h[u][2])' = Val(u[1], u[2]),
         \A u \in Places : Token(u[1], u[2])' =>
            h[g[u]] = u /\ Token(g[u][1], g[u][2]) /\ (u[2] < -1 => g[u][2] < -1)
  PROVE  ValuesOK' /\ OneHolder'
<1>1. Tasks' = Tasks /\ Leaves' = Leaves
  BY DEF Tasks, Leaves, Roots
<1>2. \A w \in Tids, i \in Int : <<w, i>> \in Places /\ <<w, i>>[1] = w /\ <<w, i>>[2] = i
  BY DEF Places
<1>3. \A u \in Places : u[1] \in Tids /\ u[2] \in Int
  BY DEF Places
<1>4. ASSUME NEW u \in Places, Token(u[1], u[2])'
      PROVE  /\ g[u] \in Places /\ Token(g[u][1], g[u][2])
             /\ Val(u[1], u[2])' = Val(g[u][1], g[u][2])
  BY <1>4
<1>5. ValuesOK'
  <2>1. ASSUME NEW w \in Tids, NEW i \in Int, Token(w, i)'
        PROVE  Val(w, i)' \in Tasks /\ (i < -1 => Val(w, i)' \in Leaves)
    <3>0. <<w, i>> \in Places /\ <<w, i>>[1] = w /\ <<w, i>>[2] = i
      BY Zenon, <1>2, <2>1
    <3>1. PICK u \in Places : u = <<w, i>> /\ u[1] = w /\ u[2] = i
      BY Zenon, <3>0
    <3>2. /\ g[u] \in Places /\ Token(g[u][1], g[u][2])
          /\ Val(w, i)' = Val(g[u][1], g[u][2]) /\ (i < -1 => g[u][2] < -1)
      BY <1>4, <2>1, <3>1
    <3>3. g[u][1] \in Tids /\ g[u][2] \in Int
      BY <1>3, <3>2
    <3> QED BY <3>2, <3>3 DEF ValuesOK
  <2> QED BY <1>1, <2>1 DEF ValuesOK
<1>6. ASSUME NEW l
      PROVE  /\ (\E u \in Places : Holders(l) = {u}) => (\E u \in Places : Holders(l)' = {u})
             /\ Holders(l) = {} => Holders(l)' = {}
  <2>1. Holders(l)' = {u \in Places : Token(u[1], u[2])' /\ Above(Val(u[1], u[2])', l)}
    BY DEF Holders, Holds, Places, Above
  <2>2. ASSUME NEW u \in Holders(l)'
        PROVE  g[u] \in Holders(l) /\ h[g[u]] = u
    BY <1>4, <2>1 DEF Holders, Holds
  <2>3. ASSUME NEW u \in Holders(l)
        PROVE  h[u] \in Holders(l)' /\ h[u] \in Places
    BY <2>1 DEF Holders, Holds
  <2> QED BY <2>2, <2>3
<1>7. OneHolder'
  BY <1>1, <1>6 DEF OneHolder
<1> QED BY <1>5, <1>7

LEMMA StealLeaves ==
  ASSUME Inv, LeavesInv, NEW w \in Tids, Steal(w)
  PROVE  LeavesInv'
<1>1. PICK v, n :
         /\ v = Victim(w) /\ n = Len(deque[v]) /\ deque[v] # <<>>
         /\ pc[w] = "steal" /\ pc' = [pc EXCEPT ![w] = "reduce"]
         /\ task' = [task EXCEPT ![w] = Head(deque[v])]
         /\ deque' = [deque EXCEPT ![v] = Tail(@)]
         /\ UNCHANGED <<caller, base, popped, stored, frames>>
  BY DEF Steal, Goto, Hold
<1>2. /\ pc \in [Tids -> Labels] /\ task \in [Tids -> Path] /\ deque \in [Tids -> Seq(Path)]
      /\ UNCHANGED <<input, seeded>> /\ Tids = 0 .. MaxThreads - 1 /\ MaxThreads \in Nat
      /\ victim \in [Tids -> Nat] /\ Threads \in 2 .. MaxThreads
  BY <1>1, AtWork DEF Inv, TypesOK, caller
<1>3. v \in Tids
  <2>1. w + victim[w] \in Nat /\ Threads \in Nat /\ Threads >= 2
    BY <1>2
  <2>2. (w + victim[w]) % Threads \in 0 .. Threads - 1
    BY <2>1, RoundRobin
  <2> QED BY <1>1, <1>2, <2>2 DEF Victim
<1>4. /\ n \in Nat /\ n > 0 /\ Len(deque'[v]) = n - 1
      /\ \A i \in 1 .. n - 1 : deque'[v][i] = deque[v][i + 1]
      /\ task'[w] = deque[v][1] /\ pc'[w] = "reduce"
      /\ \A x \in Tids : x # v => deque'[x] = deque[x]
      /\ \A x \in Tids : x # w => pc'[x] = pc[x] /\ task'[x] = task[x]
  <2>1. PICK q \in Seq(Path) : q = deque[v]
    BY <1>2, <1>3
  <2>2. n = Len(q) /\ q # <<>> /\ n \in Nat /\ n > 0
    BY <1>1, <2>1
  <2>3. Len(Tail(q)) = n - 1 /\ \A i \in 1 .. n - 1 : Tail(q)[i] = q[i + 1]
    BY <2>1, <2>2
  <2>4. Head(q) = q[1]
    BY <2>1, <2>2
  <2>5. deque'[v] = Tail(q) /\ \A x \in Tids : x # v => deque'[x] = deque[x]
    BY <1>1, <1>2, <1>3, <2>1
  <2>6. /\ task'[w] = Head(q) /\ pc'[w] = "reduce"
        /\ \A x \in Tids : x # w => pc'[x] = pc[x] /\ task'[x] = task[x]
    BY <1>1, <1>2, <2>1
  <2> QED BY <2>1, <2>2, <2>3, <2>4, <2>5, <2>6
<1>5. PICK h, g :
         /\ h = [u \in Places |-> IF u = <<v, 1>> THEN <<w, 0>>
                                  ELSE IF u[1] = v /\ u[2] > 1 THEN <<v, u[2] - 1>> ELSE u]
         /\ g = [u \in Places |-> IF u = <<w, 0>> THEN <<v, 1>>
                                  ELSE IF u[1] = v /\ u[2] >= 1 THEN <<v, u[2] + 1>> ELSE u]
  OBVIOUS
<1>6. /\ \A x \in Tids, i \in Int : <<x, i>> \in Places
      /\ \A u \in Places : u[1] \in Tids /\ u[2] \in Int /\ u = <<u[1], u[2]>>
  BY DEF Places
<1>7. h \in [Places -> Places] /\ g \in [Places -> Places]
  <2>1. \A u \in Places : u[2] - 1 \in Int /\ u[2] + 1 \in Int
    BY <1>6
  <2>2. <<w, 0>> \in Places /\ <<v, 1>> \in Places /\ \A u \in Places : <<v, u[2] - 1>> \in Places /\ <<v, u[2] + 1>> \in Places
    BY <1>3, <1>6, <2>1
  <2> QED BY <1>5, <2>2
\* The tokens, case by case.
<1>8. ASSUME NEW x \in Tids, NEW i \in Int, ~(x = v /\ i > 0), ~(x = w /\ i = 0)
      PROVE  /\ Token(x, i)' <=> Token(x, i)
             /\ Token(x, i) => Val(x, i)' = Val(x, i)
  <2>1. CASE i > 0
    BY <1>4, <1>8, <2>1, TokenKinds
  <2>2. CASE i = 0
    <3>1. x # w
      BY <1>8, <2>2
    <3>2. pc'[x] = pc[x] /\ task'[x] = task[x]
      BY <1>4, <3>1
    <3>3. Val(x, i)' = Val(x, i)
      BY <2>2, <3>2 DEF Val
    <3> QED BY <2>2, <3>2, <3>3, TokenKinds
  <2>3. CASE i = -1
    <3>1. CASE x = w
      BY <1>1, <1>4, <2>3, <3>1, TokenKinds
    <3>2. CASE x # w
      <4>1. pc'[x] = pc[x] /\ task'[x] = task[x]
        BY <1>4, <3>2
      <4>2. Val(x, i)' = Val(x, i)
        BY <2>3, <4>1 DEF Val
      <4> QED BY <2>3, <4>1, <4>2, TokenKinds
    <3> QED BY <3>1, <3>2
  <2>4. CASE i < -1
    <3>1. stored' = stored
      BY <1>1
    <3> QED BY <2>4, <3>1, TokenKinds
  <2> QED BY <2>1, <2>2, <2>3, <2>4
<1>9. ASSUME NEW i \in Int, i > 0
      PROVE  /\ Token(v, i) <=> i <= n
             /\ Token(v, i)' <=> i <= n - 1
             /\ Token(v, i)' => Val(v, i)' = deque[v][i + 1]
             /\ Val(v, i) = deque[v][i]
  <2>1. (i \in 1 .. n <=> i <= n) /\ (i \in 1 .. n - 1 <=> i <= n - 1)
    BY <1>4, <1>9
  <2>2. n = Len(deque[v]) /\ Len(deque'[v]) = n - 1
    BY <1>1, <1>4
  <2>3. i \in 1 .. n - 1 => deque'[v][i] = deque[v][i + 1]
    BY <1>4
  <2>4. /\ Token(v, i) <=> i \in 1 .. n
        /\ Token(v, i)' <=> i \in 1 .. n - 1
        /\ Val(v, i) = deque[v][i] /\ Val(v, i)' = deque'[v][i]
    BY <1>3, <1>9, <2>2, TokenKinds
  <2> QED BY <2>1, <2>3, <2>4
<1>10. Token(w, 0)' /\ ~Token(w, 0) /\ Val(w, 0)' = deque[v][1]
  <2>1. Token(w, 0)' /\ ~Token(w, 0)
    <3>1. 0 \in Int /\ pc[w] \notin Busy /\ pc'[w] \in Busy
      BY <1>1, <1>4 DEF Busy
    <3> QED BY <3>1, TokenKinds
  <2>2. Val(w, 0)' = task'[w]
    BY <1>4 DEF Val
  <2> QED BY <1>4, <2>1, <2>2
<1>11. ASSUME NEW u \in Places, Token(u[1], u[2])
       PROVE  /\ g[h[u]] = u /\ Token(h[u][1], h[u][2])'
              /\ Val(h[u][1], h[u][2])' = Val(u[1], u[2])
  <2>1. PICK x \in Tids, i \in Int : u = <<x, i>> /\ x = u[1] /\ i = u[2]
    BY <1>6
  <2>2. CASE x = v /\ i = 1
    <3>0. <<w, 0>> \in Places /\ <<v, 1>> \in Places /\ u = <<v, 1>>
      BY <1>3, <1>6, <2>1, <2>2
    <3>1. h[u] = <<w, 0>> /\ g[<<w, 0>>] = <<v, 1>> /\ u = <<v, 1>>
      BY <1>5, <3>0
    <3>2. Val(v, 1) = deque[v][1]
      BY <1>9
    <3> QED BY <1>10, <3>1, <3>2
  <2>3. CASE x = v /\ i > 1
    <3>1. PICK k \in Int : k = i - 1 /\ k > 0 /\ k + 1 = i
      BY <2>3
    <3>2. h[u] = <<v, k>>
      BY <1>5, <2>1, <2>3, <3>1
    <3>3. <<v, k>> \in Places /\ <<v, k>> # <<w, 0>> /\ <<v, k>>[1] = v /\ <<v, k>>[2] = k /\ k >= 1
      BY <1>3, <1>6, <3>1
    <3>4. g[<<v, k>>] = <<v, k + 1>>
      BY <1>5, <3>3
    <3>5. Token(v, k)' /\ Val(v, k)' = deque[v][k + 1] /\ Val(v, i) = deque[v][i]
      <4>1. i <= n
        BY <1>9, <1>11, <2>1, <2>3
      <4>2. k <= n - 1 /\ i > 0
        BY <1>4, <3>1, <4>1
      <4> QED BY <1>9, <3>1, <4>2
    <3> QED BY <2>1, <2>3, <3>1, <3>2, <3>4, <3>5
  <2>4. CASE ~(x = v /\ i > 0)
    <3>1. ~(x = w /\ i = 0)
      BY <1>10, <1>11, <2>1
    <3>2. u # <<v, 1>> /\ u # <<w, 0>> /\ ~(u[1] = v /\ u[2] > 1) /\ ~(u[1] = v /\ u[2] >= 1)
      BY <2>1, <2>4, <3>1
    <3>3. h[u] = u /\ g[u] = u
      BY <1>5, <3>2
    <3>4. (Token(x, i)' <=> Token(x, i)) /\ (Token(x, i) => Val(x, i)' = Val(x, i))
      BY <1>8, <2>4, <3>1
    <3> QED BY <1>11, <2>1, <3>3, <3>4
  <2> QED BY <2>2, <2>3, <2>4
<1>12. ASSUME NEW u \in Places, Token(u[1], u[2])'
       PROVE  h[g[u]] = u /\ Token(g[u][1], g[u][2]) /\ (u[2] < -1 => g[u][2] < -1)
  <2>1. PICK x \in Tids, i \in Int : u = <<x, i>> /\ x = u[1] /\ i = u[2]
    BY <1>6
  <2>2. CASE x = w /\ i = 0
    <3>0. <<w, 0>> \in Places /\ <<v, 1>> \in Places /\ u = <<w, 0>>
      <4>1. u = <<w, 0>>
        BY <2>1, <2>2
      <4> QED BY <1>3, <1>6, <4>1
    <3>1. g[u] = <<v, 1>> /\ h[<<v, 1>>] = <<w, 0>> /\ u = <<w, 0>>
      BY <1>5, <3>0
    <3>2. Token(v, 1)
      BY <1>4, <1>9
    <3> QED BY <2>1, <2>2, <3>1, <3>2
  <2>3. CASE x = v /\ i > 0
    <3>1. PICK k \in Int : k = i + 1 /\ k > 1 /\ k - 1 = i
      BY <2>3
    <3>2. u # <<w, 0>> /\ u[1] = v /\ u[2] >= 1
      BY <2>1, <2>3
    <3>3. g[u] = <<v, k>>
      BY <1>5, <2>1, <3>1, <3>2
    <3>4. <<v, k>> \in Places /\ <<v, k>> # <<v, 1>> /\ <<v, k>>[1] = v /\ <<v, k>>[2] = k
      BY <1>3, <1>6, <3>1
    <3>5. h[<<v, k>>] = <<v, k - 1>>
      BY <1>5, <3>1, <3>4
    <3>6. Token(v, k)
      <4>1. i <= n - 1
        BY <1>9, <1>12, <2>1, <2>3
      <4>2. k <= n /\ k > 0
        BY <1>4, <3>1, <4>1
      <4> QED BY <1>9, <4>2
    <3>7. ~(u[2] < -1)
      BY <2>1, <2>3
    <3> QED BY <2>1, <2>3, <3>1, <3>3, <3>5, <3>6, <3>7
  <2>4. CASE ~(x = v /\ i > 0) /\ ~(x = w /\ i = 0)
    <3>1. u # <<v, 1>> /\ u # <<w, 0>> /\ ~(u[1] = v /\ u[2] > 1) /\ ~(u[1] = v /\ u[2] >= 1)
      BY <2>1, <2>4
    <3>2. h[u] = u /\ g[u] = u
      BY <1>5, <3>1
    <3>3. Token(x, i)' <=> Token(x, i)
      BY <1>8, <2>4
    <3> QED BY <1>12, <2>1, <3>2, <3>3
  <2> QED BY <2>2, <2>3, <2>4
<1>13. ValuesOK' /\ OneHolder'
  BY <1>2, <1>7, <1>11, <1>12, Renamed DEF LeavesInv
<1>14. StoredOK'
  BY <1>1, <1>4, SameStored DEF LeavesInv
<1>15. FramesOK'
  BY <1>1, <1>4, NoFrame
<1> QED BY <1>1, <1>13, <1>14, <1>15, WorkerLeaves

-----------------------------------------------------------------------------
(* The results.                                                             *)

\* No leaf is stored twice.
LEMMA StoredOnce ==
  ASSUME Inv, ValuesOK, OneHolder, NEW v \in Tids, NEW m \in 1 .. Len(stored[v]),
         NEW w \in Tids, NEW n \in 1 .. Len(stored[w]), stored[v][m] = stored[w][n],
         stored \in [Tids -> Seq(Path)]
  PROVE  v = w /\ m = n /\ stored[v][m] \in Leaves
<1>1. PICK i \in Int : i = -1 - m /\ i < -1 /\ -1 - i = m
  <2>1. m \in Nat /\ m > 0
    OBVIOUS
  <2> QED BY <2>1
<1>2. PICK j \in Int : j = -1 - n /\ j < -1 /\ -1 - j = n
  <2>1. n \in Nat /\ n > 0
    OBVIOUS
  <2> QED BY <2>1
<1>3. Token(v, i) /\ Val(v, i) = stored[v][m]
  BY <1>1, TokenKinds
<1>4. Token(w, j) /\ Val(w, j) = stored[w][n]
  BY <1>2, TokenKinds
<1>5. PICK l \in Leaves : l = stored[v][m]
  BY <1>1, <1>3 DEF ValuesOK
<1>6. Above(l, l)
  <2>1. Len(l) <= Len(l)
    <3>1. stored[v] \in Seq(Path)
      OBVIOUS
    <3>2. l \in Path
      BY <1>5, <3>1
    <3> QED BY <3>2 DEF Path
  <2> QED BY <2>1 DEF Above
<1>7. <<v, i>> \in Holders(l) /\ <<w, j>> \in Holders(l)
  <2>1. Holds(v, i, l) /\ Holds(w, j, l)
    BY <1>3, <1>4, <1>5, <1>6 DEF Holds
  <2> QED BY <2>1, HoldersIn
<1>8. Holders(l) = {} \/ \E u \in Places : Holders(l) = {u}
  <2>1. l[1] \in Nat /\ seeded \in Nat
    BY TaskPath DEF Inv, TypesOK, Leaves
  <2>2. l[1] <= seeded \/ l[1] > seeded
    BY <2>1
  <2> QED BY <2>2 DEF OneHolder
<1>9. <<v, i>> = <<w, j>>
  BY <1>7, <1>8
<1> QED BY <1>1, <1>2, <1>5, <1>9

LEMMA JoinLeaves ==
  ASSUME Inv, LeavesInv, Join
  PROVE  LeavesInv'
<1>1. /\ UNCHANGED <<input, seeded, merged, result, pc, task, base, popped, stored, deque, frames>>
      /\ call = "threads" /\ call' = "merge" /\ \A w \in 0 .. Threads - 1 : pc[w] = "done"
  BY DEF Join, workers
<1>2. ValuesOK' /\ OneHolder'
  BY <1>1, SamePlaces DEF LeavesInv
<1>3. FramesOK' /\ StoredOK'
  BY <1>1, SameFrames, SameStored DEF LeavesInv
<1>4. SeededOK'
  BY <1>1 DEF LeavesInv, SeededOK
<1>5. ResultOK'
  <2>1. result = <<>> /\ merged = 0 /\ result \in Seq(Path) /\ Threads' = Threads
    BY <1>1 DEF LeavesInv, ResultOK, Threads
  <2>2. Threads \in Nat /\ Threads >= 0 /\ \A w \in Tids : ~(w < 0)
    <3>1. input \in Inputs /\ Threads \in 2 .. MaxThreads
      BY <1>1 DEF Inv, TypesOK, BanksOK
    <3>2. Tids = 0 .. MaxThreads - 1 /\ MaxThreads \in Nat
      BY <3>1, ThreadsOK, BanksAssumption
    <3> QED BY <3>1, <3>2
  <2>3. Len(result) = 0
    BY <2>1
  <2> QED BY <1>1, <2>1, <2>2, <2>3 DEF ResultOK
<1> QED BY <1>2, <1>3, <1>4, <1>5 DEF LeavesInv

LEMMA MergeLeaves ==
  ASSUME Inv, LeavesInv, Merge
  PROVE  LeavesInv'
<1>1. /\ UNCHANGED <<input, call, seeded, pc, task, base, popped, stored, deque, frames>>
      /\ call = "merge" /\ merged # Threads /\ merged' = merged + 1
      /\ result' = result \o stored[merged]
  BY DEF Merge, AllMerged, workers
<1>2. ValuesOK' /\ OneHolder'
  BY <1>1, SamePlaces DEF LeavesInv
<1>3. FramesOK' /\ StoredOK'
  BY <1>1, SameFrames, SameStored DEF LeavesInv
<1>4. SeededOK'
  BY <1>1 DEF LeavesInv, SeededOK
<1>5. /\ result \in Seq(Path) /\ merged \in Nat /\ merged <= Threads
      /\ \A w \in 0 .. Threads - 1 : pc[w] = "done"
      /\ \A j \in 1 .. Len(result) : \E w \in Tids : /\ w < merged
            /\ \E n \in 1 .. Len(stored[w]) : result[j] = stored[w][n]
      /\ \A w \in Tids : w < merged => \A n \in 1 .. Len(stored[w]) :
            \E j \in 1 .. Len(result) : result[j] = stored[w][n]
      /\ \A i, j \in 1 .. Len(result) : result[i] = result[j] => i = j
  BY <1>1 DEF LeavesInv, ResultOK
<1>6. Threads \in 2 .. MaxThreads /\ Tids = 0 .. MaxThreads - 1 /\ MaxThreads \in Nat
  BY <1>1, ThreadsOK, BanksAssumption DEF Inv, BanksOK, TypesOK
<1>7. merged \in Tids /\ merged + 1 <= Threads /\ ~(merged < merged)
      /\ \A w \in Tids : w < merged + 1 <=> w < merged \/ w = merged
  BY <1>1, <1>5, <1>6
<1>8. PICK s : s = stored[merged]
  OBVIOUS
<1>9. stored \in [Tids -> Seq(Path)] /\ s \in Seq(Path)
  BY <1>7, <1>8 DEF LeavesInv, StoredOK
<1>10. PICK k, m : k = Len(result) /\ m = Len(s)
  OBVIOUS
<1>11. /\ k \in Nat /\ m \in Nat /\ result' \in Seq(Path) /\ Len(result') = k + m
       /\ \A j \in 1 .. k : result'[j] = result[j] /\ j \in 1 .. k + m
       /\ \A j \in 1 .. m : result'[k + j] = s[j] /\ k + j \in 1 .. k + m
  <2>1. result' = result \o s
    BY <1>1, <1>8
  <2>2. k \in Nat /\ m \in Nat
    BY <1>5, <1>9, <1>10
  <2>3. result' \in Seq(Path) /\ Len(result') = k + m
    BY <1>5, <1>9, <1>10, <2>1
  <2>4. \A j \in 1 .. k : result'[j] = result[j]
    BY <1>5, <1>9, <1>10, <2>1
  <2>5. \A j \in 1 .. m : result'[k + j] = s[j]
    BY <1>5, <1>9, <1>10, <2>1
  <2>6. (\A j \in 1 .. k : j \in 1 .. k + m) /\ (\A j \in 1 .. m : k + j \in 1 .. k + m)
    BY <2>2
  <2> QED BY <2>2, <2>3, <2>4, <2>5, <2>6
<1>12. \A j \in 1 .. k + m : j \in 1 .. k \/ \E i \in 1 .. m : j = k + i
  <2>1. \A j \in 1 .. k + m : j \in 1 .. k \/ (j - k \in 1 .. m /\ j = k + (j - k))
    BY <1>11
  <2> QED BY <2>1
<1>13. ASSUME NEW j \in 1 .. k + m
       PROVE  \/ /\ j \in 1 .. k /\ result'[j] = result[j]
                 /\ \E w \in Tids : /\ w < merged
                                    /\ \E n \in 1 .. Len(stored[w]) : result[j] = stored[w][n]
              \/ \E i \in 1 .. m : j = k + i /\ result'[j] = s[i]
  <2>1. CASE j \in 1 .. k
    <3>1. j \in 1 .. Len(result) /\ result'[j] = result[j]
      BY <1>10, <1>11, <2>1
    <3> QED BY <1>5, <2>1, <3>1
  <2>2. ASSUME NEW i \in 1 .. m, j = k + i
        PROVE  result'[j] = s[i]
    BY <1>11, <2>2
  <2> QED BY <1>12, <2>1, <2>2
<1>14. ASSUME NEW j \in 1 .. k + m
       PROVE  \E w \in Tids : /\ w < merged + 1
                              /\ \E n \in 1 .. Len(stored[w]) : result'[j] = stored[w][n]
  BY <1>7, <1>8, <1>10, <1>13
<1>15. ASSUME NEW w \in Tids, w < merged + 1, NEW n \in 1 .. Len(stored[w])
       PROVE  \E j \in 1 .. k + m : result'[j] = stored[w][n]
  <2>1. CASE w < merged
    <3>1. PICK j \in 1 .. k : result[j] = stored[w][n]
      BY <1>5, <1>10, <2>1
    <3> QED BY <1>11, <3>1
  <2>2. CASE w = merged
    <3>1. n \in 1 .. m /\ stored[w][n] = s[n]
      BY <1>8, <1>10, <2>2
    <3>2. result'[k + n] = s[n] /\ k + n \in 1 .. k + m
      BY <1>11, <3>1
    <3> QED BY <3>1, <3>2
  <2> QED BY <1>7, <1>15, <2>1, <2>2
<1>16. ASSUME NEW i \in 1 .. m, NEW w \in Tids, NEW n \in 1 .. Len(stored[w]), s[i] = stored[w][n]
       PROVE  w = merged /\ n = i
  BY <1>7, <1>8, <1>9, <1>10, <1>16, StoredOnce DEF LeavesInv
<1>17. ASSUME NEW i \in 1 .. k + m, NEW j \in 1 .. k + m, result'[i] = result'[j]
       PROVE  i = j
  <2>1. CASE i \in 1 .. k /\ j \in 1 .. k
    BY <1>5, <1>10, <1>11, <1>17, <2>1
  <2>2. ASSUME NEW a \in 1 .. m, i = k + a, NEW b \in 1 .. m, j = k + b
        PROVE  i = j
    <3>1. s[a] = s[b]
      BY <1>11, <1>17, <2>2
    <3>2. b \in 1 .. Len(stored[merged]) /\ s[b] = stored[merged][b]
      BY <1>8, <1>10
    <3> QED BY <1>7, <1>16, <2>2, <3>1, <3>2
  <2>3. ASSUME i \in 1 .. k, NEW b \in 1 .. m, j = k + b
        PROVE  FALSE
    <3>1. PICK w \in Tids : w < merged /\ \E n \in 1 .. Len(stored[w]) : result[i] = stored[w][n]
      BY <1>5, <1>10, <2>3
    <3>2. PICK n \in 1 .. Len(stored[w]) : result[i] = stored[w][n]
      BY <3>1
    <3>3. s[b] = stored[w][n]
      BY <1>11, <1>17, <2>3, <3>2
    <3>4. w = merged
      BY <1>16, <3>3
    <3> QED BY <1>7, <3>1, <3>4
  <2>4. ASSUME j \in 1 .. k, NEW a \in 1 .. m, i = k + a
        PROVE  FALSE
    <3>1. PICK w \in Tids : w < merged /\ \E n \in 1 .. Len(stored[w]) : result[j] = stored[w][n]
      BY <1>5, <1>10, <2>4
    <3>2. PICK n \in 1 .. Len(stored[w]) : result[j] = stored[w][n]
      BY <3>1
    <3>3. s[a] = stored[w][n]
      BY <1>11, <1>17, <2>4, <3>2
    <3>4. w = merged
      BY <1>16, <3>3
    <3> QED BY <1>7, <3>1, <3>4
  <2> QED BY <1>12, <2>1, <2>2, <2>3, <2>4
<1>18. ResultOK'
  <2>1. Threads' = Threads /\ merged' \in Nat /\ merged' <= Threads
    BY <1>1, <1>5, <1>7 DEF Threads
  <2>2. /\ \A j \in 1 .. Len(result') : \E w \in Tids : /\ w < merged'
              /\ \E n \in 1 .. Len(stored'[w]) : result'[j] = stored'[w][n]
        /\ \A w \in Tids : w < merged' => \A n \in 1 .. Len(stored'[w]) :
              \E j \in 1 .. Len(result') : result'[j] = stored'[w][n]
        /\ \A i, j \in 1 .. Len(result') : result'[i] = result'[j] => i = j
    <3>1. Len(result') = k + m /\ stored' = stored /\ merged' = merged + 1
      BY <1>1, <1>11
    <3> QED BY <1>14, <1>15, <1>17, <3>1
  <2>3. \A w \in 0 .. Threads' - 1 : pc'[w] = "done"
    BY <1>1, <1>5, <2>1
  <2>4. call' = "merge" /\ result' \in Seq(Path)
    BY <1>1, <1>11
  <2> QED BY <2>1, <2>2, <2>3, <2>4 DEF ResultOK
<1> QED BY <1>2, <1>3, <1>4, <1>18 DEF LeavesInv

LEMMA ReturnMergedLeaves ==
  ASSUME Inv, LeavesInv, ReturnMerged
  PROVE  LeavesInv'
<1>1. /\ UNCHANGED <<input, seeded, merged, result, pc, task, base, popped, stored, deque, frames>>
      /\ call = "merge" /\ call' = "parallel" /\ merged = Threads
  BY DEF ReturnMerged, AllMerged, workers
<1>2. ValuesOK' /\ OneHolder'
  BY <1>1, SamePlaces DEF LeavesInv
<1>3. FramesOK' /\ StoredOK'
  BY <1>1, SameFrames, SameStored DEF LeavesInv
<1>4. SeededOK'
  BY <1>1 DEF LeavesInv, SeededOK
<1>5. ResultOK'
  <2>1. Threads' = Threads
    BY <1>1 DEF Threads
  <2> QED BY <1>1, <2>1 DEF LeavesInv, ResultOK
<1> QED BY <1>2, <1>3, <1>4, <1>5 DEF LeavesInv

LEMMA StutterLeaves ==
  ASSUME LeavesInv, UNCHANGED vars
  PROVE  LeavesInv'
<1>1. /\ UNCHANGED <<input, call, seeded, merged, result, pc, task, base, popped, stored, deque,
                     frames>>
  BY DEF vars, caller, workers
<1>2. ValuesOK' /\ OneHolder'
  BY <1>1, SamePlaces DEF LeavesInv
<1>3. FramesOK' /\ StoredOK'
  BY <1>1, SameFrames, SameStored DEF LeavesInv
<1>4. SeededOK' /\ ResultOK'
  BY <1>1 DEF LeavesInv, SeededOK, ResultOK, Threads
<1> QED BY <1>2, <1>3, <1>4 DEF LeavesInv

LEMMA NextLeaves == Inv /\ LeavesInv /\ Undisturbed /\ Undisturbed' /\ [Next]_vars => LeavesInv'
<1> SUFFICES ASSUME Inv, LeavesInv, Undisturbed, Undisturbed', [Next]_vars
             PROVE  LeavesInv'
  OBVIOUS
<1>1. CASE Caller
  BY <1>1, ReturnSerialLeaves, QuietCallerLeaves, SeedLeaves, JoinLeaves, MergeLeaves,
     ReturnMergedLeaves DEF Caller
<1>2. ASSUME NEW w \in Tids, Worker(w)
      PROVE  LeavesInv'
  BY <1>2, PopLeaves, StealLeaves, QuietLeaves, StoreLeafLeaves, SplitLeaves, PushLeaves
     DEF Worker
<1>3. CASE UNCHANGED vars
  BY <1>3, StutterLeaves
<1> QED BY <1>1, <1>2, <1>3 DEF Next

LEMMA ResultRight == Inv /\ LeavesInv => EveryLeafOnce
<1> SUFFICES ASSUME Inv, LeavesInv, call = "parallel"
             PROVE  ToSet(result) = Leaves /\ Len(result) = Cardinality(Leaves)
  BY DEF EveryLeafOnce
<1>1. /\ result \in Seq(Path) /\ merged = Threads
      /\ \A w \in 0 .. Threads - 1 : pc[w] = "done"
      /\ \A j \in 1 .. Len(result) : \E w \in Tids : /\ w < merged
            /\ \E n \in 1 .. Len(stored[w]) : result[j] = stored[w][n]
      /\ \A w \in Tids : w < merged => \A n \in 1 .. Len(stored[w]) :
            \E j \in 1 .. Len(result) : result[j] = stored[w][n]
      /\ \A i, j \in 1 .. Len(result) : result[i] = result[j] => i = j
  BY DEF LeavesInv, ResultOK
<1>2. Threads \in 2 .. MaxThreads /\ Tids = 0 .. MaxThreads - 1 /\ MaxThreads \in Nat
  BY ThreadsOK, BanksAssumption DEF Inv, BanksOK, TypesOK
<1>3. Work = {}
  <2>1. 0 \in Tids /\ pc[0] = "done"
    BY <1>1, <1>2
  <2> QED BY <2>1 DEF Inv, WorkOK
<1>4. stored \in [Tids -> Seq(Path)] /\ input \in Inputs
  BY DEF LeavesInv, StoredOK, Inv, TypesOK
<1>5. ASSUME NEW j \in 1 .. Len(result)
      PROVE  result[j] \in Leaves
  <2>1. PICK w \in Tids : \E n \in 1 .. Len(stored[w]) : result[j] = stored[w][n]
    BY <1>1
  <2>2. PICK n \in 1 .. Len(stored[w]) : result[j] = stored[w][n]
    BY <2>1
  <2> QED BY <1>4, <2>2, StoredOnce DEF LeavesInv
<1>6. ASSUME NEW l \in Leaves
      PROVE  \E j \in 1 .. Len(result) : result[j] = l
  <2>1. l[1] <= seeded
    <3>1. seeded = input.count
      BY DEF LeavesInv, SeededOK
    <3>2. l[1] \in 1 .. input.count
      BY <1>4, TaskPath DEF Leaves
    <3>3. input.count \in Nat
      BY <1>4, InputsAssumption
    <3> QED BY <3>1, <3>2, <3>3
  <2>2. PICK u \in Places : Holders(l) = {u}
    BY <2>1 DEF LeavesInv, OneHolder
  <2>3. PICK w \in Tids, i \in Int : u = <<w, i>>
    BY DEF Places
  <2>4. Token(w, i) /\ Above(Val(w, i), l)
    BY <2>2, <2>3, HoldersIn DEF Holds
  <2>5. ~Unit(w, i)
    BY <1>3, UnitIn
  <2>6. PICK n : n = -1 - i /\ n \in 1 .. Len(stored[w])
    BY <2>4, <2>5 DEF Token
  <2>7. i < -1
    <3>1. n \in Nat /\ n > 0
      BY <1>4, <2>6
    <3> QED BY <2>6, <3>1
  <2>8. Val(w, i) = stored[w][n] /\ Val(w, i) \in Leaves
    BY <2>4, <2>6, <2>7, TokenKinds DEF LeavesInv, ValuesOK
  <2>9. stored[w][n] = l
    BY <1>4, <2>4, <2>8, LeafAlone DEF Leaves
  <2>10. w < merged
    <3>1. stored[w] # <<>>
      BY <1>4, <2>6
    <3>2. pc[w] # "none"
      BY <3>1 DEF LeavesInv, StoredOK
    <3> QED BY <1>1, <3>2 DEF Inv, WorkersOK
  <2> QED BY <1>1, <2>6, <2>9, <2>10
<1>7. ToSet(result) = Leaves
  BY <1>5, <1>6 DEF ToSet
<1>8. Len(result) = Cardinality(Leaves)
  <2> DEFINE n == Len(result)
             f == [j \in 1 .. n |-> result[j]]
  <2>1. n \in Nat
    BY <1>1
  <2>2. f \in Bijection(1 .. n, Leaves)
    <3>1. f \in [1 .. n -> Leaves]
      BY <1>5
    <3>2. \A i, j \in 1 .. n : f[i] = f[j] => i = j
      BY <1>1
    <3>3. \A l \in Leaves : \E j \in 1 .. n : f[j] = l
      BY <1>6
    <3> HIDE DEF f, n
    <3> QED BY <3>1, <3>2, <3>3, Fun_IsBij
  <2> HIDE DEF f, n
  <2>3. ExistsBijection(1 .. n, Leaves)
    BY <2>2 DEF ExistsBijection
  <2>4. IsFiniteSet(1 .. n) /\ Cardinality(1 .. n) = n
    BY <2>1, FS_Interval
  <2>5. Cardinality(Leaves) = n
    BY <2>1, <2>3, FS_CountingElements
  <2> QED BY <2>5 DEF n
<1> QED BY <1>7, <1>8

-----------------------------------------------------------------------------
\* thvm_collapse_par returns every leaf of the tree once, and nothing else,
\* for any number of threads, any superpositions met on the way and any
\* interleaving of pops, steals, splits and results, while reductions that
\* need a frame do not overlap on g_wnf_stack_buf and no deque is pushed
\* past its slots: both are what the code relies on without looking.
THEOREM EveryLeafReturned == Spec /\ []Undisturbed => []EveryLeafOnce
<1>1. Init => LeavesInv
  BY InitLeaves
<1>2. Inv /\ LeavesInv /\ Undisturbed /\ Undisturbed' /\ [Next]_vars => LeavesInv'
  BY NextLeaves
<1>3. Inv /\ LeavesInv => EveryLeafOnce
  BY ResultRight
<1> QED BY <1>1, <1>2, <1>3, Invariant, PTL DEF Spec

=============================================================================
