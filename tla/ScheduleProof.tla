---------------------------- MODULE ScheduleProof ----------------------------
(***************************************************************************)
(* Where no output is handed on through a view, no plan can do harm: for   *)
(* every acyclic graph of kernels, with any number of readers each, and    *)
(* every assignment of slots, a kernel reads what its inputs computed, no  *)
(* buffer has two owners, and roots keep their values.  With views, and    *)
(* slots used over and over, a kernel still writes where there is room if  *)
(* the plan compared the sizes that can meet (RoomyWritesFit).             *)
(***************************************************************************)
EXTENDS Schedule, FiniteSetTheorems, SequenceTheorems, TLAPS

Plain == \A c \in Cases \cup Later : c.viewed = {}

-----------------------------------------------------------------------------
(* Sequences as the agenda uses them.                                       *)

LEMMA ContainsTail ==
  ASSUME NEW S, NEW s \in Seq(S), s # << >>, NEW e
  PROVE  /\ Contains(Tail(s), e) => Contains(s, e)
         /\ Contains(s, e) => e = Head(s) \/ Contains(Tail(s), e)
         /\ Contains(s, Head(s))
<1>1. /\ Len(s) \in Nat /\ Len(s) >= 1 /\ Len(Tail(s)) = Len(s) - 1 /\ s[1] = Head(s)
      /\ \A i \in 1 .. Len(s) - 1 : Tail(s)[i] = s[i + 1]
  OBVIOUS
<1>2. Contains(Tail(s), e) => Contains(s, e)
  BY <1>1 DEF Contains
<1>3. ASSUME NEW i \in 1 .. Len(s), s[i] = e, i # 1 PROVE Contains(Tail(s), e)
  <2>1. i - 1 \in 1 .. Len(s) - 1 /\ Tail(s)[i - 1] = e
    BY <1>1, <1>3
  <2> QED BY <1>1, <2>1 DEF Contains
<1> QED BY <1>1, <1>2, <1>3 DEF Contains

LEMMA ContainsReverse ==
  ASSUME NEW S, NEW s \in Seq(S), NEW e
  PROVE  /\ Reverse(s) \in Seq(S)
         /\ Contains(Reverse(s), e) <=> Contains(s, e)
<1>1. Len(s) \in Nat /\ \A i \in 1 .. Len(s) : s[i] \in S
  OBVIOUS
<1>2. Reverse(s) \in Seq(S) /\ Len(Reverse(s)) = Len(s)
  BY <1>1 DEF Reverse
<1>3. \A i \in 1 .. Len(s) : Reverse(s)[i] = s[Len(s) - i + 1]
  BY DEF Reverse
<1>4. ASSUME NEW i \in 1 .. Len(s), s[i] = e PROVE Contains(Reverse(s), e)
  <2>1. Len(s) - i + 1 \in 1 .. Len(s) /\ Len(s) - (Len(s) - i + 1) + 1 = i
    BY <1>1
  <2>2. Reverse(s)[Len(s) - i + 1] = e
    BY <1>3, <1>4, <2>1
  <2> QED BY <1>2, <2>1, <2>2 DEF Contains
<1>5. ASSUME NEW i \in 1 .. Len(s), Reverse(s)[i] = e PROVE Contains(s, e)
  <2>1. Len(s) - i + 1 \in 1 .. Len(s)
    BY <1>1
  <2> QED BY <1>3, <1>5, <2>1 DEF Contains
<1> QED BY <1>2, <1>4, <1>5 DEF Contains

-----------------------------------------------------------------------------
(***************************************************************************)
(* The invariant. A kernel on the agenda has no result yet, each of its    *)
(* inputs has one, is in its chain or right above it, and ranks grow       *)
(* downwards, so no kernel is on the agenda twice.                         *)
(***************************************************************************)
Frames == [kid : Kernel \cup {Main}, todo : Seq(Kernel)]
Rank == CHOOSE rank \in Ranks(job) : Acyclic(job, rank)

Waits(stack, results, i, d) ==
    \/ d \in results
    \/ Contains(stack[i].todo, d)
    \/ i > 1 /\ stack[i - 1].kid = d

AgendaOK ==
    /\ agenda \in Seq(Frames)
    /\ \A i \in 1 .. Len(agenda) : agenda[i].kid = Main <=> i = Len(agenda)
    /\ \A i \in 1 .. Len(agenda) - 1 :
          /\ agenda[i].kid \notin done
          /\ \A d \in Kernel :
                Contains(agenda[i].todo, d) => Contains(job.deps[agenda[i].kid], d)
          /\ \A d \in Kernel :
                Contains(job.deps[agenda[i].kid], d) => Waits(agenda, done, i, d)
    /\ \A i, j \in 1 .. Len(agenda) - 1 :
          i < j => Rank[agenda[i].kid] < Rank[agenda[j].kid]

\* Unreleased outputs have buffers of their own, which hold their values.
Buffers == [val : Nat \X Nat, bytes : Nat]
MemoryOK ==
    /\ mem \in Seq(Buffers)
    /\ raw \in [Kernel -> 0 .. Len(mem)]
    /\ \A k \in Kernel \ done : raw[k] = 0
    /\ \A j, k \in Kernel : j # k /\ raw[j] # 0 => raw[j] # raw[k]
    /\ Running => \A k \in done : raw[k] # 0 => mem[raw[k]].val = Value(k)

\* What is counted is the readers still to come; until then it is not released.
UsesOK ==
    /\ uses \in [Kernel -> Nat]
    /\ \A d \in Kernel : uses[d] = Cardinality(Readers(job, d, Kernel \ done))
    /\ \A d \in done : uses[d] > 0 => raw[d] # 0

Inv ==
    /\ job \in Cases \cup Later
    /\ evals \in Nat
    /\ done \subseteq Kernel
    /\ AgendaOK
    /\ MemoryOK
    /\ UsesOK

-----------------------------------------------------------------------------
\* What is known of the graph at hand.
LEMMA JobOK ==
  ASSUME job \in Cases \cup Later
  PROVE  /\ IsFiniteSet(Kernel) /\ Kernel \subseteq Nat /\ Main \notin Kernel
         /\ \A k \in Kernel : job.deps[k] \in Seq(Kernel) /\ job.size[k] \in Nat
         /\ \A k \in Kernel : Rank[k] \in Nat
         /\ \A k, d \in Kernel : Contains(job.deps[k], d) => Rank[d] < Rank[k]
<1> DEFINE R == CHOOSE rank \in Ranks(job) : Acyclic(job, rank)
<1>1. GraphOK(job)
  BY GraphsOK
<1>2. R \in Ranks(job) /\ Acyclic(job, R)
  BY <1>1 DEF GraphOK
<1>3. Cardinality(Kernel) \in Nat
  BY <1>1, FS_CardinalityType DEF GraphOK, Nodes, Kernel
<1>4. \A k \in Kernel : R[k] \in Nat
  BY <1>2, <1>3 DEF Ranks, Nodes, Kernel
<1>5. ASSUME NEW k \in Kernel, NEW d \in Kernel, Contains(job.deps[k], d)
      PROVE  R[d] < R[k]
  <2> HIDE DEF R
  <2>1. PICK i \in 1 .. Len(job.deps[k]) : job.deps[k][i] = d
    BY <1>5 DEF Contains
  <2>2. DOMAIN job.deps[k] = 1 .. Len(job.deps[k])
    BY <1>1 DEF GraphOK, Nodes, Kernel
  <2> QED BY <1>2, <2>1, <2>2 DEF Acyclic, Nodes, Kernel
<1> QED BY <1>1, <1>4, <1>5 DEF GraphOK, Nodes, Kernel, Rank, Main

\* A kernel that is ready has no result, and its inputs have theirs.
LEMMA ReadyInputs ==
  ASSUME Inv, NEW k \in Kernel, Ready(k)
  PROVE  /\ agenda # << >> /\ Len(agenda) > 1 /\ k \notin done
         /\ raw[k] = 0
         /\ \A d \in Kernel : Contains(job.deps[k], d) =>
               d \in done /\ raw[d] # 0 /\ mem[raw[d]].val = Value(d)
<1>1. k # Main
  BY JobOK DEF Inv
<1>2. /\ agenda # << >> /\ Len(agenda) \in Nat /\ Len(agenda) >= 1
      /\ agenda[1].kid = k /\ agenda[1].todo = << >>
  BY DEF Ready, Running, Top, Inv, AgendaOK
<1>3. Len(agenda) > 1 /\ 1 \in 1 .. Len(agenda) - 1
  BY <1>1, <1>2 DEF Inv, AgendaOK
<1>4. k \notin done
  BY <1>2, <1>3 DEF Inv, AgendaOK
<1>5. raw[k] = 0
  BY <1>4 DEF Inv, MemoryOK
<1>6. ASSUME NEW d \in Kernel, Contains(job.deps[k], d)
      PROVE  d \in done /\ raw[d] # 0 /\ mem[raw[d]].val = Value(d)
  <2>1. Waits(agenda, done, 1, d)
    BY <1>2, <1>3, <1>6 DEF Inv, AgendaOK
  <2>2. ~Contains(<< >>, d)
    BY DEF Contains
  <2>3. d \in done
    BY <1>2, <2>1, <2>2 DEF Waits
  <2>4. k \in Readers(job, d, Kernel \ done)
    BY <1>4, <1>6 DEF Readers
  <2>5. IsFiniteSet(Readers(job, d, Kernel \ done))
    BY JobOK, FS_Subset DEF Inv, Readers
  <2>6. uses[d] > 0
    BY <2>4, <2>5, FS_EmptySet, FS_CardinalityType DEF Inv, UsesOK
  <2>7. raw[d] # 0
    BY <2>3, <2>6 DEF Inv, UsesOK
  <2> QED BY <1>2, <2>3, <2>7 DEF Inv, MemoryOK, Running
<1> QED BY <1>2, <1>3, <1>4, <1>5, <1>6

\* What a dispatch reads and where it writes.
LEMMA ReadyIntact ==
  ASSUME Plain, Inv, NEW k \in Kernel, Ready(k)
  PROVE  /\ ~Binds(k)
         /\ MemoryFor(k) = Append(mem, Fresh(job.size[k]))
         /\ Target(k) = Len(mem) + 1
         /\ InputsIntact(k) /\ OutputFits(k)
<1>1. k \notin job.viewed /\ job.viewed = {}
  BY DEF Plain, Inv
<1>2. ~Binds(k)
  BY <1>1 DEF Binds
<1>3. mem \in Seq(Buffers) /\ raw[k] = 0
  BY ReadyInputs DEF Inv, MemoryOK
<1>4. MemoryFor(k) = Append(mem, Fresh(job.size[k]))
  BY <1>2, <1>3 DEF MemoryFor, Ensured
<1>5. Fresh(job.size[k]) \in Buffers /\ job.size[k] \in Nat
  BY JobOK DEF Inv, Fresh, Zero, Buffers
<1>6. Target(k) = Len(mem) + 1
  BY <1>2, <1>3, <1>4, <1>5 DEF Target
<1>7. ASSUME NEW i \in DOMAIN job.deps[k]
      PROVE  LET b == Output(job.deps[k][i])
             IN  b # 0 /\ b # Target(k) /\ mem[b].val = Value(job.deps[k][i])
  <2>1. job.deps[k] \in Seq(Kernel)
    BY JobOK DEF Inv
  <2>2. job.deps[k][i] \in Kernel /\ Contains(job.deps[k], job.deps[k][i])
    BY <1>7, <2>1 DEF Contains
  <2>3. Output(job.deps[k][i]) = raw[job.deps[k][i]]
    BY <1>1 DEF Output
  <2>4. raw[job.deps[k][i]] \in 0 .. Len(mem)
    BY <2>2 DEF Inv, MemoryOK
  <2>5. raw[job.deps[k][i]] # Len(mem) + 1
    BY <1>3, <2>4
  <2> QED BY <1>6, <2>2, <2>3, <2>5, ReadyInputs
<1>8. OutputFits(k)
  <2>1. MemoryFor(k)[Target(k)] = Fresh(job.size[k])
    BY <1>3, <1>4, <1>5, <1>6
  <2> QED BY <1>5, <2>1 DEF OutputFits, Fresh
<1> QED BY <1>2, <1>4, <1>6, <1>7, <1>8 DEF InputsIntact

-----------------------------------------------------------------------------
\* The first evaluation, and every later one, starts in the invariant.
LEMMA StartUses ==
  ASSUME NEW c \in Cases \cup Later
  PROVE  /\ DOMAIN c.deps \subseteq Nat /\ Main \notin DOMAIN c.deps
         /\ RootTerms(c) \in Seq(DOMAIN c.deps)
         /\ c.uses \in [DOMAIN c.deps -> Nat]
         /\ \A d \in DOMAIN c.deps :
               c.uses[d] = Cardinality(Readers(c, d, DOMAIN c.deps \ {}))
<1>1. GraphOK(c)
  BY GraphsOK
<1>2. DOMAIN c.deps \ {} = DOMAIN c.deps
  OBVIOUS
<1> QED BY <1>1, <1>2 DEF GraphOK, Nodes, Main

LEMMA InitInv == Init => Inv
<1> SUFFICES ASSUME NEW c \in Cases, job = c, evals = 1,
                    agenda = <<Frame(Main, RootTerms(c))>>, done = {},
                    uses = c.uses, raw = [k \in DOMAIN c.deps |-> 0],
                    mem = << >>
             PROVE  Inv
  BY DEF Init
<1>1. Frame(Main, RootTerms(c)) \in Frames
  BY StartUses DEF Frames, Frame, Kernel
<1>2. AgendaOK
  BY <1>1 DEF AgendaOK, Frame
<1>3. MemoryOK
  BY DEF MemoryOK, Kernel
<1>4. UsesOK
  BY StartUses DEF UsesOK, Kernel
<1> QED BY <1>2, <1>3, <1>4 DEF Inv

LEMMA AgainInv == Inv /\ Again => Inv'
<1> SUFFICES ASSUME Inv, ~Running, NEW c \in Later, StartEval(c), mem' = mem
             PROVE  Inv'
  BY DEF Again
<1>1. /\ job' = c /\ evals' \in Nat /\ done' = {} /\ uses' = c.uses
      /\ agenda' = <<Frame(Main, RootTerms(c))>>
      /\ raw' = [k \in DOMAIN c.deps |-> 0]
      /\ Kernel' = DOMAIN c.deps
  BY DEF StartEval, Inv, Kernel
<1>2. Frame(Main, RootTerms(c)) \in Frames'
  BY <1>1, StartUses DEF Frames, Frame
<1>3. AgendaOK'
  BY <1>1, <1>2 DEF AgendaOK, Frame
<1>4. MemoryOK'
  BY <1>1 DEF MemoryOK, Inv
<1>5. UsesOK'
  BY <1>1, StartUses DEF UsesOK
<1> QED BY <1>1, <1>3, <1>4, <1>5 DEF Inv

-----------------------------------------------------------------------------
\* What there is to show of an agenda after a step of the same evaluation.
LEMMA AgendaStep ==
  ASSUME job' = job, agenda' \in Seq(Frames),
         \A i \in 1 .. Len(agenda') : agenda'[i].kid = Main <=> i = Len(agenda'),
         \A i \in 1 .. Len(agenda') - 1 :
            /\ agenda'[i].kid \notin done'
            /\ \A d \in Kernel :
                  Contains(agenda'[i].todo, d) => Contains(job.deps[agenda'[i].kid], d)
            /\ \A d \in Kernel :
                  Contains(job.deps[agenda'[i].kid], d) => Waits(agenda', done', i, d),
         \A i, j \in 1 .. Len(agenda') - 1 :
            i < j => Rank[agenda'[i].kid] < Rank[agenda'[j].kid]
  PROVE  AgendaOK'
<1>1. Kernel' = Kernel /\ Frames' = Frames /\ Rank' = Rank
  BY DEF Kernel, Frames, Rank
<1> QED BY <1>1 DEF AgendaOK

\* Moving along a chain leaves memory and counts alone.
LEMMA ChainInv ==
  ASSUME Inv, AgendaOK', Running, Running', UNCHANGED <<job, evals, done, uses, raw, mem>>
  PROVE  Inv'
<1>1. MemoryOK'
  BY DEF Inv, MemoryOK, Kernel, Value
<1>2. UsesOK'
  BY DEF Inv, UsesOK, Kernel, Readers
<1> QED BY <1>1, <1>2 DEF Inv, Kernel

\* The frame on top after its head was taken off.
LEMMA Popped ==
  ASSUME Inv, Running, Top.todo # << >>,
         NEW rest, rest = [agenda EXCEPT ![1].todo = Tail(@)]
  PROVE  /\ Len(agenda) \in Nat /\ Len(agenda) >= 1
         /\ rest \in Seq(Frames) /\ Len(rest) = Len(agenda)
         /\ \A i \in 1 .. Len(agenda) : rest[i].kid = agenda[i].kid
         /\ \A i \in 2 .. Len(agenda) : rest[i] = agenda[i]
         /\ Head(Top.todo) \in Kernel /\ Contains(agenda[1].todo, Head(Top.todo))
         /\ \A d : Contains(rest[1].todo, d) => Contains(agenda[1].todo, d)
         /\ \A d : Contains(agenda[1].todo, d) =>
                     d = Head(Top.todo) \/ Contains(rest[1].todo, d)
<1>1. agenda \in Seq(Frames) /\ agenda # << >>
  BY DEF Inv, AgendaOK, Running
<1>2. /\ Len(agenda) \in Nat /\ Len(agenda) >= 1 /\ agenda[1] \in Frames
      /\ Top = agenda[1] /\ DOMAIN agenda = 1 .. Len(agenda)
  BY <1>1 DEF Top
<1>3. agenda[1].todo \in Seq(Kernel) /\ agenda[1].todo # << >>
  BY <1>2 DEF Frames
<1>4. rest[1] = [agenda[1] EXCEPT !.todo = Tail(@)]
  BY <1>2
<1>5. rest[1].kid = agenda[1].kid /\ rest[1].todo = Tail(agenda[1].todo) /\ rest[1] \in Frames
  <2>1. Tail(agenda[1].todo) \in Seq(Kernel)
    BY <1>3
  <2>2. agenda[1] = [kid |-> agenda[1].kid, todo |-> agenda[1].todo]
        /\ agenda[1].kid \in Kernel \cup {Main}
    BY <1>2 DEF Frames
  <2>3. rest[1] = [kid |-> agenda[1].kid, todo |-> Tail(agenda[1].todo)]
    BY <1>4, <2>2
  <2> DEFINE t == Tail(agenda[1].todo)
             h == agenda[1].kid
  <2>4. rest[1] = [kid |-> h, todo |-> t] /\ t \in Seq(Kernel) /\ h \in Kernel \cup {Main}
    BY <2>1, <2>2, <2>3
  <2>5. rest[1].kid = h /\ rest[1].todo = t /\ rest[1] \in Frames
    <3> HIDE DEF t, h
    <3> QED BY <2>4 DEF Frames
  <2> QED BY <2>5
<1>6. \A i \in 2 .. Len(agenda) : rest[i] = agenda[i]
  BY <1>1, <1>2
<1>7. rest \in Seq(Frames) /\ Len(rest) = Len(agenda)
  BY <1>1, <1>2, <1>5, <1>6
<1>8. Head(Top.todo) \in Kernel /\ Contains(agenda[1].todo, Head(Top.todo))
  BY <1>2, <1>3, ContainsTail
<1>9. ASSUME NEW d
      PROVE /\ Contains(rest[1].todo, d) => Contains(agenda[1].todo, d)
            /\ Contains(agenda[1].todo, d) => d = Head(Top.todo) \/ Contains(rest[1].todo, d)
  BY <1>2, <1>3, <1>5, ContainsTail
<1> QED BY <1>2, <1>5, <1>6, <1>7, <1>8, <1>9

LEMMA CachedInv == Inv /\ Cached => Inv'
<1> SUFFICES ASSUME Inv, Running, Top.todo # << >>, Head(Top.todo) \in done,
                    agenda' = [agenda EXCEPT ![1].todo = Tail(@)],
                    UNCHANGED <<job, evals, done, uses, raw, out, slots, mem, kept>>
             PROVE  Inv'
  BY DEF Cached
<1> DEFINE n == Len(agenda)
<1>1. /\ n \in Nat /\ n >= 1
      /\ agenda' \in Seq(Frames) /\ Len(agenda') = n
      /\ \A i \in 1 .. n : agenda'[i].kid = agenda[i].kid
      /\ \A i \in 2 .. n : agenda'[i] = agenda[i]
  BY Popped
<1>0. ASSUME NEW d
      PROVE  /\ Contains(agenda'[1].todo, d) => Contains(agenda[1].todo, d)
             /\ Contains(agenda[1].todo, d) => d \in done \/ Contains(agenda'[1].todo, d)
  <2>1. Contains(agenda[1].todo, d) =>
           d = Head(Top.todo) \/ Contains(agenda'[1].todo, d)
    BY Popped
  <2>2. Contains(agenda'[1].todo, d) => Contains(agenda[1].todo, d)
    BY Popped
  <2> QED BY <2>1, <2>2
<1>2. Kernel' = Kernel /\ Frames' = Frames /\ Rank' = Rank
  BY DEF Kernel, Frames, Rank
<1>3. \A i \in 1 .. n : \A d :
         /\ Contains(agenda'[i].todo, d) => Contains(agenda[i].todo, d)
         /\ Waits(agenda, done, i, d) => Waits(agenda', done, i, d)
  <2> SUFFICES ASSUME NEW i \in 1 .. n, NEW d
               PROVE  /\ Contains(agenda'[i].todo, d) => Contains(agenda[i].todo, d)
                      /\ Waits(agenda, done, i, d) => Waits(agenda', done, i, d)
    OBVIOUS
  <2>1. CASE i = 1
    <3>2. Waits(agenda, done, 1, d) => d \in done \/ Contains(agenda[1].todo, d)
      BY DEF Waits
    <3>3. d \in done \/ Contains(agenda'[1].todo, d) => Waits(agenda', done, 1, d)
      BY DEF Waits
    <3> QED BY <1>0, <2>1, <3>2, <3>3
  <2>2. CASE i # 1
    <3>1. i \in 2 .. n /\ i - 1 \in 1 .. n
      BY <1>1, <2>2
    <3> QED BY <1>1, <3>1 DEF Waits
  <2> QED BY <2>1, <2>2
<1>4. AgendaOK'
  <2>1. \A i \in 1 .. n : agenda'[i].kid = Main <=> i = n
    BY <1>1 DEF AgendaOK, Inv
  <2>2. ASSUME NEW i \in 1 .. n - 1
        PROVE  /\ agenda'[i].kid \notin done'
               /\ \A d \in Kernel :
                     Contains(agenda'[i].todo, d) => Contains(job.deps[agenda'[i].kid], d)
               /\ \A d \in Kernel :
                     Contains(job.deps[agenda'[i].kid], d) => Waits(agenda', done', i, d)
    <3>1. i \in 1 .. n /\ agenda'[i].kid = agenda[i].kid /\ agenda[i].kid \notin done
      BY <1>1 DEF AgendaOK, Inv
    <3>2. ASSUME NEW d \in Kernel
          PROVE  /\ Contains(agenda'[i].todo, d) => Contains(job.deps[agenda[i].kid], d)
                 /\ Contains(job.deps[agenda[i].kid], d) => Waits(agenda', done, i, d)
      <4>1. /\ Contains(agenda[i].todo, d) => Contains(job.deps[agenda[i].kid], d)
            /\ Contains(job.deps[agenda[i].kid], d) => Waits(agenda, done, i, d)
        BY DEF AgendaOK, Inv
      <4>2. /\ Contains(agenda'[i].todo, d) => Contains(agenda[i].todo, d)
            /\ Waits(agenda, done, i, d) => Waits(agenda', done, i, d)
        BY <1>3, <3>1
      <4> QED BY <4>1, <4>2
    <3>3. done' = done
      OBVIOUS
    <3> QED BY <3>1, <3>2, <3>3
  <2>3. \A i, j \in 1 .. n - 1 : i < j => Rank[agenda'[i].kid] < Rank[agenda'[j].kid]
    BY <1>1 DEF AgendaOK, Inv
  <2> QED BY <1>1, <2>1, <2>2, <2>3, AgendaStep
<1>5. Running'
  BY <1>1 DEF Running
<1> QED BY <1>4, <1>5, ChainInv

LEMMA ForceInv == Inv /\ ForceDep => Inv'
<1> DEFINE k == Head(Top.todo)
           rest == [agenda EXCEPT ![1].todo = Tail(@)]
           n == Len(agenda)
<1> SUFFICES ASSUME Inv, Running, Top.todo # << >>, k \notin done,
                    agenda' = <<Frame(k, DepChain(k))>> \o rest,
                    UNCHANGED <<job, evals, done, uses, raw, out, slots, mem, kept>>
             PROVE  Inv'
  BY DEF ForceDep
<1>1. /\ n \in Nat /\ n >= 1
      /\ rest \in Seq(Frames) /\ Len(rest) = n
      /\ \A i \in 1 .. n : rest[i].kid = agenda[i].kid
      /\ \A i \in 2 .. n : rest[i] = agenda[i]
      /\ k \in Kernel /\ Contains(agenda[1].todo, k)
      /\ \A d : Contains(rest[1].todo, d) => Contains(agenda[1].todo, d)
      /\ \A d : Contains(agenda[1].todo, d) => d = k \/ Contains(rest[1].todo, d)
  BY Popped
<1> HIDE DEF k, rest, n
<1>2. job.deps[k] \in Seq(Kernel)
  BY <1>1, JobOK DEF Inv
<1>3. /\ Frame(k, DepChain(k)) \in Frames
      /\ Frame(k, DepChain(k)).kid = k
      /\ \A d : Contains(Frame(k, DepChain(k)).todo, d) <=> Contains(job.deps[k], d)
  BY <1>1, <1>2, ContainsReverse DEF Frame, Frames, DepChain
<1>4. /\ agenda' \in Seq(Frames) /\ Len(agenda') = n + 1
      /\ agenda'[1] = Frame(k, DepChain(k))
      /\ \A i \in 2 .. n + 1 : i - 1 \in 1 .. n /\ agenda'[i] = rest[i - 1]
  BY <1>1, <1>3
<1>5. \A i \in 1 .. n + 1 : agenda'[i].kid = Main <=> i = n + 1
  <2>1. k # Main
    BY <1>1, JobOK DEF Inv
  <2>2. \A i \in 1 .. n : agenda[i].kid = Main <=> i = n
    BY DEF n, Inv, AgendaOK
  <2> SUFFICES ASSUME NEW i \in 1 .. n + 1
               PROVE  agenda'[i].kid = Main <=> i = n + 1
    OBVIOUS
  <2>3. CASE i = 1
    <3>1. i # n + 1
      BY <1>1, <2>3
    <3> QED BY <1>3, <1>4, <2>1, <2>3, <3>1
  <2>4. CASE i # 1
    <3>1. i \in 2 .. n + 1 /\ i - 1 \in 1 .. n /\ (i = n + 1 <=> i - 1 = n)
      BY <1>1, <2>4
    <3>2. agenda'[i].kid = agenda[i - 1].kid
      BY <1>1, <1>4, <3>1
    <3> QED BY <2>2, <3>1, <3>2
  <2> QED BY <2>3, <2>4
<1>6. ASSUME NEW i \in 1 .. n
      PROVE  /\ agenda'[i].kid \notin done'
             /\ \A d \in Kernel :
                   Contains(agenda'[i].todo, d) => Contains(job.deps[agenda'[i].kid], d)
             /\ \A d \in Kernel :
                   Contains(job.deps[agenda'[i].kid], d) => Waits(agenda', done', i, d)
  <2>1. CASE i = 1
    BY <1>3, <1>4, <2>1 DEF Waits
  <2>2. CASE i # 1
    <3> DEFINE j == i - 1
    <3>1. /\ j \in 1 .. n - 1 /\ i \in 2 .. n + 1 /\ i > 1
          /\ agenda'[i] = rest[j] /\ agenda'[i].kid = agenda[j].kid
      <4>1. j \in 1 .. n - 1 /\ i \in 2 .. n + 1 /\ i > 1 /\ j \in 1 .. n
        BY <1>1, <2>2
      <4> QED BY <1>1, <1>4, <4>1
    <3>2. j # 1 => j \in 2 .. n /\ i - 1 \in 2 .. n + 1 /\ agenda'[i - 1] = rest[j - 1]
                   /\ agenda'[i - 1].kid = agenda[j - 1].kid
      <4>1. ASSUME j # 1
            PROVE  /\ j \in 2 .. n /\ i - 1 \in 2 .. n + 1
                   /\ j - 1 \in 1 .. n /\ (i - 1) - 1 = j - 1
        BY <1>1, <3>1, <4>1
      <4> QED BY <1>1, <1>4, <4>1
    <3>3. ASSUME NEW d \in Kernel
          PROVE  /\ Contains(agenda'[i].todo, d) => Contains(job.deps[agenda[j].kid], d)
                 /\ Contains(job.deps[agenda[j].kid], d) => Waits(agenda', done, i, d)
      <4>1. /\ Contains(agenda[j].todo, d) => Contains(job.deps[agenda[j].kid], d)
            /\ Contains(job.deps[agenda[j].kid], d) => Waits(agenda, done, j, d)
        BY <3>1 DEF n, AgendaOK, Inv
      <4>2. CASE j = 1
        <5>1. Contains(rest[1].todo, d) => Contains(agenda[1].todo, d)
          BY <1>1
        <5>2. Waits(agenda, done, 1, d) => d \in done \/ d = k \/ Contains(rest[1].todo, d)
          BY <1>1 DEF Waits
        <5>3. agenda'[i - 1].kid = k /\ i - 1 = 1
          BY <1>3, <1>4, <3>1, <4>2
        <5> QED BY <3>1, <4>1, <4>2, <5>1, <5>2, <5>3 DEF Waits
      <4>3. CASE j # 1
        <5>1. rest[j] = agenda[j]
          BY <1>1, <3>2, <4>3
        <5> QED BY <3>1, <3>2, <4>1, <4>3, <5>1 DEF Waits
      <4> QED BY <4>2, <4>3
    <3>4. agenda[j].kid \notin done /\ done' = done
      BY <3>1 DEF n, AgendaOK, Inv
    <3> HIDE DEF j
    <3> QED BY <3>1, <3>3, <3>4
  <2> QED BY <2>1, <2>2
<1>7. ASSUME NEW i \in 1 .. n, NEW j \in 1 .. n, i < j
      PROVE  Rank[agenda'[i].kid] < Rank[agenda'[j].kid]
  <2>1. /\ j - 1 \in 1 .. n - 1 /\ agenda'[j].kid = agenda[j - 1].kid
        /\ agenda[j - 1].kid \in Kernel
    <3>1. j \in 2 .. n + 1 /\ j - 1 \in 1 .. n - 1 /\ j - 1 \in 1 .. n
      BY <1>1, <1>7
    <3>2. agenda[j - 1] \in Frames /\ agenda[j - 1].kid # Main
      BY <1>1, <3>1 DEF n, Inv, AgendaOK
    <3> QED BY <1>1, <1>4, <3>1, <3>2 DEF Frames
  <2>2. ASSUME NEW a \in 1 .. n - 1, NEW b \in 1 .. n - 1, a < b
        PROVE  Rank[agenda[a].kid] < Rank[agenda[b].kid]
    BY <2>2 DEF n, Inv, AgendaOK
  <2>3. CASE i = 1
    <3>1. 1 \in 1 .. n - 1 /\ agenda[1].kid \in Kernel
      <4>1. 1 \in 1 .. n - 1 /\ 1 \in 1 .. n /\ 1 # n
        BY <1>1, <2>1
      <4>2. agenda[1] \in Frames /\ agenda[1].kid # Main
        BY <1>1, <4>1 DEF n, Inv, AgendaOK
      <4> QED BY <4>1, <4>2 DEF Frames
    <3>2. Contains(job.deps[agenda[1].kid], k)
      BY <1>1, <3>1 DEF n, Inv, AgendaOK
    <3>3. Rank[k] < Rank[agenda[1].kid]
      BY <1>1, <3>1, <3>2, JobOK DEF Inv
    <3>4. Rank[k] \in Nat /\ Rank[agenda[1].kid] \in Nat /\ Rank[agenda[j - 1].kid] \in Nat
      BY <1>1, <2>1, <3>1, JobOK DEF Inv
    <3>5. j - 1 = 1 \/ 1 < j - 1
      BY <2>1
    <3>6. Rank[k] < Rank[agenda[j - 1].kid]
      <4>1. CASE j - 1 = 1
        BY <3>3, <4>1
      <4>2. CASE 1 < j - 1
        <5>1. Rank[agenda[1].kid] < Rank[agenda[j - 1].kid]
          BY <2>1, <2>2, <3>1, <4>2
        <5> QED BY <3>3, <3>4, <5>1
      <4> QED BY <3>5, <4>1, <4>2
    <3> QED BY <1>3, <1>4, <2>1, <2>3, <3>6
  <2>4. CASE i # 1
    <3>1. i - 1 \in 1 .. n - 1 /\ i - 1 < j - 1 /\ i \in 2 .. n + 1
      BY <1>1, <1>7, <2>4
    <3>2. agenda'[i].kid = agenda[i - 1].kid
      BY <1>1, <1>4, <3>1
    <3> QED BY <2>1, <2>2, <3>1, <3>2
  <2> QED BY <2>3, <2>4
<1>8. AgendaOK'
  <2>1. Len(agenda') - 1 = n /\ Len(agenda') = n + 1
    BY <1>1, <1>4
  <2>2. \A i, j \in 1 .. n : i < j => Rank[agenda'[i].kid] < Rank[agenda'[j].kid]
    BY <1>7
  <2> QED BY <1>4, <1>5, <1>6, <2>1, <2>2, AgendaStep
<1>9. Running'
  BY <1>1, <1>4 DEF Running
<1> QED BY <1>8, <1>9, ChainInv

\* A dispatch takes its kernel off the agenda, where nothing else is it.
LEMMA DispatchAgenda ==
  ASSUME Inv, NEW k \in Kernel, Dispatch(k)
  PROVE  AgendaOK' /\ Running'
<1> DEFINE n == Len(agenda)
<1>1. /\ Ready(k) /\ agenda' = Tail(agenda) /\ done' = done \cup {k} /\ job' = job
  BY DEF Dispatch
<1>2. agenda \in Seq(Frames) /\ n \in Nat /\ n > 1 /\ agenda[1].kid = k
  BY <1>1, ReadyInputs DEF Inv, AgendaOK, Ready, Top
<1>3. /\ agenda' \in Seq(Frames) /\ Len(agenda') = n - 1
      /\ \A i \in 1 .. n - 1 : agenda'[i] = agenda[i + 1]
  BY <1>1, <1>2
<1>4. Running'
  BY <1>2, <1>3 DEF Running
<1> HIDE DEF n
<1>5. \A i \in 1 .. n - 1 : agenda'[i].kid = Main <=> i = n - 1
  <2> SUFFICES ASSUME NEW i \in 1 .. n - 1 PROVE agenda'[i].kid = Main <=> i = n - 1
    OBVIOUS
  <2>1. i + 1 \in 1 .. n /\ (i = n - 1 <=> i + 1 = n)
    BY <1>2
  <2>2. agenda[i + 1].kid = Main <=> i + 1 = n
    BY <2>1 DEF n, Inv, AgendaOK
  <2> QED BY <1>3, <2>1, <2>2
<1>6. ASSUME NEW i \in 1 .. n - 2
      PROVE  /\ i \in 1 .. n - 1 /\ i + 1 \in 1 .. n - 1 /\ i + 1 \in 1 .. n
             /\ agenda'[i] = agenda[i + 1] /\ agenda[i + 1].kid \in Kernel
  <2>1. i \in 1 .. n - 1 /\ i + 1 \in 1 .. n - 1 /\ i + 1 \in 1 .. n /\ i + 1 # n
    BY <1>2
  <2>2. agenda[i + 1] \in Frames /\ agenda[i + 1].kid # Main
    BY <1>2, <2>1 DEF n, Inv, AgendaOK
  <2> QED BY <1>3, <2>1, <2>2 DEF Frames
<1>7. ASSUME NEW i \in 1 .. n - 2
      PROVE  /\ agenda'[i].kid \notin done'
             /\ \A d \in Kernel :
                   Contains(agenda'[i].todo, d) => Contains(job.deps[agenda'[i].kid], d)
             /\ \A d \in Kernel :
                   Contains(job.deps[agenda'[i].kid], d) => Waits(agenda', done', i, d)
  <2> DEFINE j == i + 1
  <2>1. /\ j \in 1 .. n - 1 /\ agenda'[i] = agenda[j] /\ agenda[j].kid \in Kernel
        /\ j > 1 /\ j - 1 = i /\ 1 \in 1 .. n - 1
    <3>1. j \in 1 .. n - 1 /\ agenda'[i] = agenda[j] /\ agenda[j].kid \in Kernel
      BY <1>6
    <3>2. j > 1 /\ j - 1 = i /\ 1 \in 1 .. n - 1
      BY <1>2
    <3> QED BY <3>1, <3>2
  <2> HIDE DEF j
  <2>2. agenda[j].kid \notin done
    BY <2>1 DEF n, Inv, AgendaOK
  <2>3. agenda[j].kid # k
    <3>1. Rank[agenda[1].kid] < Rank[agenda[j].kid]
      BY <2>1 DEF n, Inv, AgendaOK
    <3>2. Rank[k] \in Nat
      BY JobOK DEF Inv
    <3> QED BY <1>2, <3>1, <3>2
  <2>4. ASSUME NEW d \in Kernel
        PROVE  /\ Contains(agenda[j].todo, d) => Contains(job.deps[agenda[j].kid], d)
               /\ Contains(job.deps[agenda[j].kid], d) => Waits(agenda', done', i, d)
    <3>1. /\ Contains(agenda[j].todo, d) => Contains(job.deps[agenda[j].kid], d)
          /\ Contains(job.deps[agenda[j].kid], d) => Waits(agenda, done, j, d)
      BY <2>1 DEF n, Inv, AgendaOK
    <3>2. CASE i = 1
      BY <1>1, <1>2, <2>1, <3>1, <3>2 DEF Waits
    <3>3. CASE i # 1
      <4>1. i > 1 /\ i - 1 \in 1 .. n - 1 /\ (i - 1) + 1 = i
        BY <1>2, <3>3
      <4>2. agenda'[i - 1] = agenda[j - 1]
        BY <1>3, <2>1, <4>1
      <4> QED BY <1>1, <2>1, <3>1, <4>1, <4>2 DEF Waits
    <3> QED BY <3>2, <3>3
  <2> QED BY <1>1, <2>1, <2>2, <2>3, <2>4
<1>8. ASSUME NEW i \in 1 .. n - 2, NEW j \in 1 .. n - 2, i < j
      PROVE  Rank[agenda'[i].kid] < Rank[agenda'[j].kid]
  <2>1. i + 1 < j + 1
    BY <1>8
  <2> QED BY <1>6, <2>1 DEF n, Inv, AgendaOK
<1>9. AgendaOK'
  <2>1. Len(agenda') = n - 1 /\ Len(agenda') - 1 = n - 2
    BY <1>2, <1>3
  <2>2. \A i, j \in 1 .. n - 2 : i < j => Rank[agenda'[i].kid] < Rank[agenda'[j].kid]
    BY <1>8
  <2> QED BY <1>1, <1>3, <1>5, <1>7, <2>1, <2>2, AgendaStep
<1> QED BY <1>4, <1>9

\* It writes to a buffer nobody had, and releases what it read last.
LEMMA DispatchMemory ==
  ASSUME Plain, Inv, NEW k \in Kernel, Dispatch(k)
  PROVE  MemoryOK'
<1>1. /\ Ready(k) /\ job' = job /\ evals' = evals /\ done' = done \cup {k}
      /\ raw' = RawAfter(k)
      /\ mem' = [Append(mem, Fresh(job.size[k])) EXCEPT ![Len(mem) + 1].val = Value(k)]
  BY ReadyIntact DEF Dispatch
<1>2. /\ mem \in Seq(Buffers) /\ Len(mem) \in Nat
      /\ raw \in [Kernel -> 0 .. Len(mem)] /\ raw[k] = 0 /\ Kernel' = Kernel
  BY <1>1, ReadyInputs DEF Inv, MemoryOK, Kernel
<1>3. job.size[k] \in Nat /\ Value(k) \in Nat \X Nat
  BY JobOK DEF Inv, Value
<1>4. Fresh(job.size[k]) \in Buffers
  BY <1>3 DEF Fresh, Zero, Buffers
<1>5. /\ mem' \in Seq(Buffers) /\ Len(mem') = Len(mem) + 1
      /\ \A b \in 1 .. Len(mem) : mem'[b] = mem[b]
      /\ mem'[Len(mem) + 1].val = Value(k)
  <2> DEFINE long == Append(mem, Fresh(job.size[k]))
             b == Len(mem) + 1
  <2>1. /\ long \in Seq(Buffers) /\ Len(long) = b /\ b \in 1 .. Len(long)
        /\ long[b] \in Buffers
        /\ \A x \in 1 .. Len(mem) : long[x] = mem[x]
    BY <1>2, <1>4
  <2>2. [long[b] EXCEPT !.val = Value(k)] \in Buffers
        /\ [long[b] EXCEPT !.val = Value(k)].val = Value(k)
    <3> HIDE DEF long, b
    <3> QED BY <1>3, <2>1 DEF Buffers
  <2>3. mem' = [long EXCEPT ![b] = [long[b] EXCEPT !.val = Value(k)]]
    BY <1>1
  <2>4. \A x \in 1 .. Len(mem) : x # b
    BY <1>2
  <2> HIDE DEF long
  <2> QED BY <2>1, <2>2, <2>3, <2>4
<1>6. \A d \in Kernel : raw'[d] = IF d = k THEN Len(mem) + 1
                                ELSE IF d \in Released(k) THEN 0 ELSE raw[d]
  BY <1>1, ReadyIntact DEF RawAfter
<1>7. raw' \in [Kernel -> 0 .. Len(mem')]
  <2>1. raw' = [d \in Kernel |-> IF d = k THEN Len(mem) + 1
                                ELSE IF d \in Released(k) THEN 0 ELSE raw[d]]
    BY <1>1, ReadyIntact DEF RawAfter
  <2>2. \A d \in Kernel : raw[d] \in 0 .. Len(mem) + 1
    BY <1>2
  <2> QED BY <1>2, <1>5, <2>1, <2>2
<1>8. \A d \in Kernel \ done' : raw'[d] = 0
  BY <1>1, <1>6 DEF Inv, MemoryOK
<1>9. \A i, j \in Kernel : i # j /\ raw'[i] # 0 => raw'[i] # raw'[j]
  <2>1. \A d \in Kernel : raw[d] # Len(mem) + 1 /\ Len(mem) + 1 # 0
    BY <1>2
  <2>2. \A i, j \in Kernel : i # j /\ raw[i] # 0 => raw[i] # raw[j]
    BY DEF Inv, MemoryOK
  <2> QED BY <1>6, <2>1, <2>2
<1>10. ASSUME NEW d \in done', raw'[d] # 0
       PROVE  mem'[raw'[d]].val = Value(d)
  <2>1. d \in Kernel
    BY <1>1, <1>10 DEF Inv
  <2>2. CASE d = k
    BY <1>5, <1>6, <2>1, <2>2
  <2>3. CASE d # k
    <3>1. d \in done /\ raw'[d] = raw[d] /\ raw[d] \in 1 .. Len(mem)
      BY <1>1, <1>2, <1>6, <1>10, <2>1, <2>3
    <3>2. mem[raw[d]].val = Value(d)
      BY <1>1, <3>1 DEF Inv, MemoryOK, Ready
    <3> QED BY <1>5, <3>1, <3>2
  <2> QED BY <2>2, <2>3
<1>11. \A d \in done' : raw'[d] # 0 => mem'[raw'[d]].val = <<evals', d>>
  BY <1>1, <1>10 DEF Value
<1> QED BY <1>2, <1>5, <1>7, <1>8, <1>9, <1>11 DEF MemoryOK, Value

\* It is one reader less for each of its inputs.
LEMMA DispatchUses ==
  ASSUME Plain, Inv, NEW k \in Kernel, Dispatch(k)
  PROVE  UsesOK'
<1>1. /\ Ready(k) /\ job' = job /\ done' = done \cup {k} /\ raw' = RawAfter(k)
      /\ uses' = [d \in Kernel |-> IF Contains(job.deps[k], d) /\ uses[d] > 0
                                   THEN uses[d] - 1 ELSE uses[d]]
      /\ Kernel' = Kernel
  BY DEF Dispatch, Kernel
<1>2. uses \in [Kernel -> Nat] /\ k \notin done /\ Len(mem) \in Nat /\ Target(k) = Len(mem) + 1
  <2>1. uses \in [Kernel -> Nat] /\ Len(mem) \in Nat
    BY DEF Inv, UsesOK, MemoryOK
  <2>2. k \notin done
    BY <1>1, ReadyInputs
  <2> QED BY <1>1, <2>1, <2>2, ReadyIntact
<1>3. uses' \in [Kernel -> Nat]
  <2>1. \A d \in Kernel : uses[d] \in Nat /\ (uses[d] > 0 => uses[d] - 1 \in Nat)
    BY <1>2
  <2> QED BY <1>1, <2>1
<1>4. ASSUME NEW d \in Kernel
      PROVE  uses'[d] = Cardinality(Readers(job, d, Kernel \ done'))
  <2> DEFINE R == Readers(job, d, Kernel \ done)
  <2>1. IsFiniteSet(R) /\ uses[d] = Cardinality(R)
    BY JobOK, FS_Subset DEF Inv, UsesOK, Readers
  <2>2. CASE Contains(job.deps[k], d)
    <3>1. k \in R /\ Readers(job, d, Kernel \ done') = R \ {k}
      BY <1>1, <1>2, <2>2 DEF Readers
    <3> HIDE DEF R
    <3>2. Cardinality(R \ {k}) = Cardinality(R) - 1
      BY <2>1, <3>1, FS_RemoveElement
    <3>3. Cardinality(R) \in Nat /\ Cardinality(R) # 0
      BY <2>1, <3>1, FS_EmptySet, FS_CardinalityType
    <3>4. Cardinality(R) > 0
      BY <3>3
    <3> QED BY <1>1, <2>1, <2>2, <3>1, <3>2, <3>4
  <2>3. CASE ~Contains(job.deps[k], d)
    <3>1. Readers(job, d, Kernel \ done') = R
      BY <1>1, <2>3 DEF Readers
    <3> QED BY <1>1, <2>1, <2>3, <3>1
  <2> QED BY <2>2, <2>3
<1>5. ASSUME NEW d \in done', uses'[d] > 0
      PROVE  raw'[d] # 0
  <2>1. d \in Kernel
    BY <1>1, <1>5 DEF Inv
  <2>2. CASE d = k
    BY <1>1, <1>2, <2>1, <2>2 DEF RawAfter
  <2>3. CASE d # k
    <3>1. d \in done /\ uses[d] > 0
      BY <1>1, <1>2, <1>5, <2>1, <2>3
    <3>2. raw[d] # 0
      BY <3>1 DEF Inv, UsesOK
    <3>3. d \notin Released(k)
      BY <1>1, <1>2, <1>5, <2>1 DEF Released, Spent
    <3> QED BY <1>1, <2>1, <2>3, <3>2, <3>3 DEF RawAfter
  <2> QED BY <2>2, <2>3
<1>6. \A d \in Kernel' : uses'[d] = Cardinality(Readers(job', d, Kernel' \ done'))
  BY <1>1, <1>4
<1> QED BY <1>1, <1>3, <1>5, <1>6 DEF UsesOK

LEMMA FinishInv == Inv /\ Finish => Inv'
<1> SUFFICES ASSUME Inv, Finish
             PROVE  Inv'
  OBVIOUS
<1>1. /\ agenda' = << >> /\ job' = job /\ evals' = evals /\ done' = done
      /\ uses' = uses /\ raw' = raw /\ Kernel' = Kernel
  BY DEF Finish, Kernel
<1>2. mem \in Seq(Buffers) /\ Len(mem) \in Nat /\ DOMAIN mem = 1 .. Len(mem)
  BY DEF Inv, MemoryOK
<1>3. mem' \in Seq(Buffers) /\ Len(mem') = Len(mem)
  <2>1. mem' = [b \in 1 .. Len(mem) |-> IF b \in FreedBufs
                             THEN [mem[b] EXCEPT !.val = Freed] ELSE mem[b]]
    BY <1>2 DEF Finish
  <2>2. ASSUME NEW b \in 1 .. Len(mem)
        PROVE  [mem[b] EXCEPT !.val = Freed] \in Buffers /\ mem[b] \in Buffers
    <3>1. mem[b] \in Buffers /\ Freed \in Nat \X Nat
      BY <1>2 DEF Freed
    <3> QED BY <3>1 DEF Buffers
  <2> QED BY <1>2, <2>1, <2>2
<1>4. AgendaOK'
  BY <1>1 DEF AgendaOK
<1>5. MemoryOK'
  BY <1>1, <1>3 DEF Inv, MemoryOK, Running
<1>6. UsesOK'
  BY <1>1 DEF Inv, UsesOK, Readers
<1> QED BY <1>1, <1>4, <1>5, <1>6 DEF Inv

LEMMA StutterInv == Inv /\ UNCHANGED vars => Inv'
<1> SUFFICES ASSUME Inv, UNCHANGED vars
             PROVE  Inv'
  OBVIOUS
<1>1. /\ job' = job /\ evals' = evals /\ agenda' = agenda /\ done' = done
      /\ uses' = uses /\ raw' = raw /\ mem' = mem /\ Kernel' = Kernel
      /\ Frames' = Frames /\ Rank' = Rank
  BY DEF vars, Kernel, Frames, Rank
<1>2. AgendaOK'
  BY <1>1 DEF Inv, AgendaOK
<1>3. MemoryOK'
  BY <1>1 DEF Inv, MemoryOK, Running, Value
<1>4. UsesOK'
  BY <1>1 DEF Inv, UsesOK, Readers
<1> QED BY <1>1, <1>2, <1>3, <1>4 DEF Inv

-----------------------------------------------------------------------------
\* In every reachable state of a run without views the invariant holds.
THEOREM PlainInvariant ==
  ASSUME Plain
  PROVE  Spec => []Inv
<1>1. Inv /\ [Next]_vars => Inv'
  <2> SUFFICES ASSUME Inv, [Next]_vars
               PROVE  Inv'
    OBVIOUS
  <2>1. CASE Cached
    BY <2>1, CachedInv
  <2>2. CASE ForceDep
    BY <2>2, ForceInv
  <2>3. ASSUME NEW k \in Kernel, Dispatch(k)
        PROVE  Inv'
    <3>1. /\ job' \in Cases \cup Later /\ evals' \in Nat
          /\ done' \subseteq Kernel'
      BY <2>3 DEF Inv, Dispatch, Kernel
    <3> QED BY <2>3, <3>1, DispatchAgenda, DispatchMemory, DispatchUses DEF Inv
  <2>4. CASE Finish
    BY <2>4, FinishInv
  <2>5. CASE Again
    BY <2>5, AgainInv
  <2>6. CASE UNCHANGED vars
    BY <2>6, StutterInv
  <2> QED BY <2>1, <2>2, <2>3, <2>4, <2>5, <2>6 DEF Next, Step
<1> QED BY <1>1, InitInv, PTL DEF Spec

\* Without views a kernel always finds in its inputs what their kernels
\* computed, however often an output is read and whatever slots the plan
\* assigned: the order in which the reducer forces the EXEC terms
\* (interact/_.c) and the release after the last read are right by themselves.
THEOREM PlainReadsIntact ==
  ASSUME Plain
  PROVE  Spec => []ReadsIntact
<1>1. Inv => ReadsIntact
  BY ReadyIntact DEF ReadsIntact
<1> QED BY <1>1, PlainInvariant, PTL

-----------------------------------------------------------------------------
(***************************************************************************)
(* Room. Here outputs may be bound to slots, slots reused, and buffers     *)
(* handed over by released outputs; the order of execution plays no part.  *)
(* A buffer that a slot has, or may come to have, is large enough for      *)
(* every output that the plan binds to the slot.                           *)
(***************************************************************************)
RoomyPlans == \A c \in Cases \cup Later : Roomy(c)

Tenant(k, s) == k \in Kernel /\ k \in job.viewed /\ job.slot[k] = s
Serves(bytes, s) == \A k : Tenant(k, s) => bytes >= job.size[k]

SlotRecords == [buf : Nat, bytes : Nat, detached : BOOLEAN]
Allocated ==
    /\ job \in Cases \cup Later /\ evals \in Nat
    /\ mem \in Seq(Buffers)
    /\ slots \in [Slot -> SlotRecords]
    /\ raw \in [Kernel -> 0 .. Len(mem)]
    /\ out \in [Kernel -> 0 .. Len(mem)]

OutputsServe ==
    \A k \in Kernel :
        /\ k \in job.viewed => out[k] = raw[k]
        /\ raw[k] # 0 => mem[raw[k]].bytes >= job.size[k]
        /\ raw[k] # 0 /\ ~IsRoot(k) => Serves(mem[raw[k]].bytes, job.slot[k])

SlotsServe ==
    \A s \in Slot :
        IF slots[s].buf = 0 THEN Serves(slots[s].bytes, s)
        ELSE slots[s].buf \in 1 .. Len(mem) /\ Serves(mem[slots[s].buf].bytes, s)

Room == Allocated /\ (Running => OutputsServe /\ SlotsServe)

\* What the plans say of the job at hand.
LEMMA RoomyJob ==
  ASSUME RoomyPlans, job \in Cases \cup Later
  PROVE  /\ \A s \in Slot : job.room[s] \in Nat
         /\ \A k \in Kernel : job.size[k] \in Nat /\ ~Contains(job.deps[k], k)
         /\ \A s : \A k : Tenant(k, s) => s \in Slot /\ job.room[s] >= job.size[k]
         /\ \A s : \A k : Tenant(k, s) => \A d \in Kernel :
               d \notin job.viewed /\ job.slot[d] = s /\ ~IsRoot(d) => job.size[d] >= job.size[k]
<1>1. Roomy(job)
  BY DEF RoomyPlans
<1>2. \A k \in Kernel : job.size[k] \in Nat /\ ~Contains(job.deps[k], k)
  <2>1. \A k \in Kernel : job.size[k] \in Nat /\ Rank[k] \in Nat
    BY JobOK
  <2>2. \A k \in Kernel : Contains(job.deps[k], k) => Rank[k] < Rank[k]
    BY JobOK
  <2> QED BY <2>1, <2>2
<1>3. \A s \in Slot : job.room[s] \in Nat
  BY <1>1 DEF Roomy, Slot
<1>4. ASSUME NEW s, NEW k, Tenant(k, s)
      PROVE  /\ s \in Slot /\ job.room[s] >= job.size[k]
             /\ \A d \in Kernel :
                   d \notin job.viewed /\ job.slot[d] = s /\ ~IsRoot(d) => job.size[d] >= job.size[k]
  <2>1. k \in Kernel /\ job.slot[k] = s /\ FitsSlot(job, k) /\ FitsDonors(job, k)
    BY <1>1, <1>4 DEF Roomy, Tenant, Kernel, Nodes
  <2>2. s \in Slot /\ job.room[s] >= job.size[k]
    BY <1>2, <1>3, <2>1 DEF FitsSlot, Slot
  <2>3. ASSUME NEW d \in Kernel, d \notin job.viewed, job.slot[d] = s, ~IsRoot(d)
        PROVE  job.size[d] >= job.size[k]
    BY <1>2, <2>1, <2>3 DEF FitsDonors, Nodes, Kernel, IsRoot
  <2> QED BY <2>2, <2>3
<1> QED BY <1>2, <1>3, <1>4

\* A dispatch finds room where it writes, and what it writes to serves the slot of the kernel.
LEMMA TargetServes ==
  ASSUME RoomyPlans, Room, NEW k \in Kernel, Ready(k)
  PROVE  /\ MemoryFor(k) \in Seq(Buffers)
         /\ Len(MemoryFor(k)) \in Nat /\ Len(mem) \in Nat /\ Len(mem) <= Len(MemoryFor(k))
         /\ \A b \in 1 .. Len(mem) : MemoryFor(k)[b] = mem[b]
         /\ Target(k) \in 1 .. Len(MemoryFor(k))
         /\ MemoryFor(k)[Target(k)].bytes >= job.size[k]
         /\ Binds(k) \/ ~IsRoot(k) => Serves(MemoryFor(k)[Target(k)].bytes, job.slot[k])
         /\ Binds(k) => job.slot[k] \in Slot
<1>1. /\ Allocated /\ OutputsServe /\ SlotsServe
      /\ mem \in Seq(Buffers) /\ Len(mem) \in Nat /\ job.size[k] \in Nat
      /\ raw[k] \in 0 .. Len(mem) /\ out[k] \in 0 .. Len(mem)
  BY RoomyJob DEF Room, Allocated, Ready
<1>2. Binds(k) => Tenant(k, job.slot[k]) /\ job.slot[k] \in Slot
  BY <1>1, RoomyJob DEF Binds, Tenant, Allocated
<1>3. ASSUME NEW bytes \in Nat
      PROVE  Fresh(bytes) \in Buffers /\ Fresh(bytes).bytes = bytes
  BY DEF Fresh, Zero, Buffers
<1> DEFINE new == Fresh(job.size[k])
           spare == Fresh(SlotOf(k).bytes)
<1>4. new \in Buffers /\ new.bytes = job.size[k]
  BY <1>1, <1>3
<1>5. /\ Ensured(k) \in Seq(Buffers) /\ Len(Ensured(k)) \in Nat /\ Len(mem) <= Len(Ensured(k))
      /\ \A b \in 1 .. Len(mem) : Ensured(k)[b] = mem[b]
      /\ raw[k] = 0 => Len(Ensured(k)) = Len(mem) + 1 /\ Ensured(k)[Len(mem) + 1] = new
  <2> HIDE DEF new
  <2>1. CASE raw[k] = 0
    <3>1. Ensured(k) = Append(mem, new)
      BY <2>1 DEF Ensured, new
    <3> QED BY <1>1, <1>4, <3>1
  <2>2. CASE raw[k] # 0
    BY <1>1, <2>2 DEF Ensured
  <2> QED BY <2>1, <2>2
<1>6. CASE Binds(k) /\ SlotOf(k).buf = 0
  <2> HIDE DEF new
  <2>1. SlotOf(k) \in SlotRecords /\ Serves(SlotOf(k).bytes, job.slot[k])
    BY <1>1, <1>2, <1>6 DEF Allocated, SlotsServe, SlotOf
  <2>2. SlotOf(k).bytes \in Nat /\ SlotOf(k).bytes >= job.size[k]
    BY <1>2, <1>6, <2>1 DEF SlotRecords, Serves
  <2>3. spare \in Buffers /\ spare.bytes = SlotOf(k).bytes
    BY <1>3, <2>2
  <2>4. MemoryFor(k) = Append(Ensured(k), spare) /\ Target(k) = Len(MemoryFor(k))
    BY <1>6 DEF MemoryFor, Target
  <2> HIDE DEF spare
  <2>5. /\ MemoryFor(k) \in Seq(Buffers) /\ Len(MemoryFor(k)) = Len(Ensured(k)) + 1
        /\ \A b \in 1 .. Len(Ensured(k)) : MemoryFor(k)[b] = Ensured(k)[b]
        /\ MemoryFor(k)[Len(Ensured(k)) + 1] = spare
    BY <1>5, <2>3, <2>4
  <2>6. /\ Len(MemoryFor(k)) \in Nat /\ Len(mem) <= Len(MemoryFor(k))
        /\ \A b \in 1 .. Len(mem) : b \in 1 .. Len(Ensured(k))
        /\ Target(k) \in 1 .. Len(MemoryFor(k))
    BY <1>1, <1>5, <2>4, <2>5
  <2>7. MemoryFor(k)[Target(k)].bytes = SlotOf(k).bytes
    BY <2>3, <2>4, <2>5
  <2> QED BY <1>1, <1>2, <1>5, <1>6, <2>1, <2>2, <2>5, <2>6, <2>7
<1>7. CASE Binds(k) /\ SlotOf(k).buf # 0
  <2>1. MemoryFor(k) = Ensured(k) /\ Target(k) = SlotOf(k).buf
    BY <1>7 DEF MemoryFor, Target
  <2>2. Target(k) \in 1 .. Len(mem) /\ Serves(mem[Target(k)].bytes, job.slot[k])
    BY <1>1, <1>2, <1>7, <2>1 DEF SlotsServe, SlotOf
  <2>3. MemoryFor(k)[Target(k)] = mem[Target(k)] /\ Target(k) \in 1 .. Len(MemoryFor(k))
    BY <1>1, <1>5, <2>1, <2>2
  <2>4. mem[Target(k)].bytes >= job.size[k]
    BY <1>2, <1>7, <2>2 DEF Serves
  <2> QED BY <1>1, <1>2, <1>5, <1>7, <2>1, <2>2, <2>3, <2>4
<1>8. CASE ~Binds(k) /\ raw[k] = 0
  <2>1. k \notin job.viewed
    BY <1>1, <1>8 DEF Binds, OutputsServe
  <2>2. MemoryFor(k) = Ensured(k) /\ Target(k) = Len(mem) + 1
    BY <1>5, <1>8 DEF MemoryFor, Target
  <2>3. MemoryFor(k)[Target(k)].bytes = job.size[k]
    BY <1>4, <1>5, <1>8, <2>2
  <2>4. ~IsRoot(k) => Serves(job.size[k], job.slot[k])
    BY <1>1, <2>1, RoomyJob DEF Serves, Allocated
  <2>5. Target(k) \in 1 .. Len(MemoryFor(k))
    BY <1>1, <1>5, <1>8, <2>2
  <2> QED BY <1>1, <1>5, <1>8, <2>2, <2>3, <2>4, <2>5
<1>9. CASE ~Binds(k) /\ raw[k] # 0
  <2>1. MemoryFor(k) = mem /\ Target(k) = raw[k]
    BY <1>9 DEF MemoryFor, Target, Ensured
  <2>2. Target(k) \in 1 .. Len(mem)
    BY <1>1, <1>9, <2>1
  <2>3. mem[raw[k]].bytes >= job.size[k] /\ (~IsRoot(k) => Serves(mem[raw[k]].bytes, job.slot[k]))
    BY <1>1, <1>9 DEF OutputsServe
  <2> QED BY <1>1, <1>9, <2>1, <2>2, <2>3
<1> QED BY <1>6, <1>7, <1>8, <1>9

\* Dispatch writes a value, but leaves every buffer as large as it was.
LEMMA DispatchSizes ==
  ASSUME RoomyPlans, Room, NEW k \in Kernel, Dispatch(k)
  PROVE  /\ mem' \in Seq(Buffers) /\ Len(mem') = Len(MemoryFor(k))
         /\ \A b \in 1 .. Len(mem') : mem'[b].bytes = MemoryFor(k)[b].bytes
         /\ \A b \in 1 .. Len(mem) : b \in 1 .. Len(mem') /\ mem'[b].bytes = mem[b].bytes
<1> DEFINE long == MemoryFor(k)
           b == Target(k)
           v == IF InputsIntact(k) /\ OutputFits(k) THEN Value(k) ELSE Bad
           new == [long[b] EXCEPT !.val = v]
<1>1. /\ long \in Seq(Buffers) /\ Len(long) \in Nat /\ Len(mem) \in Nat /\ Len(mem) <= Len(long)
      /\ \A x \in 1 .. Len(mem) : long[x] = mem[x]
      /\ b \in 1 .. Len(long)
  BY TargetServes DEF Dispatch
<1>2. v \in Nat \X Nat
  <2>1. evals \in Nat /\ k \in Nat
    BY JobOK DEF Room, Allocated
  <2>2. Value(k) \in Nat \X Nat /\ Bad \in Nat \X Nat
    BY <2>1 DEF Value, Bad
  <2> QED BY <2>2
<1>3. mem' = [long EXCEPT ![b] = new]
  BY DEF Dispatch
<1> HIDE DEF long, b, v
<1>4. new \in Buffers /\ new.bytes = long[b].bytes
  <2>1. long[b] \in Buffers
    BY <1>1
  <2> QED BY <1>2, <2>1 DEF Buffers
<1> HIDE DEF new
<1>5. /\ mem' \in Seq(Buffers) /\ Len(mem') = Len(long)
      /\ \A x \in 1 .. Len(long) : mem'[x] = IF x = b THEN new ELSE long[x]
  BY <1>1, <1>3, <1>4
<1>6. \A x \in 1 .. Len(mem') : mem'[x].bytes = long[x].bytes
  BY <1>4, <1>5
<1>7. \A x \in 1 .. Len(mem) : x \in 1 .. Len(mem')
  BY <1>1, <1>5
<1> QED BY <1>1, <1>5, <1>6, <1>7 DEF long

\* What is released serves its slot from then on.
LEMMA DispatchRoom ==
  ASSUME RoomyPlans, Room, NEW k \in Kernel, Dispatch(k)
  PROVE  Room'
<1> DEFINE t == Target(k)
<1>1. /\ Ready(k) /\ job' = job /\ evals' = evals /\ raw' = RawAfter(k) /\ out' = OutAfter(k)
      /\ slots' = Detach(k) /\ Kernel' = Kernel /\ Slot' = Slot
  BY DEF Dispatch, Kernel, Slot
<1>2. Allocated /\ OutputsServe /\ SlotsServe
  BY <1>1 DEF Room, Ready
<1>3. /\ mem' \in Seq(Buffers) /\ Len(mem) \in Nat /\ Len(mem') \in Nat
      /\ \A b \in 1 .. Len(mem) : b \in 1 .. Len(mem') /\ mem'[b].bytes = mem[b].bytes
      /\ t \in 1 .. Len(mem') /\ mem'[t].bytes >= job.size[k]
      /\ Binds(k) \/ ~IsRoot(k) => Serves(mem'[t].bytes, job.slot[k])
      /\ Binds(k) => job.slot[k] \in Slot
  BY <1>1, DispatchSizes, TargetServes
<1> HIDE DEF t
<1>4. \A d \in Kernel : /\ raw'[d] = IF d = k THEN t ELSE IF d \in Released(k) THEN 0 ELSE raw[d]
                        /\ out'[d] = IF d = k /\ Binds(k) THEN t
                                     ELSE IF d \in Released(k) THEN 0 ELSE out[d]
  BY <1>1 DEF RawAfter, OutAfter, t
<1>5. raw' \in [Kernel -> 0 .. Len(mem')] /\ out' \in [Kernel -> 0 .. Len(mem')]
  <2>1. \A d \in Kernel : raw[d] \in 0 .. Len(mem') /\ out[d] \in 0 .. Len(mem')
    <3> SUFFICES ASSUME NEW x \in 0 .. Len(mem) PROVE x \in 0 .. Len(mem')
      BY <1>2 DEF Allocated
    <3>1. x = 0 \/ x \in 1 .. Len(mem)
      BY <1>3
    <3> QED BY <1>3, <3>1
  <2>2. t \in 0 .. Len(mem') /\ 0 \in 0 .. Len(mem')
    BY <1>3
  <2>3. raw' = [d \in Kernel |-> raw'[d]] /\ out' = [d \in Kernel |-> out'[d]]
    BY <1>1 DEF RawAfter, OutAfter
  <2>4. \A d \in Kernel : raw'[d] \in 0 .. Len(mem') /\ out'[d] \in 0 .. Len(mem')
    BY <1>4, <2>1, <2>2
  <2> QED BY <2>3, <2>4
<1>6. ASSUME NEW d \in Kernel
      PROVE  /\ d \in job.viewed => out'[d] = raw'[d]
             /\ raw'[d] # 0 => mem'[raw'[d]].bytes >= job.size[d]
             /\ raw'[d] # 0 /\ ~IsRoot(d) => Serves(mem'[raw'[d]].bytes, job.slot[d])
  <2>1. CASE d = k
    <3>1. raw'[k] = t
      BY <1>4
    <3>2. ASSUME k \in job.viewed PROVE out'[k] = t
      <4>1. CASE Binds(k)
        BY <1>4, <4>1
      <4>2. CASE ~Binds(k)
        <5>1. out[k] # 0 /\ out[k] = raw[k] /\ t = raw[k]
          BY <1>2, <3>2, <4>2 DEF Binds, OutputsServe, t, Target
        <5>2. k \notin Released(k)
          BY <1>2, RoomyJob DEF Allocated, Released, Spent
        <5> QED BY <1>4, <4>2, <5>1, <5>2
      <4> QED BY <4>1, <4>2
    <3> QED BY <1>3, <2>1, <3>1, <3>2
  <2>2. CASE d # k
    <3>1. d \in job.viewed => out[d] = raw[d]
      BY <1>2 DEF OutputsServe
    <3>2. ASSUME raw'[d] # 0
          PROVE  raw'[d] = raw[d] /\ raw[d] \in 1 .. Len(mem) /\ mem'[raw[d]].bytes = mem[raw[d]].bytes
      <4>1. raw'[d] = raw[d] /\ raw[d] # 0 /\ raw[d] \in 0 .. Len(mem)
        BY <1>2, <1>4, <2>2, <3>2 DEF Allocated
      <4>2. raw[d] \in 1 .. Len(mem)
        BY <1>3, <4>1
      <4> QED BY <1>3, <4>1, <4>2
    <3>3. /\ raw[d] # 0 => mem[raw[d]].bytes >= job.size[d]
          /\ raw[d] # 0 /\ ~IsRoot(d) => Serves(mem[raw[d]].bytes, job.slot[d])
      BY <1>2 DEF OutputsServe
    <3> QED BY <1>4, <2>2, <3>1, <3>2, <3>3
  <2> QED BY <2>1, <2>2
<1>7. ASSUME NEW s \in Slot
      PROVE  /\ slots'[s] \in SlotRecords
             /\ IF slots'[s].buf = 0 THEN Serves(slots'[s].bytes, s)
                ELSE slots'[s].buf \in 1 .. Len(mem') /\ Serves(mem'[slots'[s].buf].bytes, s)
  <2>0. slots[s] \in SlotRecords
    BY <1>2 DEF Allocated
  <2>1. CASE \E d \in Released(k) : job.slot[d] = s
    <3> DEFINE d == CHOOSE d \in Released(k) : job.slot[d] = s
    <3>1. d \in Released(k) /\ job.slot[d] = s
      BY <2>1
    <3>2. slots'[s] = [buf |-> raw[d], bytes |-> job.size[d], detached |-> TRUE]
      BY <1>1, <2>1 DEF Detach
    <3> HIDE DEF d
    <3>3. d \in Kernel /\ raw[d] # 0 /\ ~IsRoot(d) /\ raw[d] \in 0 .. Len(mem) /\ job.size[d] \in Nat
      BY <1>2, <3>1, RoomyJob DEF Released, Spent, Allocated
    <3>4. raw[d] \in 1 .. Len(mem) /\ raw[d] \in Nat
      BY <1>3, <3>3
    <3>5. Serves(mem[raw[d]].bytes, s)
      BY <1>2, <3>1, <3>3 DEF OutputsServe
    <3>6. slots'[s] \in SlotRecords /\ slots'[s].buf = raw[d]
      BY <3>2, <3>3, <3>4 DEF SlotRecords
    <3> QED BY <1>3, <3>3, <3>4, <3>5, <3>6
  <2>2. CASE (~\E d \in Released(k) : job.slot[d] = s) /\ Binds(k) /\ job.slot[k] = s
    <3>1. slots'[s] = [slots[s] EXCEPT !.buf = t, !.detached = FALSE]
      BY <1>1, <1>2, <2>2 DEF Detach, Bound, Allocated, t
    <3>2. t \in Nat /\ t # 0
      BY <1>3
    <3>3. slots'[s] \in SlotRecords /\ slots'[s].buf = t
      BY <2>0, <3>1, <3>2 DEF SlotRecords
    <3> QED BY <1>3, <2>2, <3>2, <3>3
  <2>3. CASE (~\E d \in Released(k) : job.slot[d] = s) /\ ~(Binds(k) /\ job.slot[k] = s)
    <3>1. slots'[s] = slots[s]
      BY <1>1, <1>2, <2>3 DEF Detach, Bound, Allocated
    <3>2. IF slots[s].buf = 0 THEN Serves(slots[s].bytes, s)
          ELSE slots[s].buf \in 1 .. Len(mem) /\ Serves(mem[slots[s].buf].bytes, s)
      BY <1>2 DEF SlotsServe
    <3> QED BY <1>3, <2>0, <3>1, <3>2
  <2> QED BY <2>1, <2>2, <2>3
<1>8. Allocated'
  <2>1. slots' = [s \in Slot |-> slots'[s]]
    BY <1>1 DEF Detach
  <2>2. slots' \in [Slot -> SlotRecords]
    BY <1>7, <2>1
  <2> QED BY <1>1, <1>2, <1>3, <1>5, <2>2 DEF Allocated
<1>9. OutputsServe' /\ SlotsServe'
  BY <1>1, <1>6, <1>7 DEF OutputsServe, SlotsServe, Serves, Tenant, IsRoot
<1> QED BY <1>8, <1>9 DEF Room

\* A new evaluation starts with the rooms of its plan.
LEMMA StartRoom ==
  ASSUME RoomyPlans, NEW c \in Cases \cup Later
  PROVE  /\ \A s \in DOMAIN c.room : c.room[s] \in Nat
         /\ \A k \in DOMAIN c.deps : k \in c.viewed => c.size[k] <= c.room[c.slot[k]]
         /\ \A k \in DOMAIN c.deps : c.size[k] \in Nat
<1>1. Roomy(c) /\ GraphOK(c)
  BY GraphsOK DEF RoomyPlans
<1> QED BY <1>1 DEF Roomy, FitsSlot, Nodes, GraphOK

LEMMA InitRoom == RoomyPlans /\ Init => Room
<1> SUFFICES ASSUME RoomyPlans, NEW c \in Cases, job = c, evals = 1, mem = << >>,
                    raw = [k \in DOMAIN c.deps |-> 0], out = [k \in DOMAIN c.deps |-> 0],
                    slots = [s \in DOMAIN c.room |->
                                [buf |-> 0, bytes |-> c.room[s], detached |-> FALSE]]
             PROVE  Room
  BY DEF Init
<1>1. Allocated
  BY StartRoom DEF Allocated, Kernel, Slot, SlotRecords
<1>2. OutputsServe
  BY DEF OutputsServe, Kernel
<1>3. SlotsServe
  BY StartRoom DEF SlotsServe, Serves, Tenant, Slot, Kernel
<1> QED BY <1>1, <1>2, <1>3 DEF Room

LEMMA AgainRoom == RoomyPlans /\ Room /\ Again => Room'
<1> SUFFICES ASSUME RoomyPlans, Room, NEW c \in Later, StartEval(c), mem' = mem
             PROVE  Room'
  BY DEF Again
<1>1. /\ job' = c /\ evals' \in Nat /\ mem \in Seq(Buffers)
      /\ raw' = [k \in DOMAIN c.deps |-> 0] /\ out' = [k \in DOMAIN c.deps |-> 0]
      /\ slots' = [s \in DOMAIN c.room |->
                      [buf |-> 0, bytes |-> c.room[s], detached |-> FALSE]]
      /\ Kernel' = DOMAIN c.deps /\ Slot' = DOMAIN c.room
  BY DEF StartEval, Room, Allocated, Kernel, Slot
<1>2. Allocated'
  BY <1>1, StartRoom DEF Allocated, SlotRecords
<1>3. OutputsServe'
  BY <1>1 DEF OutputsServe
<1>4. SlotsServe'
  BY <1>1, StartRoom DEF SlotsServe, Serves, Tenant
<1> QED BY <1>2, <1>3, <1>4 DEF Room

\* The end of an evaluation leaves nobody to serve.
LEMMA FinishRoom == Room /\ Finish => Room'
<1> SUFFICES ASSUME Room, Finish
             PROVE  Room'
  OBVIOUS
<1>1. /\ ~Running' /\ job' = job /\ evals' = evals /\ raw' = raw /\ out' = out
      /\ Kernel' = Kernel /\ Slot' = Slot
  BY DEF Finish, Running, Kernel, Slot
<1>2. Allocated /\ mem \in Seq(Buffers) /\ Len(mem) \in Nat /\ DOMAIN mem = 1 .. Len(mem)
  BY DEF Room, Allocated
<1>3. mem' \in Seq(Buffers) /\ Len(mem') = Len(mem)
  <2>1. mem' = [b \in 1 .. Len(mem) |-> IF b \in FreedBufs
                             THEN [mem[b] EXCEPT !.val = Freed] ELSE mem[b]]
    BY <1>2 DEF Finish
  <2>2. ASSUME NEW b \in 1 .. Len(mem)
        PROVE  [mem[b] EXCEPT !.val = Freed] \in Buffers /\ mem[b] \in Buffers
    <3>1. mem[b] \in Buffers /\ Freed \in Nat \X Nat
      BY <1>2 DEF Freed
    <3> QED BY <3>1 DEF Buffers
  <2> QED BY <1>2, <2>1, <2>2
<1>4. slots' \in [Slot -> SlotRecords]
  <2>1. slots' = [s \in Slot |-> IF s \in ToFree
                                 THEN [slots[s] EXCEPT !.buf = 0, !.detached = FALSE]
                                 ELSE slots[s]]
    BY DEF Finish
  <2>2. ASSUME NEW s \in Slot
        PROVE  /\ slots[s] \in SlotRecords
               /\ [slots[s] EXCEPT !.buf = 0, !.detached = FALSE] \in SlotRecords
    BY <1>2 DEF Allocated, SlotRecords
  <2> QED BY <2>1, <2>2
<1> QED BY <1>1, <1>2, <1>3, <1>4 DEF Room, Allocated

\* Nothing else touches buffers, outputs or slots.
LEMMA StillRoom ==
  ASSUME Room, Running' => Running, UNCHANGED <<job, evals, raw, out, slots, mem>>
  PROVE  Room'
<1>1. Kernel' = Kernel /\ Slot' = Slot
  BY DEF Kernel, Slot
<1> QED BY <1>1 DEF Room, Allocated, OutputsServe, SlotsServe, Serves, Tenant, IsRoot

LEMMA RoomAlways ==
  ASSUME RoomyPlans
  PROVE  Spec => []Room
<1>1. Room /\ [Next]_vars => Room'
  <2> SUFFICES ASSUME Room, [Next]_vars
               PROVE  Room'
    OBVIOUS
  <2>1. CASE Cached
    BY <2>1, StillRoom DEF Cached
  <2>2. CASE ForceDep
    BY <2>2, StillRoom DEF ForceDep
  <2>3. CASE \E k \in Kernel : Dispatch(k)
    BY <2>3, DispatchRoom
  <2>4. CASE Finish
    BY <2>4, FinishRoom
  <2>5. CASE Again
    BY <2>5, AgainRoom
  <2>6. CASE UNCHANGED vars
    BY <2>6, StillRoom DEF vars, Running
  <2> QED BY <2>1, <2>2, <2>3, <2>4, <2>5, <2>6 DEF Next, Step
<1>2. Init => Room
  BY InitRoom
<1> QED BY <1>1, <1>2, PTL DEF Spec

\* A kernel writes within its buffer, also where it takes over the buffer of
\* a slot that was used before, or one that a released output left to the
\* slot (sched_slot_bind_output, sched_release_output_kid): the sizes the
\* plan compares are enough, in whatever order the kernels then run, if the
\* outputs that leave a slot their own buffers are large enough as well.
THEOREM RoomyWritesFit ==
  ASSUME RoomyPlans
  PROVE  Spec => []WritesFit
<1>1. Room => WritesFit
  BY TargetServes DEF WritesFit, OutputFits
<1> QED BY <1>1, RoomAlways, PTL

-----------------------------------------------------------------------------
(***************************************************************************)
(* The invariant above is about one evaluation. The one below relates      *)
(* outputs, slots and the results of the evaluations before: no buffer     *)
(* ever has two owners, every root holds its value at the end, and the     *)
(* evaluations that follow leave that value alone.                         *)
(***************************************************************************)
\* What a slot took over belongs to no unreleased output.
SlotsOK ==
    \A s \in Slot :
        /\ slots[s].buf \in 0 .. Len(mem)
        /\ \A k \in Kernel : slots[s].buf # 0 => slots[s].buf # raw[k]

\* Earlier results have buffers of their own, which hold their values.
KeptOK ==
    \A r \in kept :
        /\ r.buf \in 1 .. Len(mem) /\ mem[r.buf].val = r.val
        /\ \A k \in Kernel : raw[k] # r.buf
        /\ \A s \in Slot : slots[s].buf # r.buf

\* An unreleased output holds its value, after the evaluation too.
ValuesOK == \A k \in done : raw[k] # 0 => mem[raw[k]].val = Value(k)

\* The output of a root is never released, and a root without one is still
\* to come in the frame of the evaluation, or right above it.
RootsOK ==
    /\ \A k \in done : IsRoot(k) => raw[k] # 0
    /\ \A r \in ToSet(job.roots) :
          r \in done \/ (Running /\ Waits(agenda, done, Len(agenda), r))

Owners == SlotsOK /\ KeptOK /\ ValuesOK /\ RootsOK

-----------------------------------------------------------------------------
\* The roots are kernels, and the evaluation forces each of them.
LEMMA RootsForced ==
  ASSUME NEW c \in Cases \cup Later, NEW r \in ToSet(c.roots)
  PROVE  r \in DOMAIN c.deps /\ Contains(c.roots, r) /\ Contains(RootTerms(c), r)
<1>1. GraphOK(c)
  BY GraphsOK
<1>2. c.roots \in Seq(DOMAIN c.deps) /\ Contains(RootTerms(c), r)
  BY <1>1 DEF GraphOK, Nodes
<1>3. PICK i \in DOMAIN c.roots : r = c.roots[i]
  BY DEF ToSet
<1>4. i \in 1 .. Len(c.roots) /\ c.roots[i] \in DOMAIN c.deps
  BY <1>2, <1>3
<1> QED BY <1>2, <1>3, <1>4 DEF Contains

\* An evaluation starts with no outputs and empty slots, and knows its roots.
LEMMA StartOwners ==
  ASSUME NEW c \in Cases \cup Later,
         agenda = <<Frame(Main, RootTerms(c))>>, job = c, done = {}
  PROVE  RootsOK
<1> SUFFICES ASSUME NEW r \in ToSet(job.roots)
             PROVE  Running /\ Waits(agenda, done, Len(agenda), r)
  BY DEF RootsOK
<1>1. Len(agenda) = 1 /\ agenda[1].todo = RootTerms(c) /\ agenda # << >>
  BY DEF Frame
<1> QED BY <1>1, RootsForced DEF Waits, Running

LEMMA InitOwners == Init => Owners
<1> SUFFICES ASSUME NEW c \in Cases, job = c, agenda = <<Frame(Main, RootTerms(c))>>,
                    done = {}, mem = << >>, kept = {},
                    raw = [k \in DOMAIN c.deps |-> 0],
                    slots = [s \in DOMAIN c.room |->
                               [buf |-> 0, bytes |-> c.room[s], detached |-> FALSE]]
             PROVE  Owners
  BY DEF Init
<1>1. RootsOK
  BY StartOwners
<1>2. SlotsOK /\ KeptOK /\ ValuesOK
  BY DEF SlotsOK, KeptOK, ValuesOK, Slot
<1> QED BY <1>1, <1>2 DEF Owners

\* What each root computed becomes an earlier result.
LEMMA AgainOwners ==
  ASSUME Plain, Inv, Owners, Again
  PROVE  Owners'
<1>1. PICK c \in Later : StartEval(c)
  BY DEF Again
<1>2. /\ ~Running /\ mem' = mem
      /\ kept' = kept \cup {[buf |-> Output(r), val |-> Value(r)] : r \in ToSet(job.roots)}
  BY DEF Again
<1>3. /\ job' = c /\ done' = {} /\ agenda' = <<Frame(Main, RootTerms(c))>>
      /\ raw' = [k \in DOMAIN c.deps |-> 0] /\ Kernel' = DOMAIN c.deps
      /\ Slot' = DOMAIN c.room
      /\ slots' = [s \in DOMAIN c.room |->
                      [buf |-> 0, bytes |-> c.room[s], detached |-> FALSE]]
  BY <1>1 DEF StartEval, Kernel, Slot
<1>4. /\ \A k \in Kernel' : raw'[k] = 0
      /\ \A s \in Slot' : slots'[s].buf = 0
  BY <1>3
<1>5. Len(mem) \in Nat
  BY DEF Inv, MemoryOK
<1>6. RootsOK'
  <2> SUFFICES ASSUME NEW r \in ToSet(job'.roots)
               PROVE  Running' /\ Waits(agenda', done', Len(agenda'), r)
    BY <1>3 DEF RootsOK
  <2>1. Len(agenda') = 1 /\ agenda'[1].todo = RootTerms(c) /\ agenda' # << >>
    BY <1>3 DEF Frame
  <2> QED BY <1>3, <2>1, RootsForced DEF Waits, Running
<1>7. SlotsOK'
  BY <1>2, <1>4, <1>5 DEF SlotsOK
<1>8. ASSUME NEW r \in kept'
      PROVE  r.buf \in 1 .. Len(mem) /\ mem[r.buf].val = r.val
  <2>1. CASE r \in kept
    BY <2>1 DEF Owners, KeptOK
  <2>2. CASE r \notin kept
    <3>1. PICK k \in ToSet(job.roots) : r = [buf |-> Output(k), val |-> Value(k)]
      BY <1>2, <1>8, <2>2
    <3>2. k \in Kernel /\ IsRoot(k)
      BY RootsForced DEF Inv, Kernel, IsRoot
    <3>3. k \in done
      BY <1>2 DEF Owners, RootsOK
    <3>4. raw[k] # 0 /\ mem[raw[k]].val = Value(k)
      BY <3>2, <3>3 DEF Owners, RootsOK, ValuesOK
    <3>5. raw[k] \in 1 .. Len(mem)
      BY <1>5, <3>2, <3>4 DEF Inv, MemoryOK
    <3>6. Output(k) = raw[k]
      BY DEF Plain, Inv, Output
    <3> QED BY <3>1, <3>4, <3>5, <3>6
  <2> QED BY <2>1, <2>2
<1>9. KeptOK'
  <2> SUFFICES ASSUME NEW r \in kept'
               PROVE  /\ r.buf \in 1 .. Len(mem') /\ mem'[r.buf].val = r.val
                      /\ \A k \in Kernel' : raw'[k] # r.buf
                      /\ \A s \in Slot' : slots'[s].buf # r.buf
    BY DEF KeptOK
  <2>1. r.buf \in 1 .. Len(mem) /\ mem[r.buf].val = r.val
    BY <1>8
  <2>2. r.buf # 0
    BY <1>5, <2>1
  <2> QED BY <1>2, <1>4, <2>1, <2>2
<1>10. ValuesOK'
  BY <1>3 DEF ValuesOK
<1> QED BY <1>6, <1>7, <1>9, <1>10 DEF Owners

-----------------------------------------------------------------------------
\* Only the roots' part looks at the agenda.
LEMMA ChainOwners ==
  ASSUME Owners, Running', UNCHANGED <<job, evals, done, raw, slots, mem, kept>>,
         \A r \in ToSet(job.roots) :
            Waits(agenda, done, Len(agenda), r) => Waits(agenda', done, Len(agenda'), r)
  PROVE  Owners'
<1>1. Kernel' = Kernel /\ Slot' = Slot
  BY DEF Kernel, Slot
<1>2. SlotsOK' /\ KeptOK'
  BY <1>1 DEF Owners, SlotsOK, KeptOK
<1>3. ValuesOK'
  BY DEF Owners, ValuesOK, Value
<1>4. RootsOK'
  BY DEF Owners, RootsOK, IsRoot
<1> QED BY <1>2, <1>3, <1>4 DEF Owners

LEMMA CachedOwners ==
  ASSUME Inv, Owners, Cached
  PROVE  Owners'
<1> DEFINE n == Len(agenda)
<1>1. /\ Running /\ Top.todo # << >> /\ Head(Top.todo) \in done
      /\ agenda' = [agenda EXCEPT ![1].todo = Tail(@)]
      /\ UNCHANGED <<job, evals, done, raw, slots, mem, kept>>
  BY DEF Cached
<1>2. /\ n \in Nat /\ n >= 1 /\ agenda' \in Seq(Frames) /\ Len(agenda') = n
      /\ \A i \in 1 .. n : agenda'[i].kid = agenda[i].kid
      /\ \A i \in 2 .. n : agenda'[i] = agenda[i]
      /\ \A d : Contains(agenda[1].todo, d) =>
                   d = Head(Top.todo) \/ Contains(agenda'[1].todo, d)
  BY <1>1, Popped
<1>3. Running'
  BY <1>2 DEF Running
<1> HIDE DEF n
<1>4. ASSUME NEW r, Waits(agenda, done, n, r)
      PROVE  Waits(agenda', done, n, r)
  <2>1. CASE r \in done
    BY <2>1 DEF Waits
  <2>2. CASE Contains(agenda[n].todo, r) /\ r \notin done
    <3>1. Contains(agenda'[n].todo, r)
      <4>1. CASE n = 1
        BY <1>1, <1>2, <2>2, <4>1
      <4>2. CASE n # 1
        BY <1>2, <2>2, <4>2
      <4> QED BY <4>1, <4>2
    <3> QED BY <3>1 DEF Waits
  <2>3. CASE n > 1 /\ agenda[n - 1].kid = r
    <3>1. n - 1 \in 1 .. n
      BY <1>2, <2>3
    <3> QED BY <1>2, <2>3, <3>1 DEF Waits
  <2> QED BY <1>4, <2>1, <2>2, <2>3 DEF Waits
<1> QED BY <1>1, <1>2, <1>3, <1>4, ChainOwners DEF n

LEMMA ForceOwners ==
  ASSUME Inv, Owners, ForceDep
  PROVE  Owners'
<1> DEFINE n == Len(agenda)
           k == Head(Top.todo)
           rest == [agenda EXCEPT ![1].todo = Tail(@)]
<1>1. /\ Running /\ Top.todo # << >>
      /\ agenda' = <<Frame(k, DepChain(k))>> \o rest
      /\ UNCHANGED <<job, evals, done, raw, slots, mem, kept>>
  BY DEF ForceDep
<1>2. /\ n \in Nat /\ n >= 1 /\ rest \in Seq(Frames) /\ Len(rest) = n
      /\ \A i \in 1 .. n : rest[i].kid = agenda[i].kid
      /\ \A i \in 2 .. n : rest[i] = agenda[i]
      /\ \A d : Contains(agenda[1].todo, d) => d = k \/ Contains(rest[1].todo, d)
  BY <1>1, Popped
<1> HIDE DEF n, rest, k
<1>3. /\ Len(agenda') = n + 1 /\ agenda'[1].kid = k
      /\ \A i \in 1 .. n : agenda'[i + 1] = rest[i]
  <2> DEFINE f == Frame(k, DepChain(k))
  <2>1. agenda' = <<f>> \o rest /\ f.kid = k
    BY <1>1 DEF Frame, rest, k
  <2> HIDE DEF f
  <2>2. /\ Len(agenda') = n + 1 /\ agenda'[1] = f
        /\ \A i \in 1 .. n : agenda'[i + 1] = rest[i]
    BY <1>2, <2>1
  <2> QED BY <2>1, <2>2
<1>4. Running'
  BY <1>2, <1>3 DEF Running
<1>5. ASSUME NEW r, Waits(agenda, done, n, r)
      PROVE  Waits(agenda', done, n + 1, r)
  <2>1. CASE r \in done
    BY <2>1 DEF Waits
  <2>2. CASE Contains(agenda[n].todo, r)
    <3>1. CASE n = 1
      BY <1>2, <1>3, <2>2, <3>1 DEF Waits
    <3>2. CASE n # 1
      <4>1. n \in 2 .. n /\ n \in 1 .. n
        BY <1>2, <3>2
      <4>2. agenda'[n + 1] = agenda[n]
        BY <1>2, <1>3, <4>1
      <4> QED BY <2>2, <4>2 DEF Waits
    <3> QED BY <3>1, <3>2
  <2>3. CASE n > 1 /\ agenda[n - 1].kid = r
    <3>1. n - 1 \in 1 .. n /\ n + 1 > 1 /\ (n + 1) - 1 = n /\ (n - 1) + 1 = n
      BY <1>2, <2>3
    <3>2. agenda'[n] = rest[n - 1] /\ rest[n - 1].kid = r
      BY <1>2, <1>3, <2>3, <3>1
    <3> QED BY <3>1, <3>2 DEF Waits
  <2> QED BY <1>5, <2>1, <2>2, <2>3 DEF Waits
<1> QED BY <1>1, <1>3, <1>4, <1>5, ChainOwners DEF n

-----------------------------------------------------------------------------
\* A dispatch writes to a new buffer; a slot takes over what it releases.
LEMMA DispatchEffect ==
  ASSUME Plain, Inv, NEW k \in Kernel, Dispatch(k)
  PROVE  /\ Len(mem) \in Nat /\ k \notin done /\ raw \in [Kernel -> 0 .. Len(mem)]
         /\ job' = job /\ evals' = evals /\ kept' = kept /\ done' = done \cup {k}
         /\ Kernel' = Kernel /\ Slot' = Slot
         /\ Len(mem') = Len(mem) + 1 /\ mem'[Len(mem) + 1].val = Value(k)
         /\ \A b \in 1 .. Len(mem) : mem'[b] = mem[b]
         /\ \A d \in Kernel : raw'[d] = IF d = k THEN Len(mem) + 1
                                        ELSE IF d \in Released(k) THEN 0 ELSE raw[d]
         /\ \A d \in Released(k) : d \in Kernel /\ d # k /\ raw[d] # 0 /\ ~IsRoot(d)
         /\ \A s \in Slot : \/ slots'[s].buf = slots[s].buf
                            \/ \E d \in Released(k) : slots'[s].buf = raw[d]
<1>1. /\ Ready(k) /\ job' = job /\ evals' = evals /\ kept' = kept
      /\ done' = done \cup {k} /\ raw' = RawAfter(k) /\ slots' = Detach(k)
      /\ mem' = [Append(mem, Fresh(job.size[k])) EXCEPT ![Len(mem) + 1].val = Value(k)]
  BY ReadyIntact DEF Dispatch
<1>2. Kernel' = Kernel /\ Slot' = Slot
  BY <1>1 DEF Kernel, Slot
<1>3. /\ mem \in Seq(Buffers) /\ Len(mem) \in Nat /\ k \notin done
      /\ raw \in [Kernel -> 0 .. Len(mem)]
  BY <1>1, ReadyInputs DEF Inv, MemoryOK
<1>4. /\ Len(mem') = Len(mem) + 1 /\ mem'[Len(mem) + 1].val = Value(k)
      /\ \A b \in 1 .. Len(mem) : mem'[b] = mem[b]
  <2> DEFINE new == Fresh(job.size[k])
             long == Append(mem, new)
             b == Len(mem) + 1
  <2>1. new = [val |-> Zero, bytes |-> job.size[k]]
    BY DEF Fresh
  <2>2. /\ Len(long) = b /\ b \in DOMAIN long /\ long[b] = new
        /\ \A x \in 1 .. Len(mem) : x \in DOMAIN long /\ long[x] = mem[x] /\ x # b
    <3> HIDE DEF new
    <3> QED BY <1>3
  <2>3. [new EXCEPT !.val = Value(k)].val = Value(k)
    BY <2>1
  <2>4. mem' = [long EXCEPT ![b] = [new EXCEPT !.val = Value(k)]]
    BY <1>1, <2>2
  <2>5. DOMAIN mem' = DOMAIN long /\ Len(mem') = Len(long)
    <3>1. long \in Seq({mem[x] : x \in 1 .. Len(mem)} \cup {new})
      <4> HIDE DEF new
      <4> QED BY <1>3
    <3> HIDE DEF long, new
    <3> QED BY <2>2, <2>4, <3>1
  <2> HIDE DEF long, new
  <2> QED BY <2>2, <2>3, <2>4, <2>5
<1>5. \A d \in Kernel : raw'[d] = IF d = k THEN Len(mem) + 1
                                ELSE IF d \in Released(k) THEN 0 ELSE raw[d]
  BY <1>1, ReadyIntact DEF RawAfter
<1>6. \A d \in Released(k) : d \in Kernel /\ d # k /\ raw[d] # 0 /\ ~IsRoot(d)
  BY <1>1, ReadyInputs DEF Released, Spent
<1>7. ASSUME NEW s \in Slot
      PROVE  \/ slots'[s].buf = slots[s].buf
             \/ \E d \in Released(k) : slots'[s].buf = raw[d]
  <2>1. CASE \E d \in Released(k) : job.slot[d] = s
    <3> DEFINE d == CHOOSE d \in Released(k) : job.slot[d] = s
    <3>1. d \in Released(k)
      BY <2>1
    <3>2. slots'[s] = [buf |-> raw[d], bytes |-> job.size[d], detached |-> TRUE]
      BY <1>1, <2>1 DEF Detach
    <3>3. slots'[s].buf = raw[d]
      BY <3>2
    <3> HIDE DEF d
    <3> QED BY <3>1, <3>3
  <2>2. CASE ~\E d \in Released(k) : job.slot[d] = s
    BY <1>1, <2>2, ReadyIntact DEF Detach, Bound
  <2> QED BY <2>1, <2>2
<1> QED BY <1>1, <1>2, <1>3, <1>4, <1>5, <1>6, <1>7

LEMMA DispatchRoots ==
  ASSUME Plain, Inv, Owners, NEW k \in Kernel, Dispatch(k)
  PROVE  RootsOK'
<1> DEFINE n == Len(agenda)
<1>1. /\ job' = job /\ done' = done \cup {k} /\ done \subseteq Kernel /\ Len(mem) \in Nat
      /\ \A d \in Kernel : raw'[d] = IF d = k THEN Len(mem) + 1
                                     ELSE IF d \in Released(k) THEN 0 ELSE raw[d]
      /\ \A d \in Released(k) : ~IsRoot(d)
  BY DispatchEffect DEF Inv
<1>2. \A d \in done' : IsRoot(d)' => raw'[d] # 0
  <2> SUFFICES ASSUME NEW d \in done', IsRoot(d)
               PROVE  raw'[d] # 0
    BY <1>1 DEF IsRoot
  <2>1. CASE d = k
    BY <1>1, <2>1
  <2>2. CASE d # k
    BY <1>1, <2>2 DEF Owners, RootsOK
  <2> QED BY <2>1, <2>2
<1>3. /\ Ready(k) /\ agenda' = Tail(agenda)
  BY DEF Dispatch
<1>4. agenda \in Seq(Frames) /\ n \in Nat /\ n > 1 /\ agenda[1].kid = k
  BY <1>3, ReadyInputs DEF Inv, AgendaOK, Ready, Top
<1>5. Len(agenda') = n - 1 /\ \A i \in 1 .. n - 1 : agenda'[i] = agenda[i + 1]
  BY <1>3, <1>4
<1>6. Running'
  BY DispatchAgenda
<1> HIDE DEF n
<1>7. ASSUME NEW r \in ToSet(job.roots)
      PROVE  r \in done' \/ Waits(agenda', done', n - 1, r)
  <2>1. r \in done \/ Waits(agenda, done, n, r)
    BY DEF n, Owners, RootsOK
  <2>2. CASE r \in done
    BY <1>1, <2>2
  <2>3. CASE Contains(agenda[n].todo, r)
    <3>1. n - 1 \in 1 .. n - 1 /\ (n - 1) + 1 = n
      BY <1>4
    <3>2. agenda'[n - 1] = agenda[n]
      BY <1>5, <3>1
    <3> QED BY <2>3, <3>2 DEF Waits
  <2>4. CASE agenda[n - 1].kid = r
    <3>1. CASE n = 2
      BY <1>1, <1>4, <2>4, <3>1
    <3>2. CASE n # 2
      <4>1. n - 2 \in 1 .. n - 1 /\ n - 1 > 1 /\ (n - 1) - 1 = n - 2 /\ (n - 2) + 1 = n - 1
        BY <1>4, <3>2
      <4>2. agenda'[n - 2] = agenda[n - 1]
        BY <1>5, <4>1
      <4> QED BY <2>4, <4>1, <4>2 DEF Waits
    <3> QED BY <3>1, <3>2
  <2> QED BY <2>1, <2>2, <2>3, <2>4 DEF Waits
<1> QED BY <1>1, <1>2, <1>5, <1>6, <1>7 DEF RootsOK

LEMMA DispatchOwners ==
  ASSUME Plain, Inv, Owners, NEW k \in Kernel, Dispatch(k)
  PROVE  Owners'
<1> DEFINE m == Len(mem)
<1>1. /\ m \in Nat /\ k \notin done /\ raw \in [Kernel -> 0 .. m]
      /\ kept' = kept /\ done' = done \cup {k} /\ evals' = evals
      /\ Kernel' = Kernel /\ Slot' = Slot
      /\ Len(mem') = m + 1 /\ mem'[m + 1].val = Value(k)
      /\ \A b \in 1 .. m : mem'[b] = mem[b]
      /\ \A d \in Kernel : raw'[d] = IF d = k THEN m + 1
                                     ELSE IF d \in Released(k) THEN 0 ELSE raw[d]
      /\ \A d \in Released(k) : d \in Kernel /\ d # k /\ raw[d] # 0
      /\ \A s \in Slot : \/ slots'[s].buf = slots[s].buf
                         \/ \E d \in Released(k) : slots'[s].buf = raw[d]
  BY DispatchEffect
<1>2. /\ \A s \in Slot : slots[s].buf \in 0 .. m
      /\ \A s \in Slot, d \in Kernel : slots[s].buf # 0 => slots[s].buf # raw[d]
      /\ \A r \in kept : /\ r.buf \in 1 .. m /\ mem[r.buf].val = r.val
                         /\ \A d \in Kernel : raw[d] # r.buf
                         /\ \A s \in Slot : slots[s].buf # r.buf
  BY DEF Owners, SlotsOK, KeptOK
<1>3. \A i, j \in Kernel : i # j /\ raw[i] # 0 => raw[i] # raw[j]
  BY DEF Inv, MemoryOK
<1> HIDE DEF m
<1>4. m + 1 # 0 /\ \A b \in 0 .. m : b # m + 1 /\ b \in 0 .. m + 1 /\ (b # 0 => b \in 1 .. m)
  BY <1>1
<1>5. SlotsOK'
  <2> SUFFICES ASSUME NEW s \in Slot
               PROVE  /\ slots'[s].buf \in 0 .. m + 1
                      /\ \A d \in Kernel : slots'[s].buf # 0 => slots'[s].buf # raw'[d]
    BY <1>1 DEF SlotsOK
  <2>1. CASE slots'[s].buf = slots[s].buf
    BY <1>1, <1>2, <1>4, <2>1
  <2>2. CASE \E d \in Released(k) : slots'[s].buf = raw[d]
    <3>1. PICK d \in Released(k) : slots'[s].buf = raw[d]
      BY <2>2
    <3>2. d \in Kernel /\ d # k /\ raw[d] # 0 /\ raw[d] \in 0 .. m
      BY <1>1
    <3>3. \A e \in Kernel : raw'[e] # raw[d]
      BY <1>1, <1>3, <1>4, <3>2
    <3> QED BY <1>4, <3>1, <3>2, <3>3
  <2> QED BY <1>1, <2>1, <2>2
<1>6. KeptOK'
  <2> SUFFICES ASSUME NEW r \in kept
               PROVE  /\ r.buf \in 1 .. m + 1 /\ mem'[r.buf].val = r.val
                      /\ \A d \in Kernel : raw'[d] # r.buf
                      /\ \A s \in Slot : slots'[s].buf # r.buf
    BY <1>1 DEF KeptOK
  <2>1. r.buf \in 1 .. m /\ r.buf \in 1 .. m + 1 /\ r.buf # 0 /\ r.buf # m + 1
    BY <1>1, <1>2
  <2>2. mem'[r.buf].val = r.val
    BY <1>1, <1>2, <2>1
  <2>3. \A d \in Kernel : raw'[d] # r.buf
    BY <1>1, <1>2, <2>1
  <2>4. \A s \in Slot : slots'[s].buf # r.buf
    BY <1>1, <1>2
  <2> QED BY <2>1, <2>2, <2>3, <2>4
<1>7. ValuesOK'
  <2> SUFFICES ASSUME NEW d \in done', raw'[d] # 0
               PROVE  mem'[raw'[d]].val = Value(d)
    BY <1>1 DEF ValuesOK, Value
  <2>1. d \in Kernel
    BY <1>1 DEF Inv
  <2>2. CASE d = k
    BY <1>1, <2>1, <2>2
  <2>3. CASE d # k
    <3>1. d \in done /\ raw'[d] = raw[d] /\ raw[d] \in 1 .. m
      BY <1>1, <1>4, <2>1, <2>3
    <3> QED BY <1>1, <3>1 DEF Owners, ValuesOK
  <2> QED BY <2>2, <2>3
<1> QED BY <1>5, <1>6, <1>7, DispatchRoots DEF Owners

\* The end frees what slots took over, which nobody else has.
LEMMA FinishOwners ==
  ASSUME Inv, Owners, Finish
  PROVE  Owners'
<1>1. /\ agenda' = << >> /\ job' = job /\ evals' = evals /\ done' = done
      /\ raw' = raw /\ kept' = kept /\ Kernel' = Kernel /\ Slot' = Slot
      /\ Ready(Main)
  BY DEF Finish, Kernel, Slot
<1>2. /\ mem \in Seq(Buffers) /\ Len(mem) \in Nat /\ DOMAIN mem = 1 .. Len(mem)
      /\ raw \in [Kernel -> 0 .. Len(mem)] /\ done \subseteq Kernel
  BY DEF Inv, MemoryOK
<1>3. /\ Len(mem') = Len(mem)
      /\ \A b \in 1 .. Len(mem) : b \notin FreedBufs => mem'[b] = mem[b]
  <2>1. mem' = [b \in 1 .. Len(mem) |-> IF b \in FreedBufs
                             THEN [mem[b] EXCEPT !.val = Freed] ELSE mem[b]]
    BY <1>2 DEF Finish
  <2>2. DOMAIN mem' = 1 .. Len(mem) /\ Len(mem') = Len(mem)
    BY <1>2, <2>1
  <2> QED BY <2>1, <2>2
<1>4. ASSUME NEW s \in Slot
      PROVE  slots'[s].buf = 0 \/ slots'[s].buf = slots[s].buf
  <2>1. CASE s \in ToFree
    <3>1. slots'[s] = [slots[s] EXCEPT !.buf = 0, !.detached = FALSE]
      BY <2>1 DEF Finish
    <3> QED BY <3>1
  <2>2. CASE s \notin ToFree
    BY <2>2 DEF Finish
  <2> QED BY <2>1, <2>2
<1>5. /\ \A k \in Kernel : raw[k] \notin FreedBufs
      /\ \A r \in kept : r.buf \notin FreedBufs
  BY DEF FreedBufs, ToFree, Owners, SlotsOK, KeptOK
<1>6. SlotsOK'
  BY <1>1, <1>2, <1>3, <1>4 DEF Owners, SlotsOK
<1>7. KeptOK'
  <2> SUFFICES ASSUME NEW r \in kept
               PROVE  /\ r.buf \in 1 .. Len(mem) /\ mem'[r.buf].val = r.val
                      /\ \A k \in Kernel : raw[k] # r.buf
                      /\ \A s \in Slot : slots'[s].buf # r.buf
    BY <1>1, <1>3 DEF KeptOK
  <2>1. /\ r.buf \in 1 .. Len(mem) /\ mem[r.buf].val = r.val
        /\ \A k \in Kernel : raw[k] # r.buf
        /\ \A s \in Slot : slots[s].buf # r.buf
    BY DEF Owners, KeptOK
  <2>2. r.buf # 0
    BY <1>2, <2>1
  <2> QED BY <1>3, <1>4, <1>5, <2>1, <2>2
<1>8. ValuesOK'
  <2> SUFFICES ASSUME NEW k \in done, raw[k] # 0
               PROVE  mem'[raw[k]].val = Value(k)
    BY <1>1 DEF ValuesOK, Value
  <2>1. raw[k] \in 1 .. Len(mem) /\ raw[k] \notin FreedBufs
    BY <1>2, <1>5
  <2> QED BY <1>3, <2>1 DEF Owners, ValuesOK
<1>9. RootsOK'
  <2>1. Len(agenda) = 1 /\ agenda[1].todo = << >>
    <3>1. agenda # << >> /\ agenda \in Seq(Frames) /\ agenda[1].kid = Main /\ agenda[1].todo = << >>
      BY <1>1 DEF Ready, Running, Top, Inv, AgendaOK
    <3>2. Len(agenda) \in Nat /\ 1 \in 1 .. Len(agenda)
      BY <3>1
    <3> QED BY <3>1, <3>2 DEF Inv, AgendaOK
  <2>2. \A r : ~Contains(<< >>, r)
    BY DEF Contains
  <2>3. \A r \in ToSet(job.roots) : r \in done
    BY <2>1, <2>2 DEF Owners, RootsOK, Waits
  <2> QED BY <1>1, <2>3 DEF Owners, RootsOK, IsRoot
<1> QED BY <1>6, <1>7, <1>8, <1>9 DEF Owners

LEMMA StutterOwners ==
  ASSUME Owners, UNCHANGED vars
  PROVE  Owners'
<1>1. /\ job' = job /\ evals' = evals /\ agenda' = agenda /\ done' = done
      /\ raw' = raw /\ slots' = slots /\ mem' = mem /\ kept' = kept
      /\ Kernel' = Kernel /\ Slot' = Slot
  BY DEF vars, Kernel, Slot
<1>2. SlotsOK' /\ KeptOK'
  BY <1>1 DEF Owners, SlotsOK, KeptOK
<1>3. ValuesOK'
  BY <1>1 DEF Owners, ValuesOK, Value
<1>4. RootsOK'
  BY <1>1 DEF Owners, RootsOK, IsRoot, Running
<1> QED BY <1>2, <1>3, <1>4 DEF Owners

-----------------------------------------------------------------------------
\* Outputs, slots and earlier results keep apart in every reachable state.
LEMMA PlainOwners ==
  ASSUME Plain
  PROVE  Spec => [](Inv /\ Owners)
<1>1. Inv /\ Owners /\ [Next]_vars => Owners'
  <2> SUFFICES ASSUME Inv, Owners, [Next]_vars
               PROVE  Owners'
    OBVIOUS
  <2>1. CASE Cached
    BY <2>1, CachedOwners
  <2>2. CASE ForceDep
    BY <2>2, ForceOwners
  <2>3. CASE \E k \in Kernel : Dispatch(k)
    BY <2>3, DispatchOwners
  <2>4. CASE Finish
    BY <2>4, FinishOwners
  <2>5. CASE Again
    BY <2>5, AgainOwners
  <2>6. CASE UNCHANGED vars
    BY <2>6, StutterOwners
  <2> QED BY <2>1, <2>2, <2>3, <2>4, <2>5, <2>6 DEF Next, Step
<1> QED BY <1>1, InitOwners, PlainInvariant, PTL DEF Spec

\* Without views no buffer is ever both an unreleased output, or taken over
\* by a slot (which frees it at the end of the evaluation), and something
\* else: each output is written to a buffer of its own, slots take over only
\* what is released, and results of earlier evaluations are let go of by the
\* next (sched_release_output_kid, sched_planner_release_detached_slots).
THEOREM PlainOneOwner ==
  ASSUME Plain
  PROVE  Spec => []OneOwner
<1>1. Inv /\ Owners => OneOwner
  <2> SUFFICES ASSUME Inv, Owners
               PROVE  OneOwner
    OBVIOUS
  <2>1. \A i, j \in Kernel : i # j /\ raw[i] # 0 => raw[i] # raw[j]
    BY DEF Inv, MemoryOK
  <2>2. \A s \in Slot : slots[s].detached =>
           \A k \in Kernel : raw[k] # 0 => raw[k] # slots[s].buf
    BY DEF Owners, SlotsOK
  <2> QED BY <2>1, <2>2 DEF OneOwner, Owners, KeptOK
<1> QED BY <1>1, PlainOwners, PTL

\* Without views every root holds its value when the evaluation is over,
\* however often other kernels read it, and keeps it through the evaluations
\* that follow.
THEOREM PlainResultsRight ==
  ASSUME Plain
  PROVE  Spec => []ResultsRight
<1>1. Inv /\ Owners => ResultsRight
  <2> SUFFICES ASSUME Inv, Owners
               PROVE  ResultsRight
    OBVIOUS
  <2>1. ASSUME ~Running, NEW r \in ToSet(job.roots)
        PROVE  Output(r) # 0 /\ mem[Output(r)].val = Value(r)
    <3>1. r \in done /\ IsRoot(r)
      BY <2>1, RootsForced DEF Inv, Owners, RootsOK, IsRoot
    <3>2. raw[r] # 0 /\ mem[raw[r]].val = Value(r)
      BY <3>1 DEF Owners, RootsOK, ValuesOK
    <3>3. Output(r) = raw[r]
      BY DEF Plain, Inv, Output
    <3> QED BY <3>2, <3>3
  <2> QED BY <2>1 DEF ResultsRight, Owners, KeptOK
<1> QED BY <1>1, PlainOwners, PTL
=============================================================================
