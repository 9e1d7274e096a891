---------------------------- MODULE EvaluateProof ----------------------------
(***************************************************************************)
(* However the calls of thvm_eval and thvm_to_host_raw nest, each of them  *)
(* leaves the flag that lets kernels run, and the count of evaluations     *)
(* under way, as it found them.                                            *)
(*                                                                         *)
(* Nothing is assumed of the programs, of the heap or of the kernels: what *)
(* is shown follows from the order in which the steps of a call are put on *)
(* the stack.  Two kinds of frames matter.  A saver is to put the flag     *)
(* back (ops/_.c and thvm_eval_collect_fixed_point); a round belongs to an *)
(* evaluation that has been counted.                                       *)
(***************************************************************************)
EXTENDS Evaluate, FiniteSetTheorems, TLAPS

Savers == {"dispatch_is", "again"}
Rounds == {"round", "stages", "finish"}

\* What a saver puts back.
Kept(frame) == IF frame[1] = "again" THEN frame[3] ELSE frame[2]

Marked(s, kinds) == {i \in DOMAIN s : s[i][1] \in kinds}

\* When the frames of s are done, the flag, now d, is off: the saver at the bottom sees to it.
Unwinds(s, d) ==
    /\ Marked(s, Savers) = {} => ~d
    /\ \A i \in Marked(s, Savers) : (\A j \in Marked(s, Savers) : i <= j) => ~Kept(s[i])

IsSeq(s) == s \in Seq({s[i] : i \in DOMAIN s})

(***************************************************************************)
(* The inductive invariant: the flag unwinds, and every evaluation that    *)
(* has been counted has a round on the stack, one and no more.             *)
(***************************************************************************)
Balanced ==
    /\ IsSeq(stack)
    /\ Unwinds(stack, dispatch)
    /\ depth = Cardinality(Marked(stack, Rounds))

-----------------------------------------------------------------------------
(* Sequences of frames.                                                     *)

LEMMA TupleIsSeq ==
    /\ IsSeq(<<>>)
    /\ \A a : IsSeq(<<a>>)
    /\ \A a, b : IsSeq(<<a, b>>)
    /\ \A a, b, c : IsSeq(<<a, b, c>>)
    /\ \A a, b, c, d : IsSeq(<<a, b, c, d>>)
BY DEF IsSeq

\* The top of a stack is replaced.
Replaced(s, frames) == Front(s) \o Reverse(frames)

LEMMA ReplacedShape ==
    ASSUME NEW s, NEW frames, IsSeq(s), s # <<>>, IsSeq(frames)
    PROVE  LET r == Replaced(s, frames) n == Len(s) - 1 m == Len(frames)
           IN  /\ IsSeq(r) /\ n \in Nat /\ m \in Nat /\ Len(s) = n + 1
               /\ DOMAIN s = 1 .. n + 1 /\ DOMAIN frames = 1 .. m /\ DOMAIN r = 1 .. n + m
               /\ \A i \in 1 .. n : r[i] = s[i]
               /\ \A i \in 1 .. m : r[n + i] = frames[m + 1 - i]
<1> DEFINE S == {s[i] : i \in DOMAIN s} \cup {frames[i] : i \in DOMAIN frames}
           n == Len(s) - 1
           m == Len(frames)
<1>1. s \in Seq(S) /\ frames \in Seq(S)
  BY DEF IsSeq
<1> HIDE DEF S
<1>2. n \in Nat /\ m \in Nat /\ Len(s) = n + 1
  BY <1>1
<1>3. Front(s) \in Seq(S) /\ Len(Front(s)) = n /\ \A i \in 1 .. n : Front(s)[i] = s[i]
  BY <1>1, <1>2 DEF Front
<1>4. Reverse(frames) \in Seq(S) /\ Len(Reverse(frames)) = m /\ \A i \in 1 .. m : Reverse(frames)[i] = frames[m + 1 - i]
  BY <1>1, <1>2 DEF Reverse
<1> HIDE DEF n, m
<1> DEFINE r == Replaced(s, frames)
<1>5. r \in Seq(S) /\ Len(r) = n + m
  BY <1>3, <1>4, <1>2 DEF Replaced
<1>6. \A i \in 1 .. n : r[i] = s[i]
  BY <1>3, <1>4, <1>2 DEF Replaced
<1>7. \A i \in 1 .. m : r[n + i] = frames[m + 1 - i]
  BY <1>3, <1>4, <1>2 DEF Replaced
<1>8. DOMAIN s = 1 .. n + 1 /\ DOMAIN frames = 1 .. m
  BY <1>1, <1>2 DEF m
<1> HIDE DEF r
<1>9. DOMAIN r = 1 .. n + m
  BY <1>5, <1>2
<1>10. IsSeq(r)
  BY <1>5 DEF IsSeq
<1>11. QED
  BY <1>2, <1>6, <1>7, <1>8, <1>9, <1>10 DEF n, m, r

\* How many of the frames put on the stack are of some kinds: none, or one.
NoneOf(frames, kinds) == Marked(frames, kinds) = {}
OneOf(frames, kinds) == \E k \in DOMAIN frames : Marked(frames, kinds) = {k}

\* The frames below the top one that are of some kinds.
BelowTop(s, kinds) == Marked(s, kinds) \ {Len(s)}

LEMMA MarkedAfter ==
    ASSUME NEW s, NEW frames, NEW kinds, IsSeq(s), s # <<>>, IsSeq(frames)
    PROVE  /\ NoneOf(frames, kinds) => Marked(Replaced(s, frames), kinds) = BelowTop(s, kinds)
           /\ \A k \in DOMAIN frames : Marked(frames, kinds) = {k} =>
                 \E j \in Nat : /\ j >= Len(s) /\ Replaced(s, frames)[j] = frames[k]
                               /\ Marked(Replaced(s, frames), kinds) = BelowTop(s, kinds) \cup {j}
<1> DEFINE r == Replaced(s, frames)
           n == Len(s) - 1
           m == Len(frames)
<1>1. /\ IsSeq(r) /\ n \in Nat /\ m \in Nat /\ Len(s) = n + 1
      /\ DOMAIN s = 1 .. n + 1 /\ DOMAIN frames = 1 .. m /\ DOMAIN r = 1 .. n + m
      /\ \A i \in 1 .. n : r[i] = s[i]
      /\ \A i \in 1 .. m : r[n + i] = frames[m + 1 - i]
  BY ReplacedShape
<1> HIDE DEF r, n, m
<1>2. BelowTop(s, kinds) = {i \in 1 .. n : s[i][1] \in kinds}
  BY <1>1 DEF BelowTop, Marked
<1>3. \A i \in Marked(r, kinds) : i <= n => i \in BelowTop(s, kinds)
  BY <1>1, <1>2 DEF Marked
<1>4. \A i \in Marked(r, kinds) : i > n => m + 1 - (i - n) \in Marked(frames, kinds)
  <2> SUFFICES ASSUME NEW i \in Marked(r, kinds), i > n
               PROVE  m + 1 - (i - n) \in Marked(frames, kinds)
    OBVIOUS
  <2>1. i \in 1 .. n + m /\ r[i][1] \in kinds
    BY <1>1 DEF Marked
  <2> DEFINE p == i - n
  <2>2. p \in 1 .. m /\ n + p = i
    BY <2>1, <1>1
  <2> HIDE DEF p
  <2>3. r[n + p] = frames[m + 1 - p]
    BY <2>2, <1>1
  <2>4. m + 1 - p \in 1 .. m
    BY <2>2, <1>1
  <2>5. frames[m + 1 - p][1] \in kinds
    BY <2>1, <2>2, <2>3
  <2>6. QED
    BY <2>4, <2>5, <1>1 DEF Marked, p
<1>5. BelowTop(s, kinds) \subseteq Marked(r, kinds)
  BY <1>1, <1>2 DEF Marked
<1>7. ASSUME NoneOf(frames, kinds) PROVE Marked(r, kinds) = BelowTop(s, kinds)
  <2>1. \A i \in Marked(r, kinds) : i \in Int
    BY <1>1 DEF Marked
  <2>2. \A i \in Marked(r, kinds) : i <= n
    BY <1>4, <1>7, <2>1, <1>1 DEF NoneOf
  <2>3. QED
    BY <1>3, <1>5, <2>2
<1>8. ASSUME NEW k \in DOMAIN frames, Marked(frames, kinds) = {k}
      PROVE  \E j \in Nat : /\ j >= Len(s) /\ r[j] = frames[k]
                           /\ Marked(r, kinds) = BelowTop(s, kinds) \cup {j}
  <2> DEFINE j == n + (m + 1 - k)
  <2>1. k \in 1 .. m /\ frames[k][1] \in kinds
    BY <1>1, <1>8 DEF Marked
  <2>2. m + 1 - k \in 1 .. m /\ m + 1 - (m + 1 - k) = k
    BY <2>1, <1>1
  <2>3. r[j] = frames[k]
    BY <2>2, <1>1
  <2>4. j \in Nat /\ j >= n + 1 /\ j \in 1 .. n + m /\ m + 1 - (j - n) = k
    BY <2>2, <1>1
  <2>9. \A i \in Int : m + 1 - (i - n) = k => i = j
    BY <2>1, <1>1
  <2> HIDE DEF j
  <2>5. j \in Marked(r, kinds)
    BY <2>1, <2>3, <2>4, <1>1 DEF Marked
  <2>6. \A i \in Marked(r, kinds) : i \in Int
    BY <1>1 DEF Marked
  <2>7. \A i \in Marked(r, kinds) : i > n => i = j
    BY <1>4, <1>8, <2>6, <2>9
  <2>8. Marked(r, kinds) = BelowTop(s, kinds) \cup {j}
    BY <2>5, <2>6, <2>7, <1>3, <1>5, <1>1
  <2>10. QED
    BY <2>3, <2>4, <2>8, <1>1
<1>9. QED
  BY <1>7, <1>8 DEF r

\* What is below the top frame, and the top frame.
LEMMA TopFrame ==
    ASSUME NEW s, NEW kinds, IsSeq(s), s # <<>>
    PROVE  /\ Len(s) \in DOMAIN s /\ Len(s) \in Nat /\ Last(s) = s[Len(s)]
           /\ Marked(s, kinds) = IF Last(s)[1] \in kinds THEN BelowTop(s, kinds) \cup {Len(s)}
                                ELSE BelowTop(s, kinds)
           /\ \A i \in BelowTop(s, kinds) : i < Len(s) /\ i \in 1 .. Len(s)
           /\ Len(s) \notin BelowTop(s, kinds)
           /\ IsFiniteSet(BelowTop(s, kinds))
<1> DEFINE n == Len(s)
<1>1. n \in Nat /\ DOMAIN s = 1 .. n /\ n # 0
  BY DEF IsSeq
<1> HIDE DEF n
<1>2. n \in DOMAIN s /\ Last(s) = s[n]
  BY <1>1 DEF Last, n
<1>3. BelowTop(s, kinds) = {i \in 1 .. n : s[i][1] \in kinds} \ {n}
  BY <1>1 DEF BelowTop, Marked, n
<1>4. Marked(s, kinds) = {i \in 1 .. n : s[i][1] \in kinds}
  BY <1>1 DEF Marked
<1>5. BelowTop(s, kinds) \subseteq 1 .. n
  BY <1>3
<1>6. IsFiniteSet(1 .. n)
  BY <1>1, FS_Interval
<1>7. IsFiniteSet(BelowTop(s, kinds))
  BY <1>5, <1>6, FS_Subset
<1>8. \A i \in BelowTop(s, kinds) : i < n /\ i \in 1 .. n
  BY <1>3, <1>1
<1>9. Marked(s, kinds) = IF Last(s)[1] \in kinds THEN BelowTop(s, kinds) \cup {n} ELSE BelowTop(s, kinds)
  BY <1>1, <1>2, <1>3, <1>4
<1>10. QED
  BY <1>1, <1>2, <1>3, <1>7, <1>8, <1>9 DEF n
\* The count of evaluations.
LEMMA RoundsCounted ==
    ASSUME NEW s, NEW frames, IsSeq(s), s # <<>>, IsSeq(frames)
    PROVE  LET before == Cardinality(Marked(s, Rounds))
               after == Cardinality(Marked(Replaced(s, frames), Rounds))
               ends == Last(s)[1] \in Rounds
           IN  /\ before \in Nat
               /\ ~ends /\ NoneOf(frames, Rounds) => after = before
               /\ ~ends /\ OneOf(frames, Rounds) => after = before + 1
               /\ ends /\ NoneOf(frames, Rounds) => after = before - 1
               /\ ends /\ OneOf(frames, Rounds) => after = before
<1> DEFINE r == Replaced(s, frames)
           B == BelowTop(s, Rounds)
<1>1. /\ Len(s) \in Nat /\ IsFiniteSet(B) /\ Len(s) \notin B
      /\ \A i \in B : i < Len(s) /\ i \in 1 .. Len(s)
      /\ Marked(s, Rounds) = IF Last(s)[1] \in Rounds THEN B \cup {Len(s)} ELSE B
  BY TopFrame
<1>2. NoneOf(frames, Rounds) => Marked(r, Rounds) = B
  BY MarkedAfter
<1>3. OneOf(frames, Rounds) => \E j \in Nat : j >= Len(s) /\ Marked(r, Rounds) = B \cup {j}
  BY MarkedAfter DEF OneOf
<1> HIDE DEF r, B
<1>4. Cardinality(B) \in Nat
  BY <1>1, FS_CardinalityType
<1>5. \A j \in Nat : j >= Len(s) => j \notin B
  BY <1>1
<1>6. \A j : j \notin B => Cardinality(B \cup {j}) = Cardinality(B) + 1
  BY <1>1, FS_AddElement
<1>7. OneOf(frames, Rounds) => Cardinality(Marked(r, Rounds)) = Cardinality(B) + 1
  BY <1>3, <1>5, <1>6
<1>8. Last(s)[1] \in Rounds => Cardinality(Marked(s, Rounds)) = Cardinality(B) + 1
  BY <1>1, <1>6
<1>9. ~(Last(s)[1] \in Rounds) => Cardinality(Marked(s, Rounds)) = Cardinality(B)
  BY <1>1
<1>10. NoneOf(frames, Rounds) => Cardinality(Marked(r, Rounds)) = Cardinality(B)
  BY <1>2
<1> HIDE DEF NoneOf, OneOf
<1>11. QED
  BY <1>4, <1>7, <1>8, <1>9, <1>10 DEF r

\* What is below the top frame stays.
LEMMA BelowStays ==
    ASSUME NEW s, NEW frames, NEW kinds, IsSeq(s), s # <<>>, IsSeq(frames), NEW i \in BelowTop(s, kinds)
    PROVE  i \in 1 .. Len(s) - 1 /\ Replaced(s, frames)[i] = s[i]
<1>1. /\ Len(s) - 1 \in Nat /\ Len(s) = (Len(s) - 1) + 1 /\ DOMAIN s = 1 .. (Len(s) - 1) + 1
      /\ \A l \in 1 .. Len(s) - 1 : Replaced(s, frames)[l] = s[l]
  BY ReplacedShape
<1>2. i \in DOMAIN s /\ i # Len(s)
  BY DEF BelowTop, Marked
<1>3. i \in 1 .. Len(s) - 1
  BY <1>1, <1>2
<1>4. QED
  BY <1>1, <1>3

\* The flag.  One saver may be put on the stack, if it is to put back what the flag unwinds
\* from: the flag as it is, or what the saver before it was to put back.
OneSaver(frames, d) == \E k \in DOMAIN frames : Marked(frames, Savers) = {k} /\ Kept(frames[k]) = d

LEMMA FlagUnwinds ==
    ASSUME NEW s, NEW frames, IsSeq(s), s # <<>>, IsSeq(frames), NEW d, Unwinds(s, d)
    PROVE  LET saves == Last(s)[1] \in Savers
               r == Replaced(s, frames)
           IN  /\ ~saves /\ NoneOf(frames, Savers) => Unwinds(r, d)
               /\ ~saves /\ OneSaver(frames, d) => \A e : Unwinds(r, e)
               /\ saves /\ NoneOf(frames, Savers) => Unwinds(r, Kept(Last(s)))
               /\ saves /\ OneSaver(frames, Kept(Last(s))) => \A e : Unwinds(r, e)
<1>a. \A i \in BelowTop(s, Savers) : i \in 1 .. Len(s) - 1 /\ Replaced(s, frames)[i] = s[i]
  BY BelowStays
<1>b. NoneOf(frames, Savers) => Marked(Replaced(s, frames), Savers) = BelowTop(s, Savers)
  BY MarkedAfter
<1> DEFINE r == Replaced(s, frames)
           B == BelowTop(s, Savers)
           n == Len(s)
           saves == Last(s)[1] \in Savers
<1>1. /\ n \in Nat /\ n \in DOMAIN s /\ Last(s) = s[n]
      /\ \A i \in B : i < n /\ i \in 1 .. n
      /\ Marked(s, Savers) = IF saves THEN B \cup {n} ELSE B
  BY TopFrame
<1>2. /\ \A i \in B : i \in 1 .. n - 1 /\ r[i] = s[i]
      /\ NoneOf(frames, Savers) => Marked(r, Savers) = B
  BY <1>a, <1>b
<1>4. ASSUME NEW e, OneSaver(frames, e)
      PROVE  \E j \in Nat : j >= n /\ Kept(r[j]) = e /\ Marked(r, Savers) = B \cup {j}
  BY <1>4, MarkedAfter DEF OneSaver
<1> HIDE DEF r, B, n, saves
\* The saver at the bottom, if it is not the top frame, is below it afterwards as well.
<1>5. \A i \in B : (\A j \in B : i <= j) => ~Kept(r[i])
  <2> SUFFICES ASSUME NEW i \in B, \A j \in B : i <= j PROVE ~Kept(s[i])
    BY <1>2
  <2>1. i \in Marked(s, Savers) /\ i <= n
    BY <1>1
  <2>2. \A j \in Marked(s, Savers) : i <= j
    BY <1>1, <2>1
  <2>3. QED
    BY <2>1, <2>2 DEF Unwinds
<1>6. B = {} /\ saves => ~Kept(Last(s))
  <2> SUFFICES ASSUME B = {}, saves PROVE ~Kept(s[n])
    BY <1>1
  <2>1. Marked(s, Savers) = {n}
    BY <1>1
  <2>2. n <= n
    BY <1>1
  <2>3. QED
    BY <2>1, <2>2 DEF Unwinds
<1>7. B = {} /\ ~saves => ~d
  BY <1>1 DEF Unwinds
<1>8. ASSUME NEW e, NoneOf(frames, Savers), B = {} => ~e PROVE Unwinds(r, e)
  BY <1>2, <1>5, <1>8 DEF Unwinds
<1>9. ASSUME NEW e, OneSaver(frames, e), B = {} => ~e, NEW g PROVE Unwinds(r, g)
  <2>1. PICK j \in Nat : j >= n /\ Kept(r[j]) = e /\ Marked(r, Savers) = B \cup {j}
    BY <1>4, <1>9
  <2>2. Marked(r, Savers) # {}
    BY <2>1
  <2>3. ASSUME NEW i \in Marked(r, Savers), \A l \in Marked(r, Savers) : i <= l
        PROVE  ~Kept(r[i])
    <3>1. CASE i \in B
      BY <3>1, <2>1, <2>3, <1>5
    <3>2. CASE i = j /\ B = {}
      BY <3>2, <2>1, <1>9
    <3>3. CASE i = j /\ B # {}
      <4>1. PICK b \in B : TRUE
        BY <3>3
      <4>2. j <= b
        BY <4>1, <3>3, <2>1, <2>3
      <4>3. QED
        BY <4>1, <4>2, <2>1, <1>1
    <3>4. QED
      BY <3>1, <3>2, <3>3, <2>1
  <2>4. QED
    BY <2>2, <2>3 DEF Unwinds
<1>10. QED
  BY <1>6, <1>7, <1>8, <1>9 DEF r, saves
-----------------------------------------------------------------------------
(* Steps that neither save the flag nor count an evaluation.                *)

PlainFrame(a) == a[1] \notin Savers \cup Rounds
Plain(frames) == IsSeq(frames) /\ NoneOf(frames, Savers) /\ NoneOf(frames, Rounds)

LEMMA PlainTuples ==
    /\ Plain(<<>>)
    /\ \A a : PlainFrame(a) => Plain(<<a>>)
    /\ \A a, b : PlainFrame(a) /\ PlainFrame(b) => Plain(<<a, b>>)
    /\ \A a, b, c : PlainFrame(a) /\ PlainFrame(b) /\ PlainFrame(c) => Plain(<<a, b, c>>)
    /\ \A a, b, c, d : PlainFrame(a) /\ PlainFrame(b) /\ PlainFrame(c) /\ PlainFrame(d) => Plain(<<a, b, c, d>>)
<1>1. Plain(<<>>)
  BY TupleIsSeq DEF Plain, NoneOf, Marked
<1>2. \A a : PlainFrame(a) => Plain(<<a>>)
  BY TupleIsSeq DEF Plain, PlainFrame, NoneOf, Marked
<1>3. \A a, b : PlainFrame(a) /\ PlainFrame(b) => Plain(<<a, b>>)
  BY TupleIsSeq DEF Plain, PlainFrame, NoneOf, Marked
<1>4. \A a, b, c : PlainFrame(a) /\ PlainFrame(b) /\ PlainFrame(c) => Plain(<<a, b, c>>)
  BY TupleIsSeq DEF Plain, PlainFrame, NoneOf, Marked
<1>5. \A a, b, c, d : PlainFrame(a) /\ PlainFrame(b) /\ PlainFrame(c) /\ PlainFrame(d) => Plain(<<a, b, c, d>>)
  BY TupleIsSeq DEF Plain, PlainFrame, NoneOf, Marked
<1>6. QED
  BY <1>1, <1>2, <1>3, <1>4, <1>5

LEMMA PlainJoined ==
    ASSUME NEW a, NEW b, Plain(a), Plain(b)
    PROVE  Plain(a \o b)
<1> DEFINE S == {a[i] : i \in DOMAIN a} \cup {b[i] : i \in DOMAIN b}
<1>1. a \in Seq(S) /\ b \in Seq(S)
  BY DEF Plain, IsSeq
<1> HIDE DEF S
<1>2. a \o b \in Seq(S) /\ Len(a \o b) = Len(a) + Len(b)
  BY <1>1
<1>3. \A i \in 1 .. Len(a) + Len(b) : (a \o b)[i] = IF i <= Len(a) THEN a[i] ELSE b[i - Len(a)]
  BY <1>1
<1>4. DOMAIN a = 1 .. Len(a) /\ DOMAIN b = 1 .. Len(b) /\ DOMAIN (a \o b) = 1 .. Len(a) + Len(b)
      /\ Len(a) \in Nat /\ Len(b) \in Nat
  BY <1>1, <1>2
<1>5. \A i \in DOMAIN a : PlainFrame(a[i])
  BY DEF Plain, NoneOf, Marked, PlainFrame
<1>6. \A i \in DOMAIN b : PlainFrame(b[i])
  BY DEF Plain, NoneOf, Marked, PlainFrame
<1> DEFINE c == a \o b
<1>7. \A i \in DOMAIN c : PlainFrame(c[i])
  <2> SUFFICES ASSUME NEW i \in 1 .. Len(a) + Len(b) PROVE PlainFrame(c[i])
    BY <1>4
  <2>1. CASE i <= Len(a)
    BY <2>1, <1>3, <1>4, <1>5
  <2>2. CASE ~(i <= Len(a))
    <3>1. i - Len(a) \in DOMAIN b
      BY <2>2, <1>4
    <3>2. QED
      BY <3>1, <2>2, <1>3, <1>6
  <2>3. QED
    BY <2>1, <2>2
<1>8. c \in Seq(S)
  BY <1>2
<1> HIDE DEF c
<1>9. IsSeq(c)
  BY <1>8 DEF IsSeq
<1>10. Plain(c)
  BY <1>7, <1>9 DEF Plain, NoneOf, Marked, PlainFrame
<1>11. QED
  BY <1>10 DEF c

\* Plain frames and a round after them.
LEMMA PlainThen ==
    ASSUME NEW a, NEW last, Plain(a), last[1] \in Rounds
    PROVE  LET frames == a \o <<last>>
           IN  IsSeq(frames) /\ NoneOf(frames, Savers) /\ OneOf(frames, Rounds)
<1> DEFINE S == {a[i] : i \in DOMAIN a} \cup {last}
           n == Len(a)
           frames == a \o <<last>>
<1>1. a \in Seq(S) /\ <<last>> \in Seq(S)
  BY DEF Plain, IsSeq
<1> HIDE DEF S
<1>2. /\ n \in Nat /\ DOMAIN a = 1 .. n /\ frames \in Seq(S) /\ DOMAIN frames = 1 .. n + 1
      /\ \A i \in 1 .. n : frames[i] = a[i]
      /\ frames[n + 1] = last
  BY <1>1
<1> HIDE DEF n, frames
<1>3. \A i \in 1 .. n : a[i][1] \notin Savers /\ a[i][1] \notin Rounds
  BY <1>2 DEF Plain, NoneOf, Marked
<1>4. last[1] \notin Savers
  BY DEF Savers, Rounds
<1>5. \A i \in DOMAIN frames : frames[i][1] \in Savers \/ frames[i][1] \in Rounds => i = n + 1
  BY <1>2, <1>3
<1>6. n + 1 \in DOMAIN frames /\ frames[n + 1][1] \in Rounds /\ frames[n + 1][1] \notin Savers
  BY <1>2, <1>4
<1>7. Marked(frames, Savers) = {} /\ Marked(frames, Rounds) = {n + 1}
  BY <1>5, <1>6 DEF Marked
<1>8. IsSeq(frames)
  BY <1>2 DEF IsSeq
<1>9. QED
  BY <1>6, <1>7, <1>8 DEF NoneOf, OneOf, frames

\* A step that replaces a plain frame by plain frames and leaves flag and count alone.
Quiet == /\ stack # <<>> /\ PlainFrame(Frame)
         /\ \E frames : Plain(frames) /\ stack' = Replaced(stack, frames)
         /\ UNCHANGED mode

LEMMA QuietKeeps == Balanced /\ Quiet => Balanced'
<1> SUFFICES ASSUME Balanced, Quiet PROVE Balanced'
  OBVIOUS
<1>1. PICK frames : Plain(frames) /\ stack' = Replaced(stack, frames)
  BY DEF Quiet
<1>2. IsSeq(stack) /\ stack # <<>> /\ IsSeq(frames) /\ UNCHANGED <<dispatch, depth>>
  BY <1>1 DEF Balanced, Quiet, Plain, mode
<1>3. ~(Last(stack)[1] \in Savers) /\ ~(Last(stack)[1] \in Rounds)
  BY DEF Quiet, PlainFrame, Frame
<1>4. IsSeq(stack')
  BY <1>1, <1>2, ReplacedShape
<1>5. Unwinds(stack', dispatch)
  BY <1>1, <1>2, <1>3, FlagUnwinds DEF Plain, Balanced
<1>6. Cardinality(Marked(stack', Rounds)) = Cardinality(Marked(stack, Rounds))
  BY <1>1, <1>2, <1>3, RoundsCounted DEF Plain
<1>7. QED
  BY <1>2, <1>4, <1>5, <1>6 DEF Balanced

-----------------------------------------------------------------------------
(* The steps that are quiet.                                                *)

LEMMA Quietly ==
    ASSUME NEW t, NEW frames, NEW step, Do(step), step \notin Savers \cup Rounds,
           Plain(frames), Calls(t, frames), UNCHANGED mode
    PROVE  Quiet
<1>1. stack # <<>> /\ PlainFrame(Frame)
  BY DEF Do, PlainFrame, Frame
<1>2. stack' = Replaced(stack, frames)
  BY DEF Calls, Replaced
<1>3. QED
  BY <1>1, <1>2 DEF Quiet

LEMMA FiresQuietly ==
    ASSUME NEW t, NEW r, NEW step, Do(step), step \notin Savers \cup Rounds, Fires(t, r), UNCHANGED mode
    PROVE  Quiet
<1> DEFINE frames == IF r.term # t THEN <<REDUCE>> ELSE <<>>
<1>1. PlainFrame(REDUCE)
  BY DEF PlainFrame, REDUCE, Savers, Rounds
<1>2. Plain(frames)
  BY <1>1, PlainTuples
<1>3. Calls(r.term, frames)
  BY DEF Fires
<1> HIDE DEF frames
<1>4. QED
  BY <1>2, <1>3, Quietly

\* The frames the steps put on the stack.
LEMMA PlainFrames ==
    /\ \A w \in {"reduce", "materialise", "eval", "fuse", "schedule", "resolve", "dispatch", "normalize",
                 "host", "host_kernel", "host_assign", "host_rewritten", "host_rest", "host_dispatch"} :
          PlainFrame(<<w>>)
    /\ \A w \in {"operand", "fire", "register", "kernel", "exec", "force", "right", "tensor_or",
                 "host_source", "collect"} : \A a : PlainFrame(<<w, a>>)
    /\ \A w \in {"seq", "store", "enter"} : \A a, b : PlainFrame(<<w, a, b>>)
    /\ \A w \in {"walk", "visit"} : \A a, b, c : PlainFrame(<<w, a, b, c>>)
BY DEF PlainFrame, Savers, Rounds

\* The reducer.
LEMMA ReduceQuiet == ReduceSeq \/ ReduceSeqPart \/ ReduceDirect \/ ReduceOther \/ ReduceOperand \/ Materialise \/ Store => Quiet
<1>0. PlainFrame(REDUCE) /\ \A at, h : PlainFrame(Stores(at, h))
  BY PlainFrames DEF REDUCE, Stores
<1>1. ASSUME ReduceSeq PROVE Quiet
  <2> DEFINE frames == <<REDUCE, <<"seq", ret, heap[At(ret) + 1]>>>>
  <2>1. Plain(frames)
    BY <1>0, PlainFrames, PlainTuples
  <2>2. Do("reduce") /\ Calls(heap[At(ret)], frames) /\ UNCHANGED mode
    BY <1>1 DEF ReduceSeq
  <2>3. QED
    BY <2>1, <2>2, Quietly DEF Savers, Rounds
<1>2. ASSUME ReduceSeqPart PROVE Quiet
  <2> DEFINE frames == IF Tag(ret) \in Tops THEN <<>> ELSE <<REDUCE>>
  <2>1. Plain(frames)
    BY <1>0, PlainFrames, PlainTuples
  <2>2. Do("seq") /\ Calls(IF Tag(ret) \in Tops THEN Frame[2] ELSE Frame[3], frames) /\ UNCHANGED mode
    BY <1>2 DEF ReduceSeqPart, SeqPart, Returns
  <2>3. QED
    BY <2>1, <2>2, Quietly DEF Savers, Rounds
<1>3. ASSUME ReduceDirect PROVE Quiet
  <2> DEFINE frames == <<REDUCE, Stores(At(ret), heap)>>
                      \o (IF Tag(ret) = "assign" THEN <<<<"operand", ret>>>> ELSE <<>>)
                      \o <<<<"fire", ret>>>>
  <2>1. Plain(frames)
    BY <1>0, PlainFrames, PlainTuples, PlainJoined
  <2>2. Do("reduce") /\ Calls(heap[At(ret)], frames) /\ UNCHANGED mode
    BY <1>3 DEF ReduceDirect
  <2>3. QED
    BY <2>1, <2>2, Quietly DEF Savers, Rounds
<1>4. ASSUME ReduceOther PROVE Quiet
  <2> DEFINE frames == <<>>
  <2>1. Plain(frames)
    BY <1>0, PlainFrames, PlainTuples
  <2>2. Do("reduce") /\ Calls(ret, frames) /\ UNCHANGED mode
    BY <1>4 DEF ReduceOther, Returns
  <2>3. QED
    BY <2>1, <2>2, Quietly DEF Savers, Rounds
<1>5. ASSUME ReduceOperand PROVE Quiet
  <2> DEFINE frames == <<REDUCE, <<"materialise">>, Stores(At(Frame[2]) + 1, heap)>>
  <2>1. Plain(frames)
    BY <1>0, PlainFrames, PlainTuples
  <2>2. Do("operand") /\ Calls(heap[At(Frame[2]) + 1], frames) /\ UNCHANGED mode
    BY <1>5 DEF ReduceOperand
  <2>3. QED
    BY <2>1, <2>2, Quietly DEF Savers, Rounds
<1>6. ASSUME Materialise PROVE Quiet
  <2> DEFINE frames == IF Tag(ret) \in Tops THEN <<<<"eval">>>> ELSE <<>>
  <2>1. Plain(frames)
    BY <1>0, PlainFrames, PlainTuples
  <2>2. Do("materialise") /\ Calls(ret, frames) /\ UNCHANGED mode
    BY <1>6 DEF Materialise
  <2>3. QED
    BY <2>1, <2>2, Quietly DEF Savers, Rounds
<1>7. ASSUME Store PROVE Quiet
  <2> DEFINE frames == <<>>
  <2>1. Plain(frames)
    BY <1>0, PlainFrames, PlainTuples
  <2>2. Do("store") /\ Calls(ret, frames) /\ UNCHANGED mode
    BY <1>7 DEF Store, Returns
  <2>3. QED
    BY <2>1, <2>2, Quietly DEF Savers, Rounds
<1>8. QED
  BY <1>1, <1>2, <1>3, <1>4, <1>5, <1>6, <1>7

\* The rules.
LEMMA RuleQuiet == FireKernel \/ FireExec => Quiet
<1>0. PlainFrame(REDUCE) /\ \A at, h : PlainFrame(Stores(at, h))
  BY PlainFrames DEF REDUCE, Stores
<1>1. ASSUME FireKernel PROVE Quiet
  <2> DEFINE frames == IF dispatch THEN <<<<"register", Frame[2]>>, <<"kernel", Frame[2]>>>> ELSE <<>>
  <2>1. Plain(frames)
    BY <1>0, PlainFrames, PlainTuples
  <2>2. Do("fire") /\ Calls(Frame[2], frames) /\ UNCHANGED mode
    BY <1>1 DEF FireKernel
  <2>3. QED
    BY <2>1, <2>2, Quietly DEF Savers, Rounds
<1>2. ASSUME FireExec PROVE Quiet
  <2> DEFINE frames == <<<<"force", At(Frame[2]) + 1>>, <<"exec", Frame[2]>>>>
  <2>1. Plain(frames)
    BY <1>0, PlainFrames, PlainTuples
  <2>2. Do("fire") /\ Calls(Frame[2], frames) /\ UNCHANGED mode
    BY <1>2 DEF FireExec
  <2>3. QED
    BY <2>1, <2>2, Quietly DEF Savers, Rounds
<1>3. QED
  BY <1>1, <1>2

LEMMA FireQuiet == FireLocal \/ FireAssign => Quiet
<1>1. ASSUME FireLocal PROVE Quiet
  <2>1. Do("fire") /\ UNCHANGED mode /\ \E r : Fires(Frame[2], r)
    BY <1>1 DEF FireLocal
  <2>2. QED
    BY <2>1, FiresQuietly DEF Savers, Rounds
<1>2. ASSUME FireAssign PROVE Quiet
  <2>1. Do("fire") /\ UNCHANGED mode /\ Assigns(Frame[2])
    BY <1>2 DEF FireAssign
  <2>2. \E r : Fires(Frame[2], r)
    BY <2>1 DEF Assigns
  <2>3. QED
    BY <2>1, <2>2, FiresQuietly DEF Savers, Rounds
<1>3. QED
  BY <1>1, <1>2

\* A kernel that is waited for, or run, or handed out again.
LEMMA RunQuiet == Resolve \/ RunKernel \/ RunExec \/ Dispatch => Quiet
<1>1. ASSUME Resolve PROVE Quiet
  <2>1. Do("resolve") /\ UNCHANGED mode
    BY <1>1 DEF Resolve
  <2>2. (\E t : Calls(t, <<>>)) \/ Calls(ret, <<<<"register", ret>>, <<"dispatch">>>>)
    BY <1>1 DEF Resolve, Returns
  <2>3. Plain(<<>>) /\ Plain(<<<<"register", ret>>, <<"dispatch">>>>)
    BY PlainFrames, PlainTuples
  <2>4. QED
    BY <2>1, <2>2, <2>3, Quietly DEF Savers, Rounds
<1>2. ASSUME NEW t, NEW k, NEW step, Do(step), step \notin Savers \cup Rounds, RunOrReuse(t, k), UNCHANGED mode
      PROVE  Quiet
  <2>1. \E r : Fires(t, r)
    BY <1>2 DEF RunOrReuse
  <2>2. QED
    BY <1>2, <2>1, FiresQuietly
<1>3. ASSUME RunKernel PROVE Quiet
  <2>1. Do("kernel") /\ UNCHANGED mode /\ RunOrReuse(Frame[2], At(ret))
    BY <1>3 DEF RunKernel
  <2>2. QED
    BY <2>1, <1>2 DEF Savers, Rounds
<1>4. ASSUME RunExec PROVE Quiet
  <2>1. Do("exec") /\ UNCHANGED mode
    BY <1>4 DEF RunExec
  <2>2. \/ Returns(Frame[2])
        \/ Fires(Frame[2], Same(heap, Era))
        \/ RunOrReuse(Frame[2], At(heap[At(Frame[2])]))
    BY <1>4 DEF RunExec
  <2>3. Plain(<<>>)
    BY PlainTuples
  <2>4. CASE Returns(Frame[2])
    BY <2>1, <2>3, <2>4, Quietly DEF Returns, Savers, Rounds
  <2>5. CASE Fires(Frame[2], Same(heap, Era))
    BY <2>1, <2>5, FiresQuietly DEF Savers, Rounds
  <2>6. CASE RunOrReuse(Frame[2], At(heap[At(Frame[2])]))
    BY <2>1, <2>6, <1>2 DEF Savers, Rounds
  <2>7. QED
    BY <2>2, <2>4, <2>5, <2>6
<1>5. ASSUME Dispatch PROVE Quiet
  <2>1. Do("dispatch") /\ UNCHANGED mode /\ \E t : Calls(t, <<>>)
    BY <1>5 DEF Dispatch, Returns
  <2>2. Plain(<<>>)
    BY PlainTuples
  <2>3. QED
    BY <2>1, <2>2, Quietly DEF Savers, Rounds
<1>6. QED
  BY <1>1, <1>3, <1>4, <1>5

\* The walk of a normalisation, the cut into kernels and the marker.
LEMMA WalkQuiet == Normalize \/ Walk \/ Schedule \/ EvalFuse => Quiet
<1>1. ASSUME Normalize PROVE Quiet
  <2> DEFINE frames == <<<<"walk", Len(heap) + 1, <<Len(heap) + 1>>, {}>>>>
  <2>1. Plain(<<>>) /\ Plain(frames)
    BY PlainFrames, PlainTuples
  <2>2. Do("normalize") /\ UNCHANGED mode /\ (Calls(ret, <<>>) \/ Calls(ret, frames))
    BY <1>1 DEF Normalize, Returns
  <2>3. QED
    BY <2>1, <2>2, Quietly DEF Savers, Rounds
<1>2. ASSUME Walk PROVE Quiet
  <2> DEFINE at == Last(Frame[3])
             rest == Front(Frame[3])
             seen == Frame[4] \cup {at}
             skip == <<<<"walk", Frame[2], rest, seen>>>>
             visit == <<REDUCE, Stores(at, heap), <<"visit", Frame[2], rest, seen>>>>
  <2>1. Do("walk") /\ UNCHANGED mode
    BY <1>2 DEF Walk
  <2>2. (\E t : Calls(t, <<>>)) \/ (\E t : Calls(t, skip)) \/ (\E t : Calls(t, visit))
    BY <1>2 DEF Walk, Passed, Returns
  <2>3. Plain(<<>>) /\ Plain(skip)
    BY PlainFrames, PlainTuples
  <2>4. PlainFrame(REDUCE) /\ PlainFrame(Stores(at, heap)) /\ PlainFrame(<<"visit", Frame[2], rest, seen>>)
    BY PlainFrames DEF REDUCE, Stores
  <2>5. Plain(visit)
    BY <2>4, PlainTuples
  <2>6. QED
    BY <2>1, <2>2, <2>3, <2>5, Quietly DEF Savers, Rounds
<1>3. ASSUME Schedule PROVE Quiet
  <2>1. Do("schedule") /\ UNCHANGED mode /\ \E t : Calls(t, <<>>)
    BY <1>3 DEF Schedule, Returns
  <2>2. Plain(<<>>)
    BY PlainTuples
  <2>3. QED
    BY <2>1, <2>2, Quietly DEF Savers, Rounds
<1>4. ASSUME EvalFuse PROVE Quiet
  <2>1. Do("fuse") /\ UNCHANGED mode /\ \E t : Calls(t, <<<<"collect", FALSE>>>>)
    BY <1>4 DEF EvalFuse
  <2>2. Plain(<<<<"collect", FALSE>>>>)
    BY PlainFrames, PlainTuples
  <2>3. QED
    BY <2>1, <2>2, Quietly DEF Savers, Rounds
<1>5. QED
  BY <1>1, <1>2, <1>3, <1>4

\* The table of kernels.
LEMMA TableQuiet == RegisterKnown \/ RegisterWhole \/ RegisterGrowing \/ RegisterRight \/ RegisterEnter => Quiet
<1>0. PlainFrame(REDUCE) /\ \A at, h : PlainFrame(Stores(at, h))
  BY PlainFrames DEF REDUCE, Stores
<1>1. ASSUME RegisterKnown PROVE Quiet
  <2> DEFINE frames == <<>>
  <2>1. Plain(frames)
    BY <1>0, PlainFrames, PlainTuples
  <2>2. Do("register") /\ Calls(Num(CHOOSE k \in Known(Frame[2]) : \A l \in Known(Frame[2]) : k <= l), frames) /\ UNCHANGED mode
    BY <1>1 DEF RegisterKnown, Returns
  <2>3. QED
    BY <2>1, <2>2, Quietly DEF Savers, Rounds
<1>2. ASSUME RegisterWhole PROVE Quiet
  <2> DEFINE frames == <<>>
  <2>1. Plain(frames)
    BY <1>0, PlainFrames, PlainTuples
  <2>2. Do("register") /\ Calls(Num(Len(kernels) + 1), frames) /\ UNCHANGED mode
    BY <1>2 DEF RegisterWhole, Enters, Returns
  <2>3. QED
    BY <2>1, <2>2, Quietly DEF Savers, Rounds
<1>3. ASSUME RegisterGrowing PROVE Quiet
  <2> DEFINE frames == IF is_empty(heap, Frame[2]) THEN <<>> ELSE <<<<"resolve">>, <<"right", Frame[2]>>>>
  <2>1. Plain(frames)
    BY <1>0, PlainFrames, PlainTuples
  <2>2. Do("register") /\ Calls(IF is_empty(heap, Frame[2]) THEN Failed ELSE heap[At(Frame[2])], frames) /\ UNCHANGED mode
    BY <1>3 DEF RegisterGrowing, Returns
  <2>3. QED
    BY <2>1, <2>2, Quietly DEF Savers, Rounds
<1>4. ASSUME RegisterRight PROVE Quiet
  <2> DEFINE frames == IF ret = Failed THEN <<>> ELSE <<<<"resolve">>, <<"enter", Frame[2], ret>>>>
  <2>1. Plain(frames)
    BY <1>0, PlainFrames, PlainTuples
  <2>2. Do("right") /\ Calls(IF ret = Failed THEN Failed ELSE heap[At(Frame[2]) + 1], frames) /\ UNCHANGED mode
    BY <1>4 DEF RegisterRight, Returns
  <2>3. QED
    BY <2>1, <2>2, Quietly DEF Savers, Rounds
<1>5. ASSUME RegisterEnter PROVE Quiet
  <2> DEFINE frames == <<>>
  <2>1. Plain(frames)
    BY <1>0, PlainFrames, PlainTuples
  <2>2. Do("enter") /\ Calls(IF ret = Failed THEN Failed ELSE Num(Len(kernels) + 1), frames) /\ UNCHANGED mode
    BY <1>5 DEF RegisterEnter, Enters, Returns
  <2>3. QED
    BY <2>1, <2>2, Quietly DEF Savers, Rounds
<1>6. QED
  BY <1>1, <1>2, <1>3, <1>4, <1>5

\* What comes before a kernel, and the cells a normalisation has still to see.
LEMMA ChainQuiet == ForceDep \/ Visit => Quiet
<1>0. PlainFrame(REDUCE) /\ \A at, h : PlainFrame(Stores(at, h))
  BY PlainFrames DEF REDUCE, Stores
<1>1. ASSUME ForceDep PROVE Quiet
  <2> DEFINE frames == CASE Tag(heap[Frame[2]]) = "ctr" -> <<<<"force", At(heap[Frame[2]])>>, <<"force", At(heap[Frame[2]]) + 1>>>>
                        [] Tag(heap[Frame[2]]) = "exec" -> <<<<"collect", TRUE>>, Stores(Frame[2], heap)>>
                        [] OTHER -> <<>>
  <2>1. Plain(frames)
    BY <1>0, PlainFrames, PlainTuples
  <2>2. Do("force") /\ Calls(heap[Frame[2]], frames) /\ UNCHANGED mode
    BY <1>1 DEF ForceDep
  <2>3. QED
    BY <2>1, <2>2, Quietly DEF Savers, Rounds
<1>2. ASSUME Visit PROVE Quiet
  <2> DEFINE frames == <<<<"walk", Frame[2], Frame[3] \o [i \in 1 .. Arity(ret) |-> At(ret) + i - 1], Frame[4]>>>>
  <2>1. Plain(frames)
    BY <1>0, PlainFrames, PlainTuples
  <2>2. Do("visit") /\ Calls(ret, frames) /\ UNCHANGED mode
    BY <1>2 DEF Visit
  <2>3. QED
    BY <2>1, <2>2, Quietly DEF Savers, Rounds
<1>3. QED
  BY <1>1, <1>2

\* Reading on the host.
LEMMA HostQuiet == Host \/ TensorOr \/ HostAssign \/ HostRewritten \/ HostRest => Quiet
<1>0. PlainFrame(REDUCE) /\ \A at, h : PlainFrame(Stores(at, h))
  BY PlainFrames DEF REDUCE, Stores
<1>1. ASSUME Host PROVE Quiet
  <2> DEFINE frames == <<REDUCE, <<"host_kernel">>, <<"host_assign">>, <<"host_rewritten">>, <<"host_rest">>,
                        <<"host_dispatch">>, <<"host_kernel">>>>
  <2> DEFINE first == <<REDUCE, <<"host_kernel">>, <<"host_assign">>, <<"host_rewritten">>>>
             rest == <<<<"host_rest">>, <<"host_dispatch">>, <<"host_kernel">>>>
  <2>a. Plain(first) /\ Plain(rest)
    BY <1>0, PlainFrames, PlainTuples
  <2>b. frames = first \o rest
    OBVIOUS
  <2> HIDE DEF first, rest
  <2>1. Plain(frames)
    BY <2>a, <2>b, PlainJoined
  <2>2. Do("host") /\ Calls(ret, frames) /\ UNCHANGED mode
    BY <1>1 DEF Host
  <2>3. QED
    BY <2>1, <2>2, Quietly DEF Savers, Rounds
<1>2. ASSUME TensorOr PROVE Quiet
  <2> DEFINE frames == <<>>
  <2>1. Plain(frames)
    BY <1>0, PlainFrames, PlainTuples
  <2>2. Do("tensor_or") /\ Calls(IF Tag(ret) = "ten" THEN ret ELSE Frame[2], frames) /\ UNCHANGED mode
    BY <1>2 DEF TensorOr, Returns
  <2>3. QED
    BY <2>1, <2>2, Quietly DEF Savers, Rounds
<1>3. ASSUME HostAssign PROVE Quiet
  <2> DEFINE frames == IF Tag(ret) = "assign" THEN <<<<"host">>, <<"host_source", ret>>>> ELSE <<>>
  <2>1. Plain(frames)
    BY <1>0, PlainFrames, PlainTuples
  <2>2. Do("host_assign") /\ Calls(IF Tag(ret) = "assign" THEN heap[At(ret) + 1] ELSE ret, frames) /\ UNCHANGED mode
    BY <1>3 DEF HostAssign, Returns
  <2>3. QED
    BY <2>1, <2>2, Quietly DEF Savers, Rounds
<1>4. ASSUME HostRewritten PROVE Quiet
  <2> DEFINE frames == IF Tag(ret) = "kernel" /\ At(ret) \in DOMAIN rewrites THEN <<<<"collect", TRUE>>>> ELSE <<>>
  <2>1. Plain(frames)
    BY <1>0, PlainFrames, PlainTuples
  <2>2. Do("host_rewritten") /\ Calls(IF Tag(ret) = "kernel" /\ At(ret) \in DOMAIN rewrites THEN rewrites[At(ret)] ELSE ret, frames) /\ UNCHANGED mode
    BY <1>4 DEF HostRewritten, Returns
  <2>3. QED
    BY <2>1, <2>2, Quietly DEF Savers, Rounds
<1>5. ASSUME HostRest PROVE Quiet
  <2> DEFINE frames == CASE Tag(ret) \in {"seq", "exec", "fuse"} -> <<<<"collect", TRUE>>>>
                        [] Tag(ret) \in Tops \ {"exec", "fuse"} -> <<<<"eval">>>>
                        [] OTHER -> <<>>
  <2>1. Plain(frames)
    BY <1>0, PlainFrames, PlainTuples
  <2>2. Do("host_rest") /\ Calls(ret, frames) /\ UNCHANGED mode
    BY <1>5 DEF HostRest
  <2>3. QED
    BY <2>1, <2>2, Quietly DEF Savers, Rounds
<1>6. QED
  BY <1>1, <1>2, <1>3, <1>4, <1>5

-----------------------------------------------------------------------------
(* The steps that save the flag or count an evaluation.                     *)

FlagStep(frames) ==
    \/ Frame[1] \notin Savers /\ NoneOf(frames, Savers) /\ (dispatch' <=> dispatch)
    \/ Frame[1] \notin Savers /\ OneSaver(frames, dispatch)
    \/ Frame[1] \in Savers /\ NoneOf(frames, Savers) /\ (dispatch' <=> Kept(Frame))
    \/ Frame[1] \in Savers /\ OneSaver(frames, Kept(Frame))

CountStep(frames) ==
    \/ Frame[1] \notin Rounds /\ NoneOf(frames, Rounds) /\ depth' = depth
    \/ Frame[1] \notin Rounds /\ OneOf(frames, Rounds) /\ depth' = depth + 1
    \/ Frame[1] \in Rounds /\ NoneOf(frames, Rounds) /\ depth' = depth - 1
    \/ Frame[1] \in Rounds /\ OneOf(frames, Rounds) /\ depth' = depth

LEMMA StepKeeps ==
    ASSUME NEW frames, Balanced, stack # <<>>, IsSeq(frames), stack' = Replaced(stack, frames),
           FlagStep(frames), CountStep(frames)
    PROVE  Balanced'
<1>1. IsSeq(stack) /\ Unwinds(stack, dispatch) /\ depth = Cardinality(Marked(stack, Rounds))
  BY DEF Balanced
<1>2. IsSeq(stack')
  BY <1>1, ReplacedShape
<1>3. Unwinds(stack', dispatch')
  <2>1. CASE Frame[1] \notin Savers /\ NoneOf(frames, Savers) /\ (dispatch' <=> dispatch)
    <3>1. Unwinds(stack', dispatch)
      BY <1>1, <2>1, FlagUnwinds DEF Frame
    <3>2. QED
      BY <3>1, <2>1 DEF Unwinds
  <2>2. CASE Frame[1] \notin Savers /\ OneSaver(frames, dispatch)
    BY <1>1, <2>2, FlagUnwinds DEF Frame
  <2>3. CASE Frame[1] \in Savers /\ NoneOf(frames, Savers) /\ (dispatch' <=> Kept(Frame))
    <3>1. Unwinds(stack', Kept(Frame))
      BY <1>1, <2>3, FlagUnwinds DEF Frame
    <3>2. QED
      BY <3>1, <2>3 DEF Unwinds
  <2>4. CASE Frame[1] \in Savers /\ OneSaver(frames, Kept(Frame))
    BY <1>1, <2>4, FlagUnwinds DEF Frame
  <2>5. QED
    BY <2>1, <2>2, <2>3, <2>4 DEF FlagStep
<1>4. depth' = Cardinality(Marked(stack', Rounds))
  BY <1>1, RoundsCounted DEF CountStep, Frame
<1>5. QED
  BY <1>2, <1>3, <1>4 DEF Balanced

\* dispatch_enabled is kept on the stack and set.
LEMMA SavesKeep == Balanced /\ (HostKernel \/ HostSource \/ HostDispatch \/ Collect) => Balanced'
<1>1. ASSUME NEW frames, NEW step, Do(step), step \notin Savers \cup Rounds, Balanced, IsSeq(frames),
             stack' = Replaced(stack, frames), OneSaver(frames, dispatch), NoneOf(frames, Rounds), UNCHANGED depth
      PROVE  Balanced'
  <2>1. stack # <<>> /\ Frame[1] \notin Savers /\ Frame[1] \notin Rounds
    BY <1>1 DEF Do, Frame
  <2>2. FlagStep(frames) /\ CountStep(frames)
    BY <1>1, <2>1 DEF FlagStep, CountStep
  <2>3. QED
    BY <1>1, <2>1, <2>2, StepKeeps
<1>2. ASSUME NEW step, Do(step), step \notin Savers \cup Rounds, Balanced,
             stack' = Replaced(stack, <<>>), dispatch' <=> dispatch, UNCHANGED depth
      PROVE  Balanced'
  <2>1. stack # <<>> /\ Frame[1] \notin Savers /\ Frame[1] \notin Rounds
    BY <1>2 DEF Do, Frame
  <2>2. IsSeq(<<>>) /\ NoneOf(<<>>, Savers) /\ NoneOf(<<>>, Rounds)
    BY PlainTuples DEF Plain
  <2>3. FlagStep(<<>>) /\ CountStep(<<>>)
    BY <1>2, <2>1, <2>2 DEF FlagStep, CountStep
  <2>4. QED
    BY <1>2, <2>1, <2>2, <2>3, StepKeeps
<1>3. ASSUME Balanced, HostKernel PROVE Balanced'
  <2> DEFINE frames == <<<<"register", ret>>, <<"dispatch_is", dispatch>>, <<"dispatch">>, <<"tensor_or", ret>>>>
  <2>1. Do("host_kernel") /\ UNCHANGED depth
    BY <1>3 DEF HostKernel
  <2>2. CASE Tag(ret) = "kernel"
    <3>1. stack' = Replaced(stack, frames)
      BY <1>3, <2>2 DEF HostKernel, Calls, Replaced
    <3>2. IsSeq(frames)
      BY TupleIsSeq
    <3>3. Marked(frames, Savers) = {2} /\ Marked(frames, Rounds) = {}
      BY DEF Marked, Savers, Rounds
    <3>4. OneSaver(frames, dispatch) /\ NoneOf(frames, Rounds)
      BY <3>3 DEF OneSaver, NoneOf, Kept
    <3>5. QED
      BY <1>1, <1>3, <2>1, <3>1, <3>2, <3>4 DEF Savers, Rounds
  <2>3. CASE Tag(ret) # "kernel"
    <3>1. stack' = Replaced(stack, <<>>) /\ (dispatch' <=> dispatch)
      BY <1>3, <2>3 DEF HostKernel, Calls, Replaced
    <3>2. QED
      BY <1>2, <1>3, <2>1, <3>1 DEF Savers, Rounds
  <2>4. QED
    BY <2>2, <2>3
<1>4. ASSUME Balanced, HostSource PROVE Balanced'
  <2> DEFINE frames == <<REDUCE, <<"dispatch_is", dispatch>>, <<"tensor_or", Frame[2]>>>>
  <2>1. Do("host_source") /\ UNCHANGED depth
    BY <1>4 DEF HostSource
  <2>2. CASE Tag(ret) = "ten"
    <3>1. stack' = Replaced(stack, frames)
      BY <1>4, <2>2 DEF HostSource, Calls, Replaced
    <3>2. IsSeq(frames)
      BY TupleIsSeq
    <3>3. Marked(frames, Savers) = {2} /\ Marked(frames, Rounds) = {}
      BY DEF Marked, Savers, Rounds, REDUCE
    <3>4. OneSaver(frames, dispatch) /\ NoneOf(frames, Rounds)
      BY <3>3 DEF OneSaver, NoneOf, Kept
    <3>5. QED
      BY <1>1, <1>4, <2>1, <3>1, <3>2, <3>4 DEF Savers, Rounds
  <2>3. CASE Tag(ret) # "ten"
    <3>1. stack' = Replaced(stack, <<>>) /\ (dispatch' <=> dispatch)
      BY <1>4, <2>3 DEF HostSource, Returns, Calls, Replaced
    <3>2. QED
      BY <1>2, <1>4, <2>1, <3>1 DEF Savers, Rounds
  <2>4. QED
    BY <2>2, <2>3
<1>5. ASSUME Balanced, HostDispatch PROVE Balanced'
  <2> DEFINE frames == <<REDUCE, <<"dispatch_is", dispatch>>>>
  <2>1. Do("host_dispatch") /\ UNCHANGED depth
    BY <1>5 DEF HostDispatch
  <2>2. CASE Tag(ret) # "ten"
    <3>1. stack' = Replaced(stack, frames)
      BY <1>5, <2>2 DEF HostDispatch, Calls, Replaced
    <3>2. IsSeq(frames)
      BY TupleIsSeq
    <3>3. Marked(frames, Savers) = {2} /\ Marked(frames, Rounds) = {}
      BY DEF Marked, Savers, Rounds, REDUCE
    <3>4. OneSaver(frames, dispatch) /\ NoneOf(frames, Rounds)
      BY <3>3 DEF OneSaver, NoneOf, Kept
    <3>5. QED
      BY <1>1, <1>5, <2>1, <3>1, <3>2, <3>4 DEF Savers, Rounds
  <2>3. CASE Tag(ret) = "ten"
    <3>1. stack' = Replaced(stack, <<>>) /\ (dispatch' <=> dispatch)
      BY <1>5, <2>3 DEF HostDispatch, Calls, Replaced
    <3>2. QED
      BY <1>2, <1>5, <2>1, <3>1 DEF Savers, Rounds
  <2>4. QED
    BY <2>2, <2>3
<1>6. ASSUME Balanced, Collect PROVE Balanced'
  <2> DEFINE frames == Round(itrs, dispatch)
  <2>1. Do("collect") /\ UNCHANGED depth /\ stack' = Replaced(stack, frames)
    BY <1>6 DEF Collect, Calls, Replaced
  <2>2. IsSeq(frames)
    BY TupleIsSeq DEF Round
  <2>3. Marked(frames, Savers) = {3} /\ Marked(frames, Rounds) = {}
    BY DEF Marked, Savers, Rounds, REDUCE, Round
  <2>4. OneSaver(frames, dispatch) /\ NoneOf(frames, Rounds)
    BY <2>3 DEF OneSaver, NoneOf, Kept, Round
  <2>5. QED
    BY <1>1, <1>6, <2>1, <2>2, <2>4 DEF Savers, Rounds
<1>7. QED
  BY <1>3, <1>4, <1>5, <1>6

\* It is put back, or kept for another round.
LEMMA RestoresKeep == Balanced /\ (SetDispatch \/ CollectAgain) => Balanced'
<1>1. IsSeq(<<>>) /\ NoneOf(<<>>, Savers) /\ NoneOf(<<>>, Rounds)
  BY PlainTuples DEF Plain
<1>2. ASSUME Balanced, SetDispatch PROVE Balanced'
  <2>1. /\ stack # <<>> /\ Frame[1] = "dispatch_is" /\ stack' = Replaced(stack, <<>>)
        /\ dispatch' = Frame[2] /\ depth' = depth
    BY <1>2 DEF SetDispatch, Do, Frame, Returns, Calls, Replaced
  <2>2. FlagStep(<<>>) /\ CountStep(<<>>)
    BY <1>1, <2>1 DEF FlagStep, CountStep, Savers, Rounds, Kept
  <2>3. QED
    BY <1>1, <1>2, <2>1, <2>2, StepKeeps
<1>3. ASSUME Balanced, CollectAgain PROVE Balanced'
  <2> DEFINE frames == Round(itrs, Frame[3])
  <2>1. stack # <<>> /\ Frame[1] = "again" /\ depth' = depth
    BY <1>3 DEF CollectAgain, Do, Frame
  <2>2. Kept(Frame) = Frame[3]
    BY <2>1 DEF Kept
  <2>3. CASE stack' = Replaced(stack, <<>>) /\ dispatch' = Frame[3]
    <3>1. FlagStep(<<>>) /\ CountStep(<<>>)
      BY <1>1, <2>1, <2>2, <2>3 DEF FlagStep, CountStep, Savers, Rounds
    <3>2. QED
      BY <1>1, <1>3, <2>1, <2>3, <3>1, StepKeeps
  <2>4. CASE stack' = Replaced(stack, frames)
    <3>1. IsSeq(frames)
      BY TupleIsSeq DEF Round
    <3>2. Marked(frames, Savers) = {3} /\ Marked(frames, Rounds) = {}
      BY DEF Marked, Savers, Rounds, REDUCE, Round
    <3>3. OneSaver(frames, Frame[3]) /\ NoneOf(frames, Rounds)
      BY <3>2 DEF OneSaver, NoneOf, Kept, Round
    <3> HIDE DEF frames
    <3>4. FlagStep(frames) /\ CountStep(frames)
      BY <2>1, <2>2, <3>3 DEF FlagStep, CountStep, Savers, Rounds
    <3>5. QED
      BY <1>3, <2>1, <2>4, <3>1, <3>4, StepKeeps
  <2>5. QED
    BY <1>3, <2>3, <2>4 DEF CollectAgain, Again, Returns, Calls, Replaced
<1>4. QED
  BY <1>2, <1>3

\* An evaluation is counted, goes on, and is over.
LEMMA RoundsKeep == Balanced /\ (Eval \/ EvalRound \/ EvalStages \/ EvalFinish) => Balanced'
<1>1. IsSeq(<<>>) /\ NoneOf(<<>>, Savers) /\ NoneOf(<<>>, Rounds)
  BY PlainTuples DEF Plain
<1>2. \A more : LET frames == <<<<"round", more>>>>
                IN  IsSeq(frames) /\ NoneOf(frames, Savers) /\ OneOf(frames, Rounds)
  <2> SUFFICES ASSUME NEW more
               PROVE  LET frames == <<<<"round", more>>>>
                      IN  IsSeq(frames) /\ NoneOf(frames, Savers) /\ OneOf(frames, Rounds)
    OBVIOUS
  <2> DEFINE frames == <<<<"round", more>>>>
  <2>1. Marked(frames, Savers) = {} /\ Marked(frames, Rounds) = {1} /\ 1 \in DOMAIN frames
    BY DEF Marked, Savers, Rounds
  <2>2. IsSeq(frames)
    BY TupleIsSeq
  <2>3. QED
    BY <2>1, <2>2 DEF NoneOf, OneOf
<1>3. ASSUME Balanced, Eval PROVE Balanced'
  <2> DEFINE frames == <<<<"round", FALSE>>>>
  <2>1. /\ stack # <<>> /\ Frame[1] = "eval" /\ stack' = Replaced(stack, frames)
        /\ dispatch' = dispatch /\ depth' = depth + 1
    BY <1>3 DEF Eval, Do, Frame, Calls, Replaced
  <2>2. IsSeq(frames) /\ NoneOf(frames, Savers) /\ OneOf(frames, Rounds)
    BY <1>2
  <2> HIDE DEF frames
  <2>3. FlagStep(frames) /\ CountStep(frames)
    BY <2>1, <2>2 DEF FlagStep, CountStep, Savers, Rounds
  <2>4. QED
    BY <1>3, <2>1, <2>2, <2>3, StepKeeps
\* A frame of a round is replaced by one, and others that are plain.
<1>4. ASSUME NEW first, NEW last, Balanced, stack # <<>>, Frame[1] \in Rounds, Plain(first), last[1] \in Rounds,
             stack' = Replaced(stack, first \o <<last>>), UNCHANGED mode
      PROVE  Balanced'
  <2> DEFINE frames == first \o <<last>>
  <2>1. IsSeq(frames) /\ NoneOf(frames, Savers) /\ OneOf(frames, Rounds)
    BY <1>4, PlainThen
  <2>2. dispatch' = dispatch /\ depth' = depth /\ Frame[1] \notin Savers
    BY <1>4 DEF mode, Savers, Rounds
  <2> HIDE DEF frames
  <2>3. FlagStep(frames) /\ CountStep(frames)
    BY <1>4, <2>1, <2>2 DEF FlagStep, CountStep
  <2>4. QED
    BY <1>4, <2>1, <2>3, StepKeeps DEF frames
<1>5. ASSUME Balanced, EvalRound PROVE Balanced'
  <2> DEFINE first == IF Frame[2] THEN <<REDUCE>> ELSE <<>>
             last == <<"stages", Frame[2], itrs>>
  <2>1. Plain(first)
    BY PlainFrames, PlainTuples DEF REDUCE
  <2>2. last[1] \in Rounds
    BY DEF Rounds
  <2>3. stack # <<>> /\ Frame[1] \in Rounds
    BY <1>5 DEF EvalRound, Do, Frame, Rounds
  <2>4. stack' = Replaced(stack, first \o <<last>>) /\ UNCHANGED mode
    BY <1>5 DEF EvalRound, Calls, Replaced
  <2>5. QED
    BY <1>4, <1>5, <2>1, <2>2, <2>3, <2>4
<1>6. ASSUME Balanced, EvalStages PROVE Balanced'
  <2> DEFINE fused == Frame[2] /\ Tag(ret) \in {"exec", "kernel"} /\ ~is_empty(heap, ret)
             fuse == IF fused THEN <<>> ELSE <<<<"fuse">>>>
             rest == <<<<"schedule">>, <<"collect", TRUE>>, <<"collect", FALSE>>>>
             last == <<"finish", Frame[2], Frame[3], ret>>
  <2>1. Plain(fuse) /\ Plain(rest)
    BY PlainFrames, PlainTuples
  <2>2. Plain(fuse \o rest)
    BY <2>1, PlainJoined
  <2>3. last[1] \in Rounds
    BY DEF Rounds
  <2>4. stack # <<>> /\ Frame[1] \in Rounds /\ UNCHANGED mode
    BY <1>6 DEF EvalStages, Do, Frame, Rounds
  <2>5. stack' = Replaced(stack, fuse \o <<<<"schedule">>, <<"collect", TRUE>>, <<"collect", FALSE>>, last>>)
    BY <1>6 DEF EvalStages, Calls, Replaced
  <2>6. fuse \o <<<<"schedule">>, <<"collect", TRUE>>, <<"collect", FALSE>>, last>> = (fuse \o rest) \o <<last>>
    <3> DEFINE mark == <<"fuse">>
               cut == <<"schedule">>
               run == <<"collect", TRUE>>
               settle == <<"collect", FALSE>>
    <3>1. fuse = <<>> \/ fuse = <<mark>>
      OBVIOUS
    <3> HIDE DEF fuse, mark, cut, run, settle, last
    <3>2. fuse \o <<cut, run, settle, last>> = (fuse \o <<cut, run, settle>>) \o <<last>>
      BY <3>1
    <3>3. QED
      BY <3>2 DEF cut, run, settle
  <2>7. QED
    BY <1>4, <1>6, <2>2, <2>3, <2>4, <2>5, <2>6
<1>7. ASSUME Balanced, EvalFinish PROVE Balanced'
  <2> DEFINE frames == <<<<"round", TRUE>>>>
  <2>1. stack # <<>> /\ Frame[1] = "finish" /\ dispatch' = dispatch
    BY <1>7 DEF EvalFinish, Do, Frame
  <2>2. CASE stack' = Replaced(stack, frames) /\ depth' = depth
    <3>1. IsSeq(frames) /\ NoneOf(frames, Savers) /\ OneOf(frames, Rounds)
      BY <1>2
    <3> HIDE DEF frames
    <3>2. FlagStep(frames) /\ CountStep(frames)
      BY <2>1, <2>2, <3>1 DEF FlagStep, CountStep, Savers, Rounds
    <3>3. QED
      BY <1>7, <2>1, <2>2, <3>1, <3>2, StepKeeps
  <2>3. CASE stack' = Replaced(stack, <<>>) /\ depth' = depth - 1
    <3>1. FlagStep(<<>>) /\ CountStep(<<>>)
      BY <1>1, <2>1, <2>3 DEF FlagStep, CountStep, Savers, Rounds
    <3>2. QED
      BY <1>1, <1>7, <2>1, <2>3, <3>1, StepKeeps
  <2>4. QED
    BY <1>7, <2>2, <2>3 DEF EvalFinish, Returns, Calls, Replaced
<1>8. QED
  BY <1>3, <1>5, <1>6, <1>7

-----------------------------------------------------------------------------
(* The calls.                                                               *)

LEMMA EmptyRests == Balanced /\ stack = <<>> => ~dispatch /\ depth = 0
<1> SUFFICES ASSUME Balanced, stack = <<>> PROVE ~dispatch /\ depth = 0
  OBVIOUS
<1>1. \A kinds : Marked(stack, kinds) = {}
  BY DEF Marked
<1>2. Cardinality({}) = 0
  BY FS_EmptySet
<1>3. QED
  BY <1>1, <1>2 DEF Balanced, Unwinds

LEMMA CallerKeeps ==
    ASSUME Balanced, UNCHANGED mode, stack' = stack \/ (stack = <<>> /\ \E frame : PlainFrame(frame) /\ stack' = <<frame>>)
    PROVE  Balanced'
<1>1. dispatch' = dispatch /\ depth' = depth
  BY DEF mode
<1>2. CASE stack' = stack
  BY <1>1, <1>2 DEF Balanced
<1>3. CASE stack = <<>> /\ \E frame : PlainFrame(frame) /\ stack' = <<frame>>
  <2>1. PICK frame : PlainFrame(frame) /\ stack' = <<frame>>
    BY <1>3
  <2>2. Plain(stack')
    BY <2>1, PlainTuples
  <2>3. IsSeq(stack') /\ Marked(stack', Savers) = {} /\ Marked(stack', Rounds) = {}
    BY <2>2 DEF Plain, NoneOf
  <2>4. ~dispatch' /\ depth' = 0
    BY <1>1, <1>3, EmptyRests
  <2>5. Cardinality({}) = 0
    BY FS_EmptySet
  <2>6. QED
    BY <2>3, <2>4, <2>5 DEF Balanced, Unwinds
<1>4. QED
  BY <1>2, <1>3

LEMMA CallsKeep ==
    Balanced /\ (Takes \/ Resets \/ (Idle /\ ((\E p : Evaluates(p) \/ Reads(p)) \/ ReadsAgain))) => Balanced'
<1>1. PlainFrame(<<"eval">>) /\ PlainFrame(<<"host">>)
  BY PlainFrames
<1>2. ASSUME NEW p, NEW t, NEW frame, NEW keeps, Balanced, Idle, Begins(p, t, frame, keeps), PlainFrame(frame)
      PROVE  Balanced'
  <2>1. stack = <<>> /\ stack' = <<frame>> /\ UNCHANGED mode
    BY <1>2 DEF Idle, Begins
  <2>2. QED
    BY <1>2, <2>1, CallerKeeps
<1>3. ASSUME NEW p, Balanced, Idle, Evaluates(p) PROVE Balanced'
  <2>1. \E t : Begins(p, t, <<"eval">>, TRUE)
    BY <1>3 DEF Evaluates
  <2>2. QED
    BY <1>1, <1>2, <1>3, <2>1
<1>4. ASSUME NEW p, Balanced, Idle, Reads(p) PROVE Balanced'
  <2>1. \E t : Begins(p, t, <<"host">>, FALSE)
    BY <1>4 DEF Reads
  <2>2. QED
    BY <1>1, <1>2, <1>4, <2>1
<1>5. ASSUME Balanced, Idle, ReadsAgain PROVE Balanced'
  BY <1>1, <1>2, <1>5 DEF ReadsAgain
<1>6. ASSUME Balanced, Takes \/ Resets PROVE Balanced'
  <2>1. UNCHANGED mode /\ stack' = stack
    BY <1>6 DEF Takes, Resets
  <2>2. QED
    BY <1>6, <2>1, CallerKeeps
<1>7. QED
  BY <1>3, <1>4, <1>5, <1>6

THEOREM EvaluateBalanced == Spec => []Balanced
<1>1. Init => Balanced
  <2> SUFFICES ASSUME Init PROVE Balanced
    OBVIOUS
  <2>1. stack = <<>> /\ dispatch = FALSE /\ depth = 0
    BY DEF Init
  <2>2. \A kinds : Marked(stack, kinds) = {}
    BY <2>1 DEF Marked
  <2>3. Cardinality({}) = 0
    BY FS_EmptySet
  <2>4. IsSeq(stack)
    BY <2>1, TupleIsSeq
  <2>5. QED
    BY <2>1, <2>2, <2>3, <2>4 DEF Balanced, Unwinds
<1>2. Balanced /\ [Next]_vars => Balanced'
  <2> SUFFICES ASSUME Balanced, [Next]_vars PROVE Balanced'
    OBVIOUS
  <2>1. CASE Step
    <3>1. \/ Quiet
          \/ HostKernel \/ HostSource \/ HostDispatch \/ Collect
          \/ SetDispatch \/ CollectAgain
          \/ Eval \/ EvalRound \/ EvalStages \/ EvalFinish
      BY <2>1, ReduceQuiet, RuleQuiet, FireQuiet, TableQuiet, RunQuiet, ChainQuiet, WalkQuiet, HostQuiet DEF Step
    <3>2. QED
      BY <3>1, QuietKeeps, SavesKeep, RestoresKeep, RoundsKeep
  <2>2. CASE Next /\ ~Step
    BY <2>2, CallsKeep DEF Next
  <2>3. CASE UNCHANGED vars
    <3>1. stack' = stack /\ UNCHANGED mode
      BY <2>3 DEF vars
    <3>2. QED
      BY <3>1, CallerKeeps
  <2>4. QED
    BY <2>1, <2>2, <2>3
<1>3. QED
  BY <1>1, <1>2, PTL DEF Spec

\* However the calls nest and wherever one of them ends, thvm_eval and thvm_to_host_raw leave
\* dispatch_enabled and eval_depth as they found them: for any programs, any heap and any
\* number of calls and resets.
THEOREM EvaluateRestored == Spec => []Restored
<1>1. Balanced => Restored
  BY EmptyRests DEF Restored
<1>2. QED
  BY <1>1, EvaluateBalanced, PTL
=============================================================================
