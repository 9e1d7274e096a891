----------------------------- MODULE CollapseProof -----------------------------
(***************************************************************************)
(* No rule of the reducer names a cell that was not allocated, whatever    *)
(* net without definitions it starts from, wherever a call stops for its   *)
(* budget and whatever the client does in between.                         *)
(*                                                                         *)
(* A term fits a heap of n cells if the cells that belong to it are among  *)
(* them. Every operator on heaps is shown to take a heap whose terms fit   *)
(* to one that is no shorter and whose terms fit; every frame says by its  *)
(* kind which cells of its term it will use.                               *)
(***************************************************************************)
EXTENDS Collapse, TLAPS

Finite == INSTANCE FiniteSetTheorems

-----------------------------------------------------------------------------
(* Recursive definitions over 0 .. N.                                       *)

LEMMA Least ==
    ASSUME NEW S, S \subseteq Nat, S # {}
    PROVE  \E k \in S : \A j \in S : k <= j
<1> DEFINE Up(n) == 0 .. n
           T == {Up(n) : n \in S}
           R == Finite!StrictSubsetOrdering(Nat)
<1>1. Finite!IsWellFoundedOn(R, Finite!FiniteSubsetsOf(Nat))
  BY Finite!FS_StrictSubsetOrderingWellFounded
<1>2. \A n \in S : Up(n) \in Finite!FiniteSubsetsOf(Nat)
  <2> TAKE n \in S
  <2>1. Finite!IsFiniteSet(0 .. n)
    BY Finite!FS_Interval
  <2> QED BY <2>1 DEF Finite!FiniteSubsetsOf
<1>4. T \subseteq Finite!FiniteSubsetsOf(Nat) /\ T # {}
  BY <1>2
<1>6. PICK x \in T : \A y \in T : <<y, x>> \notin R
  <2> HIDE DEF T, R
  <2> QED BY <1>1, <1>4, Finite!WFMin
<1>7. PICK k \in S : x = Up(k)
  BY <1>6
<1>8. ASSUME NEW j \in S, ~(k <= j) PROVE FALSE
  <2>1. Up(j) \in T
    OBVIOUS
  <2>2. Up(j) \subseteq Up(k) /\ Up(j) # Up(k) /\ Up(k) \subseteq Nat
    <3>1. k \in Nat /\ j \in Nat /\ j < k
      BY <1>8
    <3>2. k \in Up(k) /\ k \notin Up(j)
      BY <3>1
    <3> QED BY <3>1, <3>2
  <2>3. <<Up(j), Up(k)>> \in R
    BY <2>2 DEF Finite!StrictSubsetOrdering
  <2> QED BY <1>6, <1>7, <2>1, <2>3
<1> QED BY <1>8

\* What holds at the start and is kept by each step holds all along.
LEMMA AllAlong ==
    ASSUME NEW N \in Nat, NEW G, G \subseteq 0 .. N, 0 \in G,
           \A n \in 1 .. N : n - 1 \in G => n \in G
    PROVE  G = 0 .. N
<1> DEFINE S == (0 .. N) \ G
<1>1. SUFFICES ASSUME S # {} PROVE FALSE
  OBVIOUS
<1>2. PICK k \in S : \A j \in S : k <= j
  <2>1. S \subseteq Nat
    OBVIOUS
  <2> HIDE DEF S
  <2>2. QED
    BY <1>1, <2>1, Least
<1>3. k \in 1 .. N /\ k - 1 \in 0 .. N
  BY <1>2
<1>4. k - 1 \in G
  BY <1>2, <1>3
<1>5. QED
  BY <1>2, <1>3, <1>4

\* Repeated steps of functions.
Follows(e, N, s, g) == e[0] = s /\ \A n \in 1 .. N : e[n] = g[n][e[n - 1]]

LEMMA Repeated ==
    ASSUME NEW N \in Nat, NEW S, NEW s \in S, NEW g \in [1 .. N -> [S -> S]]
    PROVE  \E e \in [0 .. N -> S] : Follows(e, N, s, g)
<1> DEFINE G == {m \in 0 .. N : \E e \in [0 .. m -> S] : Follows(e, m, s, g)}
<1>1. 0 \in G
  <2> DEFINE e == [n \in 0 .. 0 |-> s]
  <2>1. e \in [0 .. 0 -> S] /\ Follows(e, 0, s, g)
    BY DEF Follows
  <2>2. QED
    BY <2>1
<1>2. ASSUME NEW m \in 1 .. N, m - 1 \in G PROVE m \in G
  <2>1. PICK e \in [0 .. m - 1 -> S] : Follows(e, m - 1, s, g)
    BY <1>2
  <2> DEFINE d == [n \in 0 .. m |-> IF n = m THEN g[m][e[m - 1]] ELSE e[n]]
  <2>2. g[m][e[m - 1]] \in S
    BY <2>1
  <2>3. d \in [0 .. m -> S]
    BY <2>1, <2>2
  <2>4. d[0] = s
    BY <2>1 DEF Follows
  <2>5. ASSUME NEW n \in 1 .. m PROVE d[n] = g[n][d[n - 1]]
    <3>1. CASE n = m
      BY <3>1
    <3>2. CASE n # m
      <4>1. n \in 1 .. m - 1 /\ n - 1 \in 0 .. m - 1
        BY <3>2
      <4>2. d[n] = e[n] /\ d[n - 1] = e[n - 1]
        BY <4>1
      <4>3. e[n] = g[n][e[n - 1]]
        BY <4>1, <2>1 DEF Follows
      <4>4. QED
        BY <4>2, <4>3
    <3>3. QED
      BY <3>1, <3>2
  <2> HIDE DEF d
  <2>6. Follows(d, m, s, g)
    BY <2>4, <2>5 DEF Follows
  <2>7. QED
    BY <2>3, <2>6
<1>3. G = 0 .. N
  <2>1. G \subseteq 0 .. N /\ \A n \in 1 .. N : n - 1 \in G => n \in G
    BY <1>2
  <2> HIDE DEF G
  <2>2. QED
    BY <1>1, <2>1, AllAlong
<1>4. QED
  BY <1>3

LEMMA FollowsIn ==
    ASSUME NEW N \in Nat, NEW S, NEW e, e[0] \in S, \A n \in 1 .. N : e[n - 1] \in S => e[n] \in S
    PROVE  e[N] \in S
<1> DEFINE G == {n \in 0 .. N : e[n] \in S}
<1>1. G \subseteq 0 .. N /\ 0 \in G /\ \A n \in 1 .. N : n - 1 \in G => n \in G
  OBVIOUS
<1> HIDE DEF G
<1>2. G = 0 .. N
  BY <1>1, AllAlong
<1>3. QED
  BY <1>2 DEF G

-----------------------------------------------------------------------------
(* Terms that fit a heap of n cells.                                        *)

LEMMA ArityIs ==
    ASSUME NEW t \in Terms
    PROVE  /\ Arity(t) \in Nat
           /\ t.tag \in Twos => Arity(t) = 2
           /\ t.tag \in {"DSU", "DDU"} => Arity(t) = 3
           /\ t.tag \in Ones => Arity(t) = 1
           /\ t.tag = "ERA" => Arity(t) = IF t.val = 0 THEN 0 ELSE 1
           /\ t.tag = "CTR" => Arity(t) = t.ext
           /\ t.tag \in {"NUM", "ANY", "TEN"} => Arity(t) = 0
BY DEF Arity, Terms, Pairs, Twos, Ones, Tags

LEMMA FitsGrows ==
    ASSUME NEW n \in Nat, NEW m \in Nat, n <= m
    PROVE  Fits(n) \subseteq Fits(m)
<1> SUFFICES ASSUME NEW t \in Fits(n) PROVE t \in Fits(m)
  OBVIOUS
<1>1. t \in Terms /\ Arity(t) \in Nat /\ t.val \in Nat
  BY ArityIs DEF Fits, Terms
<1>2. QED
  BY <1>1 DEF Fits

\* Terms made by the rules.
LEMMA TermFits ==
    ASSUME NEW n \in Nat, NEW tag, NEW ext \in Nat, NEW val \in Nat
    PROVE  /\ tag \in Twos /\ val >= 1 /\ val + 1 <= n => Term(tag, ext, val) \in Fits(n)
           /\ tag \in Ones \cup {"ERA"} /\ val >= 1 /\ val <= n => Term(tag, ext, val) \in Fits(n)
           /\ Num(val) \in Fits(n) /\ Era \in Fits(n)
<1> DEFINE t == Term(tag, ext, val)
<1>1. t.tag = tag /\ t.ext = ext /\ t.val = val /\ t.sub = FALSE
  BY DEF Term
<1>2. tag \in Tags => t \in Terms
  BY DEF Term, Terms
<1>3. Num(val) \in Terms /\ Era \in Terms /\ Num(val).tag = "NUM" /\ Era.tag = "ERA" /\ Era.val = 0
  <2>1. \A k \in Tags, l \in Nat : Term(k, 0, l) \in Terms /\ Term(k, 0, l).tag = k /\ Term(k, 0, l).val = l
    BY DEF Term, Terms
  <2>2. QED
    BY <2>1 DEF Num, Era, Tags
<1> HIDE DEF t
<1>4. tag \in Twos /\ val >= 1 /\ val + 1 <= n => t \in Fits(n)
  BY <1>1, <1>2, ArityIs DEF Fits, Tags
<1>5. tag \in Ones \cup {"ERA"} /\ val >= 1 /\ val <= n => t \in Fits(n)
  BY <1>1, <1>2, ArityIs DEF Fits, Tags
<1>6. Num(val) \in Fits(n) /\ Era \in Fits(n)
  BY <1>3, ArityIs DEF Fits
<1>7. QED
  BY <1>4, <1>5, <1>6 DEF t

-----------------------------------------------------------------------------
(* Heaps whose terms fit.                                                   *)

Grown(h, g) == Good(g) /\ Len(h) <= Len(g)

\* A heap and a term made from h.
Safe(h, m) == /\ Grown(h, m.heap) /\ m.term \in Fits(Len(m.heap))
              /\ m = Made(m.heap, m.term)

\* All there may be.
Reach(h) == {m \in [heap : Seq(Terms), term : Terms] : Safe(h, m)}

LEMMA GoodHeap ==
    ASSUME NEW h, Good(h)
    PROVE  /\ Len(h) \in Nat /\ DOMAIN h = 1 .. Len(h)
           /\ \A i \in 1 .. Len(h) : h[i] \in Fits(Len(h))
           /\ Grown(h, h)
<1>1. Len(h) \in Nat /\ DOMAIN h = 1 .. Len(h)
  BY DEF Good
<1>2. \A i \in 1 .. Len(h) : h[i] \in Fits(Len(h))
  BY DEF Good
<1>3. QED
  BY <1>1, <1>2 DEF Grown

LEMMA Later ==
    ASSUME NEW h, NEW g, Good(h), Grown(h, g)
    PROVE  Fits(Len(h)) \subseteq Fits(Len(g))
<1>1. Len(h) \in Nat /\ Len(g) \in Nat /\ Len(h) <= Len(g)
  BY GoodHeap DEF Grown
<1>2. QED
  BY <1>1, FitsGrows

LEMMA GrownTwice ==
    ASSUME NEW h, NEW g, NEW k, Good(h), Grown(h, g), Grown(g, k)
    PROVE  Grown(h, k)
<1>1. Len(h) \in Nat /\ Len(g) \in Nat /\ Len(k) \in Nat
  BY GoodHeap DEF Grown
<1>2. QED
  BY <1>1 DEF Grown

\* The cells of a term.
LEMMA CellsOf ==
    ASSUME NEW h, Good(h), NEW t \in Fits(Len(h)), NEW k \in Nat, k < Arity(t)
    PROVE  t.val + k \in 1 .. Len(h) /\ h[t.val + k] \in Fits(Len(h))
<1>1. t \in Terms /\ t.val \in Nat /\ Arity(t) \in Nat
  BY ArityIs DEF Fits, Terms
<1>2. t.val >= 1 /\ t.val + Arity(t) - 1 <= Len(h)
  BY <1>1 DEF Fits
<1>3. t.val + k \in 1 .. Len(h)
  BY <1>1, <1>2, GoodHeap
<1>4. QED
  BY <1>3, GoodHeap

LEMMA TwoCells ==
    ASSUME NEW h, Good(h), NEW t \in Fits(Len(h)), t.tag \in Twos \cup {"DSU", "DDU"}
    PROVE  /\ t.val \in 1 .. Len(h) /\ t.val + 1 \in 1 .. Len(h)
           /\ h[t.val] \in Fits(Len(h)) /\ h[t.val + 1] \in Fits(Len(h))
<1>1. t \in Terms /\ t.val \in Nat
  BY DEF Fits, Terms
<1>2. Arity(t) = 2 \/ Arity(t) = 3
  BY <1>1, ArityIs
<1>3. t.val + 0 \in 1 .. Len(h) /\ h[t.val + 0] \in Fits(Len(h))
  BY <1>2, CellsOf
<1>4. t.val + 1 \in 1 .. Len(h) /\ h[t.val + 1] \in Fits(Len(h))
  BY <1>2, CellsOf
<1>5. t.val + 0 = t.val
  BY <1>1
<1>6. QED
  BY <1>3, <1>4, <1>5

LEMMA OneCell ==
    ASSUME NEW h, Good(h), NEW t \in Fits(Len(h)), t.tag \in Ones \/ ActiveEraser(t)
    PROVE  t.val \in 1 .. Len(h) /\ h[t.val] \in Fits(Len(h))
<1>1. t \in Terms /\ t.val \in Nat
  BY DEF Fits, Terms
<1>2. Arity(t) = 1
  BY <1>1, ArityIs DEF ActiveEraser
<1>3. t.val + 0 \in 1 .. Len(h) /\ h[t.val + 0] \in Fits(Len(h))
  BY <1>2, CellsOf
<1>4. QED
  BY <1>1, <1>3

\* Cells are added, or written.
LEMMA Extended ==
    ASSUME NEW h, Good(h), NEW cells, cells \in Seq(Fits(Len(h) + Len(cells)))
    PROVE  Grown(h, h \o cells) /\ Len(h \o cells) = Len(h) + Len(cells)
<1> DEFINE n == Len(h) m == Len(cells)
<1>1. n \in Nat /\ m \in Nat /\ h \in Seq(Fits(n))
  BY DEF Good
<1>2. cells \in Seq(Fits(n + m))
  OBVIOUS
<1> HIDE DEF n, m
<1>3. Fits(n) \subseteq Fits(n + m)
  BY <1>1, FitsGrows
<1> DEFINE S == Fits(n + m)
<1>4. h \in Seq(S) /\ cells \in Seq(S)
  BY <1>1, <1>2, <1>3
<1> HIDE DEF S
<1>5. h \o cells \in Seq(S) /\ Len(h \o cells) = n + m
  BY <1>4 DEF n, m
<1>6. QED
  BY <1>1, <1>5 DEF S, Good, Grown, n, m

LEMMA Written ==
    ASSUME NEW h, Good(h), NEW i \in 1 .. Len(h), NEW t \in Fits(Len(h))
    PROVE  Grown(h, [h EXCEPT ![i] = t]) /\ Len([h EXCEPT ![i] = t]) = Len(h)
<1> DEFINE n == Len(h) S == Fits(n)
<1>1. h \in Seq(S) /\ n \in Nat /\ t \in S /\ i \in 1 .. Len(h)
  BY DEF Good
<1> HIDE DEF S, n
<1>2. [h EXCEPT ![i] = t] \in Seq(S) /\ Len([h EXCEPT ![i] = t]) = Len(h)
  BY <1>1
<1>3. QED
  BY <1>1, <1>2 DEF S, n, Good, Grown

-----------------------------------------------------------------------------
(* Terms made from others.                                                  *)

LEMMA SubFits ==
    ASSUME NEW n \in Nat, NEW t \in Fits(n)
    PROVE  SetSub(t) \in Fits(n) /\ StripSub(t) \in Fits(n)
<1>1. ASSUME NEW b \in BOOLEAN PROVE [t EXCEPT !.sub = b] \in Fits(n)
  <2> DEFINE u == [t EXCEPT !.sub = b]
  <2>1. t \in Terms
    BY DEF Fits
  <2>2. u \in Terms /\ u.tag = t.tag /\ u.ext = t.ext /\ u.val = t.val
    BY <2>1 DEF Terms
  <2> HIDE DEF u
  <2>3. Arity(u) = Arity(t)
    BY <2>2 DEF Arity
  <2>4. u \in Fits(n)
    BY <2>2, <2>3 DEF Fits
  <2>5. QED
    BY <2>4 DEF u
<1>2. QED
  BY <1>1 DEF SetSub, StripSub

LEMMA ProjFits ==
    ASSUME NEW n \in Nat, NEW i, NEW label \in Nat, NEW l \in 1 .. n
    PROVE  Proj(i, label, l) \in Fits(n) /\ Proj(i, label, l).tag \in {"DP0", "DP1"}
<1>1. Term("DP0", label, l) \in Fits(n) /\ Term("DP1", label, l) \in Fits(n)
  <2>1. "DP0" \in Ones \cup {"ERA"} /\ "DP1" \in Ones \cup {"ERA"}
    BY DEF Ones
  <2>2. l \in Nat /\ l >= 1 /\ l <= n
    OBVIOUS
  <2>3. QED
    BY <2>1, <2>2, TermFits
<1>2. Proj(i, label, l) = Term("DP0", label, l) \/ Proj(i, label, l) = Term("DP1", label, l)
  BY DEF Proj
<1>3. Term("DP0", label, l).tag = "DP0" /\ Term("DP1", label, l).tag = "DP1"
  BY DEF Term
<1>4. QED
  BY <1>1, <1>2, <1>3

\* A node with two children moved.
LEMMA MovedFits ==
    ASSUME NEW n \in Nat, NEW m \in Nat, NEW t \in Fits(n), t.tag \in Twos,
           NEW val \in Nat, val >= 1, val + 1 <= m
    PROVE  [t EXCEPT !.val = val] \in Fits(m) /\ [t EXCEPT !.val = val].tag = t.tag
<1> DEFINE u == [t EXCEPT !.val = val]
<1>1. t \in Terms
  BY DEF Fits
<1>2. u \in Terms /\ u.tag = t.tag /\ u.val = val
  BY <1>1 DEF Terms
<1> HIDE DEF u
<1>3. Arity(u) = 2
  BY <1>2, ArityIs
<1>4. u \in Fits(m) /\ u.tag = t.tag
  BY <1>2, <1>3 DEF Fits
<1>5. QED
  BY <1>4 DEF u

LEMMA Parts ==
    ASSUME NEW n \in Nat, NEW t \in Fits(n)
    PROVE  t \in Terms /\ t.ext \in Nat /\ t.val \in Nat /\ t.sub \in BOOLEAN /\ t.tag \in Tags
BY DEF Fits, Terms

-----------------------------------------------------------------------------
(* Nodes and superpositions.                                                *)

LEMMA Appended ==
    ASSUME NEW h, Good(h), NEW t \in Fits(Len(h) + 1)
    PROVE  Grown(h, Append(h, t)) /\ Len(Append(h, t)) = Len(h) + 1
<1> DEFINE n == Len(h) S == Fits(n + 1)
<1>1. n \in Nat /\ h \in Seq(Fits(n))
  BY DEF Good
<1>2. Fits(n) \subseteq S
  BY <1>1, FitsGrows
<1>3. t \in S /\ h \in Seq(S)
  BY <1>1, <1>2
<1> HIDE DEF S
<1>4. Append(h, t) \in Seq(S) /\ Len(Append(h, t)) = n + 1
  BY <1>3
<1>5. QED
  BY <1>1, <1>4 DEF S, Good, Grown

LEMMA MadeIs ==
    ASSUME NEW h, NEW t
    PROVE  Made(h, t).heap = h /\ Made(h, t).term = t
BY DEF Made

LEMMA SafeMade ==
    ASSUME NEW h, NEW g, Grown(h, g), NEW t \in Fits(Len(g))
    PROVE  Safe(h, Made(g, t))
BY MadeIs DEF Safe

LEMMA NodeSafe ==
    ASSUME NEW h, Good(h), NEW tag \in Twos, NEW ext \in Nat,
           NEW a \in Fits(Len(h)), NEW b \in Fits(Len(h))
    PROVE  /\ Safe(h, Node(h, tag, ext, a, b))
           /\ Len(Node(h, tag, ext, a, b).heap) = Len(h) + 2
<1> DEFINE n == Len(h)
<1>1. n \in Nat
  BY GoodHeap
<1>2. Fits(n) \subseteq Fits(n + 2)
  BY <1>1, FitsGrows
<1>3. <<a, b>> \in Seq(Fits(n + 2)) /\ Len(<<a, b>>) = 2
  BY <1>2
<1>4. Grown(h, h \o <<a, b>>) /\ Len(h \o <<a, b>>) = n + 2
  BY <1>3, Extended
<1>5. Term(tag, ext, n + 1) \in Fits(n + 2)
  BY <1>1, TermFits
<1>6. Node(h, tag, ext, a, b) = Made(h \o <<a, b>>, Term(tag, ext, n + 1))
  BY DEF Node, Next1
<1>7. Safe(h, Made(h \o <<a, b>>, Term(tag, ext, n + 1)))
  BY <1>4, <1>5, SafeMade
<1>8. Len(Made(h \o <<a, b>>, Term(tag, ext, n + 1)).heap) = n + 2
  BY <1>4, MadeIs
<1>9. QED
  BY <1>6, <1>7, <1>8

LEMMA BranchSafe ==
    ASSUME NEW h, Good(h), NEW sup \in Fits(Len(h)), Superposed(sup), NEW tag \in Twos, NEW ext \in Nat,
           NEW a \in Fits(Len(h)), NEW b \in Fits(Len(h)), NEW c \in Fits(Len(h)), NEW d \in Fits(Len(h))
    PROVE  Safe(h, Branch(h, sup, tag, ext, <<a, b>>, <<c, d>>))
<1> DEFINE n == Len(h) S == Fits(n + 6)
           lt == Term(tag, ext, n + 1) rt == Term(tag, ext, n + 3)
           new == <<a, b>> \o <<c, d>> \o <<lt, rt>>
<1>1. n \in Nat /\ h \in Seq(Fits(n))
  BY GoodHeap DEF Good
<1>2. Fits(n) \subseteq S
  BY <1>1, FitsGrows
<1>3. lt \in S /\ rt \in S
  BY <1>1, TermFits
<1>4. a \in S /\ b \in S /\ c \in S /\ d \in S
  BY <1>2
<1> HIDE DEF lt, rt, S, n
<1>5. new \in Seq(S) /\ Len(new) = 6
  BY <1>3, <1>4
<1>6. Grown(h, h \o new) /\ Len(h \o new) = n + 6
  BY <1>5, Extended DEF S, n
<1>7. sup.tag \in Twos
  BY DEF Superposed, Twos
<1>8. [sup EXCEPT !.val = n + 5] \in S
  <2>1. n + 6 \in Nat /\ n + 5 \in Nat /\ n + 5 >= 1 /\ n + 5 + 1 <= n + 6 /\ sup \in Fits(n)
    BY <1>1 DEF n
  <2>2. QED
    BY <1>1, <1>7, <2>1, MovedFits DEF S
<1>9. h \o new = h \o <<a, b>> \o <<c, d>> \o <<lt, rt>>
  BY <1>1, <1>4, <1>3, <1>2
<1>10. Branch(h, sup, tag, ext, <<a, b>>, <<c, d>>) = Made(h \o new, [sup EXCEPT !.val = n + 5])
  <2>1. n + 1 + 2 = n + 3 /\ n + 1 + 4 = n + 5
    BY <1>1
  <2>2. Branch(h, sup, tag, ext, <<a, b>>, <<c, d>>) =
          Made(h \o <<a, b>> \o <<c, d>> \o <<lt, rt>>, [sup EXCEPT !.val = n + 5])
    BY <2>1 DEF Branch, Next1, lt, rt, n
  <2>3. QED
    BY <2>2, <1>9
<1>11. QED
  BY <1>6, <1>8, <1>10, SafeMade DEF S

LEMMA HalvesFit ==
    ASSUME NEW n \in Nat, NEW sup \in Terms, NEW l \in 1 .. n, NEW i \in 1 .. 2
    PROVE  Halves(sup, l)[i] \in Fits(n)
<1>1. sup.ext \in Nat
  BY DEF Terms
<1>2. CASE sup.tag = "USP"
  <2>1. "UDP" \in Ones \cup {"ERA"} /\ l \in Nat /\ l >= 1 /\ l <= n
    BY DEF Ones
  <2>2. Term("UDP", sup.ext, l) \in Fits(n)
    BY <1>1, <2>1, TermFits
  <2>3. Halves(sup, l) = [j \in 1 .. 2 |-> Term("UDP", sup.ext, l)]
    BY <1>2 DEF Halves
  <2>4. QED
    BY <2>2, <2>3
<1>3. CASE sup.tag # "USP"
  <2>1. Proj(0, sup.ext, l) \in Fits(n) /\ Proj(1, sup.ext, l) \in Fits(n)
    BY <1>1, ProjFits
  <2>2. Halves(sup, l) = <<Proj(0, sup.ext, l), Proj(1, sup.ext, l)>>
    BY <1>3 DEF Halves, Shared
  <2>3. QED
    BY <2>1, <2>2
<1>4. QED
  BY <1>2, <1>3

\* A superposition and its two branches.
LEMMA BranchesOf ==
    ASSUME NEW h, Good(h), NEW sup \in Fits(Len(h)), Superposed(sup)
    PROVE  h[sup.val] \in Fits(Len(h)) /\ h[sup.val + 1] \in Fits(Len(h))
<1>1. sup.tag \in Twos \cup {"DSU", "DDU"}
  BY DEF Superposed, Twos
<1>2. QED
  BY <1>1, TwoCells

LEMMA SafeLater ==
    ASSUME NEW h, NEW g, NEW m, Good(h), Grown(h, g), Safe(g, m)
    PROVE  Safe(h, m)
BY GrownTwice DEF Safe

LEMMA DistributeSafe ==
    ASSUME NEW h, Good(h), NEW sup \in Fits(Len(h)), Superposed(sup), NEW tag \in Twos, NEW ext \in Nat,
           NEW other \in Fits(Len(h))
    PROVE  /\ Safe(h, Distribute(h, sup, tag, ext, other))
           /\ Safe(h, DistributeFun(h, sup, other))
           /\ Safe(h, DistributeCopy(h, sup, tag, ext, other))
<1> DEFINE n == Len(h) g == Append(h, other) half == Halves(sup, n + 1)
<1>1. n \in Nat /\ sup \in Terms
  BY GoodHeap, Parts
<1>2. Fits(n) \subseteq Fits(n + 1)
  BY <1>1, FitsGrows
<1>3. Grown(h, g) /\ Len(g) = n + 1 /\ Good(g)
  <2>1. other \in Fits(n + 1)
    BY <1>2
  <2>2. QED
    BY <2>1, Appended DEF Grown
<1>4. half[1] \in Fits(Len(g)) /\ half[2] \in Fits(Len(g))
  <2>1. n + 1 \in Nat /\ n + 1 \in 1 .. n + 1
    BY <1>1
  <2> HIDE DEF n, g
  <2>2. QED
    BY <1>1, <1>3, <2>1, HalvesFit
<1>5. /\ h[sup.val] \in Fits(n) /\ h[sup.val + 1] \in Fits(n)
      /\ h[sup.val] \in Fits(Len(g)) /\ h[sup.val + 1] \in Fits(Len(g)) /\ sup \in Fits(Len(g))
  <2>1. h[sup.val] \in Fits(n) /\ h[sup.val + 1] \in Fits(n)
    BY BranchesOf
  <2>2. QED
    BY <1>2, <1>3, <2>1
<1>6. Next1(h) = n + 1
  BY DEF Next1
<1>7. Safe(h, Distribute(h, sup, tag, ext, other))
  <2>1. Safe(g, Branch(g, sup, tag, ext, <<h[sup.val], half[1]>>, <<h[sup.val + 1], half[2]>>))
    <3> HIDE DEF g, half, n
    <3> QED BY <1>3, <1>4, <1>5, BranchSafe
  <2>2. Distribute(h, sup, tag, ext, other)
          = Branch(g, sup, tag, ext, <<h[sup.val], half[1]>>, <<h[sup.val + 1], half[2]>>)
    BY <1>6 DEF Distribute
  <2> HIDE DEF g, half, n
  <2>3. QED
    BY <1>3, <2>1, <2>2, SafeLater
<1>8. Safe(h, DistributeFun(h, sup, other))
  <2>1. Safe(g, Branch(g, sup, "APP", 0, <<half[1], h[sup.val]>>, <<half[2], h[sup.val + 1]>>))
    <3>1. "APP" \in Twos /\ 0 \in Nat
      BY DEF Twos, Pairs
    <3> HIDE DEF g, half, n
    <3> QED BY <1>3, <1>4, <1>5, <3>1, BranchSafe
  <2>2. DistributeFun(h, sup, other)
          = Branch(g, sup, "APP", 0, <<half[1], h[sup.val]>>, <<half[2], h[sup.val + 1]>>)
    BY <1>6 DEF DistributeFun
  <2> HIDE DEF g, half, n
  <2>3. QED
    BY <1>3, <2>1, <2>2, SafeLater
<1>9. Safe(h, DistributeCopy(h, sup, tag, ext, other))
  <2>1. Safe(h, Branch(h, sup, tag, ext, <<other, h[sup.val]>>, <<other, h[sup.val + 1]>>))
    BY <1>5, BranchSafe
  <2>2. QED
    BY <2>1 DEF DistributeCopy
<1>10. QED
  BY <1>7, <1>8, <1>9

-----------------------------------------------------------------------------
(* Copies.                                                                  *)

SafeCopies(h, c) == /\ Grown(h, c.heap)
                    /\ c.v[1] \in Fits(Len(c.heap)) /\ c.v[2] \in Fits(Len(c.heap))

LEMMA CopiesSafe ==
    ASSUME NEW h, NEW g, Grown(h, g), NEW a \in Fits(Len(g)), NEW b \in Fits(Len(g))
    PROVE  SafeCopies(h, Copies(g, a, b))
<1>1. Copies(g, a, b).heap = g /\ Copies(g, a, b).v[1] = a /\ Copies(g, a, b).v[2] = b
  BY DEF Copies
<1>2. QED
  BY <1>1 DEF SafeCopies

LEMMA CommuteSafe ==
    ASSUME NEW h, Good(h), NEW label \in Nat, NEW w \in Fits(Len(h)), Superposed(w)
    PROVE  SafeCopies(h, Commute(h, label, w))
<1> DEFINE n == Len(h) S == Fits(n + 5)
           p == Proj(0, label, w.val) q == Proj(0, label, n + 1)
           r == Proj(1, label, w.val) s == Proj(1, label, n + 1)
           new == <<h[w.val + 1], p, q, r, s>>
<1>1. n \in Nat /\ w.ext \in Nat /\ w.tag \in Twos
  BY GoodHeap, Parts DEF Superposed, Twos
<1>2. Fits(n) \subseteq S
  BY <1>1, FitsGrows
<1>3. w.val \in 1 .. n + 5 /\ n + 1 \in 1 .. n + 5 /\ n + 5 \in Nat
  <2>1. w.val \in 1 .. n
    BY <1>1, TwoCells
  <2>2. QED
    BY <1>1, <2>1
<1>4. p \in S /\ q \in S /\ r \in S /\ s \in S
  BY <1>3, ProjFits
<1>5. h[w.val + 1] \in S
  BY <1>2, BranchesOf
<1>6. Term(w.tag, w.ext, n + 2) \in S /\ Term(w.tag, w.ext, n + 4) \in S
  BY <1>1, TermFits
<1> HIDE DEF p, q, r, s, S, n
<1>7. new \in Seq(S) /\ Len(new) = 5
  BY <1>4, <1>5
<1>8. Grown(h, h \o new) /\ Len(h \o new) = n + 5
  BY <1>7, Extended DEF S, n
<1>9. Commute(h, label, w) = Copies(h \o new, Term(w.tag, w.ext, n + 2), Term(w.tag, w.ext, n + 4))
  <2>1. n + 1 + 1 = n + 2 /\ n + 1 + 3 = n + 4
    BY <1>1
  <2>2. QED
    BY <2>1 DEF Commute, Next1, n, p, q, r, s
<1>10. QED
  BY <1>6, <1>8, <1>9, CopiesSafe DEF S

LEMMA WrittenFirst ==
    ASSUME NEW S, NEW h \in Seq(S), NEW cells \in Seq(S), NEW i \in 1 .. Len(h), NEW t \in S
    PROVE  [h EXCEPT ![i] = t] \o cells = [h \o cells EXCEPT ![i] = t]
<1> DEFINE n == Len(h) m == Len(cells) g == [h EXCEPT ![i] = t] k == h \o cells l == [k EXCEPT ![i] = t]
<1>1. g \in Seq(S) /\ Len(g) = n /\ \A j \in 1 .. n : g[j] = IF j = i THEN t ELSE h[j]
  OBVIOUS
<1>2. k \in Seq(S) /\ Len(k) = n + m /\ \A j \in 1 .. n + m : k[j] = IF j <= n THEN h[j] ELSE cells[j - n]
  OBVIOUS
<1>3. n \in Nat /\ m \in Nat /\ i \in 1 .. n
  OBVIOUS
<1>4. l \in Seq(S) /\ Len(l) = n + m /\ \A j \in 1 .. n + m : l[j] = IF j = i THEN t ELSE k[j]
  <2> HIDE DEF k
  <2> QED BY <1>2, <1>3
<1>5. g \o cells \in Seq(S) /\ Len(g \o cells) = n + m
      /\ \A j \in 1 .. n + m : (g \o cells)[j] = IF j <= n THEN g[j] ELSE cells[j - n]
  <2> HIDE DEF g, n
  <2>1. g \in Seq(S) /\ cells \in Seq(S) /\ Len(g) = n /\ Len(cells) = m
    BY <1>1
  <2>2. g \o cells \in Seq(S) /\ Len(g \o cells) = n + m
    BY <2>1
  <2>3. \A j \in 1 .. n + m : (g \o cells)[j] = IF j <= n THEN g[j] ELSE cells[j - n]
    BY <2>1
  <2>4. QED
    BY <2>2, <2>3
<1> HIDE DEF g, k, l, n, m
<1>6. \A j \in 1 .. n + m : (g \o cells)[j] = l[j]
  <2> TAKE j \in 1 .. n + m
  <2>1. (g \o cells)[j] = IF j <= n THEN g[j] ELSE cells[j - n]
    BY <1>5
  <2>2. l[j] = IF j = i THEN t ELSE k[j]
    BY <1>4
  <2>3. k[j] = IF j <= n THEN h[j] ELSE cells[j - n]
    BY <1>2
  <2>4. CASE j <= n
    <3>1. j \in 1 .. n
      BY <1>3, <2>4
    <3>2. g[j] = IF j = i THEN t ELSE h[j]
      BY <1>1, <3>1
    <3>3. QED
      BY <2>1, <2>2, <2>3, <2>4, <3>2
  <2>5. CASE ~(j <= n)
    <3>1. j # i
      BY <1>3, <2>5
    <3>2. QED
      BY <2>1, <2>2, <2>3, <2>5, <3>1
  <2>6. QED
    BY <2>4, <2>5
<1>7. g \o cells = l
  <2> DEFINE u == g \o cells
  <2>1. u \in Seq(S) /\ Len(u) = n + m /\ l \in Seq(S) /\ Len(l) = n + m /\ \A j \in 1 .. n + m : u[j] = l[j]
    BY <1>4, <1>5, <1>6
  <2> HIDE DEF u
  <2>2. u = l
    BY <1>3, <2>1
  <2>3. QED
    BY <2>2 DEF u
<1>8. QED
  BY <1>7 DEF g, k, l

LEMMA CopyLamSafe ==
    ASSUME NEW h, Good(h), NEW label \in Nat, NEW w \in Fits(Len(h)), Binder(w)
    PROVE  SafeCopies(h, CopyLam(h, label, w))
<1> DEFINE n == Len(h) S == Fits(n + 7)
           bound == Term("SUP", label, n + 6)
           a == Term("VAR", 0, n + 2) b == Term("VAR", 0, n + 4)
           p == Proj(0, label, n + 1) q == Proj(1, label, n + 1)
           new == <<h[w.val + 1], SetSub(a), p, SetSub(b), q, a, b>>
           g == h \o new
<1>1. n \in Nat /\ w.tag \in Twos /\ 0 \in Nat
  BY GoodHeap DEF Binder, Twos
<1>2. Fits(n) \subseteq S
  BY <1>1, FitsGrows
<1>3. w.val \in 1 .. n /\ h[w.val + 1] \in S
  BY <1>1, <1>2, TwoCells
<1>4. n + 1 \in 1 .. n + 7 /\ n + 7 \in Nat
  BY <1>1
<1>5. p \in S /\ q \in S
  BY <1>4, ProjFits
<1>6. a \in S /\ b \in S
  <2>1. "VAR" \in Ones \cup {"ERA"}
    BY DEF Ones
  <2>2. /\ n + 2 \in Nat /\ n + 2 >= 1 /\ n + 2 <= n + 7
        /\ n + 4 \in Nat /\ n + 4 >= 1 /\ n + 4 <= n + 7
    BY <1>1
  <2>3. QED
    BY <1>4, <2>1, <2>2, TermFits
<1>7. SetSub(a) \in S /\ SetSub(b) \in S
  BY <1>4, <1>6, SubFits
<1>8. bound \in S
  <2>1. "SUP" \in Twos
    BY DEF Twos
  <2>2. n + 6 \in Nat /\ n + 6 >= 1 /\ n + 6 + 1 <= n + 7
    BY <1>1
  <2>3. QED
    BY <1>4, <2>1, <2>2, TermFits
<1>9. Term(w.tag, 0, n + 2) \in S /\ Term(w.tag, 0, n + 4) \in S
  BY <1>1, TermFits
<1> HIDE DEF a, b, p, q, bound, S, n
<1>10. new \in Seq(S) /\ Len(new) = 7
  BY <1>3, <1>5, <1>6, <1>7
<1>11. Grown(h, g) /\ Len(g) = n + 7
  BY <1>10, Extended DEF S, n
<1>12. [h EXCEPT ![w.val] = bound] \o new = [g EXCEPT ![w.val] = bound]
  <2>1. h \in Seq(Fits(n)) /\ Len(h) = n
    BY DEF Good, n
  <2>2. h \in Seq(S) /\ bound \in S /\ w.val \in 1 .. Len(h)
    BY <1>2, <1>3, <1>8, <2>1
  <2>3. new \in Seq(S)
    BY <1>10
  <2> HIDE DEF new
  <2>4. [h EXCEPT ![w.val] = bound] \o new = [h \o new EXCEPT ![w.val] = bound]
    BY <2>2, <2>3, WrittenFirst
  <2>5. QED
    BY <2>4
<1>13. Grown(g, [g EXCEPT ![w.val] = bound]) /\ Len([g EXCEPT ![w.val] = bound]) = n + 7
  <2>1. Good(g) /\ w.val \in 1 .. Len(g) /\ bound \in Fits(Len(g))
    BY <1>1, <1>3, <1>8, <1>11 DEF Grown, S
  <2> HIDE DEF g
  <2>2. QED
    BY <1>11, <2>1, Written
<1>14. CopyLam(h, label, w) =
        Copies([h EXCEPT ![w.val] = bound] \o new, Term(w.tag, 0, n + 2), Term(w.tag, 0, n + 4))
  <2>1. n + 1 + 1 = n + 2 /\ n + 1 + 3 = n + 4 /\ n + 1 + 5 = n + 6
    BY <1>1
  <2>2. QED
    BY <2>1 DEF CopyLam, Next1, n, a, b, p, q, bound
<1> DEFINE k == [g EXCEPT ![w.val] = bound]
<1>15. Grown(h, k) /\ Len(k) = n + 7
  <2> HIDE DEF g
  <2> QED BY <1>11, <1>13, GrownTwice
<1>16. CopyLam(h, label, w) = Copies(k, Term(w.tag, 0, n + 2), Term(w.tag, 0, n + 4))
  BY <1>12, <1>14
<1> HIDE DEF k, g
<1>17. QED
  BY <1>9, <1>15, <1>16, CopiesSafe DEF S

LEMMA CopyPairSafe ==
    ASSUME NEW h, Good(h), NEW label \in Nat, NEW w \in Fits(Len(h)), w.tag \in Pairs
    PROVE  SafeCopies(h, CopyPair(h, label, w))
<1> DEFINE n == Len(h) S == Fits(n + 6)
           a == Proj(0, label, n + 5) b == Proj(0, label, n + 6)
           c == Proj(1, label, n + 5) d == Proj(1, label, n + 6)
           new == <<a, b, c, d, h[w.val], h[w.val + 1]>>
<1>1. n \in Nat /\ w.tag \in Twos /\ w.ext \in Nat
  BY GoodHeap, Parts DEF Twos
<1>2. Fits(n) \subseteq S
  BY <1>1, FitsGrows
<1>3. h[w.val] \in S /\ h[w.val + 1] \in S
  BY <1>1, <1>2, TwoCells
<1>4. n + 5 \in 1 .. n + 6 /\ n + 6 \in 1 .. n + 6 /\ n + 6 \in Nat
  BY <1>1
<1>5. a \in S /\ b \in S /\ c \in S /\ d \in S
  BY <1>4, ProjFits
<1>6. Term(w.tag, w.ext, n + 1) \in S /\ Term(w.tag, w.ext, n + 3) \in S
  BY <1>1, TermFits
<1> HIDE DEF a, b, c, d, S, n
<1>7. new \in Seq(S) /\ Len(new) = 6
  BY <1>3, <1>5
<1>8. Grown(h, h \o new) /\ Len(h \o new) = n + 6
  BY <1>7, Extended DEF S, n
<1>9. CopyPair(h, label, w) = Copies(h \o new, Term(w.tag, w.ext, n + 1), Term(w.tag, w.ext, n + 3))
  <2>1. n + 1 + 2 = n + 3 /\ n + 1 + 4 = n + 5 /\ n + 1 + 5 = n + 6
    BY <1>1
  <2>2. QED
    BY <2>1 DEF CopyPair, Next1, n, a, b, c, d
<1>10. QED
  BY <1>6, <1>8, <1>9, CopiesSafe DEF S

LEMMA CopySafe ==
    ASSUME NEW h, Good(h), NEW label \in Nat, NEW w \in Fits(Len(h))
    PROVE  SafeCopies(h, Copy(h, label, w))
<1>1. CASE w.tag = "SUP" /\ w.ext = label
  <2>1. Copy(h, label, w) = Copies(h, h[w.val], h[w.val + 1])
    BY <1>1 DEF Copy, Annihilate, Superposed, Binder, Pairs
  <2>2. h[w.val] \in Fits(Len(h)) /\ h[w.val + 1] \in Fits(Len(h))
    BY <1>1, BranchesOf DEF Superposed
  <2>3. QED
    BY <2>1, <2>2, CopiesSafe, GoodHeap
<1>2. CASE Superposed(w) /\ ~(w.tag = "SUP" /\ w.ext = label)
  <2>1. Copy(h, label, w) = Commute(h, label, w)
    BY <1>2 DEF Copy, Superposed, Binder, Pairs
  <2>2. QED
    BY <1>2, <2>1, CommuteSafe
<1>3. CASE Binder(w)
  <2>1. Copy(h, label, w) = CopyLam(h, label, w)
    BY <1>3 DEF Copy, Superposed, Binder, Pairs
  <2>2. QED
    BY <1>3, <2>1, CopyLamSafe
<1>4. CASE w.tag \in Pairs
  <2>1. Copy(h, label, w) = CopyPair(h, label, w)
    BY <1>4 DEF Copy, Superposed, Binder, Pairs
  <2>2. QED
    BY <1>4, <2>1, CopyPairSafe
<1>5. CASE ~Superposed(w) /\ ~Binder(w) /\ w.tag \notin Pairs
  <2>1. Copy(h, label, w) = Copies(h, w, w)
    BY <1>5 DEF Copy, Superposed, CopyAtom
  <2>2. QED
    BY <2>1, CopiesSafe, GoodHeap
<1>6. QED
  BY <1>1, <1>2, <1>3, <1>4, <1>5

-----------------------------------------------------------------------------
(* Erasers.                                                                 *)

LEMMA InReach ==
    ASSUME NEW h, NEW m, Safe(h, m)
    PROVE  m \in Reach(h)
<1> DEFINE n == Len(m.heap)
<1>1. m.heap \in Seq(Fits(n)) /\ m.term \in Fits(n) /\ m = [heap |-> m.heap, term |-> m.term]
  BY DEF Safe, Grown, Good, Made
<1>2. Fits(n) \subseteq Terms
  BY DEF Fits
<1> HIDE DEF n
<1>3. m.heap \in Seq(Terms) /\ m.term \in Terms
  BY <1>1, <1>2
<1>4. m \in [heap : Seq(Terms), term : Terms]
  BY <1>1, <1>3
<1>5. QED
  BY <1>4 DEF Reach

LEMMA PayloadFits ==
    ASSUME NEW h, Good(h), NEW t \in Fits(Len(h))
    PROVE  Payload(h, t) \in Fits(Len(h))
<1> DEFINE N == Len(h) + 1
           D == {h[i] : i \in DOMAIN h} \cup {t}
           S == [D -> D]
           Chain(c) == [n \in 0 .. N |->
                          [p \in D |-> IF n > 0 /\ ActiveEraser(p) THEN c[n - 1][h[p.val]] ELSE p]]
           chase == CHOOSE c : c = Chain(c)
           s == [p \in D |-> p]
           g == [n \in 1 .. N |-> [x \in S |-> [p \in D |-> IF ActiveEraser(p) THEN x[h[p.val]] ELSE p]]]
<1>1. Payload(h, t) = chase[N][t]
  BY DEF Payload
<1>2. N \in Nat /\ D \subseteq Fits(Len(h)) /\ t \in D
  BY GoodHeap
<1>3. ASSUME NEW p \in D, ActiveEraser(p) PROVE h[p.val] \in D
  <2>1. p.val \in 1 .. Len(h)
    BY <1>2, <1>3, OneCell
  <2>2. QED
    BY <2>1, GoodHeap
<1> HIDE DEF D
<1>4. ASSUME NEW x \in S PROVE [p \in D |-> IF ActiveEraser(p) THEN x[h[p.val]] ELSE p] \in S
  BY <1>3
<1>5. s \in S /\ g \in [1 .. N -> [S -> S]]
  BY <1>4
<1>6. \E e : e = Chain(e)
  <2> HIDE DEF N, S, s, g
  <2>1. PICK e \in [0 .. N -> S] : Follows(e, N, s, g)
    BY <1>2, <1>5, Repeated
  <2>2. ASSUME NEW n \in 0 .. N PROVE e[n] = Chain(e)[n]
    <3>1. CASE n = 0
      <4>1. e[n] = s
        BY <2>1, <3>1 DEF Follows
      <4>2. Chain(e)[n] = [p \in D |-> p]
        BY <3>1
      <4>3. QED
        BY <4>1, <4>2 DEF s
    <3>2. CASE n # 0
      <4>1. n \in 1 .. N /\ n - 1 \in 0 .. N /\ n > 0
        BY <1>2, <3>2
      <4>2. e[n] = g[n][e[n - 1]] /\ e[n - 1] \in S
        BY <2>1, <4>1 DEF Follows
      <4>3. e[n] = [p \in D |-> IF ActiveEraser(p) THEN e[n - 1][h[p.val]] ELSE p]
        BY <4>1, <4>2 DEF g
      <4>4. QED
        BY <4>1, <4>3
    <3>3. QED
      BY <3>1, <3>2
  <2>3. e = Chain(e)
    BY <2>1, <2>2
  <2>4. QED
    BY <2>3
<1>7. chase = Chain(chase)
  <2> HIDE DEF Chain
  <2>1. QED
    BY <1>6
<1>8. chase[0] \in S /\ \A n \in 1 .. N : chase[n - 1] \in S => chase[n] \in S
  <2> HIDE DEF chase
  <2>1. chase[0] = s
    BY <1>2, <1>7
  <2>2. ASSUME NEW n \in 1 .. N, chase[n - 1] \in S PROVE chase[n] \in S
    <3>1. n \in 0 .. N /\ n > 0
      BY <1>2
    <3>2. chase[n] = [p \in D |-> IF ActiveEraser(p) THEN chase[n - 1][h[p.val]] ELSE p]
      BY <1>7, <3>1
    <3> DEFINE x == chase[n - 1]
    <3>3. x \in S
      BY <2>2
    <3> HIDE DEF x
    <3>4. [p \in D |-> IF ActiveEraser(p) THEN x[h[p.val]] ELSE p] \in S
      BY <1>4, <3>3
    <3>5. QED
      BY <3>2, <3>4 DEF x
  <2>3. QED
    BY <1>5, <2>1, <2>2
<1>9. chase[N] \in S
  <2> HIDE DEF chase, N, S
  <2>1. QED
    BY <1>2, <1>8, FollowsIn
<1>10. QED
  <2> HIDE DEF chase, N
  <2>1. chase[N][t] \in D
    BY <1>2, <1>9
  <2>2. QED
    BY <1>1, <1>2, <2>1

LEMMA OneFits ==
    ASSUME NEW n \in Nat, NEW tag \in Ones, NEW ext \in Nat, NEW l \in 1 .. n
    PROVE  Term(tag, ext, l) \in Fits(n)
<1>1. tag \in Ones \cup {"ERA"} /\ l \in Nat /\ l >= 1 /\ l <= n
  OBVIOUS
<1>2. QED
  BY <1>1, TermFits

LEMMA EraserFits ==
    ASSUME NEW n \in Nat, NEW l \in 1 .. n
    PROVE  Term("ERA", 0, l) \in Fits(n)
<1>1. "ERA" \in Ones \cup {"ERA"} /\ l \in Nat /\ l >= 1 /\ l <= n /\ 0 \in Nat
  OBVIOUS
<1>2. QED
  BY <1>1, TermFits

LEMMA EraFits ==
    ASSUME NEW n \in Nat
    PROVE  Era \in Fits(n)
BY TermFits

LEMMA ActiveEraSafe ==
    ASSUME NEW h, Good(h), NEW t \in Fits(Len(h))
    PROVE  Safe(h, ActiveEra(h, t))
<1> DEFINE p == Payload(h, t) n == Len(h)
<1>1. n \in Nat /\ p \in Fits(n)
  BY GoodHeap, PayloadFits
<1>2. CASE IsErased(p)
  <2>1. ActiveEra(h, t) = Made(h, Era)
    BY <1>2 DEF ActiveEra
  <2>2. QED
    BY <1>1, <2>1, EraFits, GoodHeap, SafeMade
<1>3. CASE ~IsErased(p)
  <2>1. ActiveEra(h, t) = Made(Append(h, p), Term("ERA", 0, n + 1))
    BY <1>3 DEF ActiveEra, Next1
  <2> HIDE DEF p
  <2>2. p \in Fits(n + 1)
    BY <1>1, FitsGrows
  <2>3. Grown(h, Append(h, p)) /\ Len(Append(h, p)) = n + 1
    BY <2>2, Appended
  <2>4. Term("ERA", 0, n + 1) \in Fits(n + 1)
    BY <1>1, EraserFits
  <2>5. QED
    BY <2>1, <2>3, <2>4, SafeMade
<1>4. QED
  BY <1>2, <1>3

LEMMA DetachGrows ==
    ASSUME NEW h, Good(h), NEW t \in Fits(Len(h))
    PROVE  Grown(h, Detach(h, t))
<1> DEFINE e == ActiveEra(h, t)
<1>1. Safe(h, e)
  BY ActiveEraSafe
<1>2. CASE IsErased(e.term)
  BY <1>2, GoodHeap DEF Detach
<1>3. CASE ~IsErased(e.term)
  <2>1. Detach(h, t) = Append(e.heap, e.term)
    BY <1>3 DEF Detach
  <2> HIDE DEF e
  <2>2. Good(e.heap) /\ Grown(h, e.heap) /\ e.term \in Fits(Len(e.heap))
    BY <1>1 DEF Safe, Grown
  <2>3. e.term \in Fits(Len(e.heap) + 1)
    <3>1. Len(e.heap) \in Nat
      BY <2>2, GoodHeap
    <3>2. Fits(Len(e.heap)) \subseteq Fits(Len(e.heap) + 1)
      BY <3>1, FitsGrows
    <3>3. QED
      BY <2>2, <3>2
  <2>4. Grown(e.heap, Append(e.heap, e.term))
    BY <2>2, <2>3, Appended
  <2>5. QED
    BY <2>1, <2>2, <2>4, GrownTwice
<1>4. QED
  BY <1>2, <1>3

LEMMA EraseChildSafe ==
    ASSUME NEW h, Good(h), NEW s, Safe(h, s), NEW loc \in 1 .. Len(h)
    PROVE  Safe(h, EraseChild(s, loc))
<1> DEFINE g == s.heap child == Payload(g, g[loc]) k == [g EXCEPT ![loc] = Era]
<1>1. Good(g) /\ Grown(h, g) /\ s.term \in Fits(Len(g)) /\ Len(g) \in Nat
  BY GoodHeap DEF Safe, Grown
<1>2. loc \in 1 .. Len(g)
  BY <1>1, GoodHeap DEF Grown
<1>3. child \in Fits(Len(g)) /\ Era \in Fits(Len(g))
  <2>1. g[loc] \in Fits(Len(g))
    BY <1>1, <1>2, GoodHeap
  <2> HIDE DEF g
  <2>2. QED
    BY <1>1, <2>1, PayloadFits, EraFits
<1>4. Grown(g, k) /\ Len(k) = Len(g)
  <2> HIDE DEF g
  <2> QED BY <1>1, <1>2, <1>3, Written
<1>5. Grown(h, k) /\ Good(k) /\ child \in Fits(Len(k)) /\ s.term \in Fits(Len(k))
  <2> HIDE DEF g, k, child
  <2> QED BY <1>1, <1>3, <1>4, GrownTwice DEF Grown
<1>6. CASE IsErased(child)
  <2>1. EraseChild(s, loc) = Made(k, s.term)
    BY <1>6 DEF EraseChild
  <2> HIDE DEF k
  <2>2. QED
    BY <1>5, <2>1, SafeMade
<1>7. CASE ~IsErased(child) /\ IsErased(s.term)
  <2>1. EraseChild(s, loc) = Made(k, child)
    BY <1>7 DEF EraseChild
  <2> HIDE DEF k, child
  <2>2. QED
    BY <1>5, <2>1, SafeMade
<1>8. CASE ~IsErased(child) /\ ~IsErased(s.term)
  <2>1. EraseChild(s, loc) = Made(Detach(k, child), s.term)
    BY <1>8 DEF EraseChild
  <2> HIDE DEF k, child, g
  <2>2. Grown(k, Detach(k, child))
    BY <1>5, DetachGrows
  <2>3. Grown(h, Detach(k, child))
    BY <1>5, <2>2, GrownTwice
  <2>4. s.term \in Fits(Len(Detach(k, child)))
    BY <1>5, <2>2, Later
  <2>5. QED
    BY <2>1, <2>3, <2>4, SafeMade
<1>9. QED
  BY <1>6, <1>7, <1>8

LEMMA ReachSafe ==
    ASSUME NEW h, NEW m \in Reach(h)
    PROVE  Safe(h, m)
BY DEF Reach

LEMMA EraseChildrenSafe ==
    ASSUME NEW h, Good(h), NEW t \in Fits(Len(h))
    PROVE  Safe(h, EraseChildren(h, t))
<1> DEFINE N == Arity(t)
           S == Reach(h)
           Walk(c) == [n \in 0 .. N |->
                          IF n = 0 THEN Made(h, Era)
                          ELSE Once(c[n - 1], LAMBDA s : EraseChild(s, t.val + n - 1))]
           erased == CHOOSE c : c = Walk(c)
           start == Made(h, Era)
           g == [n \in 1 .. N |-> [s \in S |-> EraseChild(s, t.val + n - 1)]]
<1>1. EraseChildren(h, t) = erased[N]
  BY DEF EraseChildren
<1>2. N \in Nat
  BY Parts, GoodHeap, ArityIs
<1>3. ASSUME NEW n \in 1 .. N, NEW s \in S PROVE EraseChild(s, t.val + n - 1) \in S
  <2>1. n - 1 \in Nat /\ n - 1 < N /\ t.val \in Nat
    BY <1>2, Parts, GoodHeap
  <2>2. t.val + (n - 1) \in 1 .. Len(h)
    BY <2>1, CellsOf
  <2>3. t.val + n - 1 \in 1 .. Len(h)
    BY <2>1, <2>2
  <2>4. Safe(h, s)
    BY ReachSafe
  <2>5. QED
    BY <2>3, <2>4, EraseChildSafe, InReach
<1>4. start \in S
  <2>1. Era \in Fits(Len(h)) /\ Grown(h, h)
    BY GoodHeap, EraFits
  <2>2. QED
    BY <2>1, SafeMade, InReach
<1> HIDE DEF S, N
<1>5. \E e : e = Walk(e)
  <2>1. g \in [1 .. N -> [S -> S]]
    BY <1>3
  <2> HIDE DEF start, g
  <2>2. PICK e \in [0 .. N -> S] : Follows(e, N, start, g)
    BY <1>2, <1>4, <2>1, Repeated
  <2>3. ASSUME NEW n \in 0 .. N PROVE e[n] = Walk(e)[n]
    <3>1. CASE n = 0
      BY <2>2, <3>1 DEF Follows, start
    <3>2. CASE n # 0
      <4>1. n \in 1 .. N /\ n - 1 \in 0 .. N
        BY <1>2, <3>2
      <4>2. e[n] = g[n][e[n - 1]] /\ e[n - 1] \in S
        BY <2>2, <4>1 DEF Follows
      <4>3. e[n] = EraseChild(e[n - 1], t.val + n - 1)
        BY <4>1, <4>2 DEF g
      <4>4. Walk(e)[n] = Once(e[n - 1], LAMBDA s : EraseChild(s, t.val + n - 1))
        BY <3>2
      <4>5. Once(e[n - 1], LAMBDA s : EraseChild(s, t.val + n - 1)) = EraseChild(e[n - 1], t.val + n - 1)
        BY DEF Once
      <4>6. QED
        BY <4>3, <4>4, <4>5
    <3>3. QED
      BY <3>1, <3>2
  <2>4. e = Walk(e)
    BY <2>2, <2>3
  <2>5. QED
    BY <2>4
<1>6. erased = Walk(erased)
  <2> HIDE DEF Walk
  <2>1. QED
    BY <1>5
<1>7. erased[0] \in S /\ \A n \in 1 .. N : erased[n - 1] \in S => erased[n] \in S
  <2> HIDE DEF erased
  <2>1. erased[0] = start
    BY <1>2, <1>6
  <2>2. ASSUME NEW n \in 1 .. N, erased[n - 1] \in S PROVE erased[n] \in S
    <3>1. n \in 0 .. N /\ n # 0
      BY <1>2
    <3>2. erased[n] = Once(erased[n - 1], LAMBDA s : EraseChild(s, t.val + n - 1))
      BY <1>6, <3>1
    <3>3. Once(erased[n - 1], LAMBDA s : EraseChild(s, t.val + n - 1)) = EraseChild(erased[n - 1], t.val + n - 1)
      BY DEF Once
    <3>4. QED
      BY <1>3, <2>2, <3>2, <3>3
  <2>3. QED
    BY <1>4, <2>1, <2>2
<1>8. erased[N] \in S
  <2> HIDE DEF erased
  <2>1. QED
    BY <1>2, <1>7, FollowsIn
<1>9. QED
  <2> HIDE DEF erased
  <2>1. QED
    BY <1>1, <1>8, ReachSafe DEF S

\* A cell of a term of one cell.
LEMMA EraseProjGrows ==
    ASSUME NEW h, Good(h), NEW t \in Fits(Len(h)), t.tag \in {"DP0", "DP1"}
    PROVE  Grown(h, EraseProj(h, t))
<1> DEFINE cell == h[t.val] orphan == StripSub(cell)
           g == IF orphan.tag = "ERA" THEN h ELSE Detach(h, orphan)
<1>1. t.val \in 1 .. Len(h) /\ cell \in Fits(Len(h)) /\ Len(h) \in Nat
  BY OneCell, GoodHeap DEF Ones
<1>2. CASE cell.sub
  <2>1. EraseProj(h, t) = [g EXCEPT ![t.val] = Era]
    BY <1>2 DEF EraseProj
  <2>2. orphan \in Fits(Len(h))
    <3> HIDE DEF cell
    <3> QED BY <1>1, SubFits
  <2>3. Grown(h, g)
    <3> HIDE DEF orphan
    <3> QED BY <2>2, DetachGrows, GoodHeap
  <2> HIDE DEF g
  <2>4. t.val \in 1 .. Len(g) /\ Era \in Fits(Len(g)) /\ Good(g)
    BY <1>1, <2>3, GoodHeap, EraFits DEF Grown
  <2>5. Grown(g, [g EXCEPT ![t.val] = Era])
    BY <2>4, Written
  <2>6. QED
    BY <2>1, <2>3, <2>5, GrownTwice
<1>3. CASE ~cell.sub
  <2>1. EraseProj(h, t) = [h EXCEPT ![t.val] = SetSub(cell)]
    BY <1>3 DEF EraseProj
  <2> DEFINE u == SetSub(cell)
  <2> HIDE DEF cell
  <2>2. u \in Fits(Len(h))
    BY <1>1, SubFits
  <2> HIDE DEF u
  <2>3. Grown(h, [h EXCEPT ![t.val] = u])
    BY <1>1, <2>2, Written
  <2>4. QED
    BY <2>1, <2>3 DEF u
<1>4. QED
  BY <1>2, <1>3

LEMMA EraseVarSafe ==
    ASSUME NEW h, Good(h), NEW t \in Fits(Len(h)), t.tag = "VAR"
    PROVE  Safe(h, EraseVar(h, t))
<1> DEFINE cell == h[t.val] n == Len(h) g == Append(h, Era) u == Term("ERA", 0, n + 1)
<1>1. t.val \in 1 .. n /\ cell \in Fits(n) /\ n \in Nat
  BY OneCell, GoodHeap DEF Ones
<1>2. CASE cell.sub
  <2>1. EraseVar(h, t) = Made([g EXCEPT ![t.val] = u], Era)
    BY <1>2 DEF EraseVar, Next1
  <2>2. Grown(h, g) /\ Len(g) = n + 1 /\ u \in Fits(n + 1) /\ Era \in Fits(n + 1)
    <3>1. Era \in Fits(n + 1)
      BY <1>1, EraFits
    <3>2. QED
      BY <1>1, <3>1, Appended, EraserFits
  <2> HIDE DEF g, u
  <2>3. Good(g) /\ t.val \in 1 .. Len(g)
    BY <1>1, <2>2 DEF Grown
  <2>4. Grown(g, [g EXCEPT ![t.val] = u]) /\ Len([g EXCEPT ![t.val] = u]) = n + 1
    BY <2>2, <2>3, Written
  <2> DEFINE k == [g EXCEPT ![t.val] = u]
  <2>5. Grown(h, k) /\ Era \in Fits(Len(k))
    BY <2>2, <2>4, GrownTwice
  <2> HIDE DEF k
  <2>6. Safe(h, Made(k, Era))
    BY <2>5, SafeMade
  <2>7. QED
    BY <2>1, <2>6 DEF k
<1>3. CASE ~cell.sub
  <2>1. EraseVar(h, t) = Made(h, Payload(h, cell))
    BY <1>3 DEF EraseVar
  <2> HIDE DEF cell
  <2>2. QED
    BY <1>1, <2>1, PayloadFits, GoodHeap, SafeMade
<1>4. QED
  BY <1>2, <1>3

LEMMA EraseLayerSafe ==
    ASSUME NEW h, Good(h), NEW t \in Fits(Len(h))
    PROVE  Safe(h, EraseLayer(h, t))
<1>1. CASE t.tag \in {"DP0", "DP1"}
  <2>1. EraseLayer(h, t) = Made(EraseProj(h, t), Era)
    BY <1>1 DEF EraseLayer
  <2>2. Grown(h, EraseProj(h, t))
    BY <1>1, EraseProjGrows
  <2>3. Era \in Fits(Len(EraseProj(h, t)))
    BY <2>2, GoodHeap, EraFits DEF Grown
  <2>4. QED
    BY <2>1, <2>2, <2>3, SafeMade
<1>2. CASE t.tag = "VAR"
  <2>1. EraseLayer(h, t) = EraseVar(h, t)
    BY <1>2 DEF EraseLayer
  <2>2. QED
    BY <1>2, <2>1, EraseVarSafe
<1>3. CASE t.tag \notin {"DP0", "DP1", "VAR"}
  <2>1. EraseLayer(h, t) = EraseChildren(h, t)
    BY <1>3 DEF EraseLayer
  <2>2. QED
    BY <2>1, EraseChildrenSafe
<1>4. QED
  BY <1>1, <1>2, <1>3

-----------------------------------------------------------------------------
(* The other rules.                                                         *)

LEMMA ApplyToSafe ==
    ASSUME NEW h, Good(h), NEW r, Safe(h, r), NEW loc \in 1 .. Len(h)
    PROVE  Safe(h, ApplyTo(r, loc))
<1> DEFINE g == r.heap
<1>1. Good(g) /\ Grown(h, g) /\ r.term \in Fits(Len(g))
  BY DEF Safe, Grown
<1>2. g[loc] \in Fits(Len(g))
  <2>1. loc \in 1 .. Len(g)
    BY <1>1, GoodHeap DEF Grown
  <2> HIDE DEF g
  <2>2. QED
    BY <1>1, <2>1, GoodHeap
<1>3. "APP" \in Twos /\ 0 \in Nat
  BY DEF Twos, Pairs
<1> HIDE DEF g
<1>4. Safe(g, Node(g, "APP", 0, r.term, g[loc]))
  BY <1>1, <1>2, <1>3, NodeSafe
<1>5. ApplyTo(r, loc) = Node(g, "APP", 0, r.term, g[loc])
  BY DEF ApplyTo, g
<1>6. QED
  BY <1>1, <1>4, <1>5, SafeLater

LEMMA FieldsSafe ==
    ASSUME NEW h, Good(h), NEW handler \in Fits(Len(h)), NEW ctr \in Fits(Len(h)), ctr.tag = "CTR"
    PROVE  Safe(h, Fields(h, handler, ctr))
<1> DEFINE N == ctr.ext
           S == Reach(h)
           Walk(c) == [n \in 0 .. N |->
                          IF n = 0 THEN Made(h, handler)
                          ELSE Once(c[n - 1], LAMBDA r : ApplyTo(r, ctr.val + n - 1))]
           applied == CHOOSE c : c = Walk(c)
           start == Made(h, handler)
           g == [n \in 1 .. N |-> [r \in S |-> ApplyTo(r, ctr.val + n - 1)]]
<1>1. Fields(h, handler, ctr) = applied[N]
  BY DEF Fields
<1>2. N \in Nat /\ N = Arity(ctr) /\ ctr.val \in Nat
  BY Parts, GoodHeap, ArityIs
<1>3. ASSUME NEW n \in 1 .. N, NEW r \in S PROVE ApplyTo(r, ctr.val + n - 1) \in S
  <2>1. n - 1 \in Nat /\ n - 1 < Arity(ctr)
    BY <1>2
  <2>2. ctr.val + (n - 1) \in 1 .. Len(h)
    BY <2>1, CellsOf
  <2>3. ctr.val + n - 1 \in 1 .. Len(h)
    BY <1>2, <2>2
  <2>4. Safe(h, r)
    BY ReachSafe
  <2>5. QED
    BY <2>3, <2>4, ApplyToSafe, InReach
<1>4. start \in S
  BY GoodHeap, SafeMade, InReach
<1> HIDE DEF S, N
<1>5. \E e : e = Walk(e)
  <2>1. g \in [1 .. N -> [S -> S]]
    BY <1>3
  <2> HIDE DEF start, g
  <2>2. PICK e \in [0 .. N -> S] : Follows(e, N, start, g)
    BY <1>2, <1>4, <2>1, Repeated
  <2>3. ASSUME NEW n \in 0 .. N PROVE e[n] = Walk(e)[n]
    <3>1. CASE n = 0
      BY <2>2, <3>1 DEF Follows, start
    <3>2. CASE n # 0
      <4>1. n \in 1 .. N /\ n - 1 \in 0 .. N
        BY <1>2, <3>2
      <4>2. e[n] = g[n][e[n - 1]] /\ e[n - 1] \in S
        BY <2>2, <4>1 DEF Follows
      <4>3. e[n] = ApplyTo(e[n - 1], ctr.val + n - 1)
        BY <4>1, <4>2 DEF g
      <4>4. Walk(e)[n] = Once(e[n - 1], LAMBDA r : ApplyTo(r, ctr.val + n - 1))
        BY <3>2
      <4>5. Once(e[n - 1], LAMBDA r : ApplyTo(r, ctr.val + n - 1)) = ApplyTo(e[n - 1], ctr.val + n - 1)
        BY DEF Once
      <4>6. QED
        BY <4>3, <4>4, <4>5
    <3>3. QED
      BY <3>1, <3>2
  <2>4. e = Walk(e)
    BY <2>2, <2>3
  <2>5. QED
    BY <2>4
<1>6. applied = Walk(applied)
  <2> HIDE DEF Walk
  <2>1. QED
    BY <1>5
<1>7. applied[0] \in S /\ \A n \in 1 .. N : applied[n - 1] \in S => applied[n] \in S
  <2> HIDE DEF applied
  <2>1. applied[0] = start
    BY <1>2, <1>6
  <2>2. ASSUME NEW n \in 1 .. N, applied[n - 1] \in S PROVE applied[n] \in S
    <3>1. n \in 0 .. N /\ n # 0
      BY <1>2
    <3>2. applied[n] = Once(applied[n - 1], LAMBDA r : ApplyTo(r, ctr.val + n - 1))
      BY <1>6, <3>1
    <3>3. Once(applied[n - 1], LAMBDA r : ApplyTo(r, ctr.val + n - 1)) = ApplyTo(applied[n - 1], ctr.val + n - 1)
      BY DEF Once
    <3>4. QED
      BY <1>3, <2>2, <3>2, <3>3
  <2>3. QED
    BY <1>4, <2>1, <2>2
<1>8. applied[N] \in S
  <2> HIDE DEF applied
  <2>1. QED
    BY <1>2, <1>7, FollowsIn
<1>9. QED
  <2> HIDE DEF applied
  <2>1. QED
    BY <1>1, <1>8, ReachSafe DEF S

LEMMA EraseNodeGrows ==
    ASSUME NEW h, Good(h), NEW l \in 1 .. Len(h), l + 1 \in 1 .. Len(h)
    PROVE  Grown(h, EraseNode(h, l)) /\ Len(EraseNode(h, l)) = Len(h)
<1> DEFINE g == [h EXCEPT ![l] = Era]
<1>1. Era \in Fits(Len(h))
  BY GoodHeap, EraFits
<1>2. Grown(h, g) /\ Len(g) = Len(h)
  BY <1>1, Written
<1>3. EraseNode(h, l) = [g EXCEPT ![l + 1] = Era]
  BY DEF EraseNode
<1> HIDE DEF g
<1>4. Good(g) /\ l + 1 \in 1 .. Len(g) /\ Era \in Fits(Len(g))
  BY <1>1, <1>2 DEF Grown
<1>5. Grown(g, [g EXCEPT ![l + 1] = Era]) /\ Len([g EXCEPT ![l + 1] = Era]) = Len(g)
  BY <1>4, Written
<1>6. QED
  BY <1>2, <1>3, <1>5, GrownTwice

LEMMA BetaGrows ==
    ASSUME NEW h, Good(h), NEW l \in 1 .. Len(h), NEW arg \in Fits(Len(h)),
           NEW app \in 1 .. Len(h), app + 1 \in 1 .. Len(h)
    PROVE  Grown(h, Beta(h, l, arg, app)) /\ Len(Beta(h, l, arg, app)) = Len(h)
<1> DEFINE g == [h EXCEPT ![l] = arg]
<1>1. Grown(h, g) /\ Len(g) = Len(h)
  BY Written
<1>2. Beta(h, l, arg, app) = EraseNode(g, app)
  BY DEF Beta
<1> HIDE DEF g
<1>3. Grown(g, EraseNode(g, app)) /\ Len(EraseNode(g, app)) = Len(g)
  <2>1. Good(g) /\ app \in 1 .. Len(g) /\ app + 1 \in 1 .. Len(g)
    BY <1>1 DEF Grown
  <2>2. QED
    BY <2>1, EraseNodeGrows
<1>4. QED
  BY <1>1, <1>2, <1>3, GrownTwice

LEMMA UdpBranchesSafe ==
    ASSUME NEW h, Good(h), NEW udp \in Fits(Len(h)), NEW sup \in Fits(Len(h)), Superposed(sup)
    PROVE  Safe(h, UdpBranches(h, udp, sup))
<1> DEFINE n == Len(h) S == Fits(n + 4)
           a == Term("UDP", udp.ext, n + 1) b == Term("UDP", udp.ext, n + 2)
           new == <<h[sup.val], h[sup.val + 1], a, b>>
<1>1. n \in Nat /\ sup.tag \in Twos /\ udp.ext \in Nat
  BY GoodHeap, Parts DEF Superposed, Twos
<1>2. Fits(n) \subseteq S
  BY <1>1, FitsGrows
<1>3. h[sup.val] \in S /\ h[sup.val + 1] \in S
  BY <1>2, BranchesOf
<1>4. a \in S /\ b \in S
  <2>1. "UDP" \in Ones
    BY DEF Ones
  <2>2. n + 1 \in 1 .. n + 4 /\ n + 2 \in 1 .. n + 4 /\ n + 4 \in Nat
    BY <1>1
  <2>3. QED
    BY <1>1, <2>1, <2>2, OneFits
<1>5. [sup EXCEPT !.val = n + 3] \in S
  <2>1. n + 4 \in Nat /\ n + 3 \in Nat /\ n + 3 >= 1 /\ n + 3 + 1 <= n + 4 /\ sup \in Fits(n)
    BY <1>1
  <2>2. QED
    BY <1>1, <2>1, MovedFits
<1> HIDE DEF a, b, S, n
<1>6. new \in Seq(S) /\ Len(new) = 4
  BY <1>3, <1>4
<1>7. Grown(h, h \o new) /\ Len(h \o new) = n + 4
  BY <1>6, Extended DEF S, n
<1>8. UdpBranches(h, udp, sup) = Made(h \o new, [sup EXCEPT !.val = n + 3])
  <2>1. n + 1 + 1 = n + 2 /\ n + 1 + 2 = n + 3
    BY <1>1
  <2>2. QED
    BY <2>1 DEF UdpBranches, Next1, n, a, b
<1>9. QED
  BY <1>5, <1>7, <1>8, SafeMade DEF S

LEMMA UdpLamSafe ==
    ASSUME NEW h, Good(h), NEW udp \in Fits(Len(h)), NEW lam \in Fits(Len(h)), lam.tag = "LAM"
    PROVE  Safe(h, UdpLam(h, udp, lam))
<1> DEFINE n == Len(h) S == Fits(n + 4)
           a == Term("UDP", udp.ext, n + 4) b == Term("UDP", udp.ext, n + 1) var == Term("VAR", 0, n + 2)
           new == <<h[lam.val + 1], SetSub(var), b, var>>
           g == h \o new
<1>1. n \in Nat /\ lam.tag \in Twos /\ udp.ext \in Nat /\ 0 \in Nat /\ n + 4 \in Nat
  BY GoodHeap, Parts DEF Twos
<1>2. Fits(n) \subseteq S
  BY <1>1, FitsGrows
<1>3. lam.val \in 1 .. n /\ h[lam.val + 1] \in S
  BY <1>1, <1>2, TwoCells
<1>4. a \in S /\ b \in S /\ var \in S
  <2>1. "UDP" \in Ones /\ "VAR" \in Ones
    BY DEF Ones
  <2>2. n + 1 \in 1 .. n + 4 /\ n + 2 \in 1 .. n + 4 /\ n + 4 \in 1 .. n + 4
    BY <1>1
  <2>3. QED
    BY <1>1, <2>1, <2>2, OneFits
<1>5. SetSub(var) \in S
  BY <1>1, <1>4, SubFits
<1>6. Term("LAM", 0, n + 2) \in S
  <2>1. "LAM" \in Twos
    BY DEF Twos
  <2>2. QED
    BY <1>1, <2>1, TermFits
<1> HIDE DEF a, b, var, S, n
<1>7. new \in Seq(S) /\ Len(new) = 4
  BY <1>3, <1>4, <1>5
<1>8. Grown(h, g) /\ Len(g) = n + 4
  BY <1>7, Extended DEF S, n
<1>9. [h EXCEPT ![lam.val] = a] \o new = [g EXCEPT ![lam.val] = a]
  <2>1. h \in Seq(Fits(n)) /\ Len(h) = n
    BY DEF Good, n
  <2>2. h \in Seq(S) /\ a \in S /\ lam.val \in 1 .. Len(h)
    BY <1>2, <1>3, <1>4, <2>1
  <2>3. new \in Seq(S)
    BY <1>7
  <2> HIDE DEF new
  <2>4. [h EXCEPT ![lam.val] = a] \o new = [h \o new EXCEPT ![lam.val] = a]
    BY <2>2, <2>3, WrittenFirst
  <2>5. QED
    BY <2>4
<1>10. Grown(g, [g EXCEPT ![lam.val] = a]) /\ Len([g EXCEPT ![lam.val] = a]) = n + 4
  <2>1. Good(g) /\ lam.val \in 1 .. Len(g) /\ a \in Fits(Len(g))
    BY <1>1, <1>3, <1>4, <1>8 DEF Grown, S
  <2> HIDE DEF g
  <2>2. QED
    BY <1>8, <2>1, Written
<1>11. UdpLam(h, udp, lam) = Made([h EXCEPT ![lam.val] = a] \o new, Term("LAM", 0, n + 2))
  <2>1. n + 1 + 1 = n + 2 /\ n + 1 + 3 = n + 4
    BY <1>1
  <2>2. QED
    BY <2>1 DEF UdpLam, Next1, n, a, b, var
<1> DEFINE k == [g EXCEPT ![lam.val] = a]
<1>12. Grown(h, k) /\ Len(k) = n + 4
  <2> HIDE DEF g
  <2> QED BY <1>8, <1>10, GrownTwice
<1>13. UdpLam(h, udp, lam) = Made(k, Term("LAM", 0, n + 2))
  BY <1>9, <1>11
<1> HIDE DEF k, g
<1>14. QED
  BY <1>6, <1>12, <1>13, SafeMade DEF S

-----------------------------------------------------------------------------
(* Frames, and draining them.                                               *)

Waiting(tag) ==
    CASE tag \in {"OP2_X", "OP2_Y"} -> {"OP2"}
      [] tag \in {"EQL_X", "EQL_Y"} -> {"EQL"}
      [] tag \in {"APP", "APP_MAT"} -> {"APP"}
      [] tag = "AND_OR"             -> {"AND", "OR"}
      [] tag = "DUP"                -> {"DP0", "DP1"}
      [] OTHER                      -> {tag}

Kinds == {"OP2_X", "OP2_Y", "EQL_X", "EQL_Y", "APP", "APP_MAT", "AND_OR", "SEQ", "DUP", "UDP", "DSU", "DDU"}

Frames(n) ==
    {r \in [kind : Kinds, term : Fits(n), saved : Fits(n)] :
        r.term.tag \in Waiting(r.kind) /\ (r.kind = "APP_MAT" => r.saved.tag = "MAT")}

\* The cells of the term of a frame.
LEMMA FrameCells ==
    ASSUME NEW h, Good(h), NEW r \in Frames(Len(h))
    PROVE  /\ r.term \in Fits(Len(h)) /\ r.saved \in Fits(Len(h)) /\ r.kind \in Kinds
           /\ r.term.val \in 1 .. Len(h)
           /\ r.kind \notin {"DUP", "UDP"} =>
                 /\ r.term.tag \in Twos \cup {"DSU", "DDU"}
                 /\ r.term.val + 1 \in 1 .. Len(h) /\ h[r.term.val + 1] \in Fits(Len(h))
<1>1. r.term \in Fits(Len(h)) /\ r.saved \in Fits(Len(h)) /\ r.kind \in Kinds
  BY DEF Frames
<1>2. CASE r.kind \in {"DUP", "UDP"}
  <2>1. r.term.tag \in Ones
    BY <1>2 DEF Frames, Waiting, Ones
  <2>2. QED
    BY <1>1, <1>2, <2>1, OneCell
<1>3. CASE r.kind \notin {"DUP", "UDP"}
  <2>1. r.term.tag \in Twos \cup {"DSU", "DDU"}
    BY <1>1, <1>3 DEF Frames, Waiting, Twos, Pairs, Kinds
  <2>2. QED
    BY <1>1, <1>3, <2>1, TwoCells
<1>4. QED
  BY <1>2, <1>3

LEMMA FramesGrow ==
    ASSUME NEW h, NEW g, Good(h), Grown(h, g)
    PROVE  Frames(Len(h)) \subseteq Frames(Len(g))
<1>1. Fits(Len(h)) \subseteq Fits(Len(g))
  BY Later
<1>2. QED
  BY <1>1 DEF Frames

LEMMA InstallGrows ==
    ASSUME NEW h, Good(h), NEW r \in Frames(Len(h)), NEW w \in Fits(Len(h))
    PROVE  Grown(h, Install(h, r, w)) /\ Len(Install(h, r, w)) = Len(h)
<1> DEFINE l == r.term.val g == [h EXCEPT ![l] = r.saved]
<1>1. l \in 1 .. Len(h) /\ r.saved \in Fits(Len(h))
  BY FrameCells
<1>2. CASE r.kind \in {"OP2_Y", "EQL_Y", "APP_MAT"}
  <2>1. Install(h, r, w) = [g EXCEPT ![l + 1] = w]
    BY <1>2 DEF Install
  <2>2. l + 1 \in 1 .. Len(h)
    BY <1>2, FrameCells
  <2>3. Grown(h, g) /\ Len(g) = Len(h)
    <3> HIDE DEF l
    <3> QED BY <1>1, Written
  <2> HIDE DEF g
  <2>4. Good(g) /\ l + 1 \in 1 .. Len(g) /\ w \in Fits(Len(g))
    BY <2>2, <2>3 DEF Grown
  <2> HIDE DEF l
  <2>5. Grown(g, [g EXCEPT ![l + 1] = w]) /\ Len([g EXCEPT ![l + 1] = w]) = Len(g)
    BY <2>4, Written
  <2>6. QED
    BY <2>1, <2>3, <2>5, GrownTwice
<1>3. CASE r.kind \notin {"OP2_Y", "EQL_Y", "APP_MAT"}
  <2>1. Install(h, r, w) = [h EXCEPT ![l] = w]
    BY <1>3 DEF Install
  <2> HIDE DEF l
  <2>2. Grown(h, [h EXCEPT ![l] = w]) /\ Len([h EXCEPT ![l] = w]) = Len(h)
    BY <1>1, Written
  <2>3. QED
    BY <2>1, <2>2
<1>4. QED
  BY <1>2, <1>3

LEMMA DrainFrameSafe ==
    ASSUME NEW h, Good(h), NEW s, Safe(h, s), Len(s.heap) = Len(h), NEW r \in Frames(Len(h))
    PROVE  Safe(h, DrainFrame(s, r)) /\ Len(DrainFrame(s, r).heap) = Len(h)
<1> DEFINE g == s.heap k == Install(g, r, s.term)
<1>1. Good(g) /\ Grown(h, g) /\ s.term \in Fits(Len(g)) /\ r \in Frames(Len(g)) /\ Len(g) = Len(h)
  BY DEF Safe, Grown
<1> HIDE DEF g
<1>2. Grown(g, k) /\ Len(k) = Len(g)
  BY <1>1, InstallGrows
<1>3. r.term \in Fits(Len(h))
  BY FrameCells
<1>4. DrainFrame(s, r) = Made(k, r.term)
  BY DEF DrainFrame, g
<1> HIDE DEF k
<1>5. Grown(h, k) /\ r.term \in Fits(Len(k)) /\ Len(k) = Len(h)
  BY <1>1, <1>2, <1>3, GrownTwice
<1>6. QED
  BY <1>4, <1>5, SafeMade, MadeIs

LEMMA DrainedSafe ==
    ASSUME NEW h, Good(h), NEW frames \in Seq(Frames(Len(h))), NEW w \in Fits(Len(h))
    PROVE  Safe(h, Drained(h, frames, w)) /\ Len(Drained(h, frames, w).heap) = Len(h)
<1> DEFINE N == Len(frames)
           S == {m \in Reach(h) : Len(m.heap) = Len(h)}
           Walk(c) == [n \in 0 .. N |->
                          IF n = 0 THEN Made(h, w)
                          ELSE Once(c[n - 1], LAMBDA s : DrainFrame(s, frames[n]))]
           drained == CHOOSE c : c = Walk(c)
           start == Made(h, w)
           g == [n \in 1 .. N |-> [s \in S |-> DrainFrame(s, frames[n])]]
<1>1. Drained(h, frames, w) = drained[N]
  BY DEF Drained
<1>2. N \in Nat /\ \A n \in 1 .. N : frames[n] \in Frames(Len(h))
  OBVIOUS
<1>3. ASSUME NEW n \in 1 .. N, NEW s \in S PROVE DrainFrame(s, frames[n]) \in S
  <2>1. Safe(h, s) /\ Len(s.heap) = Len(h) /\ frames[n] \in Frames(Len(h))
    BY <1>2, ReachSafe
  <2>2. Safe(h, DrainFrame(s, frames[n])) /\ Len(DrainFrame(s, frames[n]).heap) = Len(h)
    BY <2>1, DrainFrameSafe
  <2>3. QED
    BY <2>2, InReach
<1>4. start \in S
  BY GoodHeap, SafeMade, InReach, MadeIs
<1> HIDE DEF S, N
<1>5. \E e : e = Walk(e)
  <2>1. g \in [1 .. N -> [S -> S]]
    BY <1>3
  <2> HIDE DEF start, g
  <2>2. PICK e \in [0 .. N -> S] : Follows(e, N, start, g)
    BY <1>2, <1>4, <2>1, Repeated
  <2>3. ASSUME NEW n \in 0 .. N PROVE e[n] = Walk(e)[n]
    <3>1. CASE n = 0
      BY <2>2, <3>1 DEF Follows, start
    <3>2. CASE n # 0
      <4>1. n \in 1 .. N /\ n - 1 \in 0 .. N
        BY <1>2, <3>2
      <4>2. e[n] = g[n][e[n - 1]] /\ e[n - 1] \in S
        BY <2>2, <4>1 DEF Follows
      <4>3. e[n] = DrainFrame(e[n - 1], frames[n])
        BY <4>1, <4>2 DEF g
      <4>4. Walk(e)[n] = Once(e[n - 1], LAMBDA s : DrainFrame(s, frames[n]))
        BY <3>2
      <4>5. Once(e[n - 1], LAMBDA s : DrainFrame(s, frames[n])) = DrainFrame(e[n - 1], frames[n])
        BY DEF Once
      <4>6. QED
        BY <4>3, <4>4, <4>5
    <3>3. QED
      BY <3>1, <3>2
  <2>4. e = Walk(e)
    BY <2>2, <2>3
  <2>5. QED
    BY <2>4
<1>6. drained = Walk(drained)
  <2> HIDE DEF Walk
  <2>1. QED
    BY <1>5
<1>7. drained[0] \in S /\ \A n \in 1 .. N : drained[n - 1] \in S => drained[n] \in S
  <2> HIDE DEF drained
  <2>1. drained[0] = start
    BY <1>2, <1>6
  <2>2. ASSUME NEW n \in 1 .. N, drained[n - 1] \in S PROVE drained[n] \in S
    <3>1. n \in 0 .. N /\ n # 0
      BY <1>2
    <3>2. drained[n] = Once(drained[n - 1], LAMBDA s : DrainFrame(s, frames[n]))
      BY <1>6, <3>1
    <3>3. Once(drained[n - 1], LAMBDA s : DrainFrame(s, frames[n])) = DrainFrame(drained[n - 1], frames[n])
      BY DEF Once
    <3>4. QED
      BY <1>3, <2>2, <3>2, <3>3
  <2>3. QED
    BY <1>4, <2>1, <2>2
<1>8. drained[N] \in S
  <2> HIDE DEF drained
  <2>1. QED
    BY <1>2, <1>7, FollowsIn
<1>9. QED
  <2> HIDE DEF drained
  <2>1. QED
    BY <1>1, <1>8, ReachSafe DEF S

-----------------------------------------------------------------------------
(* The machine.                                                             *)

MachineFits ==
    /\ Good(heap) /\ cur \in Fits(Len(heap)) /\ stack \in Seq(Frames(Len(heap)))
    /\ mode \in {"idle", "enter", "apply", "erase"} /\ (mode = "erase" => ActiveEraser(cur))
    /\ fresh \in Nat /\ book = NoBook

\* A step to a heap that is no smaller.
Moved ==
    /\ Grown(heap, heap') /\ cur' \in Fits(Len(heap')) /\ stack' \in Seq(Frames(Len(heap)))
    /\ mode' \in {"enter", "apply"}

LEMMA StackLater ==
    ASSUME MachineFits, NEW h, Grown(heap, h), NEW st \in Seq(Frames(Len(heap)))
    PROVE  st \in Seq(Frames(Len(h)))
<1> DEFINE A == Frames(Len(heap)) B == Frames(Len(h))
<1>1. A \subseteq B
  BY FramesGrow DEF MachineFits
<1> HIDE DEF A, B
<1>2. st \in Seq(A) => st \in Seq(B)
  BY <1>1
<1>3. QED
  BY <1>2 DEF A, B

\* The top frame, and what is below it.
LEMMA TopFrame ==
    ASSUME MachineFits, stack # <<>>
    PROVE  f \in Frames(Len(heap)) /\ Tail(stack) \in Seq(Frames(Len(heap)))
<1> DEFINE A == Frames(Len(heap))
<1>1. stack \in Seq(A)
  BY DEF MachineFits
<1> HIDE DEF A
<1>2. Head(stack) \in A /\ Tail(stack) \in Seq(A)
  BY <1>1
<1>3. QED
  BY <1>2 DEF A, f

LEMMA OnTop ==
    ASSUME NEW A, NEW r \in A, NEW st \in Seq(A)
    PROVE  <<r>> \o st \in Seq(A)
OBVIOUS

\* What the top frame waits for, and the other slot of its term.
LEMMA AtFrame ==
    ASSUME MachineFits, stack # <<>>
    PROVE  /\ f.term \in Fits(Len(heap)) /\ f.saved \in Fits(Len(heap)) /\ f.kind \in Kinds
           /\ f.term.val \in 1 .. Len(heap) /\ f.term.ext \in Nat /\ Len(heap) \in Nat
           /\ f.kind \notin {"DUP", "UDP"} => f.term.val + 1 \in 1 .. Len(heap) /\ Second \in Fits(Len(heap))
           /\ cur \in Fits(Len(heap)) /\ cur \in Terms /\ Good(heap)
           /\ cur.ext \in Nat /\ cur.val \in Nat
<1>1. Good(heap) /\ f \in Frames(Len(heap)) /\ cur \in Fits(Len(heap))
  BY TopFrame DEF MachineFits
<1>2. /\ f.term \in Fits(Len(heap)) /\ f.saved \in Fits(Len(heap)) /\ f.kind \in Kinds
      /\ f.term.val \in 1 .. Len(heap)
      /\ f.kind \notin {"DUP", "UDP"} =>
            f.term.val + 1 \in 1 .. Len(heap) /\ heap[f.term.val + 1] \in Fits(Len(heap))
  BY <1>1, FrameCells
<1>3. Len(heap) \in Nat
  BY <1>1, GoodHeap
<1>4. f.term.ext \in Nat /\ cur \in Terms /\ cur.ext \in Nat /\ cur.val \in Nat
  BY <1>1, <1>2, <1>3, Parts
<1>5. QED
  BY <1>1, <1>2, <1>3, <1>4 DEF Second

LEMMA BuildMoves ==
    ASSUME MachineFits, stack # <<>>, NEW m, Safe(heap, m), Build(m)
    PROVE  Moved
<1>1. heap' = m.heap /\ cur' = m.term /\ mode' = "enter" /\ stack' = Tail(stack)
  BY DEF Build, Go, Pop
<1>2. Grown(heap, m.heap) /\ m.term \in Fits(Len(m.heap))
  BY DEF Safe
<1>3. Tail(stack) \in Seq(Frames(Len(heap)))
  BY TopFrame
<1>4. QED
  BY <1>1, <1>2, <1>3 DEF Moved

LEMMA StuckMoves ==
    ASSUME MachineFits, stack # <<>>, Stuck
    PROVE  Moved
<1> DEFINE h == Install(heap, f, cur)
<1>1. heap' = h /\ cur' = f.term /\ mode' = "apply" /\ stack' = Tail(stack)
  BY DEF Stuck, Ret, Pop
<1>2. f \in Frames(Len(heap)) /\ Tail(stack) \in Seq(Frames(Len(heap)))
  BY TopFrame
<1>3. Grown(heap, h) /\ Len(h) = Len(heap)
  BY <1>2, InstallGrows DEF MachineFits
<1>4. f.term \in Fits(Len(heap))
  BY AtFrame
<1> HIDE DEF h
<1>5. QED
  BY <1>1, <1>2, <1>3, <1>4 DEF Moved

LEMMA AnswerMoves ==
    ASSUME MachineFits, stack # <<>>, NEW t \in Fits(Len(heap)), Answer(t) \/ Become(t)
    PROVE  Moved
<1>1. heap' = heap /\ cur' = t /\ mode' \in {"enter", "apply"} /\ stack' = Tail(stack)
  BY DEF Answer, Become, Ret, Go, Pop
<1>2. Tail(stack) \in Seq(Frames(Len(heap)))
  BY TopFrame
<1>3. Grown(heap, heap)
  BY GoodHeap DEF MachineFits
<1>4. QED
  BY <1>1, <1>2, <1>3 DEF Moved

LEMMA WaitMoves ==
    ASSUME MachineFits, stack # <<>>, NEW r \in Frames(Len(heap)), NEW t \in Fits(Len(heap)),
           Wait(r), Go(t), UNCHANGED heap
    PROVE  Moved
<1>1. heap' = heap /\ cur' = t /\ mode' = "enter" /\ stack' = <<r>> \o Tail(stack)
  BY DEF Wait, Go
<1>2. <<r>> \o Tail(stack) \in Seq(Frames(Len(heap)))
  BY TopFrame, OnTop
<1>3. Grown(heap, heap)
  BY GoodHeap DEF MachineFits
<1>4. QED
  BY <1>1, <1>2, <1>3 DEF Moved

LEMMA PairTags == /\ Pairs \subseteq Twos /\ "APP" \in Twos /\ "OP2" \in Twos /\ "EQL" \in Twos
                  /\ "AND" \in Twos /\ "OR" \in Twos /\ "SEQ" \in Twos /\ "SUP" \in Twos
                  /\ "LAM" \in Twos /\ "BRI" \in Twos /\ "MAT" \in Twos /\ "USP" \in Twos /\ "ANN" \in Twos
BY DEF Twos, Pairs

\* A frame for the second operand.
LEMMA NextFrame ==
    ASSUME MachineFits, stack # <<>>, NEW kind \in Kinds, f.term.tag \in Waiting(kind),
           kind = "APP_MAT" => cur.tag = "MAT"
    PROVE  Frame(kind, f.term, cur) \in Frames(Len(heap))
<1> DEFINE r == Frame(kind, f.term, cur)
<1>1. r = [kind |-> kind, term |-> f.term, saved |-> cur]
  BY DEF Frame
<1>2. f.term \in Fits(Len(heap)) /\ cur \in Fits(Len(heap))
  BY AtFrame
<1>3. r.kind = kind /\ r.term = f.term /\ r.saved = cur
  BY <1>1
<1> DEFINE u == f.term
<1> HIDE DEF u
<1>4. r \in [kind : Kinds, term : Fits(Len(heap)), saved : Fits(Len(heap))]
  BY <1>1, <1>2
<1> HIDE DEF r
<1>5. r \in Frames(Len(heap))
  BY <1>3, <1>4 DEF Frames
<1>6. QED
  BY <1>5 DEF r

LEMMA ApplyOp2XMoves ==
    ASSUME MachineFits, ApplyOp2X
    PROVE  Moved
<1>1. stack # <<>> /\ f.kind = "OP2_X"
  BY DEF ApplyOp2X, Popping
<1>2. CASE cur.tag = "SUP"
  <2>1. Build(Distribute(heap, cur, "OP2", f.term.ext, Second))
    BY <1>2 DEF ApplyOp2X
  <2>2. Superposed(cur)
    BY <1>2 DEF Superposed
  <2>3. Safe(heap, Distribute(heap, cur, "OP2", f.term.ext, Second))
    BY <1>1, <2>2, AtFrame, PairTags, DistributeSafe
  <2>4. QED
    BY <1>1, <2>1, <2>3, BuildMoves
<1>3. CASE cur.tag # "SUP"
  <2>1. Wait(Frame("OP2_Y", f.term, cur)) /\ Go(Second) /\ UNCHANGED heap
    BY <1>3 DEF ApplyOp2X
  <2>2. f.term.tag \in Waiting("OP2_Y") /\ "OP2_Y" \in Kinds
    BY <1>1, TopFrame DEF Frames, Waiting, Kinds
  <2>3. Frame("OP2_Y", f.term, cur) \in Frames(Len(heap))
    BY <1>1, <2>2, NextFrame
  <2>4. Second \in Fits(Len(heap))
    BY <1>1, AtFrame
  <2>5. QED
    BY <1>1, <2>1, <2>3, <2>4, WaitMoves
<1>4. QED
  BY <1>2, <1>3

LEMMA OpResult ==
    ASSUME NEW opr, NEW x \in Nat, NEW y \in Nat
    PROVE  Op2Result(opr, x, y) \in Nat
<1>1. Word \in Nat /\ Word > 1
  BY WordAssumption
<1>2. ASSUME NEW z \in Int PROVE z % Word \in Nat
  BY <1>1
<1>3. x + y \in Int /\ x - y \in Int /\ x * y \in Int
  OBVIOUS
<1>4. (x + y) % Word \in Nat /\ (x - y) % Word \in Nat /\ (x * y) % Word \in Nat
  BY <1>2, <1>3
<1>5. y # 0 => x \div y \in Nat /\ x % y \in Nat
  OBVIOUS
<1>6. QED
  BY <1>4, <1>5 DEF Op2Result

LEMMA NumFits ==
    ASSUME NEW n \in Nat, NEW v \in Nat
    PROVE  Num(v) \in Fits(n)
BY TermFits

LEMMA ApplyOp2YMoves ==
    ASSUME MachineFits, ApplyOp2Y
    PROVE  Moved
<1>1. stack # <<>> /\ f.kind = "OP2_Y"
  BY DEF ApplyOp2Y, Popping
<1>2. CASE cur.tag = "SUP"
  <2>1. Build(DistributeCopy(heap, cur, "OP2", f.term.ext, f.saved))
    BY <1>2 DEF ApplyOp2Y
  <2>2. Superposed(cur)
    BY <1>2 DEF Superposed
  <2>3. Safe(heap, DistributeCopy(heap, cur, "OP2", f.term.ext, f.saved))
    BY <1>1, <2>2, AtFrame, PairTags, DistributeSafe
  <2>4. QED
    BY <1>1, <2>1, <2>3, BuildMoves
<1>3. CASE cur.tag = "NUM" /\ f.saved.tag = "NUM"
  <2> DEFINE v == Op2Result(f.term.ext, f.saved.val, cur.val)
  <2>1. Answer(Num(v))
    BY <1>3 DEF ApplyOp2Y
  <2>2. f.saved.val \in Nat /\ cur.val \in Nat /\ Len(heap) \in Nat
    BY <1>1, AtFrame, Parts
  <2>3. v \in Nat
    BY <2>2, OpResult
  <2> HIDE DEF v
  <2>4. Num(v) \in Fits(Len(heap))
    BY <2>2, <2>3, NumFits
  <2>5. QED
    BY <1>1, <2>1, <2>4, AnswerMoves
<1>4. CASE ~(cur.tag = "SUP") /\ ~(cur.tag = "NUM" /\ f.saved.tag = "NUM")
  <2>1. Stuck
    BY <1>4 DEF ApplyOp2Y
  <2>2. QED
    BY <1>1, <2>1, StuckMoves
<1>5. QED
  BY <1>2, <1>3, <1>4

LEMMA ApplyDupMoves ==
    ASSUME MachineFits, ApplyDup
    PROVE  Moved
<1> DEFINE side == IF f.term.tag = "DP1" THEN 1 ELSE 0
           copies == Copy(heap, f.term.ext, cur)
           u == ForSibling(copies, side)
<1>1. stack # <<>> /\ f.kind = "DUP"
  BY DEF ApplyDup, Popping
<1>2. CASE Copyable(cur)
  <2>1. /\ heap' = [copies.heap EXCEPT ![f.term.val] = u]
        /\ Ret(copies.v[side + 1]) /\ Pop
    BY <1>2 DEF ApplyDup
  <2>2. SafeCopies(heap, copies)
    BY <1>1, AtFrame, CopySafe
  <2>3. side \in 0 .. 1
    OBVIOUS
  <2> HIDE DEF copies, side
  <2> DEFINE g == copies.heap
  <2>4. Grown(heap, g) /\ Good(g) /\ copies.v[side + 1] \in Fits(Len(g)) /\ copies.v[2 - side] \in Fits(Len(g))
    <3>1. Grown(heap, g) /\ copies.v[1] \in Fits(Len(g)) /\ copies.v[2] \in Fits(Len(g))
      BY <2>2 DEF SafeCopies
    <3> HIDE DEF g
    <3>2. (side = 0 /\ side + 1 = 1 /\ 2 - side = 2) \/ (side = 1 /\ side + 1 = 2 /\ 2 - side = 1)
      BY <2>3
    <3>3. QED
      BY <3>1, <3>2 DEF Grown
  <2>5. u \in Fits(Len(g))
    BY <2>4, GoodHeap, SubFits DEF ForSibling
  <2>6. f.term.val \in 1 .. Len(g)
    <3>1. f.term.val \in 1 .. Len(heap) /\ Len(heap) \in Nat
      BY <1>1, AtFrame
    <3>2. Len(heap) <= Len(g) /\ Len(g) \in Nat
      BY <2>4, GoodHeap DEF Grown
    <3>3. QED
      BY <3>1, <3>2
  <2> DEFINE l == f.term.val k == [g EXCEPT ![l] = u]
  <2> HIDE DEF g, u, l
  <2>7. Grown(g, k) /\ Len(k) = Len(g)
    BY <2>4, <2>5, <2>6, Written DEF l
  <2>8. heap' = k /\ cur' = copies.v[side + 1] /\ mode' = "apply" /\ stack' = Tail(stack)
    BY <2>1 DEF Ret, Pop, g, l
  <2> HIDE DEF k
  <2>9. Grown(heap, k)
    BY <2>4, <2>7, GrownTwice DEF MachineFits
  <2>10. Tail(stack) \in Seq(Frames(Len(heap)))
    BY <1>1, TopFrame
  <2>11. QED
    BY <2>4, <2>7, <2>8, <2>9, <2>10 DEF Moved
<1>3. CASE ~Copyable(cur)
  <2>1. Stuck
    BY <1>3 DEF ApplyDup
  <2>2. QED
    BY <1>1, <2>1, StuckMoves
<1>4. QED
  BY <1>2, <1>3

LEMMA ApplySeqMoves ==
    ASSUME MachineFits, ApplySeq
    PROVE  Moved
<1>1. stack # <<>> /\ f.kind = "SEQ"
  BY DEF ApplySeq, Popping
<1>2. CASE cur.tag = "SUP"
  <2>1. Build(Distribute(heap, cur, "SEQ", 0, f.saved))
    BY <1>2 DEF ApplySeq
  <2>2. Superposed(cur) /\ 0 \in Nat
    BY <1>2 DEF Superposed
  <2>3. Safe(heap, Distribute(heap, cur, "SEQ", 0, f.saved))
    BY <1>1, <2>2, AtFrame, PairTags, DistributeSafe
  <2>4. QED
    BY <1>1, <2>1, <2>3, BuildMoves
<1>3. CASE cur.tag # "SUP"
  <2>1. Become(f.saved)
    BY <1>3 DEF ApplySeq
  <2>2. QED
    BY <1>1, <2>1, AtFrame, AnswerMoves
<1>4. QED
  BY <1>2, <1>3

LEMMA EraInHeap ==
    ASSUME MachineFits
    PROVE  Era \in Fits(Len(heap)) /\ Grown(heap, heap) /\ Len(heap) \in Nat
BY GoodHeap, EraFits DEF MachineFits

LEMMA ApplyAppMoves ==
    ASSUME MachineFits, ApplyApp
    PROVE  Moved
<1> DEFINE app == f.term.val
           arg == f.saved
           split == Distribute(heap, cur, "APP", 0, arg)
           n == Len(heap)
<1>1. stack # <<>> /\ f.kind = "APP"
  BY DEF ApplyApp, Popping
<1>2. /\ Good(heap) /\ app \in 1 .. n /\ app + 1 \in 1 .. n /\ arg \in Fits(n) /\ cur \in Fits(n) /\ n \in Nat
      /\ 0 \in Nat /\ "APP" \in Twos
  BY <1>1, AtFrame, PairTags
<1>3. Binder(cur) => cur.val \in 1 .. n /\ heap[cur.val + 1] \in Fits(n)
  BY <1>2, PairTags, TwoCells DEF Binder
<1>4. CASE cur.tag = "LAM"
  <2> DEFINE g == Beta(heap, cur.val, arg, app)
  <2>1. Build(Made(g, heap[cur.val + 1]))
    BY <1>4 DEF ApplyApp, Superposed
  <2>2. cur.val \in 1 .. n /\ heap[cur.val + 1] \in Fits(n)
    BY <1>3, <1>4 DEF Binder
  <2>3. Grown(heap, g) /\ Len(g) = n
    <3> HIDE DEF app, arg
    <3> QED BY <1>2, <2>2, BetaGrows
  <2> HIDE DEF g
  <2>4. Safe(heap, Made(g, heap[cur.val + 1]))
    BY <2>2, <2>3, SafeMade
  <2>5. QED
    BY <1>1, <2>1, <2>4, BuildMoves
<1>5. CASE cur.tag = "NUM"
  <2>1. Become(arg)
    BY <1>5 DEF ApplyApp, Superposed
  <2>2. QED
    BY <1>1, <1>2, <2>1, AnswerMoves
<1>6. CASE cur.tag = "ERA"
  <2> DEFINE g == Detach(heap, arg)
  <2>1. heap' = g /\ cur' = Era /\ mode' = "apply" /\ stack' = Tail(stack)
    BY <1>6 DEF ApplyApp, Superposed, Ret, Pop
  <2>2. Grown(heap, g)
    BY <1>2, DetachGrows
  <2> HIDE DEF g
  <2>3. Era \in Fits(Len(g))
    BY <2>2, GoodHeap, EraFits DEF Grown
  <2>4. QED
    BY <1>1, <2>1, <2>2, <2>3, TopFrame DEF Moved
<1>7. CASE cur.tag = "BRI"
  <2> DEFINE l == cur.val g == [heap EXCEPT ![l] = arg]
  <2>1. Build(Made(g, heap[cur.val + 1]))
    BY <1>7 DEF ApplyApp, Superposed
  <2>2. l \in 1 .. n /\ heap[cur.val + 1] \in Fits(n)
    BY <1>3, <1>7 DEF Binder
  <2> HIDE DEF l
  <2>3. Grown(heap, g) /\ Len(g) = n
    <3> HIDE DEF arg
    <3> QED BY <1>2, <2>2, Written
  <2> HIDE DEF g
  <2>4. Safe(heap, Made(g, heap[cur.val + 1]))
    BY <2>2, <2>3, SafeMade
  <2>5. QED
    BY <1>1, <2>1, <2>4, BuildMoves
<1>8. CASE Superposed(cur)
  <2> DEFINE g == EraseNode(split.heap, app)
  <2>1. Build(Made(g, split.term))
    BY <1>8 DEF ApplyApp, Superposed
  <2>2. Safe(heap, split)
    BY <1>2, <1>8, DistributeSafe
  <2> HIDE DEF split, app, n
  <2>3. Good(split.heap) /\ Grown(heap, split.heap) /\ split.term \in Fits(Len(split.heap))
    BY <2>2 DEF Safe, Grown
  <2>4. app \in 1 .. Len(split.heap) /\ app + 1 \in 1 .. Len(split.heap)
    <3>1. n <= Len(split.heap) /\ Len(split.heap) \in Nat
      BY <2>3, GoodHeap DEF Grown, n
    <3>2. QED
      BY <1>2, <3>1
  <2>5. Grown(split.heap, g) /\ Len(g) = Len(split.heap)
    BY <2>3, <2>4, EraseNodeGrows
  <2> HIDE DEF g
  <2>6. Grown(heap, g) /\ split.term \in Fits(Len(g))
    BY <1>2, <2>3, <2>5, GrownTwice
  <2>7. Safe(heap, Made(g, split.term))
    BY <2>6, SafeMade
  <2>8. QED
    BY <1>1, <2>1, <2>7, BuildMoves
<1>9. CASE cur.tag = "MAT"
  <2>1. Wait(Frame("APP_MAT", f.term, cur)) /\ Go(arg) /\ UNCHANGED heap
    BY <1>9 DEF ApplyApp, Superposed
  <2>2. f.term.tag \in Waiting("APP_MAT") /\ "APP_MAT" \in Kinds
    BY <1>1, TopFrame DEF Frames, Waiting, Kinds
  <2>3. Frame("APP_MAT", f.term, cur) \in Frames(n)
    BY <1>1, <1>9, <2>2, NextFrame
  <2> HIDE DEF arg, n
  <2>4. QED
    BY <1>1, <1>2, <2>1, <2>3, WaitMoves DEF n
<1>10. CASE cur.tag \notin {"LAM", "NUM", "ERA", "BRI", "MAT"} /\ ~Superposed(cur)
  <2>1. Stuck
    BY <1>10 DEF ApplyApp
  <2>2. QED
    BY <1>1, <2>1, StuckMoves
<1>11. QED
  BY <1>4, <1>5, <1>6, <1>7, <1>8, <1>9, <1>10

LEMMA ApplyMatMoves ==
    ASSUME MachineFits, ApplyMat
    PROVE  Moved
<1> DEFINE handler == heap[f.saved.val] fallback == heap[f.saved.val + 1]
<1>1. stack # <<>> /\ f.kind = "APP_MAT"
  BY DEF ApplyMat, Popping
<1>2. /\ Good(heap) /\ f.saved \in Fits(Len(heap)) /\ cur \in Fits(Len(heap)) /\ Len(heap) \in Nat
      /\ 0 \in Nat /\ "APP" \in Twos
  BY <1>1, AtFrame, PairTags
<1>3. handler \in Fits(Len(heap)) /\ fallback \in Fits(Len(heap))
  <2>1. f.saved.tag = "MAT"
    BY <1>1, TopFrame DEF Frames
  <2>2. f.saved.tag \in Twos \cup {"DSU", "DDU"}
    BY <2>1, PairTags
  <2>3. QED
    BY <1>2, <2>2, TwoCells
<1>4. CASE Superposed(cur)
  <2>1. Build(DistributeFun(heap, cur, f.saved))
    BY <1>4 DEF ApplyMat, Superposed
  <2>2. Safe(heap, DistributeFun(heap, cur, f.saved))
    BY <1>2, <1>4, DistributeSafe
  <2>3. QED
    BY <1>1, <2>1, <2>2, BuildMoves
<1>5. CASE cur.tag = "CTR" /\ f.saved.ext = cur.ext
  <2>1. Build(Fields(heap, handler, cur))
    BY <1>5 DEF ApplyMat, Superposed
  <2> HIDE DEF handler
  <2>2. Safe(heap, Fields(heap, handler, cur))
    BY <1>2, <1>3, <1>5, FieldsSafe
  <2>3. QED
    BY <1>1, <2>1, <2>2, BuildMoves
<1>6. CASE cur.tag = "NUM" /\ f.saved.ext = cur.val
  <2>1. Become(handler)
    BY <1>6 DEF ApplyMat, Superposed
  <2> HIDE DEF handler
  <2>2. QED
    BY <1>1, <1>3, <2>1, AnswerMoves
<1>7. CASE \/ cur.tag = "CTR" /\ f.saved.ext # cur.ext
           \/ cur.tag = "NUM" /\ f.saved.ext # cur.val
  <2>1. Build(Node(heap, "APP", 0, fallback, cur))
    BY <1>7 DEF ApplyMat, Superposed
  <2> HIDE DEF fallback
  <2>2. Safe(heap, Node(heap, "APP", 0, fallback, cur))
    BY <1>2, <1>3, NodeSafe
  <2>3. QED
    BY <1>1, <2>1, <2>2, BuildMoves
<1>8. CASE cur.tag = "ERA"
  <2>1. heap' = heap /\ cur' = Era /\ mode' = "apply" /\ stack' = Tail(stack)
    BY <1>8 DEF ApplyMat, Superposed, Ret, Pop
  <2>2. QED
    BY <1>1, <2>1, TopFrame, EraInHeap DEF Moved
<1>9. CASE ~Superposed(cur) /\ cur.tag \notin {"CTR", "NUM", "ERA"}
  <2>1. Stuck
    BY <1>9 DEF ApplyMat
  <2>2. QED
    BY <1>1, <2>1, StuckMoves
<1>10. CASE cur.tag = "CTR"
  <2> HIDE DEF handler, fallback
  <2>1. QED
    BY <1>5, <1>7, <1>10
<1>11. CASE cur.tag = "NUM"
  <2> HIDE DEF handler, fallback
  <2>1. QED
    BY <1>6, <1>7, <1>11
<1>12. QED
  <2> HIDE DEF handler, fallback
  <2>1. QED
    BY <1>4, <1>8, <1>9, <1>10, <1>11

LEMMA ApplyAndOrMoves ==
    ASSUME MachineFits, ApplyAndOr
    PROVE  Moved
<1>1. stack # <<>> /\ f.kind = "AND_OR"
  BY DEF ApplyAndOr, Popping
<1>2. f.term.tag \in Twos
  BY <1>1, TopFrame, PairTags DEF Frames, Waiting
<1>3. Second \in Fits(Len(heap)) /\ Good(heap) /\ cur \in Fits(Len(heap)) /\ Len(heap) \in Nat /\ 0 \in Nat
  BY <1>1, AtFrame
<1>4. CASE Superposed(cur)
  <2>1. Build(Distribute(heap, cur, f.term.tag, 0, Second))
    BY <1>4 DEF ApplyAndOr, Superposed
  <2>2. Safe(heap, Distribute(heap, cur, f.term.tag, 0, Second))
    BY <1>2, <1>3, <1>4, DistributeSafe
  <2>3. QED
    BY <1>1, <2>1, <2>2, BuildMoves
<1>5. CASE cur.tag = "ERA"
  <2>1. Answer(Era)
    BY <1>5 DEF ApplyAndOr, Superposed
  <2>2. QED
    BY <1>1, <2>1, EraInHeap, AnswerMoves
<1>6. CASE cur.tag = "NUM"
  <2>1. Become(Second) \/ Answer(Num(IF f.term.tag = "OR" THEN 1 ELSE 0))
    BY <1>6 DEF ApplyAndOr, Superposed
  <2>2. Become(Second) \/ Answer(Num(1)) \/ Answer(Num(0))
    BY <2>1
  <2>3. Num(0) \in Fits(Len(heap)) /\ Num(1) \in Fits(Len(heap))
    BY <1>3, NumFits
  <2>4. QED
    BY <1>1, <1>3, <2>2, <2>3, AnswerMoves
<1>7. CASE ~Superposed(cur) /\ cur.tag \notin {"ERA", "NUM"}
  <2>1. Stuck
    BY <1>7 DEF ApplyAndOr
  <2>2. QED
    BY <1>1, <2>1, StuckMoves
<1>8. QED
  BY <1>4, <1>5, <1>6, <1>7

LEMMA ApplyEqlXMoves ==
    ASSUME MachineFits, ApplyEqlX
    PROVE  Moved
<1>1. stack # <<>> /\ f.kind = "EQL_X"
  BY DEF ApplyEqlX, Popping
<1>2. /\ Second \in Fits(Len(heap)) /\ Good(heap) /\ cur \in Fits(Len(heap)) /\ Len(heap) \in Nat /\ 0 \in Nat
      /\ "EQL" \in Twos
  BY <1>1, AtFrame, PairTags
<1>3. CASE Superposed(cur)
  <2>1. Build(Distribute(heap, cur, "EQL", 0, Second))
    BY <1>3 DEF ApplyEqlX, Superposed
  <2>2. Safe(heap, Distribute(heap, cur, "EQL", 0, Second))
    BY <1>2, <1>3, DistributeSafe
  <2>3. QED
    BY <1>1, <2>1, <2>2, BuildMoves
<1>4. CASE cur.tag \in {"ERA", "ANY"}
  <2>1. Answer(Era) \/ Answer(Num(1))
    BY <1>4 DEF ApplyEqlX, Superposed
  <2>2. Num(1) \in Fits(Len(heap))
    BY <1>2, NumFits
  <2>3. QED
    BY <1>1, <2>1, <2>2, EraInHeap, AnswerMoves
<1>5. CASE ~Superposed(cur) /\ cur.tag \notin {"ERA", "ANY"}
  <2>1. Wait(Frame("EQL_Y", f.term, cur)) /\ Go(Second) /\ UNCHANGED heap
    BY <1>5 DEF ApplyEqlX
  <2>2. f.term.tag \in Waiting("EQL_Y") /\ "EQL_Y" \in Kinds
    BY <1>1, TopFrame DEF Frames, Waiting, Kinds
  <2>3. Frame("EQL_Y", f.term, cur) \in Frames(Len(heap))
    BY <1>1, <2>2, NextFrame
  <2>4. QED
    BY <1>1, <1>2, <2>1, <2>3, WaitMoves
<1>6. QED
  BY <1>3, <1>4, <1>5

LEMMA ApplyEqlYMoves ==
    ASSUME MachineFits, ApplyEqlY
    PROVE  Moved
<1> DEFINE x == f.saved n == Len(heap) u == Num(fresh)
           h == [heap EXCEPT ![x.val] = u, ![cur.val] = u]
           m == Node(h, "EQL", 0, heap[x.val + 1], heap[cur.val + 1])
<1>1. stack # <<>> /\ f.kind = "EQL_Y"
  BY DEF ApplyEqlY, Popping
<1>2. /\ x \in Fits(n) /\ Good(heap) /\ cur \in Fits(n) /\ n \in Nat /\ 0 \in Nat /\ "EQL" \in Twos
  BY <1>1, AtFrame, PairTags
<1>3. Num(1) \in Fits(n) /\ Num(0) \in Fits(n)
  BY <1>2, NumFits
<1>4. CASE Superposed(cur)
  <2>1. Build(DistributeCopy(heap, cur, "EQL", 0, x))
    BY <1>4 DEF ApplyEqlY, Superposed, Values
  <2>2. Safe(heap, DistributeCopy(heap, cur, "EQL", 0, x))
    BY <1>2, <1>4, DistributeSafe
  <2>3. QED
    BY <1>1, <2>1, <2>2, BuildMoves
<1>5. CASE cur.tag \in {"ERA", "ANY"}
  <2>1. Answer(Era) \/ Answer(Num(1))
    BY <1>5 DEF ApplyEqlY, Superposed, Values
  <2>2. QED
    BY <1>1, <1>3, <2>1, EraInHeap, AnswerMoves
<1>6. CASE cur.tag = "LAM" /\ x.tag = "LAM"
  <2>1. Build(m)
    BY <1>6 DEF ApplyEqlY, Superposed
  <2>2. /\ x.val \in 1 .. n /\ heap[x.val + 1] \in Fits(n)
        /\ cur.val \in 1 .. n /\ heap[cur.val + 1] \in Fits(n)
    BY <1>2, <1>6, PairTags, TwoCells
  <2>3. u \in Fits(n)
    BY <1>2, NumFits DEF MachineFits
  <2> DEFINE k == x.val l == cur.val g == [heap EXCEPT ![k] = u] a == heap[k + 1] b == heap[l + 1]
  <2>4. h = [g EXCEPT ![l] = u]
    OBVIOUS
  <2>5. m = Node(h, "EQL", 0, a, b)
    OBVIOUS
  <2>6. a \in Fits(n) /\ b \in Fits(n) /\ k \in 1 .. n /\ l \in 1 .. n
    BY <2>2
  <2> HIDE DEF x, u, h, m, k, l, a, b
  <2>7. Grown(heap, g) /\ Len(g) = n
    BY <1>2, <2>3, <2>6, Written
  <2> HIDE DEF g
  <2>8. Good(g) /\ l \in 1 .. Len(g) /\ u \in Fits(Len(g))
    BY <2>3, <2>6, <2>7 DEF Grown
  <2>9. Grown(g, [g EXCEPT ![l] = u]) /\ Len([g EXCEPT ![l] = u]) = Len(g)
    BY <2>8, Written
  <2>10. Grown(heap, h) /\ Len(h) = n /\ Good(h)
    BY <1>2, <2>4, <2>7, <2>9, GrownTwice DEF Grown
  <2> HIDE DEF n
  <2>11. Safe(h, m)
    BY <1>2, <2>5, <2>6, <2>10, NodeSafe
  <2>12. Safe(heap, m)
    BY <1>2, <2>10, <2>11, SafeLater
  <2>13. QED
    BY <1>1, <2>1, <2>12, BuildMoves
<1>7. CASE /\ ~Superposed(cur) /\ cur.tag \notin {"ERA", "ANY"}
           /\ ~(cur.tag = "LAM" /\ x.tag = "LAM")
  <2>1. Answer(Num(IF x.val = cur.val THEN 1 ELSE 0)) \/ Answer(Num(0)) \/ Stuck
    BY <1>7 DEF ApplyEqlY
  <2>2. Answer(Num(0)) \/ Answer(Num(1)) \/ Stuck
    BY <2>1
  <2>3. QED
    BY <1>1, <1>3, <2>2, AnswerMoves, StuckMoves
<1>8. QED
  <2> HIDE DEF x, n, u, h, m
  <2>1. QED
    BY <1>4, <1>5, <1>6, <1>7

LEMMA ApplyDynamicMoves ==
    ASSUME MachineFits, ApplyDynamic
    PROVE  Moved
<1> DEFINE a == Second
           b == heap[f.term.val + 2]
           cell == Append(heap, a)
           n == Len(heap)
           p == Proj(0, cur.val, Len(cell)) q == Proj(1, cur.val, Len(cell))
           inner == Node(cell, "APP", 0, b, p)
           outer == Node(inner.heap, "APP", 0, inner.term, q)
<1>1. stack # <<>> /\ f.kind \in {"DSU", "DDU"}
  BY DEF ApplyDynamic, Popping
<1>2. /\ a \in Fits(n) /\ Good(heap) /\ cur.val \in Nat /\ n \in Nat /\ 0 \in Nat
      /\ "APP" \in Twos /\ "SUP" \in Twos /\ f.term \in Fits(n)
  BY <1>1, AtFrame, PairTags
<1>3. b \in Fits(n)
  <2>1. f.term.tag \in {"DSU", "DDU"}
    BY <1>1, TopFrame DEF Frames, Waiting
  <2>2. Arity(f.term) = 3
    BY <1>2, <2>1, Parts, ArityIs
  <2>3. QED
    BY <1>2, <2>2, CellsOf
<1>4. CASE cur.tag # "NUM"
  <2>1. Stuck
    BY <1>4 DEF ApplyDynamic
  <2>2. QED
    BY <1>1, <2>1, StuckMoves
<1>5. CASE cur.tag = "NUM" /\ f.kind = "DSU"
  <2>1. Build(Node(heap, "SUP", cur.val, a, b))
    BY <1>5 DEF ApplyDynamic
  <2> HIDE DEF a, b
  <2>2. Safe(heap, Node(heap, "SUP", cur.val, a, b))
    BY <1>2, <1>3, NodeSafe
  <2>3. QED
    BY <1>1, <2>1, <2>2, BuildMoves
<1>6. CASE cur.tag = "NUM" /\ f.kind = "DDU"
  <2>1. Build(outer)
    BY <1>6 DEF ApplyDynamic
  <2> HIDE DEF a, b
  <2>2. Grown(heap, cell) /\ Len(cell) = n + 1 /\ Good(cell)
    <3>1. a \in Fits(n + 1)
      BY <1>2, FitsGrows
    <3>2. QED
      BY <1>2, <3>1, Appended DEF Grown
  <2> HIDE DEF cell
  <2>3. p \in Fits(Len(cell)) /\ q \in Fits(Len(cell)) /\ b \in Fits(Len(cell))
    <3>1. Len(cell) \in 1 .. Len(cell) /\ Len(cell) \in Nat
      BY <1>2, <2>2
    <3>2. b \in Fits(Len(cell))
      BY <1>2, <1>3, <2>2, FitsGrows
    <3>3. QED
      BY <1>2, <3>1, <3>2, ProjFits
  <2> HIDE DEF p, q
  <2>4. Safe(cell, inner)
    BY <1>2, <2>2, <2>3, NodeSafe
  <2> HIDE DEF inner
  <2>5. /\ Good(inner.heap) /\ Grown(cell, inner.heap) /\ inner.term \in Fits(Len(inner.heap))
        /\ q \in Fits(Len(inner.heap))
    BY <2>2, <2>3, <2>4, Later DEF Safe, Grown
  <2>6. Safe(inner.heap, outer)
    BY <1>2, <2>5, NodeSafe
  <2> HIDE DEF outer
  <2>7. Safe(cell, outer)
    BY <2>2, <2>5, <2>6, SafeLater
  <2>8. Safe(heap, outer)
    BY <1>2, <2>2, <2>7, SafeLater
  <2>9. QED
    BY <1>1, <2>1, <2>8, BuildMoves
<1>7. QED
  <2> HIDE DEF a, b, cell, p, q, inner, outer
  <2>1. QED
    BY <1>1, <1>4, <1>5, <1>6

LEMMA ApplyUdpMoves ==
    ASSUME MachineFits, ApplyUdp
    PROVE  Moved
<1> DEFINE udp == f.term n == Len(heap)
           lam == UdpLam(heap, udp, cur)
           same == cur.tag = "USP" /\ cur.ext = udp.ext
<1>1. stack # <<>> /\ f.kind = "UDP"
  BY DEF ApplyUdp, Popping
<1>2. /\ udp \in Fits(n) /\ Good(heap) /\ cur \in Fits(n) /\ n \in Nat /\ udp.val \in 1 .. n
  BY <1>1, AtFrame
<1>3. Tail(stack) \in Seq(Frames(n))
  BY <1>1, TopFrame
<1>4. CASE same
  <2> DEFINE l == udp.val u == heap[cur.val + 1] g == [heap EXCEPT ![l] = u]
  <2>1. heap' = g /\ cur' = heap[cur.val] /\ mode' = "enter" /\ stack' = Tail(stack)
    BY <1>4 DEF ApplyUdp, Superposed, Go, Pop
  <2>2. u \in Fits(n) /\ heap[cur.val] \in Fits(n) /\ l \in 1 .. n
    BY <1>2, <1>4, BranchesOf DEF Superposed
  <2> HIDE DEF l, u
  <2>3. Grown(heap, g) /\ Len(g) = n
    BY <1>2, <2>2, Written
  <2> HIDE DEF g
  <2>4. QED
    BY <1>3, <2>1, <2>2, <2>3 DEF Moved
<1>5. CASE Superposed(cur) /\ ~same
  <2>1. Build(UdpBranches(heap, udp, cur))
    BY <1>5 DEF ApplyUdp, Superposed
  <2> HIDE DEF udp
  <2>2. Safe(heap, UdpBranches(heap, udp, cur))
    BY <1>2, <1>5, UdpBranchesSafe
  <2>3. QED
    BY <1>1, <2>1, <2>2, BuildMoves
<1>6. CASE cur.tag \in {"NUM", "ERA", "TEN", "ANY"}
  <2>1. heap' = heap /\ cur' = cur /\ mode' = "apply" /\ stack' = Tail(stack)
    BY <1>6 DEF ApplyUdp, Superposed, Ret, Pop
  <2>2. QED
    BY <1>2, <1>3, <2>1, GoodHeap DEF Moved
<1>7. CASE cur.tag = "LAM"
  <2>1. heap' = lam.heap /\ cur' = lam.term /\ mode' = "apply" /\ stack' = Tail(stack)
    BY <1>7 DEF ApplyUdp, Superposed, Ret, Pop
  <2> HIDE DEF udp
  <2>2. Safe(heap, lam)
    BY <1>2, <1>7, UdpLamSafe
  <2> HIDE DEF lam
  <2>3. QED
    BY <1>3, <2>1, <2>2 DEF Moved, Safe
<1>8. CASE ~Superposed(cur) /\ cur.tag \notin {"NUM", "ERA", "TEN", "ANY", "LAM"}
  <2>1. Stuck
    BY <1>8 DEF ApplyUdp, Superposed
  <2>2. QED
    BY <1>1, <2>1, StuckMoves
<1>9. QED
  <2> HIDE DEF udp, lam
  <2>1. QED
    BY <1>4, <1>5, <1>6, <1>7, <1>8

LEMMA ApplyMoves ==
    ASSUME MachineFits, Apply
    PROVE  Moved /\ fresh' \in Nat /\ book' = book
<1>1. ApplyEqlY => fresh' \in Nat /\ book' = book
  <2>1. fresh \in Nat
    BY DEF MachineFits
  <2>2. QED
    BY <2>1 DEF ApplyEqlY
<1>2. ApplyOp2X \/ ApplyOp2Y \/ ApplyDup \/ ApplySeq \/ ApplyApp \/ ApplyMat \/ ApplyAndOr
        \/ ApplyEqlX \/ ApplyDynamic \/ ApplyUdp => UNCHANGED names
  BY DEF ApplyOp2X, ApplyOp2Y, ApplyDup, ApplySeq, ApplyApp, ApplyMat, ApplyAndOr, ApplyEqlX,
         ApplyDynamic, ApplyUdp
<1>3. UNCHANGED names => fresh' \in Nat /\ book' = book
  BY DEF MachineFits, names
<1>4. Moved
  BY ApplyOp2XMoves, ApplyOp2YMoves, ApplyDupMoves, ApplySeqMoves, ApplyAppMoves, ApplyMatMoves,
     ApplyAndOrMoves, ApplyEqlXMoves, ApplyEqlYMoves, ApplyDynamicMoves, ApplyUdpMoves DEF Apply
<1>5. QED
  BY <1>1, <1>2, <1>3, <1>4 DEF Apply

-----------------------------------------------------------------------------
(* The enter phase.                                                         *)

LEMMA AtTerm ==
    ASSUME MachineFits
    PROVE  /\ cur \in Fits(Len(heap)) /\ Good(heap) /\ Len(heap) \in Nat /\ stack \in Seq(Frames(Len(heap)))
           /\ cur.tag \in Twos \cup {"DSU", "DDU"} \cup Ones => cur.val \in 1 .. Len(heap) /\ heap[cur.val] \in Fits(Len(heap))
           /\ cur.tag \in Twos \cup {"DSU", "DDU"} => heap[cur.val + 1] \in Fits(Len(heap))
<1>1. cur \in Fits(Len(heap)) /\ Good(heap) /\ Len(heap) \in Nat /\ stack \in Seq(Frames(Len(heap)))
  BY GoodHeap DEF MachineFits
<1>2. CASE cur.tag \in Twos \cup {"DSU", "DDU"}
  BY <1>1, <1>2, TwoCells
<1>3. CASE cur.tag \in Ones /\ cur.tag \notin Twos \cup {"DSU", "DDU"}
  BY <1>1, <1>3, OneCell
<1>4. CASE cur.tag \notin Twos \cup {"DSU", "DDU"} \cup Ones
  BY <1>1, <1>4
<1>5. QED
  BY <1>2, <1>3, <1>4

\* No frame is pushed and the heap stays.
LEMMA TermMoves ==
    ASSUME MachineFits, UNCHANGED <<heap, stack>>, NEW t \in Fits(Len(heap)), Go(t) \/ Ret(t)
    PROVE  Moved
<1>1. heap' = heap /\ stack' = stack /\ cur' = t /\ mode' \in {"enter", "apply"}
  BY DEF Go, Ret
<1>2. Grown(heap, heap) /\ stack \in Seq(Frames(Len(heap)))
  BY AtTerm, GoodHeap
<1>3. QED
  BY <1>1, <1>2 DEF Moved

LEMMA PushMoves ==
    ASSUME MachineFits, UNCHANGED heap, NEW r \in Frames(Len(heap)), Push(r),
           NEW t \in Fits(Len(heap)), Go(t)
    PROVE  Moved
<1>1. heap' = heap /\ stack' = <<r>> \o stack /\ cur' = t /\ mode' = "enter"
  BY DEF Go, Push
<1>2. Grown(heap, heap) /\ <<r>> \o stack \in Seq(Frames(Len(heap)))
  BY AtTerm, GoodHeap, OnTop
<1>3. QED
  BY <1>1, <1>2 DEF Moved

LEMMA EnterVarMoves ==
    ASSUME MachineFits, EnterVar
    PROVE  Moved
<1> DEFINE s == heap[cur.val] e == ActiveEra(heap, s)
<1>1. stack' = stack /\ cur.tag \in Ones
  BY DEF EnterVar, Entering, Ones
<1>2. s \in Fits(Len(heap)) /\ cur \in Fits(Len(heap)) /\ Good(heap) /\ stack \in Seq(Frames(Len(heap)))
  BY <1>1, AtTerm
<1>3. \/ UNCHANGED heap /\ (Go(s) \/ Ret(cur))
      \/ heap' = e.heap /\ Ret(e.term)
  BY DEF EnterVar
<1>4. CASE UNCHANGED heap /\ (Go(s) \/ Ret(cur))
  <2> HIDE DEF s
  <2>1. QED
    BY <1>1, <1>2, <1>4, TermMoves
<1>5. CASE heap' = e.heap /\ Ret(e.term)
  <2> HIDE DEF s
  <2>1. Safe(heap, e)
    BY <1>2, ActiveEraSafe
  <2> HIDE DEF e
  <2>2. QED
    BY <1>1, <1>2, <1>5, <2>1 DEF Moved, Safe, Ret
<1>6. QED
  BY <1>3, <1>4, <1>5

LEMMA EnterCtrMoves ==
    ASSUME MachineFits, EnterCtr
    PROVE  Moved
<1> DEFINE n == Len(heap)
<1>1. cur.tag = "CTR" /\ UNCHANGED <<heap, stack>>
  BY DEF EnterCtr, Entering, Same
<1>2. cur \in Fits(n) /\ Good(heap) /\ n \in Nat /\ cur \in Terms /\ cur.ext \in Nat /\ cur.val \in Nat
  BY AtTerm, Parts
<1>3. Arity(cur) = cur.ext
  BY <1>1, <1>2, ArityIs
<1>4. \/ Ret(cur)
      \/ cur.ext = 1 /\ Go(heap[cur.val])
      \/ cur.ext > 1 /\ Go(TailOf(cur))
  BY <1>2 DEF EnterCtr
<1>5. cur.ext = 1 => heap[cur.val] \in Fits(n)
  <2>1. cur.ext = 1 => heap[cur.val + 0] \in Fits(n)
    BY <1>2, <1>3, CellsOf
  <2>2. cur.val + 0 = cur.val
    BY <1>2
  <2>3. QED
    BY <2>1, <2>2
<1>6. ASSUME cur.ext > 1 PROVE TailOf(cur) \in Fits(n)
  <2> DEFINE t == TailOf(cur)
  <2>1. t.tag = "CTR" /\ t.ext = cur.ext - 1 /\ t.val = cur.val + 1 /\ t.sub = FALSE
    BY DEF TailOf, Term
  <2>2. cur.ext - 1 \in Nat /\ cur.val + 1 \in Nat /\ "CTR" \in Tags
    BY <1>2, <1>6 DEF Tags
  <2>3. t \in Terms
    BY <2>2 DEF TailOf, Term, Terms
  <2> HIDE DEF t
  <2>4. Arity(t) = t.ext
    BY <2>1, <2>3, ArityIs
  <2>5. cur.val >= 1 /\ cur.val + cur.ext - 1 <= n
    BY <1>2, <1>3, <1>6 DEF Fits
  <2>6. t.val >= 1 /\ t.val + Arity(t) - 1 <= n
    BY <1>2, <2>1, <2>4, <2>5
  <2>7. t \in Fits(n)
    BY <2>3, <2>6 DEF Fits
  <2>8. QED
    BY <2>7 DEF t
<1>7. QED
  BY <1>1, <1>2, <1>4, <1>5, <1>6, TermMoves

LEMMA EnterDupMoves ==
    ASSUME MachineFits, EnterDup
    PROVE  Moved
<1> DEFINE s == heap[cur.val] r == Frame("DUP", cur, Era)
<1>1. cur.tag \in {"DP0", "DP1"} /\ UNCHANGED heap
  BY DEF EnterDup, Entering, Same
<1>2. s \in Fits(Len(heap)) /\ cur \in Fits(Len(heap)) /\ Len(heap) \in Nat /\ Era \in Fits(Len(heap))
  BY <1>1, AtTerm, EraInHeap DEF Ones
<1>3. \/ Ret(StripSub(s)) /\ UNCHANGED stack
      \/ Push(r) /\ Go(s)
  BY DEF EnterDup
<1>4. CASE Ret(StripSub(s)) /\ UNCHANGED stack
  <2> HIDE DEF s
  <2>1. StripSub(s) \in Fits(Len(heap))
    BY <1>2, SubFits
  <2>2. QED
    BY <1>1, <1>4, <2>1, TermMoves
<1>5. CASE Push(r) /\ Go(s)
  <2>1. r \in Frames(Len(heap))
    <3>1. r = [kind |-> "DUP", term |-> cur, saved |-> Era] /\ "DUP" \in Kinds
      BY DEF Frame, Kinds
    <3>2. r.kind = "DUP" /\ r.term = cur
      BY <3>1
    <3>3. r \in [kind : Kinds, term : Fits(Len(heap)), saved : Fits(Len(heap))]
      BY <1>2, <3>1
    <3> HIDE DEF r
    <3>4. QED
      BY <1>1, <3>2, <3>3 DEF Frames, Waiting
  <2> HIDE DEF s, r
  <2>2. QED
    BY <1>1, <1>2, <1>5, <2>1, PushMoves
<1>6. QED
  BY <1>3, <1>4, <1>5

Operators == {"OP2", "SEQ", "APP", "DSU", "DDU", "AND", "OR", "EQL", "UDP"}

LEMMA WaitFirstMoves ==
    ASSUME MachineFits, cur.tag \in Operators, WaitFirst
    PROVE  Moved
<1> DEFINE s == heap[cur.val] r == FrameOf(cur)
<1>1. UNCHANGED heap /\ Push(r) /\ Go(s)
  BY DEF WaitFirst, Same
<1>2. /\ s \in Fits(Len(heap)) /\ cur \in Fits(Len(heap)) /\ Len(heap) \in Nat /\ Era \in Fits(Len(heap))
      /\ cur.tag # "UDP" => heap[cur.val + 1] \in Fits(Len(heap))
  <2>1. cur.tag \in Twos \cup {"DSU", "DDU"} \cup Ones
    BY DEF Operators, Twos, Ones, Pairs
  <2>2. cur.tag # "UDP" => cur.tag \in Twos \cup {"DSU", "DDU"}
    BY DEF Operators, Twos, Pairs
  <2>3. QED
    BY <2>1, <2>2, AtTerm, EraInHeap
<1>3. r \in Frames(Len(heap))
  <2>1. /\ r.kind \in Kinds /\ r.kind # "APP_MAT" /\ r.term = cur /\ cur.tag \in Waiting(r.kind)
        /\ r = Frame(r.kind, cur, r.saved)
        /\ \/ r.saved = Era
           \/ cur.tag # "UDP" /\ r.saved = heap[cur.val + 1]
    <3>1. CASE cur.tag \in {"APP", "SEQ"}
      BY <3>1 DEF FrameOf, Frame, Waiting, Kinds
    <3>2. CASE cur.tag \in {"AND", "OR"}
      BY <3>2 DEF FrameOf, Frame, Waiting, Kinds
    <3>3. CASE cur.tag \in {"OP2", "EQL"}
      BY <3>3 DEF FrameOf, Frame, Waiting, Kinds
    <3>4. CASE cur.tag \in {"DSU", "DDU", "UDP"}
      BY <3>4 DEF FrameOf, Frame, Waiting, Kinds
    <3>5. QED
      BY <3>1, <3>2, <3>3, <3>4 DEF Operators
  <2> HIDE DEF r
  <2>2. r.saved \in Fits(Len(heap))
    BY <1>2, <2>1
  <2>3. r = [kind |-> r.kind, term |-> cur, saved |-> r.saved]
    BY <2>1 DEF Frame
  <2>4. r \in [kind : Kinds, term : Fits(Len(heap)), saved : Fits(Len(heap))]
    BY <1>2, <2>1, <2>2, <2>3
  <2>5. QED
    BY <2>1, <2>4 DEF Frames
<1> HIDE DEF s, r
<1>4. QED
  BY <1>1, <1>2, <1>3, PushMoves

LEMMA EnterEraFits ==
    ASSUME MachineFits, EnterEra
    PROVE  MachineFits' /\ Grown(heap, heap')
<1>1. UNCHANGED <<heap, cur, stack, names>> /\ mode' \in {"apply", "erase"} /\ (mode' = "erase" => ActiveEraser(cur))
  BY DEF EnterEra, Entering, Ret, Same, ActiveEraser
<1>2. Grown(heap, heap)
  BY AtTerm, GoodHeap
<1>3. QED
  BY <1>1, <1>2 DEF MachineFits, names, ActiveEraser

LEMMA EraseStepFits ==
    ASSUME MachineFits, EraseStep
    PROVE  MachineFits' /\ Grown(heap, heap')
<1> DEFINE s == heap[cur.val] p == Payload(heap, s) e == EraseLayer(heap, p) l == cur.val
           g == e.heap k == [g EXCEPT ![l] = e.term]
<1>1. /\ heap' = k /\ UNCHANGED <<stack, names>> /\ mode = "erase"
      /\ \/ mode' = "apply" /\ cur' = Era
         \/ UNCHANGED <<mode, cur>>
  BY DEF EraseStep, Ret
<1>2. ActiveEraser(cur) /\ cur \in Fits(Len(heap)) /\ Good(heap) /\ Len(heap) \in Nat
  BY <1>1, AtTerm DEF MachineFits
<1>3. l \in 1 .. Len(heap) /\ s \in Fits(Len(heap))
  BY <1>2, OneCell
<1> HIDE DEF s
<1>4. p \in Fits(Len(heap))
  BY <1>2, <1>3, PayloadFits
<1> HIDE DEF p
<1>5. Safe(heap, e)
  BY <1>2, <1>4, EraseLayerSafe
<1> HIDE DEF e
<1>6. Grown(heap, g) /\ Good(g) /\ e.term \in Fits(Len(g)) /\ l \in 1 .. Len(g)
  <2>1. Grown(heap, g) /\ Good(g) /\ e.term \in Fits(Len(g))
    BY <1>5 DEF Safe, Grown
  <2> HIDE DEF g, l
  <2>2. Len(heap) <= Len(g) /\ Len(g) \in Nat
    BY <2>1, GoodHeap DEF Grown
  <2>3. QED
    BY <1>2, <1>3, <2>1, <2>2
<1> HIDE DEF g, l
<1>7. Grown(g, k) /\ Len(k) = Len(g)
  BY <1>6, Written
<1> HIDE DEF k
<1>8. Grown(heap, k) /\ Good(k)
  BY <1>2, <1>6, <1>7, GrownTwice DEF Grown
<1>9. cur \in Fits(Len(k)) /\ Era \in Fits(Len(k)) /\ stack \in Seq(Frames(Len(k)))
  <2>1. cur \in Fits(Len(k))
    BY <1>2, <1>8, Later
  <2>2. Era \in Fits(Len(k))
    BY <1>8, GoodHeap, EraFits
  <2>3. stack \in Seq(Frames(Len(k)))
    BY <1>8, AtTerm, StackLater
  <2>4. QED
    BY <2>1, <2>2, <2>3
<1>10. QED
  BY <1>1, <1>2, <1>8, <1>9 DEF MachineFits, names, ActiveEraser

LEMMA MovedFitsMachine ==
    ASSUME MachineFits, Moved, fresh' \in Nat, book' = book
    PROVE  MachineFits' /\ Grown(heap, heap')
<1>1. Good(heap') /\ cur' \in Fits(Len(heap')) /\ mode' \in {"enter", "apply"} /\ Grown(heap, heap')
  BY DEF Moved, Grown
<1>2. stack' \in Seq(Frames(Len(heap')))
  BY StackLater DEF Moved
<1>3. QED
  BY <1>1, <1>2 DEF MachineFits, ActiveEraser

LEMMA EnterFits ==
    ASSUME MachineFits, Enter
    PROVE  MachineFits' /\ Grown(heap, heap')
<1>1. CASE EnterSpent \/ EnterNormal
  <2>1. UNCHANGED <<heap, stack, names>> /\ Ret(cur)
    BY <1>1 DEF EnterSpent, EnterNormal, Same
  <2>2. Moved
    BY <2>1, AtTerm, TermMoves
  <2>3. QED
    BY <2>1, <2>2, MovedFitsMachine DEF names, MachineFits
<1>2. CASE EnterVar
  <2>1. UNCHANGED names
    BY <1>2 DEF EnterVar
  <2>2. QED
    BY <1>2, <2>1, EnterVarMoves, MovedFitsMachine DEF names, MachineFits
<1>3. CASE EnterWrapper
  <2>1. UNCHANGED <<heap, stack, names>> /\ Go(heap[cur.val]) /\ cur.tag \in Twos \cup Ones
    BY <1>3 DEF EnterWrapper, Same, Entering, Twos, Ones
  <2>2. Moved
    BY <2>1, AtTerm, TermMoves
  <2>3. QED
    BY <2>1, <2>2, MovedFitsMachine DEF names, MachineFits
<1>4. CASE EnterCtr
  <2>1. UNCHANGED names
    BY <1>4 DEF EnterCtr, Same
  <2>2. QED
    BY <1>4, <2>1, EnterCtrMoves, MovedFitsMachine DEF names, MachineFits
<1>5. CASE EnterDup
  <2>1. UNCHANGED names
    BY <1>5 DEF EnterDup, Same
  <2>2. QED
    BY <1>5, <2>1, EnterDupMoves, MovedFitsMachine DEF names, MachineFits
<1>6. CASE EnterOperator \/ EnterStrict
  <2>1. WaitFirst /\ cur.tag \in Operators
    BY <1>6 DEF EnterOperator, EnterStrict, Entering, Operators
  <2>2. UNCHANGED names
    BY <2>1 DEF WaitFirst, Same
  <2>3. QED
    BY <2>1, <2>2, WaitFirstMoves, MovedFitsMachine DEF names, MachineFits
<1>7. CASE EnterRef
  <2>1. DOMAIN book.roots = {}
    BY DEF MachineFits, NoBook
  <2>2. UNCHANGED <<heap, stack, names>> /\ Ret(cur)
    BY <1>7, <2>1 DEF EnterRef, Same
  <2>3. Moved
    BY <2>2, AtTerm, TermMoves
  <2>4. QED
    BY <2>2, <2>3, MovedFitsMachine DEF names, MachineFits
<1>8. CASE EnterAlo
  <2>1. cur.tag = "ALO"
    BY <1>8 DEF EnterAlo, Entering
  <2>2. cur.tag \in Tags
    BY AtTerm, Parts
  <2>3. QED
    BY <2>1, <2>2 DEF Tags, Twos, Ones, Pairs
<1>9. QED
  BY <1>1, <1>2, <1>3, <1>4, <1>5, <1>6, <1>7, <1>8, EnterEraFits, EraseStepFits DEF Enter

LEMMA StepFits ==
    ASSUME MachineFits, Step
    PROVE  MachineFits' /\ Grown(heap, heap')
<1>1. CASE Enter
  BY <1>1, EnterFits
<1>2. CASE Apply
  <2>1. Moved /\ fresh' \in Nat /\ book' = book
    BY <1>2, ApplyMoves
  <2>2. QED
    BY <2>1, MovedFitsMachine
<1>3. QED
  BY <1>1, <1>2 DEF Step

-----------------------------------------------------------------------------
(* The client.                                                              *)

Items(n) == [term : Fits(n), path : Seq(Nat \X Nat)]

ClientFits ==
    /\ work \in Seq(Items(Len(heap))) /\ leaves \in Seq(Items(Len(heap)))
    /\ settled \in BOOLEAN /\ (settled => work # <<>>) /\ (mode # "idle" => work # <<>>)

AllFit == MachineFits /\ ClientFits

LEMMA InRow ==
    ASSUME NEW A, NEW k \in Nat, NEW q \in [1 .. k -> A]
    PROVE  q \in Seq(A)
OBVIOUS

LEMMA ItemsLater ==
    ASSUME NEW h, NEW g, Good(h), Grown(h, g), NEW q \in Seq(Items(Len(h)))
    PROVE  q \in Seq(Items(Len(g)))
<1> DEFINE A == Items(Len(h)) B == Items(Len(g))
<1>1. A \subseteq B
  BY Later DEF Items
<1> HIDE DEF A, B
<1>2. q \in Seq(A) => q \in Seq(B)
  BY <1>1
<1>3. QED
  BY <1>2 DEF A, B

LEMMA FirstItem ==
    ASSUME ClientFits, work # <<>>
    PROVE  /\ Head(work) \in Items(Len(heap)) /\ Tail(work) \in Seq(Items(Len(heap)))
           /\ Head(work).term \in Fits(Len(heap)) /\ Head(work).path \in Seq(Nat \X Nat)
<1> DEFINE A == Items(Len(heap))
<1>1. work \in Seq(A)
  BY DEF ClientFits
<1> HIDE DEF A
<1>2. Head(work) \in A /\ Tail(work) \in Seq(A)
  BY <1>1
<1>3. QED
  BY <1>2 DEF A, Items

LEMMA InitFits ==
    ASSUME \A n \in Nets : Plain(n), Init
    PROVE  AllFit
<1>1. net \in Nets /\ InitMachine(net)
  BY DEF Init
<1>2. net.book = NoBook /\ Good(net.heap) /\ net.term \in Fits(Len(net.heap))
  BY <1>1 DEF Plain
<1>3. heap = net.heap /\ book = net.book /\ fresh = 0 /\ stack = <<>> /\ mode = "idle" /\ cur = Era
  BY <1>1 DEF InitMachine
<1>4. Good(heap) /\ Era \in Fits(Len(heap)) /\ Len(heap) \in Nat
  BY <1>2, <1>3, GoodHeap, EraFits
<1>5. MachineFits
  BY <1>2, <1>3, <1>4 DEF MachineFits
<1>6. ClientFits
  <2> DEFINE A == Items(Len(heap)) item == [term |-> net.term, path |-> <<>>]
  <2>1. work = <<item>> /\ settled = IsAtom(net.term) /\ leaves = <<>>
    BY DEF Init
  <2>2. item \in A
    <3>1. <<>> \in Seq(Nat \X Nat)
      OBVIOUS
    <3>2. QED
      BY <1>2, <1>3, <3>1 DEF Items
  <2>3. IsAtom(net.term) \in BOOLEAN
    BY DEF IsAtom
  <2> HIDE DEF A, item
  <2>4. work \in Seq(A) /\ leaves \in Seq(A) /\ work # <<>>
    BY <2>1, <2>2
  <2>5. QED
    BY <1>3, <2>1, <2>3, <2>4 DEF ClientFits, A
<1>7. QED
  BY <1>5, <1>6 DEF AllFit

LEMMA CallFits ==
    ASSUME AllFit, Call
    PROVE  AllFit'
<1>1. /\ work # <<>> /\ UNCHANGED client /\ UNCHANGED <<heap, names, stack>>
      /\ cur' = Head(work).term /\ mode' = "enter"
  BY DEF Call, Begin, Go
<1>2. Head(work).term \in Fits(Len(heap))
  BY <1>1, FirstItem DEF AllFit
<1>3. MachineFits'
  BY <1>1, <1>2 DEF AllFit, MachineFits, names
<1>4. ClientFits'
  BY <1>1 DEF AllFit, ClientFits, client
<1>5. QED
  BY <1>3, <1>4 DEF AllFit

LEMMA WorkFits ==
    ASSUME AllFit, Work
    PROVE  AllFit'
<1>1. Step /\ UNCHANGED client
  BY DEF Work
<1>2. MachineFits' /\ Grown(heap, heap')
  BY <1>1, StepFits DEF AllFit
<1>3. work \in Seq(Items(Len(heap'))) /\ leaves \in Seq(Items(Len(heap')))
  BY <1>2, ItemsLater DEF AllFit, MachineFits, ClientFits
<1>4. mode # "idle"
  <2>1. Enter => mode # "idle"
    BY DEF Enter, EnterSpent, EnterNormal, EnterVar, EnterWrapper, EnterCtr, EnterDup, EnterOperator,
           EnterStrict, EnterRef, EnterAlo, EnterEra, EraseStep, Entering
  <2>2. Apply => mode # "idle"
    BY DEF Apply, ApplyOp2X, ApplyOp2Y, ApplyDup, ApplySeq, ApplyApp, ApplyMat, ApplyAndOr, ApplyEqlX,
           ApplyEqlY, ApplyDynamic, ApplyUdp, Popping
  <2>3. QED
    BY <1>1, <2>1, <2>2 DEF Step
<1>5. ClientFits'
  BY <1>1, <1>3, <1>4 DEF AllFit, ClientFits, client
<1>6. QED
  BY <1>2, <1>5 DEF AllFit

LEMMA ReturnFits ==
    ASSUME AllFit, Return
    PROVE  AllFit'
<1> DEFINE r == Result h == r.heap item == [Head(work) EXCEPT !.term = r.term]
<1>1. /\ End(h) /\ work' = <<item>> \o Tail(work)
      /\ settled' = (IsAtom(r.term) \/ (~fired /\ r.term = Head(work).term)) /\ leaves' = leaves
  BY DEF Return
<1>2. mode = "apply" /\ heap' = h /\ mode' = "idle" /\ stack' = <<>> /\ cur' = Era /\ UNCHANGED names
  BY <1>1 DEF End, Done
<1>3. Safe(heap, r) /\ Good(heap)
  BY DrainedSafe DEF AllFit, MachineFits, Result
<1>4. Head(work) \in Items(Len(heap)) /\ Tail(work) \in Seq(Items(Len(heap))) /\ leaves \in Seq(Items(Len(heap)))
  BY <1>2, FirstItem DEF AllFit, ClientFits
<1> HIDE DEF r
<1>5. Good(h) /\ Grown(heap, h) /\ r.term \in Fits(Len(h))
  BY <1>3 DEF Safe, Grown
<1> HIDE DEF h
<1>6. Era \in Fits(Len(h))
  BY <1>5, GoodHeap, EraFits
<1>7. MachineFits'
  BY <1>2, <1>5, <1>6 DEF AllFit, MachineFits, names
<1> DEFINE A == Items(Len(h))
<1>8. item \in A
  BY <1>4, <1>5 DEF Items
<1>9. Tail(work) \in Seq(A) /\ leaves \in Seq(A)
  BY <1>3, <1>4, <1>5, ItemsLater
<1>10. settled' \in BOOLEAN
  <2>1. settled' <=> (IsAtom(r.term) \/ (~fired /\ r.term = Head(work).term))
    BY <1>1
  <2>2. QED
    BY <1>1 DEF IsAtom
<1> DEFINE tail == Tail(work)
<1> HIDE DEF A, item, tail
<1>11. <<item>> \o tail \in Seq(A) /\ <<item>> \o tail # <<>>
  BY <1>8, <1>9 DEF tail
<1>12. work' \in Seq(A) /\ leaves' \in Seq(A) /\ work' # <<>>
  BY <1>1, <1>9, <1>11 DEF tail
<1>13. ClientFits'
  BY <1>2, <1>10, <1>12 DEF ClientFits, A
<1>14. QED
  BY <1>7, <1>13 DEF AllFit

LEMMA SplitFits ==
    ASSUME AllFit, Split
    PROVE  AllFit'
<1> DEFINE item == Head(work) A == Items(Len(heap)) tail == Tail(work)
<1>1. mode = "idle" /\ settled /\ UNCHANGED <<machine, net>> /\ settled' = NextIsAtom(work')
  BY DEF Split
<1>2. item \in A /\ tail \in Seq(A) /\ leaves \in Seq(A) /\ item.term \in Fits(Len(heap)) /\ item.path \in Seq(Nat \X Nat)
  BY <1>1, FirstItem DEF AllFit, ClientFits
<1>3. MachineFits'
  BY <1>1 DEF AllFit, MachineFits, machine, ActiveEraser
<1>4. work' \in Seq(A) /\ leaves' \in Seq(A)
  <2>1. CASE Superposed(item.term)
    <3> DEFINE two == Branches(item)
               label == item.term.ext + IF item.term.tag = "USP" THEN 100 ELSE 0
    <3>1. work' = two \o tail /\ leaves' = leaves
      BY <2>1 DEF Split
    <3>2. label \in Nat
      BY <1>2, AtTerm, Parts DEF AllFit
    <3>3. ASSUME NEW i \in 1 .. 2
          PROVE  [term |-> heap[item.term.val + i - 1], path |-> Append(item.path, <<label, i - 1>>)] \in A
      <4>1. item.term.val \in Nat
        BY <1>2, AtTerm, Parts DEF AllFit
      <4>2. heap[item.term.val] \in Fits(Len(heap)) /\ heap[item.term.val + 1] \in Fits(Len(heap))
        BY <1>2, <2>1, BranchesOf DEF AllFit, MachineFits
      <4>3. item.term.val + i - 1 = item.term.val \/ item.term.val + i - 1 = item.term.val + 1
        BY <4>1
      <4>4. heap[item.term.val + i - 1] \in Fits(Len(heap))
        BY <4>2, <4>3
      <4> HIDE DEF item, label
      <4>5. <<label, i - 1>> \in Nat \X Nat
        BY <3>2
      <4> DEFINE p == item.path step == <<label, i - 1>>
      <4>6. p \in Seq(Nat \X Nat) /\ step \in Nat \X Nat
        BY <1>2, <4>5
      <4> HIDE DEF p, step
      <4>7. Append(p, step) \in Seq(Nat \X Nat)
        BY <4>6
      <4>8. QED
        BY <4>4, <4>7 DEF Items, p, step
    <3>4. two = [i \in 1 .. 2 |-> [term |-> heap[item.term.val + i - 1], path |-> Append(item.path, <<label, i - 1>>)]]
      BY DEF Branches
    <3> HIDE DEF two, A, item, label, tail
    <3>5. two \in [1 .. 2 -> A]
      BY <3>3, <3>4
    <3>6. two \in Seq(A)
      BY <3>5, InRow
    <3>7. two \o tail \in Seq(A)
      BY <1>2, <3>6
    <3>8. QED
      BY <1>2, <3>1, <3>7
  <2>2. CASE ~Superposed(item.term)
    <3>1. work' = tail /\ leaves' = Append(leaves, item)
      BY <2>2 DEF Split
    <3> HIDE DEF A, item, tail
    <3>2. QED
      BY <1>2, <3>1
  <2>3. QED
    BY <2>1, <2>2
<1>5. settled' \in BOOLEAN /\ (settled' => work' # <<>>)
  BY <1>1 DEF NextIsAtom
<1>6. mode' = "idle" /\ heap' = heap
  BY <1>1 DEF machine
<1>7. ClientFits'
  BY <1>4, <1>5, <1>6 DEF ClientFits
<1>8. QED
  BY <1>3, <1>7 DEF AllFit

LEMMA NextFits ==
    ASSUME AllFit, [Next]_vars
    PROVE  AllFit'
<1>1. CASE UNCHANGED vars
  BY <1>1 DEF AllFit, MachineFits, ClientFits, vars, machine, client, ActiveEraser
<1>2. QED
  BY <1>1, CallFits, WorkFits, ReturnFits, SplitFits DEF Next

\* Terms that fit were allocated.
LEMMA FitsInHeap ==
    ASSUME NEW terms \in Seq(Fits(Len(heap)))
    PROVE  AllAllocated(terms)
<1> DEFINE A == Fits(Len(heap))
<1>1. \A i \in DOMAIN terms : terms[i] \in A
  <2>1. terms \in Seq(A)
    OBVIOUS
  <2> HIDE DEF A
  <2>2. QED
    BY <2>1
<1>2. \A t \in A : InHeap(heap, t)
  BY DEF Fits, InHeap
<1> HIDE DEF A
<1>3. QED
  BY <1>1, <1>2 DEF AllAllocated

LEMMA FitsNoDangling ==
    ASSUME AllFit
    PROVE  NoDangling
<1> DEFINE A == Fits(Len(heap))
           net0 == Drained(heap, stack, cur)
           h == net0.heap
           items == [i \in DOMAIN work |-> work[i].term]
           done == [i \in DOMAIN leaves |-> leaves[i].term]
           now == IF mode = "idle" THEN items ELSE <<net0.term>> \o Tail(items)
<1>1. Stopped = h \o now \o done
  BY DEF Stopped
<1>2. h \in Seq(A) /\ net0.term \in A
  <2>1. Safe(heap, net0) /\ Len(h) = Len(heap)
    BY DrainedSafe DEF AllFit, MachineFits
  <2> HIDE DEF net0
  <2>2. h \in Seq(Fits(Len(h))) /\ net0.term \in Fits(Len(h))
    BY <2>1 DEF Safe, Grown, Good
  <2>3. QED
    BY <2>1, <2>2
<1>3. ASSUME NEW q \in Seq(Items(Len(heap))) PROVE [i \in DOMAIN q |-> q[i].term] \in Seq(A)
  <2> DEFINE B == Items(Len(heap)) k == Len(q)
  <2>1. DOMAIN q = 1 .. k /\ k \in Nat /\ \A i \in 1 .. k : q[i] \in B
    <3>1. q \in Seq(B)
      OBVIOUS
    <3> HIDE DEF B
    <3>2. QED
      BY <3>1
  <2>2. \A i \in 1 .. k : q[i].term \in A
    BY <2>1 DEF Items
  <2> HIDE DEF A, B, k
  <2>3. [i \in DOMAIN q |-> q[i].term] \in [1 .. k -> A]
    BY <2>1, <2>2
  <2>4. QED
    BY <2>1, <2>3
<1>4. items \in Seq(A) /\ done \in Seq(A)
  BY <1>3 DEF AllFit, ClientFits
<1>5. mode # "idle" => items # <<>>
  <2>1. mode # "idle" => work # <<>>
    BY DEF AllFit, ClientFits
  <2>2. work # <<>> => DOMAIN work # {}
    <3> DEFINE B == Items(Len(heap))
    <3>1. work \in Seq(B)
      BY DEF AllFit, ClientFits
    <3> HIDE DEF B
    <3>2. QED
      BY <3>1
  <2>3. DOMAIN items = DOMAIN work /\ DOMAIN <<>> = {}
    OBVIOUS
  <2> HIDE DEF items
  <2>4. QED
    BY <2>1, <2>2, <2>3
<1> HIDE DEF A, net0, h, items, done
<1>6. now \in Seq(A)
  BY <1>2, <1>4, <1>5
<1> HIDE DEF now
<1>7. h \o now \o done \in Seq(A)
  BY <1>2, <1>4, <1>6
<1>8. AllAllocated(h \o now \o done)
  BY <1>7, FitsInHeap DEF A
<1>9. QED
  BY <1>1, <1>8 DEF NoDangling

(***************************************************************************)
(* Whatever the nets without definitions to start from, and wherever the   *)
(* reducer may be stopped, no term of the heap, of the machine or of the   *)
(* client names a cell that was not allocated: no rule of wnf/_.c needs    *)
(* its tests loc >= heap_pos.                                              *)
(***************************************************************************)
THEOREM CollapseNoDangling ==
    ASSUME \A n \in Nets : Plain(n)
    PROVE  Spec => []NoDangling
<1>1. Init => AllFit
  BY InitFits
<1>2. AllFit /\ [Next]_vars => AllFit'
  BY NextFits
<1>3. AllFit => NoDangling
  BY FitsNoDangling
<1>4. QED
  BY <1>1, <1>2, <1>3, PTL DEF Spec

=============================================================================
