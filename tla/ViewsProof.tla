------------------------------ MODULE ViewsProof ------------------------------
(***************************************************************************)
(* A tensor read through its view shows what its operations mean, and the  *)
(* reading stays inside the buffer, for any shapes of the tensors, any     *)
(* chains of movement operations and any bounds, as long as every reshape  *)
(* can be expressed and a padded view is only permuted.                    *)
(*                                                                         *)
(* Elements are numbered in row-major order: Coords gives the indices of   *)
(* element k, Flat the number of a list of indices.  At the heart of the   *)
(* proof are three facts about the loops of tensor/view/: that merging     *)
(* dimensions keeps where every element lies (Fits), that cutting the      *)
(* merged dimensions into the new ones does (Cutting), and that the two    *)
(* together take every shape a broadcast meets (FrontExpressible).         *)
(***************************************************************************)
EXTENDS Views, SequenceTheorems, TLAPS

Finite == INSTANCE FiniteSetTheorems

-----------------------------------------------------------------------------
(* Recursive definitions over 0 .. N.                                       *)

LEMMA Least ==
    ASSUME NEW S, S \subseteq Nat, S # {}
    PROVE  \E k \in S : \A j \in S : k <= j
<1> DEFINE Up(n) == 0 .. n
           T == {Up(n) : n \in S}
           R == Finite!StrictSubsetOrdering(Nat)
<1>1. Finite!IsWellFoundedOn(R, Finite!FiniteSubsetsOf(Nat))
  BY Finite!FS_StrictSubsetOrderingWellFounded
<1>2. \A n \in S : Up(n) \in Finite!FiniteSubsetsOf(Nat)
  <2> TAKE n \in S
  <2>1. Finite!IsFiniteSet(0 .. n)
    BY Finite!FS_Interval
  <2> QED BY <2>1 DEF Finite!FiniteSubsetsOf
<1>4. T \subseteq Finite!FiniteSubsetsOf(Nat) /\ T # {}
  BY <1>2
<1>6. PICK x \in T : \A y \in T : <<y, x>> \notin R
  <2> HIDE DEF T, R
  <2> QED BY <1>1, <1>4, Finite!WFMin
<1>7. PICK k \in S : x = Up(k)
  BY <1>6
<1>8. ASSUME NEW j \in S, ~(k <= j) PROVE FALSE
  <2>1. Up(j) \in T
    OBVIOUS
  <2>2. Up(j) \subseteq Up(k) /\ Up(j) # Up(k) /\ Up(k) \subseteq Nat
    <3>1. k \in Nat /\ j \in Nat /\ j < k
      BY <1>8
    <3>2. k \in Up(k) /\ k \notin Up(j)
      BY <3>1
    <3> QED BY <3>1, <3>2
  <2>3. <<Up(j), Up(k)>> \in R
    BY <2>2 DEF Finite!StrictSubsetOrdering
  <2> QED BY <1>6, <1>7, <2>1, <2>3
<1> QED BY <1>8

\* What holds at the start and is kept by each step holds all along.
LEMMA AllAlong ==
    ASSUME NEW N \in Nat, NEW G, G \subseteq 0 .. N, 0 \in G,
           \A n \in 1 .. N : n - 1 \in G => n \in G
    PROVE  G = 0 .. N
<1> DEFINE S == (0 .. N) \ G
<1>1. SUFFICES ASSUME S # {} PROVE FALSE
  OBVIOUS
<1>2. PICK k \in S : \A j \in S : k <= j
  <2>1. S \subseteq Nat
    OBVIOUS
  <2> HIDE DEF S
  <2>2. QED
    BY <1>1, <2>1, Least
<1>3. k \in 1 .. N /\ k - 1 \in 0 .. N
  BY <1>2
<1>4. k - 1 \in G
  BY <1>2, <1>3
<1>5. QED
  BY <1>2, <1>3, <1>4

\* Repeated steps of functions.
Follows(e, N, s, g) == e[0] = s /\ \A n \in 1 .. N : e[n] = g[n][e[n - 1]]

LEMMA Iterated ==
    ASSUME NEW N \in Nat, NEW S, NEW s \in S, NEW g \in [1 .. N -> [S -> S]]
    PROVE  \E e \in [0 .. N -> S] : Follows(e, N, s, g)
<1> DEFINE G == {m \in 0 .. N : \E e \in [0 .. m -> S] : Follows(e, m, s, g)}
<1>1. 0 \in G
  <2> DEFINE e == [n \in 0 .. 0 |-> s]
  <2>1. e \in [0 .. 0 -> S] /\ Follows(e, 0, s, g)
    BY DEF Follows
  <2>2. QED
    BY <2>1
<1>2. ASSUME NEW m \in 1 .. N, m - 1 \in G PROVE m \in G
  <2>1. PICK e \in [0 .. m - 1 -> S] : Follows(e, m - 1, s, g)
    BY <1>2
  <2> DEFINE d == [n \in 0 .. m |-> IF n = m THEN g[m][e[m - 1]] ELSE e[n]]
  <2>2. g[m][e[m - 1]] \in S
    BY <2>1
  <2>3. d \in [0 .. m -> S]
    BY <2>1, <2>2
  <2>4. d[0] = s
    BY <2>1 DEF Follows
  <2>5. ASSUME NEW n \in 1 .. m PROVE d[n] = g[n][d[n - 1]]
    <3>1. CASE n = m
      BY <3>1
    <3>2. CASE n # m
      <4>1. n \in 1 .. m - 1 /\ n - 1 \in 0 .. m - 1
        BY <3>2
      <4>2. d[n] = e[n] /\ d[n - 1] = e[n - 1]
        BY <4>1
      <4>3. e[n] = g[n][e[n - 1]]
        BY <4>1, <2>1 DEF Follows
      <4>4. QED
        BY <4>2, <4>3
    <3>3. QED
      BY <3>1, <3>2
  <2> HIDE DEF d
  <2>6. Follows(d, m, s, g)
    BY <2>4, <2>5 DEF Follows
  <2>7. QED
    BY <2>3, <2>6
<1>3. G = 0 .. N
  <2>1. G \subseteq 0 .. N /\ \A n \in 1 .. N : n - 1 \in G => n \in G
    BY <1>2
  <2> HIDE DEF G
  <2>2. QED
    BY <1>1, <2>1, AllAlong
<1>4. QED
  BY <1>3

LEMMA FollowsIn ==
    ASSUME NEW N \in Nat, NEW S, NEW e, e[0] \in S, \A n \in 1 .. N : e[n - 1] \in S => e[n] \in S
    PROVE  e[N] \in S
<1> DEFINE G == {n \in 0 .. N : e[n] \in S}
<1>1. G \subseteq 0 .. N /\ 0 \in G /\ \A n \in 1 .. N : n - 1 \in G => n \in G
  OBVIOUS
<1> HIDE DEF G
<1>2. G = 0 .. N
  BY <1>1, AllAlong
<1>3. QED
  BY <1>2 DEF G

-----------------------------------------------------------------------------
Pos == Nat \ {0}

-----------------------------------------------------------------------------
(* Division.                                                                *)

LEMMA Division ==
    ASSUME NEW a \in Nat, NEW b \in Pos
    PROVE  a \div b \in Nat /\ a % b \in Nat /\ a % b < b /\ a = b * (a \div b) + (a % b)
BY DEF Pos

LEMMA Unique ==
    ASSUME NEW b \in Pos, NEW q \in Nat, NEW r \in Nat, r < b,
           NEW p \in Nat, NEW t \in Nat, t < b, b * q + r = b * p + t
    PROVE  q = p /\ r = t
<1>1. CASE q < p
  <2>1. PICK d \in Nat : p = q + 1 + d
    BY <1>1
  <2>2. b * p = b * q + b + b * d /\ b * d \in Nat
    BY <2>1 DEF Pos
  <2> QED BY <2>2 DEF Pos
<1>2. CASE p < q
  <2>1. PICK d \in Nat : q = p + 1 + d
    BY <1>2
  <2>2. b * q = b * p + b + b * d /\ b * d \in Nat
    BY <2>1 DEF Pos
  <2> QED BY <2>2 DEF Pos
<1>3. CASE p = q
  BY <1>3 DEF Pos
<1> QED BY <1>1, <1>2, <1>3

LEMMA Divided ==
    ASSUME NEW b \in Pos, NEW q \in Nat, NEW r \in Nat, r < b
    PROVE  (b * q + r) \div b = q /\ (b * q + r) % b = r
<1>1. b * q + r \in Nat
  BY DEF Pos
<1> DEFINE a == b * q + r
<1>2. a \div b \in Nat /\ a % b \in Nat /\ a % b < b /\ a = b * (a \div b) + (a % b)
  BY <1>1, Division
<1> QED BY <1>2, Unique

LEMMA Multiples ==
    ASSUME NEW z \in Nat, NEW a \in Nat, NEW b \in Nat, z < a
    PROVE  b * z + b <= a * b /\ b * z \in Nat
OBVIOUS

LEMMA Digit ==
    ASSUME NEW a \in Pos, NEW b \in Pos, NEW t \in Nat, NEW x \in Nat
    PROVE  (a * b) * t + x * b = b * (a * t + x) /\ a * t + x \in Nat
BY DEF Pos

LEMMA DigitMore ==
    ASSUME NEW a \in Pos, NEW b \in Pos, NEW x \in Nat, x < a,
           NEW s \in Int, NEW u \in Int, NEW w \in Int, u = w + x * b, 0 <= s - u, s - u < b
    PROVE  0 <= s - w /\ s - w < a * b
<1>1. b * x + b <= a * b /\ b * x \in Nat /\ a * b \in Nat
  BY Multiples DEF Pos
<1>2. x * b = b * x
  BY DEF Pos
<1> QED BY <1>1, <1>2 DEF Pos

\* The digits of k with respect to a and b.
LEMMA DivTwice ==
    ASSUME NEW k \in Nat, NEW a \in Pos, NEW b \in Pos
    PROVE  /\ a * b \in Pos
           /\ (k \div b) \div a = k \div (a * b)
           /\ k % (a * b) = b * ((k \div b) % a) + (k % b)
<1> DEFINE x == k \div b
           y == x \div a
           r == b * (x % a) + (k % b)
<1>1. x \in Nat /\ k % b \in Nat /\ k % b < b /\ k = b * x + (k % b)
  BY Division
<1>2. y \in Nat /\ x % a \in Nat /\ x % a < a /\ x = a * y + (x % a)
  BY <1>1, Division
<1>3. a * b \in Pos
  BY DEF Pos
<1> HIDE DEF x, y
<1>4. b * x = (a * b) * y + b * (x % a)
  <2>1. PICK z \in Nat : z = x % a
    BY <1>2
  <2>2. x = a * y + z /\ y \in Nat
    BY <1>2, <2>1
  <2>3. b * (a * y + z) = (a * b) * y + b * z
    BY <2>2 DEF Pos
  <2> QED BY <2>1, <2>2, <2>3
<1>5. r \in Nat /\ r < a * b
  <2>1. PICK z \in Nat : z = x % a /\ z < a
    BY <1>2
  <2>2. b * z + b <= a * b /\ b * z \in Nat
    BY <2>1, Multiples DEF Pos
  <2>3. r = b * z + (k % b)
    BY <2>1
  <2> QED BY <2>2, <2>3, <1>1, <1>3 DEF Pos
<1>6. k = (a * b) * y + r
  BY <1>1, <1>4, <1>2, <1>3, <1>5 DEF Pos
<1> HIDE DEF r
<1>7. k \div (a * b) = y /\ k % (a * b) = r
  BY <1>2, <1>3, <1>5, <1>6, Divided
<1> QED BY <1>3, <1>7 DEF x, y, r

-----------------------------------------------------------------------------
(* Sums.  S[m] is the sum of the first m of n numbers.                      *)

Sums(S, n, nums) == S \in [0 .. n -> Int] /\ S[0] = 0 /\ \A m \in 1 .. n : S[m] = S[m - 1] + nums[m]

LEMMA TotalIs ==
    ASSUME NEW n \in Nat, NEW nums \in [1 .. n -> Int], NEW S, Sums(S, n, nums)
    PROVE  Total(nums) = S[n]
<1> DEFINE Rec(f) == [m \in 0 .. Len(nums) |-> IF m = 0 THEN 0 ELSE f[m - 1] + nums[m]]
           sum == CHOOSE f : f = Rec(f)
<1>1. Len(nums) = n
  OBVIOUS
<1>2. S = Rec(S)
  BY <1>1 DEF Sums
<1>3. sum = Rec(sum)
  BY <1>2
<1>4. Total(nums) = sum[n]
  BY <1>1 DEF Total
<1> HIDE DEF sum
<1>9. sum[0] = 0 /\ \A m \in 1 .. n : sum[m] = sum[m - 1] + nums[m]
  BY <1>1, <1>3
<1>10. S[0] = 0 /\ \A m \in 1 .. n : S[m] = S[m - 1] + nums[m]
  BY DEF Sums
<1> DEFINE G == {m \in 0 .. n : sum[m] = S[m]}
<1>5. 0 \in G
  BY <1>9, <1>10
<1>6. ASSUME NEW m \in 1 .. n, m - 1 \in G PROVE m \in G
  BY <1>6, <1>9, <1>10
<1>7. G = 0 .. n
  <2>1. G \subseteq 0 .. n
    OBVIOUS
  <2> HIDE DEF G
  <2>2. QED
    BY <2>1, <1>5, <1>6, AllAlong
<1>8. QED
  BY <1>4, <1>7

LEMMA SumsExist ==
    ASSUME NEW n \in Nat, NEW nums \in [1 .. n -> Int]
    PROVE  \E S : Sums(S, n, nums)
<1> DEFINE g == [m \in 1 .. n |-> [x \in Int |-> x + nums[m]]]
<1>1. g \in [1 .. n -> [Int -> Int]]
  OBVIOUS
<1>2. PICK e \in [0 .. n -> Int] : Follows(e, n, 0, g)
  <2> HIDE DEF g
  <2>1. 0 \in Int
    OBVIOUS
  <2> QED BY <1>1, <2>1, Iterated
<1>3. ASSUME NEW m \in 1 .. n PROVE e[m] = e[m - 1] + nums[m]
  <2>1. e[m - 1] \in Int
    OBVIOUS
  <2>2. e[m] = g[m][e[m - 1]]
    BY <1>2 DEF Follows
  <2> QED BY <2>1, <2>2
<1>5. Sums(e, n, nums)
  BY <1>2, <1>3 DEF Sums, Follows
<1>4. QED
  BY <1>5

LEMMA TotalInt ==
    ASSUME NEW n \in Nat, NEW nums \in [1 .. n -> Int]
    PROVE  Total(nums) \in Int
<1>1. PICK S : Sums(S, n, nums)
  BY SumsExist
<1>2. Total(nums) = S[n]
  BY <1>1, TotalIs
<1>3. S[n] \in Int
  BY <1>1 DEF Sums
<1> QED BY <1>2, <1>3

\* The numbers of c are those of a and b together.
Added(n, a, b, c) == /\ a \in [1 .. n -> Int] /\ b \in [1 .. n -> Int] /\ c \in [1 .. n -> Int]
                     /\ \A i \in 1 .. n : c[i] = a[i] + b[i]

LEMMA TotalAdds ==
    ASSUME NEW n \in Nat, NEW a, NEW b, NEW c, Added(n, a, b, c)
    PROVE  Total(c) = Total(a) + Total(b)
<1> USE DEF Added
<1>1. PICK S : Sums(S, n, a)
  BY SumsExist
<1>2. PICK T : Sums(T, n, b)
  BY SumsExist
<1> DEFINE U == [m \in 0 .. n |-> S[m] + T[m]]
<1>3. Sums(U, n, c)
  BY <1>1, <1>2 DEF Sums
<1>4. U[n] = S[n] + T[n]
  OBVIOUS
<1> HIDE DEF U
<1>5. Total(c) = U[n] /\ Total(a) = S[n] /\ Total(b) = T[n]
  BY <1>1, <1>2, <1>3, TotalIs
<1> QED BY <1>4, <1>5

\* A sum of zeros.
LEMMA TotalZero ==
    ASSUME NEW n \in Nat, NEW a, a = [i \in 1 .. n |-> 0]
    PROVE  Total(a) = 0
<1> DEFINE S == [m \in 0 .. n |-> 0]
<1>1. a \in [1 .. n -> Int] /\ Sums(S, n, a) /\ S[n] = 0
  BY DEF Sums
<1>2. QED
  BY <1>1, TotalIs

\* One number more.
LEMMA TotalStep ==
    ASSUME NEW n \in Nat, NEW a \in [1 .. n + 1 -> Int]
    PROVE  Total(a) = Total([i \in 1 .. n |-> a[i]]) + a[n + 1]
<1> DEFINE b == [i \in 1 .. n |-> a[i]]
<1>1. PICK S : Sums(S, n + 1, a)
  BY SumsExist
<1> DEFINE T == [m \in 0 .. n |-> S[m]]
<1>2. Sums(T, n, b) /\ b \in [1 .. n -> Int] /\ T[n] = S[n]
  BY <1>1 DEF Sums
<1>3. S[n + 1] = S[n] + a[n + 1]
  BY <1>1 DEF Sums
<1> HIDE DEF b, T
<1>4. Total(b) = T[n] /\ Total(a) = S[n + 1]
  BY <1>1, <1>2, TotalIs
<1>5. QED
  BY <1>2, <1>3, <1>4 DEF b

\* One number changed.
LEMMA TotalChanged ==
    ASSUME NEW n \in Nat, NEW a \in [1 .. n -> Int], NEW k \in 1 .. n, NEW x \in Int,
           NEW b \in [1 .. n -> Int], \A i \in 1 .. n : b[i] = IF i = k THEN x ELSE a[i]
    PROVE  Total(b) = Total(a) + (x - a[k])
<1>1. PICK S : Sums(S, n, a)
  BY SumsExist
<1> DEFINE T == [m \in 0 .. n |-> IF m >= k THEN S[m] + (x - a[k]) ELSE S[m]]
<1>2. S \in [0 .. n -> Int] /\ S[0] = 0 /\ \A m \in 1 .. n : S[m] = S[m - 1] + a[m]
  BY <1>1 DEF Sums
<1>7. PICK y \in Int : y = x - a[k]
  OBVIOUS
<1>3. T \in [0 .. n -> Int] /\ T[0] = 0 /\ T[n] = S[n] + (x - a[k])
  <2>1. \A m \in 0 .. n : T[m] = IF m >= k THEN S[m] + y ELSE S[m]
    BY <1>7
  <2>2. DOMAIN T = 0 .. n /\ T = [m \in DOMAIN T |-> T[m]]
    OBVIOUS
  <2> HIDE DEF T
  <2>3. \A m \in 0 .. n : S[m] \in Int
    BY <1>2
  <2>4. T \in [0 .. n -> Int]
    BY <2>1, <2>2, <2>3
  <2>5. T[0] = 0 /\ T[n] = S[n] + y
    BY <1>2, <2>1
  <2> QED BY <1>7, <2>4, <2>5
<1>4. ASSUME NEW m \in 1 .. n PROVE T[m] = T[m - 1] + b[m]
  <2>1. m \in 0 .. n /\ m - 1 \in 0 .. n /\ S[m] = S[m - 1] + a[m] /\ S[m - 1] \in Int /\ a[m] \in Int /\ a[k] \in Int
    <3>1. m \in 0 .. n /\ m - 1 \in 0 .. n
      OBVIOUS
    <3>2. S[m] = S[m - 1] + a[m]
      BY <1>2
    <3>3. S[m - 1] \in Int
      BY <1>2, <3>1
    <3> QED BY <3>1, <3>2, <3>3
  <2>2. CASE m < k
    BY <2>1, <2>2
  <2>3. CASE m = k
    BY <2>1, <2>3
  <2>4. CASE m > k
    BY <2>1, <2>4
  <2> QED BY <2>2, <2>3, <2>4
<1> HIDE DEF T
<1>5. Sums(T, n, b)
  BY <1>3, <1>4 DEF Sums
<1>6. Total(b) = T[n] /\ Total(a) = S[n]
  BY <1>1, <1>3, <1>5, TotalIs
<1> QED BY <1>3, <1>6

LEMMA BelowLast ==
    ASSUME NEW m \in Nat, NEW z \in 1 .. m + 1, z # m + 1
    PROVE  z \in 1 .. m
  OBVIOUS

\* The order of the numbers does not matter.
Bijections(n) == {p \in [1 .. n -> 1 .. n] : /\ \A i, j \in 1 .. n : p[i] = p[j] => i = j
                                             /\ \A j \in 1 .. n : \E i \in 1 .. n : p[i] = j}

LEMMA TotalShuffled ==
    ASSUME NEW n \in Nat, NEW p \in Bijections(n), NEW a \in [1 .. n -> Int]
    PROVE  Total([i \in 1 .. n |-> a[p[i]]]) = Total(a)
<1> DEFINE Same(m) == \A q \in Bijections(m), c \in [1 .. m -> Int] : Total([i \in 1 .. m |-> c[q[i]]]) = Total(c)
           G == {m \in 0 .. n : Same(m)}
<1>1. Same(0)
  <2> SUFFICES ASSUME NEW q \in Bijections(0), NEW c \in [1 .. 0 -> Int]
               PROVE  Total([i \in 1 .. 0 |-> c[q[i]]]) = Total(c)
    OBVIOUS
  <2>1. [i \in 1 .. 0 |-> c[q[i]]] = c
    OBVIOUS
  <2> QED BY <2>1
<1>2. ASSUME NEW m \in Nat, Same(m) PROVE Same(m + 1)
  <2> SUFFICES ASSUME NEW q \in Bijections(m + 1), NEW c \in [1 .. m + 1 -> Int]
               PROVE  Total([i \in 1 .. m + 1 |-> c[q[i]]]) = Total(c)
    OBVIOUS
  <2> HIDE DEF G
  <2>1. q \in [1 .. m + 1 -> 1 .. m + 1] /\ \A i, j \in 1 .. m + 1 : q[i] = q[j] => i = j
    BY DEF Bijections
  <2>2. PICK k \in 1 .. m + 1 : q[k] = m + 1
    <3>1. m + 1 \in 1 .. m + 1
      OBVIOUS
    <3> QED BY <3>1 DEF Bijections
  <2> DEFINE r == [i \in 1 .. m |-> IF i = k THEN q[m + 1] ELSE q[i]]
             d == [i \in 1 .. m |-> c[i]]
             e == [i \in 1 .. m |-> d[r[i]]]
             f == [i \in 1 .. m |-> c[q[i]]]
  <2>3. r \in [1 .. m -> 1 .. m]
    <3>1. ASSUME NEW i \in 1 .. m PROVE r[i] \in 1 .. m
      <4>1. i \in 1 .. m + 1 /\ m + 1 \in 1 .. m + 1 /\ i # m + 1
        OBVIOUS
      <4>2. CASE i = k
        <5>1. q[m + 1] \in 1 .. m + 1 /\ q[m + 1] # m + 1
          BY <2>1, <2>2, <4>1, <4>2
        <5>3. q[m + 1] \in 1 .. m
          BY <5>1, BelowLast
        <5> QED BY <4>2, <5>3
      <4>3. CASE i # k
        <5>1. q[i] \in 1 .. m + 1 /\ q[i] # m + 1
          BY <2>1, <2>2, <4>1, <4>3
        <5>2. q[i] \in 1 .. m
          <6> HIDE DEF r, d, e, f, Same
          <6> QED BY <5>1
        <5>3. r[i] = q[i]
          BY <4>3
        <5> QED BY <5>2, <5>3
      <4> QED BY <4>2, <4>3
    <3> QED BY <3>1
  <2>4. ASSUME NEW i \in 1 .. m, NEW j \in 1 .. m, r[i] = r[j] PROVE i = j
    <3>1. i \in 1 .. m + 1 /\ j \in 1 .. m + 1 /\ m + 1 \in 1 .. m + 1 /\ i # m + 1 /\ j # m + 1
      OBVIOUS
    <3>2. r[i] = (IF i = k THEN q[m + 1] ELSE q[i]) /\ r[j] = (IF j = k THEN q[m + 1] ELSE q[j])
      OBVIOUS
    <3> HIDE DEF r
    <3> QED BY <2>1, <2>4, <3>1, <3>2
  <2>5. ASSUME NEW j \in 1 .. m PROVE \E i \in 1 .. m : r[i] = j
    <3>1. j \in 1 .. m + 1 /\ j # m + 1
      OBVIOUS
    <3>2. PICK i \in 1 .. m + 1 : q[i] = j
      BY <3>1 DEF Bijections
    <3>3. i # k
      BY <2>2, <3>1, <3>2
    <3>4. CASE i = m + 1
      <4>1. k \in 1 .. m /\ r[k] = q[m + 1]
        BY <3>3, <3>4
      <4> QED BY <3>2, <3>4, <4>1
    <3>5. CASE i # m + 1
      <4>1. i \in 1 .. m /\ r[i] = q[i]
        BY <3>3, <3>5
      <4> QED BY <3>2, <4>1
    <3> QED BY <3>4, <3>5
  <2>6. r \in Bijections(m)
    <3> HIDE DEF r
    <3> QED BY <2>3, <2>4, <2>5 DEF Bijections
  <2>7. d \in [1 .. m -> Int]
    OBVIOUS
  <2>8. Total(e) = Total(d)
    <3> HIDE DEF r, d
    <3> QED BY <1>2, <2>6, <2>7
  <2>9. Total(c) = Total(d) + c[m + 1]
    BY TotalStep
  <2>10. Total([i \in 1 .. m + 1 |-> c[q[i]]]) = Total(f) + c[q[m + 1]]
    <3> DEFINE h == [i \in 1 .. m + 1 |-> c[q[i]]]
    <3>1. h \in [1 .. m + 1 -> Int]
      BY <2>1
    <3>2. f = [i \in 1 .. m |-> h[i]] /\ h[m + 1] = c[q[m + 1]]
      OBVIOUS
    <3> HIDE DEF h, f
    <3>3. Total(h) = Total(f) + h[m + 1]
      BY <3>1, <3>2, TotalStep
    <3> QED BY <3>2, <3>3 DEF h
  <2>11. e \in [1 .. m -> Int] /\ f \in [1 .. m -> Int] /\ c[q[m + 1]] \in Int /\ c[m + 1] \in Int
    <3>1. m + 1 \in 1 .. m + 1 /\ \A i \in 1 .. m : i \in 1 .. m + 1
      OBVIOUS
    <3>2. f \in [1 .. m -> Int] /\ c[q[m + 1]] \in Int /\ c[m + 1] \in Int
      BY <2>1, <3>1
    <3>3. e \in [1 .. m -> Int]
      <4> HIDE DEF r, d
      <4> QED BY <2>3, <2>7
    <3> QED BY <3>2, <3>3
  <2>12. CASE k = m + 1
    <3>1. \A i \in 1 .. m : r[i] = q[i]
      BY <2>12
    <3>2. e = f
      <4>1. \A i \in 1 .. m : d[r[i]] = c[q[i]]
        BY <2>3, <3>1
      <4> HIDE DEF d, r
      <4> QED BY <4>1
    <3> QED BY <2>2, <2>8, <2>9, <2>10, <2>12, <3>2
  <2>13. CASE k # m + 1
    <3>1. k \in 1 .. m
      BY <2>13
    <3>2. \A i \in 1 .. m : e[i] = c[r[i]]
      BY <2>3
    <3>3. \A i \in 1 .. m : e[i] = IF i = k THEN c[q[m + 1]] ELSE f[i]
      BY <3>2
    <3>4. f[k] = c[m + 1]
      BY <2>2, <3>1
    <3> HIDE DEF d, e, f, r
    <3>8. PICK x \in Int : x = c[q[m + 1]]
      BY <2>11
    <3>9. PICK y \in Int : y = c[m + 1]
      BY <2>11
    <3>6. Total(e) = Total(f) + (x - f[k])
      <4>1. \A i \in 1 .. m : e[i] = IF i = k THEN x ELSE f[i]
        BY <3>3, <3>8
      <4>2. f \in [1 .. m -> Int] /\ e \in [1 .. m -> Int]
        BY <2>11
      <4> HIDE DEF Same, G
      <4> QED BY <3>1, <4>1, <4>2, TotalChanged
    <3>7. Total(f) \in Int /\ Total(d) \in Int
      BY <2>7, <2>11, TotalInt
    <3>10. Total(f) + x = Total(d) + y
      BY <2>8, <3>4, <3>6, <3>7, <3>9
    <3> QED BY <2>9, <2>10, <3>8, <3>9, <3>10
  <2> QED BY <2>12, <2>13
<1>3. G = 0 .. n
  <2>1. G \subseteq 0 .. n
    OBVIOUS
  <2>2. 0 \in G
    BY <1>1
  <2>3. ASSUME NEW m \in 1 .. n, m - 1 \in G PROVE m \in G
    <3>1. m - 1 \in Nat /\ (m - 1) + 1 = m
      OBVIOUS
    <3>3. Same(m - 1)
      <4> HIDE DEF Same
      <4> QED BY <2>3
    <3>2. Same(m)
      <4> HIDE DEF Same
      <4>1. Same((m - 1) + 1)
        BY <1>2, <3>1, <3>3
      <4> QED BY <3>1, <4>1
    <3> HIDE DEF Same
    <3> QED BY <3>2
  <2> HIDE DEF G
  <2> QED BY <2>1, <2>2, <2>3, AllAlong
<1>4. Same(n)
  <2>1. n \in G
    <3> HIDE DEF G
    <3> QED BY <1>3
  <2> HIDE DEF Same
  <2> QED BY <2>1
<1> QED BY <1>4

\* b is a in another order.
Reordered(n, b, a, p) == \A i \in 1 .. n : b[i] = a[p[i]]

LEMMA TotalPermuted ==
    ASSUME NEW n \in Nat, NEW p \in Bijections(n), NEW a \in [1 .. n -> Int],
           NEW b \in [1 .. n -> Int], Reordered(n, b, a, p)
    PROVE  Total(b) = Total(a)
<1>1. b = [i \in 1 .. n |-> a[p[i]]]
  BY DEF Reordered
<1> QED BY <1>1, TotalShuffled

-----------------------------------------------------------------------------
(* Blocks: products of neighbouring dimensions.                             *)

LEMMA Blocks ==
    ASSUME NEW n \in Nat, NEW dims \in [1 .. n -> Pos], NEW j \in 0 .. n
    PROVE  \E P \in [1 .. j + 1 -> Pos] :
               /\ P[j + 1] = 1
               /\ \A i \in 1 .. j : P[i] = dims[i] * P[i + 1]
               /\ \A i \in 1 .. j + 1 : Block(dims, i, j) = P[i]
<1> DEFINE g == [m \in 1 .. j |-> [x \in Pos |-> dims[j + 1 - m] * x]]
<1>1. g \in [1 .. j -> [Pos -> Pos]]
  <2>1. ASSUME NEW m \in 1 .. j, NEW x \in Pos PROVE dims[j + 1 - m] * x \in Pos
    <3>1. dims[j + 1 - m] \in Pos
      OBVIOUS
    <3> QED BY <3>1, DivTwice
  <2> QED BY <2>1
<1>2. PICK e \in [0 .. j -> Pos] : Follows(e, j, 1, g)
  <2> HIDE DEF g
  <2>1. 1 \in Pos
    BY DEF Pos
  <2> QED BY <1>1, <2>1, Iterated
<1>3. ASSUME NEW m \in 1 .. j PROVE e[m] = dims[j + 1 - m] * e[m - 1]
  <2>1. e[m - 1] \in Pos
    OBVIOUS
  <2>2. e[m] = g[m][e[m - 1]]
    BY <1>2 DEF Follows
  <2> QED BY <2>1, <2>2
<1> HIDE DEF g
<1> DEFINE P == [i \in 1 .. j + 1 |-> e[j + 1 - i]]
<1>4. P \in [1 .. j + 1 -> Pos] /\ P[j + 1] = 1
  BY <1>2 DEF Follows
<1>5. ASSUME NEW i \in 1 .. j PROVE P[i] = dims[i] * P[i + 1]
  <2>1. j + 1 - i \in 1 .. j /\ j + 1 - (j + 1 - i) = i
    OBVIOUS
  <2>2. e[j + 1 - i] = dims[i] * e[j - i]
    BY <1>3, <2>1
  <2>3. i + 1 \in 1 .. j + 1 /\ j + 1 - (i + 1) = j - i
    OBVIOUS
  <2> QED BY <2>2, <2>3
<1> HIDE DEF P
<1>6. ASSUME NEW i \in 1 .. j + 1 PROVE Block(dims, i, j) = P[i]
  <2> DEFINE Rec(f) == [m \in i .. j + 1 |-> IF m = j + 1 THEN 1 ELSE dims[m] * f[m + 1]]
             Q == [m \in i .. j + 1 |-> P[m]]
             prod == CHOOSE f : f = Rec(f)
  <2>1. Q = Rec(Q)
    BY <1>4, <1>5
  <2>2. prod = Rec(prod)
    BY <2>1
  <2>3. Block(dims, i, j) = prod[i]
    BY DEF Block
  <2> HIDE DEF prod
  <2>4. prod[j + 1] = 1 /\ \A m \in i .. j : prod[m] = dims[m] * prod[m + 1]
    BY <2>2
  <2> DEFINE G == {k \in 0 .. j + 1 - i : prod[j + 1 - k] = P[j + 1 - k]}
  <2>5. 0 \in G
    BY <2>4, <1>4
  <2>6. ASSUME NEW k \in 1 .. j + 1 - i, k - 1 \in G PROVE k \in G
    <3>1. j + 1 - k \in i .. j /\ (j + 1 - k) + 1 = j + 1 - (k - 1) /\ j + 1 - k \in 1 .. j
      OBVIOUS
    <3>2. prod[j + 1 - k] = dims[j + 1 - k] * prod[j + 1 - (k - 1)]
      BY <3>1, <2>4
    <3>3. P[j + 1 - k] = dims[j + 1 - k] * P[j + 1 - (k - 1)]
      BY <3>1, <1>5
    <3>4. prod[j + 1 - (k - 1)] = P[j + 1 - (k - 1)]
      BY <2>6
    <3> QED BY <3>2, <3>3, <3>4
  <2>7. G = 0 .. j + 1 - i
    <3>1. G \subseteq 0 .. j + 1 - i /\ j + 1 - i \in Nat
      OBVIOUS
    <3> HIDE DEF G
    <3> QED BY <3>1, <2>5, <2>6, AllAlong
  <2>8. j + 1 - i \in 0 .. j + 1 - i /\ j + 1 - (j + 1 - i) = i
    OBVIOUS
  <2>9. j + 1 - i \in G
    <3> HIDE DEF G
    <3> QED BY <2>7, <2>8
  <2>10. prod[j + 1 - (j + 1 - i)] = P[j + 1 - (j + 1 - i)]
    BY <2>9
  <2> QED BY <2>3, <2>8, <2>10
<1> QED BY <1>4, <1>5, <1>6

LEMMA BlockStep ==
    ASSUME NEW n \in Nat, NEW dims \in [1 .. n -> Pos], NEW j \in 0 .. n
    PROVE  /\ Block(dims, j + 1, j) = 1
           /\ \A i \in 1 .. j + 1 : Block(dims, i, j) \in Pos
           /\ \A i \in 1 .. j : Block(dims, i, j) = dims[i] * Block(dims, i + 1, j)
<1>1. PICK P \in [1 .. j + 1 -> Pos] :
               /\ P[j + 1] = 1
               /\ \A i \in 1 .. j : P[i] = dims[i] * P[i + 1]
               /\ \A i \in 1 .. j + 1 : Block(dims, i, j) = P[i]
  BY Blocks
<1>2. \A i \in 1 .. j : i + 1 \in 1 .. j + 1 /\ i \in 1 .. j + 1
  OBVIOUS
<1>3. j + 1 \in 1 .. j + 1
  OBVIOUS
<1> QED BY <1>1, <1>2, <1>3

LEMMA BlockSplits ==
    ASSUME NEW n \in Nat, NEW dims \in [1 .. n -> Pos], NEW j \in 0 .. n, NEW m \in 0 .. j,
           NEW i \in 1 .. m + 1
    PROVE  Block(dims, i, j) = Block(dims, i, m) * Block(dims, m + 1, j)
<1> DEFINE c == Block(dims, m + 1, j)
           Same(k) == Block(dims, m + 1 - k, j) = Block(dims, m + 1 - k, m) * c
           G == {k \in 0 .. m + 1 - i : Same(k)}
<1>1. c \in Pos /\ Block(dims, m + 1, m) = 1 /\ m \in 0 .. n
  BY BlockStep
<1>2. 0 \in G
  BY <1>1 DEF Pos
<1>3. ASSUME NEW k \in 1 .. m + 1 - i, Same(k - 1) PROVE Same(k)
  <2>1. m + 1 - k \in 1 .. m /\ m + 1 - k \in 1 .. j /\ (m + 1 - k) + 1 = m + 1 - (k - 1)
    OBVIOUS
  <2> DEFINE a == dims[m + 1 - k]
             x == Block(dims, m + 1 - (k - 1), m)
  <2>2. Block(dims, m + 1 - k, j) = a * Block(dims, m + 1 - (k - 1), j)
    BY <2>1, BlockStep
  <2>3. Block(dims, m + 1 - k, m) = a * x
    BY <2>1, <1>1, BlockStep
  <2>4. Block(dims, m + 1 - (k - 1), j) = x * c
    BY <1>3
  <2>5. a \in Pos /\ x \in Pos
    BY <2>1, <1>1, BlockStep
  <2> HIDE DEF a, x, c
  <2>6. a * (x * c) = (a * x) * c
    BY <2>5, <1>1 DEF Pos
  <2> QED BY <2>2, <2>3, <2>4, <2>6
<1>4. G = 0 .. m + 1 - i
  <2>1. G \subseteq 0 .. m + 1 - i /\ m + 1 - i \in Nat
    OBVIOUS
  <2>2. ASSUME NEW k \in 1 .. m + 1 - i, k - 1 \in G PROVE k \in G
    <3>1. Same(k - 1)
      BY <2>2
    <3>2. Same(k)
      BY <3>1, <1>3
    <3> HIDE DEF Same
    <3> QED BY <3>2
  <2> HIDE DEF G
  <2> QED BY <2>1, <2>2, <1>2, AllAlong
<1>5. Same(m + 1 - i)
  <2>1. m + 1 - i \in 0 .. m + 1 - i
    OBVIOUS
  <2>2. m + 1 - i \in G
    <3> HIDE DEF G
    <3> QED BY <1>4, <2>1
  <2> HIDE DEF Same
  <2> QED BY <2>2
<1>6. m + 1 - (m + 1 - i) = i
  OBVIOUS
<1> QED BY <1>5, <1>6

\* A block is at least as large as the blocks within it.
LEMMA BlockShrinks ==
    ASSUME NEW n \in Nat, NEW dims \in [1 .. n -> Pos], NEW j \in 0 .. n,
           NEW i \in 1 .. j + 1, NEW m \in i .. j + 1
    PROVE  Block(dims, m, j) <= Block(dims, i, j)
<1>1. m - 1 \in 0 .. j /\ i \in 1 .. (m - 1) + 1 /\ (m - 1) + 1 = m /\ m - 1 \in 0 .. n
  OBVIOUS
<1>2. Block(dims, i, j) = Block(dims, i, m - 1) * Block(dims, m, j)
  BY <1>1, BlockSplits
<1>3. Block(dims, i, m - 1) \in Pos /\ Block(dims, m, j) \in Pos
  <2>1. m \in 1 .. j + 1
    OBVIOUS
  <2> QED BY <1>1, <2>1, BlockStep
<1>4. ASSUME NEW a \in Pos, NEW b \in Pos PROVE b <= a * b
  BY DEF Pos
<1> QED BY <1>2, <1>3, <1>4

-----------------------------------------------------------------------------
(* Coordinates: numbers to the bases of the dimensions.                     *)

LEMMA Inners ==
    ASSUME NEW n \in Nat, NEW dims \in [1 .. n -> Pos]
    PROVE  /\ \A i \in 0 .. n : Inner(dims, i) = Block(dims, i + 1, n) /\ Inner(dims, i) \in Pos
           /\ Inner(dims, n) = 1
           /\ Inner(dims, 0) = Size(dims)
           /\ \A i \in 1 .. n : Inner(dims, i - 1) = dims[i] * Inner(dims, i)
<1>1. Len(dims) = n
  OBVIOUS
<1>2. \A i \in 0 .. n : Inner(dims, i) = Block(dims, i + 1, n)
  BY <1>1 DEF Inner
<1>3. \A i \in 0 .. n : i + 1 \in 1 .. n + 1
  OBVIOUS
<1>4. n \in 0 .. n
  OBVIOUS
<1>5. \A i \in 1 .. n + 1 : Block(dims, i, n) \in Pos
  BY <1>4, BlockStep
<1>6. Block(dims, n + 1, n) = 1
  BY <1>4, BlockStep
<1>7. \A i \in 1 .. n : Block(dims, i, n) = dims[i] * Block(dims, i + 1, n)
  BY <1>4, BlockStep
<1>8. ASSUME NEW i \in 1 .. n PROVE Inner(dims, i - 1) = dims[i] * Inner(dims, i)
  <2>1. i - 1 \in 0 .. n /\ i \in 0 .. n /\ (i - 1) + 1 = i
    OBVIOUS
  <2>2. Inner(dims, i - 1) = Block(dims, i, n)
    BY <2>1, <1>2
  <2>3. Inner(dims, i) = Block(dims, i + 1, n)
    BY <2>1, <1>2
  <2> QED BY <2>2, <2>3, <1>7
<1>9. Inner(dims, 0) = Size(dims)
  <2>1. Inner(dims, 0) = Block(dims, 0 + 1, n)
    BY <1>2
  <2>2. Size(dims) = Block(dims, 1, n)
    BY <1>1 DEF Size
  <2> QED BY <2>1, <2>2
<1>10. ASSUME NEW i \in 0 .. n PROVE Inner(dims, i) \in Pos
  BY <1>2, <1>3, <1>5
<1> QED BY <1>2, <1>4, <1>6, <1>8, <1>9, <1>10

LEMMA CoordsIn ==
    ASSUME NEW n \in Nat, NEW dims \in [1 .. n -> Pos], NEW k \in Nat
    PROVE  /\ Coords(dims, k) \in [1 .. n -> Nat]
           /\ \A i \in 1 .. n : Coords(dims, k)[i] = (k \div Inner(dims, i)) % dims[i]
           /\ \A i \in 1 .. n : Coords(dims, k)[i] < dims[i]
<1>1. Coords(dims, k) = [i \in 1 .. n |-> (k \div Inner(dims, i)) % dims[i]]
  BY DEF Coords
<1>2. ASSUME NEW i \in 1 .. n
      PROVE  (k \div Inner(dims, i)) % dims[i] \in Nat /\ (k \div Inner(dims, i)) % dims[i] < dims[i]
  <2>1. i \in 0 .. n /\ dims[i] \in Pos
    OBVIOUS
  <2>2. Inner(dims, i) \in Pos
    BY <2>1, Inners
  <2>3. k \div Inner(dims, i) \in Nat
    BY <2>2, Division
  <2> QED BY <2>1, <2>3, Division
<1> QED BY <1>1, <1>2

\* What the coordinates up to m are worth.
LEMMA FlatOfCoords ==
    ASSUME NEW n \in Nat, NEW dims \in [1 .. n -> Pos], NEW k \in 0 .. Size(dims) - 1
    PROVE  Flat(dims, Coords(dims, k)) = k
<1> DEFINE c == Coords(dims, k)
           nums == [i \in 1 .. n |-> c[i] * Inner(dims, i)]
           S == [m \in 0 .. n |-> Inner(dims, m) * (k \div Inner(dims, m))]
<1>1. Size(dims) \in Pos /\ k \in Nat /\ k < Size(dims) /\ Inner(dims, 0) = Size(dims) /\ Inner(dims, n) = 1
  <2>1. Inner(dims, 0) = Size(dims) /\ Inner(dims, 0) \in Pos /\ Inner(dims, n) = 1
    BY Inners
  <2> QED BY <2>1 DEF Pos
<1>2. c \in [1 .. n -> Nat] /\ \A i \in 1 .. n : c[i] = (k \div Inner(dims, i)) % dims[i]
  BY <1>1, CoordsIn
<1>3. \A m \in 0 .. n : Inner(dims, m) \in Pos /\ k \div Inner(dims, m) \in Nat
  BY <1>1, Inners, Division
<1>4. S \in [0 .. n -> Int]
  BY <1>3 DEF Pos
<1>5. S[0] = 0
  <2>1. k \div Size(dims) = 0
    <3>1. Size(dims) * 0 + k = k
      BY <1>1 DEF Pos
    <3> QED BY <1>1, <3>1, Divided
  <2> QED BY <2>1, <1>1 DEF Pos
<1>6. ASSUME NEW m \in 1 .. n PROVE S[m] = S[m - 1] + nums[m]
  <2>1. m \in 0 .. n /\ m - 1 \in 0 .. n
    OBVIOUS
  <2>2. PICK a \in Pos : a = dims[m]
    OBVIOUS
  <2>3. PICK b \in Pos : b = Inner(dims, m)
    BY <1>3, <2>1
  <2>4. Inner(dims, m - 1) = a * b
    BY <2>2, <2>3, Inners
  <2>5. PICK x \in Nat : x = k \div b
    BY <1>1, Division
  <2>6. k \div (a * b) = x \div a
    BY <1>1, <2>5, DivTwice
  <2>7. x \div a \in Nat /\ x % a \in Nat /\ x = a * (x \div a) + (x % a)
    BY Division
  <2>8. ASSUME NEW q \in Nat, NEW r \in Nat PROVE b * (a * q + r) = (a * b) * q + r * b
    BY DEF Pos
  <2>9. b * x = (a * b) * (x \div a) + (x % a) * b
    BY <2>7, <2>8
  <2>10. S[m] = b * x /\ S[m - 1] = (a * b) * (x \div a)
    BY <2>1, <2>3, <2>4, <2>5, <2>6
  <2>11. nums[m] = (x % a) * b
    BY <1>2, <2>2, <2>3, <2>5
  <2> QED BY <2>9, <2>10, <2>11
<1>7. nums \in [1 .. n -> Int]
  BY <1>2, <1>3, Inners DEF Pos
<1>8. Flat(dims, c) = Total(nums)
  BY DEF Flat
<1>9. S[n] = k
  <2>1. k \div 1 = k
    BY <1>1
  <2> QED BY <2>1, <1>1
<1> HIDE DEF S, nums, c
<1>10. Sums(S, n, nums)
  BY <1>4, <1>5, <1>6 DEF Sums
<1>11. Total(nums) = S[n]
  BY <1>7, <1>10, TotalIs
<1> QED BY <1>8, <1>9, <1>11 DEF c

LEMMA CoordsOfFlat ==
    ASSUME NEW n \in Nat, NEW dims \in [1 .. n -> Pos], NEW c \in [1 .. n -> Nat],
           \A i \in 1 .. n : c[i] < dims[i]
    PROVE  Flat(dims, c) \in 0 .. Size(dims) - 1 /\ Coords(dims, Flat(dims, c)) = c
<1> DEFINE nums == [i \in 1 .. n |-> c[i] * Inner(dims, i)]
<1>1. \A m \in 0 .. n : Inner(dims, m) \in Pos
  BY Inners
<1>2. \A i \in 1 .. n : c[i] * Inner(dims, i) \in Nat
  BY <1>1 DEF Pos
<1>3. nums \in [1 .. n -> Int]
  BY <1>2
<1>4. Flat(dims, c) = Total(nums)
  BY DEF Flat
<1>5. \A i \in 1 .. n : nums[i] = c[i] * Inner(dims, i)
  OBVIOUS
<1> HIDE DEF nums
<1>6. PICK S : Sums(S, n, nums)
  BY <1>3, SumsExist
<1>7. Flat(dims, c) = S[n]
  BY <1>3, <1>4, <1>6, TotalIs
<1>8. \A m \in 0 .. n : S[m] \in Int
  BY <1>6 DEF Sums
<1>9. S[0] = 0 /\ \A m \in 1 .. n : S[m] = S[m - 1] + c[m] * Inner(dims, m)
  BY <1>5, <1>6 DEF Sums
\* From the left, what is summed so far is a multiple of the inner block.
<1> DEFINE G == {m \in 0 .. n : \E t \in Nat : S[m] = Inner(dims, m) * t}
<1>10. 0 \in G
  <2>1. S[0] = Inner(dims, 0) * 0
    BY <1>1, <1>9 DEF Pos
  <2> QED BY <2>1
<1>11. ASSUME NEW m \in 1 .. n, NEW t \in Nat, S[m - 1] = Inner(dims, m - 1) * t
       PROVE  S[m] = Inner(dims, m) * (dims[m] * t + c[m]) /\ dims[m] * t + c[m] \in Nat
  <2>1. PICK a \in Pos : a = dims[m]
    OBVIOUS
  <2>2. PICK b \in Pos : b = Inner(dims, m)
    BY <1>1
  <2>3. Inner(dims, m - 1) = a * b
    BY <2>1, <2>2, Inners
  <2>4. PICK x \in Nat : x = c[m]
    OBVIOUS
  <2>5. (a * b) * t + x * b = b * (a * t + x) /\ a * t + x \in Nat
    BY Digit
  <2>6. S[m] = (a * b) * t + x * b
    BY <1>9, <1>11, <2>2, <2>3, <2>4
  <2> QED BY <2>1, <2>2, <2>4, <2>5, <2>6
<1>12. ASSUME NEW m \in 1 .. n, m - 1 \in G PROVE m \in G
  <2>1. PICK t \in Nat : S[m - 1] = Inner(dims, m - 1) * t
    BY <1>12
  <2>2. S[m] = Inner(dims, m) * (dims[m] * t + c[m]) /\ dims[m] * t + c[m] \in Nat
    BY <1>11, <2>1
  <2> QED BY <2>2
<1>13. G = 0 .. n
  <2>1. G \subseteq 0 .. n
    OBVIOUS
  <2> HIDE DEF G
  <2> QED BY <2>1, <1>10, <1>12, AllAlong
\* What is still to come is less than that block.
<1> DEFINE Rest(m) == S[n] - S[m]
           H == {k \in 0 .. n : 0 <= Rest(n - k) /\ Rest(n - k) < Inner(dims, n - k)}
<1>14. 0 \in H
  <2>1. n - 0 = n /\ n \in 0 .. n
    OBVIOUS
  <2>2. Inner(dims, n) = 1 /\ S[n] - S[n] = 0
    BY <2>1, <1>8, Inners
  <2> QED BY <2>1, <2>2
<1>15. ASSUME NEW k \in 1 .. n, k - 1 \in H PROVE k \in H
  <2>1. PICK m \in 1 .. n : m = n - (k - 1) /\ m - 1 = n - k
    OBVIOUS
  <2>2. 0 <= S[n] - S[m] /\ S[n] - S[m] < Inner(dims, m)
    BY <1>15, <2>1
  <2>3. PICK a \in Pos : a = dims[m]
    OBVIOUS
  <2>4. PICK b \in Pos : b = Inner(dims, m)
    BY <1>1
  <2>5. Inner(dims, m - 1) = a * b
    BY <2>3, <2>4, Inners
  <2>6. PICK x \in Nat : x = c[m] /\ x < a
    BY <2>3
  <2>8. S[m] = S[m - 1] + x * b
    BY <1>9, <2>4, <2>6
  <2>10. S[n] \in Int /\ S[m] \in Int /\ S[m - 1] \in Int
    BY <1>8
  <2>12. 0 <= S[n] - S[m] /\ S[n] - S[m] < b
    BY <2>2, <2>4
  <2>11. 0 <= S[n] - S[m - 1] /\ S[n] - S[m - 1] < a * b
    BY <2>6, <2>8, <2>10, <2>12, DigitMore
  <2> QED BY <2>1, <2>5, <2>11
<1>16. H = 0 .. n
  <2>1. H \subseteq 0 .. n
    OBVIOUS
  <2> HIDE DEF H
  <2> QED BY <2>1, <1>14, <1>15, AllAlong
<1>17. \A m \in 0 .. n : 0 <= S[n] - S[m] /\ S[n] - S[m] < Inner(dims, m)
  <2> TAKE m \in 0 .. n
  <2>1. n - m \in 0 .. n /\ n - (n - m) = m
    OBVIOUS
  <2>2. n - m \in H
    <3> HIDE DEF H
    <3> QED BY <1>16, <2>1
  <2> QED BY <2>1, <2>2
<1> HIDE DEF G, H
<1>18. Flat(dims, c) \in 0 .. Size(dims) - 1
  <2>1. 0 <= S[n] - S[0] /\ S[n] - S[0] < Inner(dims, 0) /\ Inner(dims, 0) = Size(dims)
    BY <1>17, Inners
  <2>2. S[n] \in Int /\ S[0] = 0 /\ Size(dims) \in Int
    BY <1>1, <1>8, <1>9, <2>1 DEF Pos
  <2> QED BY <1>7, <2>1, <2>2
<1>19. ASSUME NEW m \in 1 .. n PROVE (Flat(dims, c) \div Inner(dims, m)) % dims[m] = c[m]
  <2>1. PICK t \in Nat : S[m - 1] = Inner(dims, m - 1) * t
    BY <1>13 DEF G
  <2>2. PICK a \in Pos : a = dims[m]
    OBVIOUS
  <2>3. PICK b \in Pos : b = Inner(dims, m)
    BY <1>1
  <2>4. PICK x \in Nat : x = c[m] /\ x < a
    BY <2>2
  <2>5. S[m] = b * (a * t + x) /\ a * t + x \in Nat
    BY <1>11, <2>1, <2>2, <2>3, <2>4
  <2>9. S[n] \in Int /\ S[m] \in Int /\ 0 <= S[n] - S[m] /\ S[n] - S[m] < b
    BY <1>8, <1>17, <2>3
  <2>6. PICK r \in Nat : S[n] = S[m] + r /\ r < b
    <3>1. S[n] - S[m] \in Nat /\ S[n] = S[m] + (S[n] - S[m])
      BY <2>9
    <3> QED BY <2>9, <3>1
  <2>7. S[n] \div b = a * t + x
    BY <2>5, <2>6, Divided
  <2>8. (a * t + x) % a = x
    BY <2>4, Divided
  <2> QED BY <1>7, <2>2, <2>3, <2>4, <2>7, <2>8
<1>20. Coords(dims, Flat(dims, c)) = c
  BY <1>19 DEF Coords
<1> QED BY <1>18, <1>20

-----------------------------------------------------------------------------
(* The invariant: what the tensor holds is what is read through the view.   *)

\* Views with n dimensions.
Ranked(n) == [dims : [1 .. n -> Pos], strides : [1 .. n -> Int], offset : Int, contiguous : BOOLEAN,
              mask : {<< >>} \cup [1 .. n -> Int \X Int]]

Inside(dims, c) == c \in [DOMAIN dims -> Nat] /\ \A i \in DOMAIN dims : c[i] < dims[i]

\* Of a buffer of b elements the view v picks what f says, and it is in order if
\* the view is marked as contiguous.
Tracks(v, f, b) ==
    /\ DOMAIN f = 0 .. Size(v.dims) - 1
    /\ \A k \in DOMAIN f :
           /\ f[k] = IF Masked(v, Coords(v.dims, k)) THEN Zero ELSE Place(v, Coords(v.dims, k))
           /\ ~Masked(v, Coords(v.dims, k)) => Place(v, Coords(v.dims, k)) \in 0 .. b - 1
           /\ v.contiguous => f[k] = k

LEMMA InsideCoords ==
    ASSUME NEW n \in Nat, NEW dims \in [1 .. n -> Pos], NEW k \in Nat
    PROVE  Inside(dims, Coords(dims, k))
BY CoordsIn DEF Inside

LEMMA InsideFlat ==
    ASSUME NEW n \in Nat, NEW dims \in [1 .. n -> Pos], NEW c, Inside(dims, c)
    PROVE  Flat(dims, c) \in 0 .. Size(dims) - 1 /\ Coords(dims, Flat(dims, c)) = c
<1>1. c \in [1 .. n -> Nat] /\ \A i \in 1 .. n : c[i] < dims[i]
  BY DEF Inside
<1> QED BY <1>1, CoordsOfFlat

LEMMA Sizes ==
    ASSUME NEW n \in Nat, NEW dims \in [1 .. n -> Pos]
    PROVE  Size(dims) \in Pos
BY Inners

LEMMA PlaceIs ==
    ASSUME NEW n \in Nat, NEW v \in Ranked(n), NEW c \in [1 .. n -> Int]
    PROVE  \E a \in [1 .. n -> Int] :
               /\ \A i \in 1 .. n : a[i] = c[i] * v.strides[i]
               /\ Place(v, c) = v.offset + Total(a)
               /\ Place(v, c) \in Int /\ Total(a) \in Int
<1> DEFINE a == [i \in 1 .. n |-> c[i] * v.strides[i]]
<1>1. v.strides \in [1 .. n -> Int] /\ v.offset \in Int
  BY DEF Ranked
<1>2. \A i \in 1 .. n : c[i] * v.strides[i] \in Int
  BY <1>1
<1>3. a \in [1 .. n -> Int] /\ \A i \in 1 .. n : a[i] = c[i] * v.strides[i]
  BY <1>2
<1>4. Place(v, c) = v.offset + Total(a)
  BY DEF Place
<1> HIDE DEF a
<1>5. Total(a) \in Int
  BY <1>3, TotalInt
<1>6. Place(v, c) \in Int
  BY <1>1, <1>4, <1>5
<1> QED BY <1>3, <1>4, <1>5, <1>6

LEMMA PlaceSame ==
    ASSUME NEW n \in Nat, NEW v \in Ranked(n), NEW w \in Ranked(n), v.offset = w.offset,
           NEW c \in [1 .. n -> Int], NEW d \in [1 .. n -> Int],
           \A i \in 1 .. n : c[i] * v.strides[i] = d[i] * w.strides[i]
    PROVE  Place(v, c) = Place(w, d)
<1>1. PICK a \in [1 .. n -> Int] : /\ \A i \in 1 .. n : a[i] = c[i] * v.strides[i]
                                   /\ Place(v, c) = v.offset + Total(a)
  BY PlaceIs
<1>2. PICK b \in [1 .. n -> Int] : /\ \A i \in 1 .. n : b[i] = d[i] * w.strides[i]
                                   /\ Place(w, d) = w.offset + Total(b)
  BY PlaceIs
<1>3. \A i \in 1 .. n : a[i] = b[i]
  BY <1>1, <1>2
<1>4. a = b
  BY <1>3
<1> QED BY <1>1, <1>2, <1>4

\* Both ways of reading give what the view picks.
LEMMA TracksReads ==
    ASSUME NEW n \in Nat, NEW v \in Ranked(n), base \in Nat, NEW f, Tracks(v, f, base), NEW k \in DOMAIN f
    PROVE  thvm_to_host_raw(v, k) = f[k] /\ leaf_read(v, k) = f[k]
<1> DEFINE c == Coords(v.dims, k)
<1>1. v.dims \in [1 .. n -> Pos]
  BY DEF Ranked
<1>2. k \in Nat
  <2>1. k \in 0 .. Size(v.dims) - 1
    BY DEF Tracks
  <2>2. Size(v.dims) \in Pos
    BY <1>1, Sizes
  <2> QED BY <2>1, <2>2 DEF Pos
<1>3. /\ f[k] = IF Masked(v, c) THEN Zero ELSE Place(v, c)
      /\ ~Masked(v, c) => Place(v, c) \in 0 .. base - 1
      /\ v.contiguous => f[k] = k
  BY DEF Tracks
<1>4. ~Masked(v, c) => At(Place(v, c)) = Place(v, c) /\ ~(Place(v, c) < 0)
  <2> HIDE DEF c
  <2> QED BY <1>3 DEF At
<1>5. leaf_read(v, k) = f[k]
  <2>1. leaf_read(v, k) = IF Masked(v, c) \/ Place(v, c) < 0 THEN Zero ELSE At(Place(v, c))
    BY DEF leaf_read
  <2> HIDE DEF c
  <2> QED BY <1>3, <1>4, <2>1
<1>6. thvm_to_host_raw(v, k) = f[k]
  <2>1. thvm_to_host_raw(v, k) = IF v.contiguous THEN At(k) ELSE IF Masked(v, c) THEN Zero ELSE At(Place(v, c))
    BY DEF thvm_to_host_raw
  <2> HIDE DEF c
  <2>2. CASE v.contiguous
    <3>1. f[k] = k /\ ~Masked(v, c)
      BY <1>2, <1>3, <2>2 DEF Zero
    <3>2. At(k) = k
      BY <1>3, <1>4, <3>1
    <3> QED BY <2>1, <2>2, <3>1, <3>2
  <2>3. CASE ~v.contiguous
    BY <1>3, <1>4, <2>1, <2>3
  <2> QED BY <2>2, <2>3
<1> QED BY <1>5, <1>6

\* An unmasked view reaches no further than the buffer does.
LEMMA TracksSpan ==
    ASSUME NEW n \in Nat, NEW v \in Ranked(n), NEW b \in Nat, NEW f, Tracks(v, f, b), v.mask = << >>
    PROVE  Span(v) <= b
<1>1. v.dims \in [1 .. n -> Pos] /\ v.strides \in [1 .. n -> Int] /\ v.offset \in Int
  BY DEF Ranked
<1>2. Size(v.dims) \in Pos /\ DOMAIN f = 0 .. Size(v.dims) - 1
  BY <1>1, Sizes DEF Tracks
<1>3. \A c : ~Masked(v, c)
  BY DEF Masked
<1>4. ASSUME NEW c, Inside(v.dims, c) PROVE Place(v, c) \in 0 .. b - 1
  <2>1. Flat(v.dims, c) \in DOMAIN f /\ Coords(v.dims, Flat(v.dims, c)) = c
    BY <1>1, <1>2, <1>4, InsideFlat
  <2> QED BY <1>3, <2>1 DEF Tracks
<1>5. CASE v.contiguous
  <2>1. PICK k \in DOMAIN f : k = Size(v.dims) - 1
    BY <1>2 DEF Pos
  <2>2. f[k] = k /\ f[k] \in 0 .. b - 1
    BY <1>3, <1>5 DEF Tracks
  <2>3. Span(v) = Size(v.dims)
    BY <1>5 DEF Span
  <2> QED BY <1>2, <2>1, <2>2, <2>3 DEF Pos
<1>6. CASE ~v.contiguous
  <2> DEFINE low  == [i \in 1 .. n |-> 0]
             high == [i \in 1 .. n |-> v.dims[i] - 1]
  <2>0. DOMAIN v.dims = 1 .. n /\ \A i \in 1 .. n : v.dims[i] \in Int /\ v.dims[i] > 0
    BY <1>1 DEF Pos
  <2>1. Inside(v.dims, low) /\ low \in [1 .. n -> Int]
    <3>1. low \in [1 .. n -> Nat] /\ \A i \in 1 .. n : low[i] = 0
      OBVIOUS
    <3>2. \A i \in 1 .. n : low[i] < v.dims[i]
      BY <2>0, <3>1
    <3>3. low \in [1 .. n -> Int]
      OBVIOUS
    <3> HIDE DEF low
    <3> QED BY <2>0, <3>1, <3>2, <3>3 DEF Inside
  <2>2. Inside(v.dims, high) /\ high \in [1 .. n -> Int]
    <3>1. high \in [1 .. n -> Nat] /\ high \in [1 .. n -> Int]
      BY <2>0
    <3>2. \A i \in 1 .. n : high[i] < v.dims[i]
      BY <2>0
    <3> HIDE DEF high
    <3> QED BY <2>0, <3>1, <3>2 DEF Inside
  <2>3. Place(v, low) = v.offset
    <3>1. PICK a \in [1 .. n -> Int] : /\ \A i \in 1 .. n : a[i] = low[i] * v.strides[i]
                                       /\ Place(v, low) = v.offset + Total(a)
      <4> HIDE DEF low
      <4> QED BY <2>1, PlaceIs
    <3>2. \A i \in 1 .. n : a[i] = 0
      BY <1>1, <3>1
    <3>3. a = [i \in 1 .. n |-> 0]
      BY <3>2
    <3>4. Total(a) = 0
      BY <3>3, TotalZero
    <3> QED BY <1>1, <3>1, <3>4
  <2>4. v.offset \in 0 .. b - 1
    <3> HIDE DEF low
    <3> QED BY <1>4, <2>1, <2>3
  <2>5. Place(v, high) = v.offset + Total([i \in 1 .. n |-> (v.dims[i] - 1) * v.strides[i]])
    BY DEF Place
  <2>6. Max({v.offset, 0}) = v.offset
    <3>1. \A x, y \in {v.offset, 0} : (\A z \in {v.offset, 0} : x >= z) /\ (\A z \in {v.offset, 0} : y >= z) => x = y
      BY <2>4
    <3>2. v.offset \in {v.offset, 0} /\ \A z \in {v.offset, 0} : v.offset >= z
      BY <2>4
    <3> QED BY <3>1, <3>2 DEF Max
  <2>7. Span(v) = Place(v, high) + 1
    BY <1>1, <1>6, <2>5, <2>6 DEF Span
  <2>8. Place(v, high) \in 0 .. b - 1
    <3> HIDE DEF high
    <3> QED BY <1>4, <2>2
  <2> QED BY <2>7, <2>8
<1> QED BY <1>5, <1>6

-----------------------------------------------------------------------------
(* The operations.                                                          *)

\* w picks at k, for h, what v picks at coordinates g[k], for f.
Picks(w, h, v, f, g) ==
    /\ DOMAIN h = 0 .. Size(w.dims) - 1
    /\ \A k \in DOMAIN h : /\ Inside(v.dims, g[k])
                           /\ h[k] = f[Flat(v.dims, g[k])]
                           /\ Masked(w, Coords(w.dims, k)) <=> Masked(v, g[k])
                           /\ Place(w, Coords(w.dims, k)) = Place(v, g[k])

LEMMA Moves ==
    ASSUME NEW n \in Nat, NEW v \in Ranked(n), NEW b, NEW f, Tracks(v, f, b),
           NEW w, ~w.contiguous, NEW g, NEW h, Picks(w, h, v, f, g)
    PROVE  Tracks(w, h, b)
<1> SUFFICES ASSUME NEW k \in DOMAIN h
             PROVE  /\ h[k] = IF Masked(w, Coords(w.dims, k)) THEN Zero ELSE Place(w, Coords(w.dims, k))
                    /\ ~Masked(w, Coords(w.dims, k)) => Place(w, Coords(w.dims, k)) \in 0 .. b - 1
  BY DEF Tracks, Picks
<1>1. PICK j : j = Flat(v.dims, g[k])
  OBVIOUS
<1>2. j \in DOMAIN f /\ Coords(v.dims, j) = g[k]
  <2>1. v.dims \in [1 .. n -> Pos]
    BY DEF Ranked
  <2>2. j \in 0 .. Size(v.dims) - 1 /\ Coords(v.dims, j) = g[k]
    BY <1>1, <2>1, InsideFlat DEF Picks
  <2> QED BY <2>2 DEF Tracks
<1>3. /\ f[j] = IF Masked(v, g[k]) THEN Zero ELSE Place(v, g[k])
      /\ ~Masked(v, g[k]) => Place(v, g[k]) \in 0 .. b - 1
  BY <1>2 DEF Tracks
<1> QED BY <1>1, <1>3 DEF Picks

\* A dimension of size 1 may have any stride.
LEMMA CanonicalTracks ==
    ASSUME NEW n \in Nat, NEW v \in Ranked(n), NEW b, NEW f, Tracks(v, f, b)
    PROVE  /\ Canonical(v) \in Ranked(n) /\ Tracks(Canonical(v), f, b)
           /\ Canonical(v).mask = v.mask /\ Canonical(v).dims = v.dims
<1> DEFINE w == Canonical(v)
<1>1. v.dims \in [1 .. n -> Pos] /\ v.strides \in [1 .. n -> Int]
  BY DEF Ranked
<1>2. /\ w \in Ranked(n) /\ w.mask = v.mask /\ w.dims = v.dims /\ w.offset = v.offset
      /\ w.contiguous = v.contiguous
      /\ \A i \in 1 .. n : w.strides[i] = IF v.dims[i] = 1 THEN 0 ELSE v.strides[i]
  <2> DEFINE s == [i \in 1 .. n |-> IF v.dims[i] = 1 THEN 0 ELSE v.strides[i]]
  <2>1. s \in [1 .. n -> Int]
    BY <1>1
  <2>2. w = [v EXCEPT !.strides = s]
    BY <1>1 DEF Canonical
  <2>3. \A i \in 1 .. n : s[i] = IF v.dims[i] = 1 THEN 0 ELSE v.strides[i]
    OBVIOUS
  <2> HIDE DEF s, w
  <2>4. w.strides = s /\ w.mask = v.mask /\ w.dims = v.dims /\ w.offset = v.offset /\ w.contiguous = v.contiguous
    BY <2>2 DEF Ranked
  <2>5. w \in Ranked(n)
    BY <2>1, <2>2 DEF Ranked
  <2> QED BY <2>3, <2>4, <2>5
<1> HIDE DEF w
<1>3. ASSUME NEW c, Inside(v.dims, c)
      PROVE  (Masked(w, c) <=> Masked(v, c)) /\ Place(w, c) = Place(v, c)
  <2>1. c \in [1 .. n -> Nat] /\ \A i \in 1 .. n : c[i] < v.dims[i]
    BY <1>1, <1>3 DEF Inside
  <2>2. c \in [1 .. n -> Int]
    BY <2>1
  <2>3. ASSUME NEW i \in 1 .. n PROVE c[i] * w.strides[i] = c[i] * v.strides[i]
    <3>1. CASE v.dims[i] = 1
      <4>1. c[i] = 0
        BY <2>1, <3>1
      <4> QED BY <1>1, <1>2, <3>1, <4>1
    <3>2. CASE v.dims[i] # 1
      BY <1>2, <3>2
    <3> QED BY <3>1, <3>2
  <2>4. Place(w, c) = Place(v, c)
    BY <1>2, <2>2, <2>3, PlaceSame
  <2> QED BY <1>2, <2>4 DEF Masked
<1>4. ASSUME NEW k \in DOMAIN f PROVE Inside(v.dims, Coords(v.dims, k))
  <2>1. k \in 0 .. Size(v.dims) - 1 /\ Size(v.dims) \in Pos
    BY <1>1, Sizes DEF Tracks
  <2>2. k \in Nat
    BY <2>1 DEF Pos
  <2> QED BY <1>1, <2>2, InsideCoords
<1>5. Tracks(w, f, b)
  BY <1>2, <1>3, <1>4 DEF Tracks
<1> QED BY <1>2, <1>5 DEF w

\* Where an element of the result was, coordinate by coordinate.
Wrapped(n, c, dims, d) == d = [i \in 1 .. n |-> c[i] % dims[i]]
Shifted(n, c, pairs, d) == d = [i \in 1 .. n |-> c[i] + pairs[i][1]]
Unpadded(n, c, pairs, d) == d = [i \in 1 .. n |-> c[i] - pairs[i][1]]

\* h is f, of shape `from', repeated to the shape `to'.
Grown(n, from, to, f, g, h) ==
    /\ \A i \in 1 .. n : from[i] \in {1, to[i]}
    /\ DOMAIN h = 0 .. Size(to) - 1
    /\ \A k \in DOMAIN h : Wrapped(n, Coords(to, k), from, g[k]) /\ h[k] = f[Flat(from, g[k])]

\* Made at once, or by the rule.
Expansions(v, dims) == {EagerExpand(v, dims), view_expand(v, dims)}

Expanding(n, v, f, b, dims, w, g, h) ==
    /\ n \in Nat /\ v \in Ranked(n) /\ Tracks(v, f, b) /\ v.mask = << >>
    /\ dims \in [1 .. n -> Pos] /\ w \in Expansions(v, dims)
    /\ Grown(n, v.dims, dims, f, g, h)

LEMMA Expands ==
    ASSUME NEW n, NEW v, NEW f, NEW b, NEW dims, NEW w, NEW g, NEW h, Expanding(n, v, f, b, dims, w, g, h)
    PROVE  w \in Ranked(n) /\ Tracks(w, h, b) /\ w.mask = << >>
<1> USE DEF Expansions, Expanding
<1>5. /\ \A i \in 1 .. n : v.dims[i] \in {1, dims[i]}
      /\ DOMAIN h = 0 .. Size(dims) - 1
      /\ \A k \in DOMAIN h : Wrapped(n, Coords(dims, k), v.dims, g[k]) /\ h[k] = f[Flat(v.dims, g[k])]
  BY DEF Grown
<1>1. v.dims \in [1 .. n -> Pos] /\ v.strides \in [1 .. n -> Int] /\ v.offset \in Int
  BY DEF Ranked
<1>2. /\ w \in Ranked(n) /\ w.mask = << >> /\ w.dims = dims /\ w.offset = v.offset /\ ~w.contiguous
      /\ \A i \in 1 .. n : w.strides[i] = IF v.dims[i] = 1 /\ dims[i] > 1 THEN 0 ELSE v.strides[i]
  <2>1. Repeated(v, dims) = [i \in 1 .. n |-> IF v.dims[i] = 1 /\ dims[i] > 1 THEN 0 ELSE v.strides[i]]
    BY DEF Repeated
  <2>2. Repeated(v, dims) \in [1 .. n -> Int]
    BY <1>1, <2>1
  <2>3. [i \in DOMAIN v.mask |-> IF v.dims[i] = 1 /\ dims[i] > 1 THEN <<v.mask[i][1], dims[i]>> ELSE v.mask[i]] = << >>
    OBVIOUS
  <2>4. w = [v EXCEPT !.dims = dims, !.strides = Repeated(v, dims), !.contiguous = FALSE, !.mask = << >>]
    <3>1. EagerExpand(v, dims) = [v EXCEPT !.dims = dims, !.strides = Repeated(v, dims), !.contiguous = FALSE, !.mask = << >>]
      BY DEF EagerExpand, Ranked
    <3>2. view_expand(v, dims) = [v EXCEPT !.dims = dims, !.strides = Repeated(v, dims), !.contiguous = FALSE, !.mask = << >>]
      BY <2>3 DEF view_expand
    <3> QED BY <3>1, <3>2
  <2>5. w.strides = Repeated(v, dims) /\ w \in Ranked(n) /\ w.mask = << >> /\ w.dims = dims
        /\ w.offset = v.offset /\ ~w.contiguous
    BY <2>2, <2>4 DEF Ranked
  <2> QED BY <2>1, <2>5
<1>3. ASSUME NEW k \in DOMAIN h
      PROVE  /\ Inside(v.dims, g[k])
             /\ Masked(w, Coords(w.dims, k)) <=> Masked(v, g[k])
             /\ Place(w, Coords(w.dims, k)) = Place(v, g[k])
  <2>1. k \in Nat
    <3>1. Size(dims) \in Pos
      BY Sizes
    <3> QED BY <1>5, <3>1 DEF Pos
  <2>2. PICK c : c = Coords(dims, k)
    OBVIOUS
  <2>3. c \in [1 .. n -> Nat] /\ \A i \in 1 .. n : c[i] < dims[i]
    BY <2>1, <2>2, InsideCoords DEF Inside
  <2>4. PICK d : d = g[k]
    OBVIOUS
  <2>5. d = [i \in 1 .. n |-> c[i] % v.dims[i]]
    BY <1>5, <2>2, <2>4 DEF Wrapped
  <2>6. ASSUME NEW i \in 1 .. n
        PROVE  d[i] \in Nat /\ d[i] < v.dims[i] /\ c[i] * w.strides[i] = d[i] * v.strides[i]
    <3>1. d[i] = c[i] % v.dims[i] /\ c[i] \in Nat /\ v.dims[i] \in Pos /\ dims[i] \in Pos /\ c[i] < dims[i]
      BY <1>1, <2>3, <2>5
    <3>2. v.strides[i] \in Int
      BY <1>1
    <3>3. CASE v.dims[i] = 1
      <4>1. d[i] = 0
        BY <3>1, <3>3
      <4>2. CASE dims[i] > 1
        BY <1>2, <3>1, <3>2, <3>3, <4>1, <4>2
      <4>3. CASE ~(dims[i] > 1)
        <5>1. c[i] = 0
          BY <3>1, <4>3 DEF Pos
        <5> QED BY <1>2, <3>2, <3>3, <4>1, <4>3, <5>1
      <4> QED BY <4>2, <4>3
    <3>4. CASE v.dims[i] # 1
      <4>1. v.dims[i] = dims[i]
        BY <1>5, <3>4
      <4>2. c[i] % dims[i] = c[i]
        <5>1. dims[i] * 0 + c[i] = c[i]
          BY <3>1 DEF Pos
        <5> QED BY <3>1, <5>1, Divided
      <4> QED BY <1>2, <3>1, <3>4, <4>1, <4>2
    <3> QED BY <3>3, <3>4
  <2>7. Inside(v.dims, d)
    BY <1>1, <2>5, <2>6 DEF Inside
  <2>8. c \in [1 .. n -> Int] /\ d \in [1 .. n -> Int]
    BY <2>3, <2>5, <2>6
  <2>9. Place(w, c) = Place(v, d)
    BY <1>2, <2>6, <2>8, PlaceSame
  <2>10. ~Masked(w, c) /\ ~Masked(v, d)
    BY <1>2 DEF Masked
  <2> QED BY <1>2, <2>2, <2>4, <2>7, <2>9, <2>10
<1>4. Tracks(w, h, b)
  <2>1. DOMAIN h = 0 .. Size(w.dims) - 1 /\ w \in Ranked(n) /\ ~w.contiguous
    BY <1>2, <1>5
  <2>2. Picks(w, h, v, f, g)
    BY <1>3, <1>5, <2>1 DEF Picks
  <2> QED BY <2>1, <2>2, Moves
<1> QED BY <1>2, <1>4

\* h is the part of f, of shape `from', that pairs cut out.
CutOut(n, pairs, from, to, f, g, h) ==
    /\ \A i \in 1 .. n : pairs[i][1] < pairs[i][2] /\ pairs[i][2] <= from[i]
    /\ DOMAIN h = 0 .. Size(to) - 1
    /\ \A k \in DOMAIN h : Shifted(n, Coords(to, k), pairs, g[k]) /\ h[k] = f[Flat(from, g[k])]

Shrinkings(v, pairs) == {EagerShrink(v, pairs), view_shrink(v, pairs)}

Shrinking(n, v, f, b, pairs, w, g, h) ==
    /\ n \in Nat /\ v \in Ranked(n) /\ Tracks(v, f, b) /\ v.mask = << >>
    /\ pairs \in [1 .. n -> Nat \X Nat] /\ w \in Shrinkings(v, pairs)
    /\ CutOut(n, pairs, v.dims, w.dims, f, g, h)

LEMMA Shrinks ==
    ASSUME NEW n, NEW v, NEW f, NEW b, NEW pairs, NEW w, NEW g, NEW h, Shrinking(n, v, f, b, pairs, w, g, h)
    PROVE  w \in Ranked(n) /\ Tracks(w, h, b) /\ w.mask = << >>
<1> USE DEF CutOut, Shrinkings, Shrinking
<1> DEFINE u == Shrunk(v, pairs)
           dims == [i \in 1 .. n |-> pairs[i][2] - pairs[i][1]]
           starts == [i \in 1 .. n |-> pairs[i][1]]
           moved == [i \in 1 .. n |-> pairs[i][1] * v.strides[i]]
<1>1. v.dims \in [1 .. n -> Pos] /\ v.strides \in [1 .. n -> Int] /\ v.offset \in Int
  BY DEF Ranked
<1>2. ASSUME NEW i \in 1 .. n
      PROVE  /\ pairs[i][1] \in Nat /\ pairs[i][2] \in Nat /\ pairs[i][2] - pairs[i][1] \in Pos
             /\ pairs[i][1] * v.strides[i] \in Int
  <2>1. pairs[i][1] \in Nat /\ pairs[i][2] \in Nat /\ pairs[i][1] < pairs[i][2]
    OBVIOUS
  <2>2. v.strides[i] \in Int
    BY <1>1
  <2> QED BY <2>1, <2>2 DEF Pos
<1>3. dims \in [1 .. n -> Pos] /\ starts \in [1 .. n -> Int] /\ moved \in [1 .. n -> Int]
  BY <1>2
<1>4. Total(moved) \in Int
  <2> HIDE DEF moved
  <2> QED BY <1>3, TotalInt
<1>5. u = [v EXCEPT !.offset = @ + Total(moved), !.dims = dims, !.contiguous = FALSE]
  BY DEF Shrunk
<1>6. \A i \in 1 .. n : starts[i] = pairs[i][1] /\ moved[i] = pairs[i][1] * v.strides[i]
  OBVIOUS
<1> HIDE DEF u, dims, starts, moved
<1>7. /\ u.offset = v.offset + Total(moved) /\ u.dims = dims /\ u.strides = v.strides
      /\ u.mask = << >> /\ ~u.contiguous
  BY <1>5 DEF Ranked
<1>8. u \in Ranked(n)
  <2>1. PICK z \in Int : z = v.offset + Total(moved)
    BY <1>1, <1>4
  <2>2. u = [v EXCEPT !.offset = z, !.dims = dims, !.contiguous = FALSE]
    BY <1>5, <2>1
  <2> QED BY <1>3, <2>1, <2>2 DEF Ranked
<1>9. w.dims = dims
  <2>1. view_shrink(v, pairs).dims = u.dims
    BY <1>8, <1>7 DEF view_shrink, Canonical, u, Ranked
  <2> QED BY <1>7, <2>1 DEF EagerShrink, u
<1>10. ASSUME NEW k \in DOMAIN h
       PROVE  /\ Inside(v.dims, g[k])
              /\ Masked(u, Coords(u.dims, k)) <=> Masked(v, g[k])
              /\ Place(u, Coords(u.dims, k)) = Place(v, g[k])
  <2>1. k \in Nat
    <3>1. Size(dims) \in Pos
      BY <1>3, Sizes
    <3> QED BY <1>9, <3>1 DEF Pos
  <2>2. PICK c : c = Coords(dims, k)
    OBVIOUS
  <2>3. c \in [1 .. n -> Nat] /\ \A i \in 1 .. n : c[i] < dims[i]
    BY <1>3, <2>1, <2>2, InsideCoords DEF Inside
  <2>4. PICK d : d = g[k]
    OBVIOUS
  <2>5. d = [i \in 1 .. n |-> c[i] + pairs[i][1]]
    BY <1>9, <2>2, <2>4 DEF Shifted
  <2>6. ASSUME NEW i \in 1 .. n
        PROVE  d[i] \in Nat /\ d[i] < v.dims[i] /\ d[i] = starts[i] + c[i]
    <3>1. d[i] = c[i] + pairs[i][1] /\ c[i] \in Nat /\ c[i] < dims[i]
      BY <2>3, <2>5
    <3>2. dims[i] = pairs[i][2] - pairs[i][1] /\ pairs[i][2] <= v.dims[i] /\ starts[i] = pairs[i][1]
      BY DEF dims, starts
    <3>3. v.dims[i] \in Pos /\ pairs[i][1] \in Nat /\ pairs[i][2] \in Nat
      BY <1>1, <1>2
    <3>4. ASSUME NEW x \in Nat, NEW p \in Nat, NEW q \in Nat, NEW m \in Nat, x < q - p, q <= m
          PROVE  x + p \in Nat /\ x + p < m /\ x + p = p + x
      BY <3>4
    <3>5. PICK x : x = c[i]
      OBVIOUS
    <3>6. PICK p : p = pairs[i][1]
      OBVIOUS
    <3>7. PICK q : q = pairs[i][2]
      OBVIOUS
    <3>8. PICK m : m = v.dims[i]
      OBVIOUS
    <3>9. x + p \in Nat /\ x + p < m /\ x + p = p + x
      <4>1. x \in Nat /\ p \in Nat /\ q \in Nat /\ m \in Nat /\ x < q - p /\ q <= m
        BY <3>1, <3>2, <3>3, <3>5, <3>6, <3>7, <3>8 DEF Pos
      <4> QED BY <3>4, <4>1
    <3> QED BY <3>1, <3>2, <3>5, <3>6, <3>8, <3>9
  <2>7. Inside(v.dims, d)
    BY <1>1, <2>5, <2>6 DEF Inside
  <2>8. c \in [1 .. n -> Int] /\ d \in [1 .. n -> Int]
    BY <2>3, <2>5, <2>6
  <2>9. PICK x \in [1 .. n -> Int] : /\ \A i \in 1 .. n : x[i] = c[i] * u.strides[i]
                                     /\ Place(u, c) = u.offset + Total(x) /\ Total(x) \in Int
    BY <1>8, <2>8, PlaceIs
  <2>10. PICK y \in [1 .. n -> Int] : /\ \A i \in 1 .. n : y[i] = d[i] * v.strides[i]
                                      /\ Place(v, d) = v.offset + Total(y)
    BY <2>8, PlaceIs
  <2>11. ASSUME NEW i \in 1 .. n PROVE y[i] = moved[i] + x[i]
    <3>1. y[i] = d[i] * v.strides[i] /\ x[i] = c[i] * v.strides[i]
      BY <1>7, <2>9, <2>10
    <3>2. d[i] = starts[i] + c[i] /\ moved[i] = starts[i] * v.strides[i]
      BY <1>6, <2>6
    <3>3. starts[i] \in Int /\ c[i] \in Int /\ v.strides[i] \in Int
      BY <1>1, <1>3, <2>8
    <3>4. ASSUME NEW p \in Int, NEW q \in Int, NEW t \in Int PROVE (p + q) * t = p * t + q * t
      OBVIOUS
    <3>5. (starts[i] + c[i]) * v.strides[i] = starts[i] * v.strides[i] + c[i] * v.strides[i]
      BY <3>3, <3>4
    <3> QED BY <3>1, <3>2, <3>5
  <2>12. Total(y) = Total(moved) + Total(x)
    <3>1. Added(n, moved, x, y)
      BY <1>3, <2>11 DEF Added
    <3> QED BY <3>1, TotalAdds
  <2>13. Place(u, c) = Place(v, d)
    BY <1>1, <1>4, <1>7, <2>9, <2>10, <2>12
  <2>14. ~Masked(u, c) /\ ~Masked(v, d)
    BY <1>7 DEF Masked
  <2> QED BY <1>7, <2>2, <2>4, <2>7, <2>13, <2>14
<1>11. Picks(u, h, v, f, g)
  <2>1. DOMAIN h = 0 .. Size(u.dims) - 1
    BY <1>7, <1>9
  <2> QED BY <1>10, <2>1 DEF Picks
<1>12. Tracks(u, h, b)
  BY <1>7, <1>11, Moves
<1>13. CASE w = u
  BY <1>7, <1>8, <1>12, <1>13
<1>14. CASE w = Canonical(u)
  BY <1>7, <1>8, <1>12, <1>14, CanonicalTracks
<1>15. w = u \/ w = Canonical(u)
  BY DEF EagerShrink, view_shrink, u
<1> QED BY <1>13, <1>14, <1>15

\* Strides and indices change places alike.
Permuted(n, axes, u, v, c, d) ==
    /\ axes \in Bijections(n) /\ u \in Ranked(n) /\ v \in Ranked(n)
    /\ c \in [1 .. n -> Int] /\ d \in [1 .. n -> Int]
    /\ u.offset = v.offset
    /\ Reordered(n, u.strides, v.strides, axes) /\ Reordered(n, c, d, axes)

LEMMA PlacePermuted ==
    ASSUME NEW n \in Nat, NEW axes, NEW u, NEW v, NEW c, NEW d, Permuted(n, axes, u, v, c, d)
    PROVE  Place(u, c) = Place(v, d)
<1> USE DEF Permuted
<1>1. PICK x \in [1 .. n -> Int] : /\ \A i \in 1 .. n : x[i] = c[i] * u.strides[i]
                                   /\ Place(u, c) = u.offset + Total(x)
  BY PlaceIs
<1>2. PICK y \in [1 .. n -> Int] : /\ \A i \in 1 .. n : y[i] = d[i] * v.strides[i]
                                   /\ Place(v, d) = v.offset + Total(y)
  BY PlaceIs
<1>3. axes \in [1 .. n -> 1 .. n]
  BY DEF Bijections
<1>4. ASSUME NEW j \in 1 .. n PROVE x[j] = y[axes[j]]
  <2>1. axes[j] \in 1 .. n
    BY <1>3
  <2>2. c[j] = d[axes[j]] /\ u.strides[j] = v.strides[axes[j]]
    BY DEF Reordered
  <2>3. x[j] = c[j] * u.strides[j]
    BY <1>1
  <2>4. y[axes[j]] = d[axes[j]] * v.strides[axes[j]]
    BY <1>2, <2>1
  <2> QED BY <2>2, <2>3, <2>4
<1>5. Reordered(n, x, y, axes)
  BY <1>4 DEF Reordered
<1>6. Total(x) = Total(y)
  BY <1>5, TotalPermuted
<1> QED BY <1>1, <1>2, <1>6

LEMMA MaskPermuted ==
    ASSUME NEW n \in Nat, NEW v, NEW u, NEW axes \in Bijections(n),
           v.mask \in {<< >>} \cup [1 .. n -> Int \X Int],
           u.mask = [i \in DOMAIN v.mask |-> v.mask[axes[i]]],
           NEW c, NEW d, Reordered(n, c, d, axes)
    PROVE  Masked(u, c) <=> Masked(v, d)
<1>1. CASE v.mask = << >>
  <2>1. DOMAIN v.mask = {} /\ DOMAIN u.mask = {}
    BY <1>1
  <2> QED BY <2>1 DEF Masked
<1>2. CASE v.mask # << >>
  <2>1. PICK s \in [1 .. n -> Int \X Int] : s = v.mask
    BY <1>2
  <2>2. PICK t : t = u.mask
    OBVIOUS
  <2>3. axes \in [1 .. n -> 1 .. n] /\ \A j \in 1 .. n : \E i \in 1 .. n : axes[i] = j
    BY DEF Bijections
  <2>4. DOMAIN t = 1 .. n /\ \A i \in 1 .. n : t[i] = s[axes[i]]
    BY <2>1, <2>2
  <2>5. Masked(v, d) <=> \E i \in 1 .. n : d[i] < s[i][1] \/ d[i] >= s[i][2]
    BY <2>1 DEF Masked
  <2>6. Masked(u, c) <=> \E i \in 1 .. n : c[i] < t[i][1] \/ c[i] >= t[i][2]
    BY <2>2, <2>4 DEF Masked
  <2>7. \A i \in 1 .. n : axes[i] \in 1 .. n /\ c[i] = d[axes[i]]
    BY <2>3 DEF Reordered
  <2>8. ASSUME NEW i \in 1 .. n, c[i] < t[i][1] \/ c[i] >= t[i][2]
        PROVE  \E j \in 1 .. n : d[j] < s[j][1] \/ d[j] >= s[j][2]
    BY <2>4, <2>7, <2>8
  <2>9. ASSUME NEW j \in 1 .. n, d[j] < s[j][1] \/ d[j] >= s[j][2]
        PROVE  \E i \in 1 .. n : c[i] < t[i][1] \/ c[i] >= t[i][2]
    <3>1. PICK i \in 1 .. n : axes[i] = j
      BY <2>3
    <3>2. c[i] = d[j] /\ t[i] = s[j]
      BY <2>4, <2>7, <3>1
    <3> QED BY <2>9, <3>2
  <2> QED BY <2>5, <2>6, <2>8, <2>9
<1> QED BY <1>1, <1>2

\* h is f, of shape `from', with its dimensions in another order.
Turned(n, axes, from, to, f, g, h) ==
    /\ DOMAIN h = 0 .. Size(to) - 1
    /\ \A k \in DOMAIN h : /\ g[k] \in [1 .. n -> Nat] /\ Reordered(n, Coords(to, k), g[k], axes)
                            /\ h[k] = f[Flat(from, g[k])]

LEMMA Permutes ==
    ASSUME NEW n \in Nat, NEW v \in Ranked(n), NEW b, NEW f, Tracks(v, f, b),
           NEW axes \in Bijections(n), NEW w, w = view_permute(v, axes),
           NEW g, NEW h, Turned(n, axes, v.dims, w.dims, f, g, h)
    PROVE  w \in Ranked(n) /\ Tracks(w, h, b) /\ (v.mask = << >> => w.mask = << >>)
<1> USE DEF Turned
<1> DEFINE dims == [i \in 1 .. n |-> v.dims[axes[i]]]
           strides == [i \in 1 .. n |-> v.strides[axes[i]]]
           mask == [i \in DOMAIN v.mask |-> v.mask[axes[i]]]
           u == [v EXCEPT !.dims = dims, !.strides = strides, !.mask = mask, !.contiguous = FALSE]
<1>1. /\ v.dims \in [1 .. n -> Pos] /\ v.strides \in [1 .. n -> Int] /\ v.offset \in Int
      /\ v.mask \in {<< >>} \cup [1 .. n -> Int \X Int]
  BY DEF Ranked
<1>2. /\ axes \in [1 .. n -> 1 .. n]
      /\ \A j \in 1 .. n : \E i \in 1 .. n : axes[i] = j
  BY DEF Bijections
<1>3. dims \in [1 .. n -> Pos] /\ strides \in [1 .. n -> Int]
  BY <1>1, <1>2
<1>4. mask \in {<< >>} \cup [1 .. n -> Int \X Int] /\ (v.mask = << >> => mask = << >>)
  <2>1. CASE v.mask = << >>
    <3>1. mask = << >>
      BY <2>1
    <3> QED BY <2>1, <3>1
  <2>2. CASE v.mask # << >>
    <3>1. v.mask \in [1 .. n -> Int \X Int]
      BY <1>1, <2>2
    <3>2. mask \in [1 .. n -> Int \X Int]
      BY <1>2, <3>1
    <3> QED BY <2>2, <3>2
  <2> QED BY <2>1, <2>2
<1>5. Reordered(n, dims, v.dims, axes) /\ Reordered(n, strides, v.strides, axes)
  BY DEF Reordered
<1>6. w = Canonical(u)
  <2>1. DOMAIN axes = 1 .. n
    BY <1>2
  <2> QED BY <2>1 DEF view_permute
<1>13. PICK s : s = mask
  OBVIOUS
<1>14. s = [i \in DOMAIN v.mask |-> v.mask[axes[i]]]
  BY <1>13
<1> HIDE DEF dims, strides, mask
<1>7. u.dims = dims /\ u.strides = strides /\ u.mask = mask /\ u.offset = v.offset /\ ~u.contiguous
  BY DEF Ranked
<1>8. u \in Ranked(n)
  BY <1>3, <1>4 DEF Ranked
<1> HIDE DEF u
<1>9. w.dims = dims
  BY <1>6, <1>7 DEF Canonical
<1>10. ASSUME NEW k \in DOMAIN h
       PROVE  /\ Inside(v.dims, g[k])
              /\ Masked(u, Coords(u.dims, k)) <=> Masked(v, g[k])
              /\ Place(u, Coords(u.dims, k)) = Place(v, g[k])
  <2>1. k \in Nat
    <3>1. Size(dims) \in Pos
      BY <1>3, Sizes
    <3> QED BY <1>9, <3>1 DEF Pos
  <2>2. PICK c : c = Coords(dims, k)
    OBVIOUS
  <2>3. c \in [1 .. n -> Nat] /\ \A i \in 1 .. n : c[i] < dims[i]
    BY <1>3, <2>1, <2>2, InsideCoords DEF Inside
  <2>4. PICK d : d = g[k]
    OBVIOUS
  <2>5. d \in [1 .. n -> Nat] /\ Reordered(n, c, d, axes)
    BY <1>9, <2>2, <2>4
  <2>7. ASSUME NEW i \in 1 .. n PROVE d[i] < v.dims[i]
    <3>1. PICK j \in 1 .. n : axes[j] = i
      BY <1>2
    <3>2. d[i] = c[j] /\ dims[j] = v.dims[i]
      BY <1>5, <2>5, <3>1 DEF Reordered
    <3> QED BY <2>3, <3>2
  <2>9. Inside(v.dims, d)
    BY <1>1, <2>5, <2>7 DEF Inside
  <2>10. c \in [1 .. n -> Int] /\ d \in [1 .. n -> Int]
    BY <2>3, <2>5
  <2>12. Reordered(n, u.strides, v.strides, axes)
    BY <1>5, <1>7
  <2>15. Place(u, c) = Place(v, d)
    <3>1. Permuted(n, axes, u, v, c, d)
      BY <1>7, <1>8, <2>5, <2>10, <2>12 DEF Permuted
    <3> QED BY <3>1, PlacePermuted
  <2>16. Masked(u, c) <=> Masked(v, d)
    BY <1>1, <1>7, <1>13, <1>14, <2>5, MaskPermuted
  <2> QED BY <1>7, <2>2, <2>4, <2>9, <2>15, <2>16
<1>11. Picks(u, h, v, f, g)
  <2>1. DOMAIN h = 0 .. Size(u.dims) - 1
    BY <1>7, <1>9
  <2> QED BY <1>10, <2>1 DEF Picks
<1>12. Tracks(u, h, b)
  BY <1>7, <1>11, Moves
<1> QED BY <1>4, <1>6, <1>7, <1>8, <1>12, CanonicalTracks

\* Where the old elements are in a padded tensor.
Within(dims, pairs, c) == \A i \in DOMAIN dims : c[i] \in pairs[i][1] .. pairs[i][1] + dims[i] - 1

\* h is f, of shape `from', with zeroes around it.
Framed(n, pairs, from, to, f, g, h) ==
    /\ DOMAIN h = 0 .. Size(to) - 1
    /\ \A k \in DOMAIN h :
           /\ Unpadded(n, Coords(to, k), pairs, g[k])
           /\ h[k] = IF Within(from, pairs, Coords(to, k)) THEN f[Flat(from, g[k])] ELSE Zero

LEMMA Pads ==
    ASSUME NEW n \in Nat, NEW v \in Ranked(n), NEW b, NEW f, Tracks(v, f, b), v.mask = << >>,
           NEW pairs \in [1 .. n -> Nat \X Nat],
           NEW w, w = view_pad(v, pairs),
           NEW g, NEW h, Framed(n, pairs, v.dims, w.dims, f, g, h)
    PROVE  w \in Ranked(n) /\ Tracks(w, h, b)
<1> USE DEF Framed
<1> DEFINE dims == [i \in 1 .. n |-> v.dims[i] + pairs[i][1] + pairs[i][2]]
           mask == [i \in 1 .. n |-> <<pairs[i][1], pairs[i][1] + v.dims[i]>>]
           starts == [i \in 1 .. n |-> pairs[i][1]]
           moved == [i \in 1 .. n |-> pairs[i][1] * v.strides[i]]
           u == [v EXCEPT !.offset = @ - Total(moved), !.dims = dims, !.mask = mask, !.contiguous = FALSE]
<1>1. v.dims \in [1 .. n -> Pos] /\ v.strides \in [1 .. n -> Int] /\ v.offset \in Int
  BY DEF Ranked
<1>2. ASSUME NEW i \in 1 .. n
      PROVE  /\ pairs[i][1] \in Nat /\ pairs[i][2] \in Nat /\ v.dims[i] + pairs[i][1] + pairs[i][2] \in Pos
             /\ pairs[i][1] * v.strides[i] \in Int /\ pairs[i][1] + v.dims[i] \in Int
  <2>1. pairs[i][1] \in Nat /\ pairs[i][2] \in Nat /\ v.dims[i] \in Pos
    BY <1>1
  <2>2. v.strides[i] \in Int
    BY <1>1
  <2>3. ASSUME NEW p \in Nat, NEW q \in Nat, NEW m \in Pos PROVE m + p + q \in Pos /\ p + m \in Int
    BY DEF Pos
  <2>4. ASSUME NEW p \in Nat, NEW t \in Int PROVE p * t \in Int
    OBVIOUS
  <2>5. v.dims[i] + pairs[i][1] + pairs[i][2] \in Pos /\ pairs[i][1] + v.dims[i] \in Int
    BY <2>1, <2>3
  <2>6. pairs[i][1] * v.strides[i] \in Int
    BY <2>1, <2>2, <2>4
  <2> QED BY <2>1, <2>5, <2>6
<1>3. /\ dims \in [1 .. n -> Pos] /\ starts \in [1 .. n -> Int] /\ moved \in [1 .. n -> Int]
      /\ mask \in [1 .. n -> Int \X Int]
  <2>1. dims \in [1 .. n -> Pos]
    BY <1>2
  <2>2. starts \in [1 .. n -> Int] /\ moved \in [1 .. n -> Int]
    BY <1>2
  <2>3. \A i \in 1 .. n : <<pairs[i][1], pairs[i][1] + v.dims[i]>> \in Int \X Int
    BY <1>2
  <2> QED BY <2>1, <2>2, <2>3
<1>4. Total(moved) \in Int
  <2> HIDE DEF moved
  <2> QED BY <1>3, TotalInt
<1>6. /\ \A i \in 1 .. n : starts[i] = pairs[i][1] /\ moved[i] = pairs[i][1] * v.strides[i]
      /\ \A i \in 1 .. n : mask[i][1] = pairs[i][1] /\ mask[i][2] = pairs[i][1] + v.dims[i]
  OBVIOUS
<1>9. w = Canonical(u)
  <2>1. DOMAIN pairs = 1 .. n
    OBVIOUS
  <2>2. [i \in DOMAIN pairs |-> v.dims[i] + pairs[i][1] + pairs[i][2]] = dims
    BY <2>1
  <2> QED BY <2>1, <2>2 DEF view_pad
<1> HIDE DEF dims, starts, moved, mask
<1>13. PICK z \in Int : z = v.offset - Total(moved)
  BY <1>1, <1>4
<1>7. u.offset = z /\ u.dims = dims /\ u.strides = v.strides /\ u.mask = mask /\ ~u.contiguous
  BY <1>13 DEF Ranked
<1>8. u \in Ranked(n)
  <2>1. u = [v EXCEPT !.offset = z, !.dims = dims, !.mask = mask, !.contiguous = FALSE]
    BY <1>13
  <2> HIDE DEF u
  <2> QED BY <1>3, <1>13, <2>1 DEF Ranked
<1> HIDE DEF u
<1>14. w.dims = dims
  BY <1>7, <1>9 DEF Canonical
<1>15. Size(dims) \in Pos
  BY <1>3, Sizes
<1>10. ASSUME NEW k \in DOMAIN h
       PROVE  /\ h[k] = IF Masked(u, Coords(dims, k)) THEN Zero ELSE Place(u, Coords(dims, k))
              /\ ~Masked(u, Coords(dims, k)) => Place(u, Coords(dims, k)) \in 0 .. b - 1
  <2>1. k \in Nat
    BY <1>14, <1>15 DEF Pos
  <2>2. PICK c : c = Coords(dims, k)
    OBVIOUS
  <2>3. c \in [1 .. n -> Nat]
    BY <1>3, <2>1, <2>2, InsideCoords DEF Inside
  <2>4. PICK d : d = g[k]
    OBVIOUS
  <2>5. d = [i \in 1 .. n |-> c[i] - pairs[i][1]] /\ h[k] = IF Within(v.dims, pairs, c) THEN f[Flat(v.dims, d)] ELSE Zero
    BY <1>14, <2>2, <2>4 DEF Unpadded
  <2>16. Masked(u, c) <=> ~Within(v.dims, pairs, c)
    <3>1. DOMAIN u.mask = 1 .. n /\ DOMAIN v.dims = 1 .. n
      BY <1>1, <1>3, <1>7
    <3>2. ASSUME NEW i \in 1 .. n
          PROVE  (c[i] < mask[i][1] \/ c[i] >= mask[i][2]) <=> c[i] \notin pairs[i][1] .. pairs[i][1] + v.dims[i] - 1
      <4>1. c[i] \in Nat /\ pairs[i][1] \in Nat /\ v.dims[i] \in Nat
        BY <1>1, <1>2, <2>3 DEF Pos
      <4>2. mask[i][1] = pairs[i][1] /\ mask[i][2] = pairs[i][1] + v.dims[i]
        BY <1>6
      <4>3. ASSUME NEW x \in Nat, NEW p \in Nat, NEW m \in Nat
            PROVE  (x < p \/ x >= p + m) <=> x \notin p .. p + m - 1
        OBVIOUS
      <4>4. (c[i] < pairs[i][1] \/ c[i] >= pairs[i][1] + v.dims[i]) <=> c[i] \notin pairs[i][1] .. pairs[i][1] + v.dims[i] - 1
        BY <4>1, <4>3
      <4> QED BY <4>2, <4>4
    <3>3. Masked(u, c) <=> \E i \in 1 .. n : c[i] < mask[i][1] \/ c[i] >= mask[i][2]
      BY <1>7, <3>1 DEF Masked
    <3>4. Within(v.dims, pairs, c) <=> \A i \in 1 .. n : c[i] \in pairs[i][1] .. pairs[i][1] + v.dims[i] - 1
      BY <3>1 DEF Within
    <3> QED BY <3>2, <3>3, <3>4
  <2>17. CASE ~Within(v.dims, pairs, c)
    BY <2>2, <2>5, <2>16, <2>17
  <2>18. CASE Within(v.dims, pairs, c)
    <3>6. ASSUME NEW i \in 1 .. n
          PROVE  d[i] \in Nat /\ d[i] < v.dims[i] /\ c[i] = starts[i] + d[i]
      <4>1. d[i] = c[i] - pairs[i][1] /\ c[i] \in Nat
        BY <2>3, <2>5
      <4>2. c[i] \in pairs[i][1] .. pairs[i][1] + v.dims[i] - 1
        BY <1>1, <2>18 DEF Within
      <4>3. v.dims[i] \in Nat /\ pairs[i][1] \in Nat /\ starts[i] = pairs[i][1]
        BY <1>1, <1>2, <1>6 DEF Pos
      <4>4. ASSUME NEW x \in Nat, NEW q \in Nat, NEW m \in Nat, x \in q .. q + m - 1
            PROVE  x - q \in Nat /\ x - q < m /\ x = q + (x - q)
        BY <4>4
      <4>5. c[i] - pairs[i][1] \in Nat /\ c[i] - pairs[i][1] < v.dims[i] /\ c[i] = pairs[i][1] + (c[i] - pairs[i][1])
        BY <4>1, <4>2, <4>3, <4>4
      <4> QED BY <4>1, <4>3, <4>5
    <3>7. Inside(v.dims, d)
      BY <1>1, <2>5, <3>6 DEF Inside
    <3>8. c \in [1 .. n -> Int] /\ d \in [1 .. n -> Int]
      BY <2>3, <2>5, <3>6
    <3>9. PICK x \in [1 .. n -> Int] : /\ \A i \in 1 .. n : x[i] = c[i] * u.strides[i]
                                       /\ Place(u, c) = u.offset + Total(x)
      BY <1>8, <3>8, PlaceIs
    <3>10. PICK y \in [1 .. n -> Int] : /\ \A i \in 1 .. n : y[i] = d[i] * v.strides[i]
                                        /\ Place(v, d) = v.offset + Total(y) /\ Total(y) \in Int
      BY <3>8, PlaceIs
    <3>11. ASSUME NEW i \in 1 .. n PROVE x[i] = moved[i] + y[i]
      <4>1. y[i] = d[i] * v.strides[i] /\ x[i] = c[i] * v.strides[i]
        BY <1>7, <3>9, <3>10
      <4>2. c[i] = starts[i] + d[i] /\ moved[i] = starts[i] * v.strides[i]
        BY <1>6, <3>6
      <4>3. starts[i] \in Int /\ d[i] \in Int /\ v.strides[i] \in Int
        BY <1>1, <1>3, <3>8
      <4>4. ASSUME NEW p \in Int, NEW q \in Int, NEW t \in Int PROVE (p + q) * t = p * t + q * t
        OBVIOUS
      <4>5. (starts[i] + d[i]) * v.strides[i] = starts[i] * v.strides[i] + d[i] * v.strides[i]
        BY <4>3, <4>4
      <4> QED BY <4>1, <4>2, <4>5
    <3>12. Total(x) = Total(moved) + Total(y)
      <4>1. Added(n, moved, y, x)
        BY <1>3, <3>11 DEF Added
      <4> QED BY <4>1, TotalAdds
    <3>13. Place(u, c) = Place(v, d)
      BY <1>1, <1>4, <1>7, <1>13, <3>9, <3>10, <3>12
    <3>14. ~Masked(v, d)
      BY DEF Masked
    <3>15. Flat(v.dims, d) \in DOMAIN f /\ Coords(v.dims, Flat(v.dims, d)) = d
      BY <1>1, <3>7, InsideFlat DEF Tracks
    <3>16. f[Flat(v.dims, d)] = Place(v, d) /\ Place(v, d) \in 0 .. b - 1
      BY <3>14, <3>15 DEF Tracks
    <3> QED BY <2>2, <2>5, <2>16, <2>18, <3>13, <3>16
  <2> QED BY <2>17, <2>18
<1>12. Tracks(u, h, b)
  BY <1>7, <1>10, <1>14 DEF Tracks
<1> QED BY <1>8, <1>9, <1>12, CanonicalTracks

\* Strides that count up one by one, whatever those of single elements are.
LEMMA PlaceInOrder ==
    ASSUME NEW n \in Nat, NEW v \in Ranked(n), v.offset = 0, InOrder(v.dims, v.strides),
           NEW k \in 0 .. Size(v.dims) - 1
    PROVE  Place(v, Coords(v.dims, k)) = k
<1>1. v.dims \in [1 .. n -> Pos] /\ v.strides \in [1 .. n -> Int]
  BY DEF Ranked
<1>2. k \in Nat
  <2>1. Size(v.dims) \in Pos
    BY <1>1, Sizes
  <2> QED BY <2>1 DEF Pos
<1>3. PICK c : c = Coords(v.dims, k)
  OBVIOUS
<1>4. c \in [1 .. n -> Nat] /\ \A i \in 1 .. n : c[i] < v.dims[i]
  BY <1>1, <1>2, <1>3, InsideCoords DEF Inside
<1>5. PICK x \in [1 .. n -> Int] : /\ \A i \in 1 .. n : x[i] = c[i] * v.strides[i]
                                   /\ Place(v, c) = v.offset + Total(x) /\ Total(x) \in Int
  <2>1. c \in [1 .. n -> Int]
    BY <1>4
  <2> QED BY <2>1, PlaceIs
<1>6. ASSUME NEW i \in 1 .. n PROVE x[i] = c[i] * Inner(v.dims, i)
  <2>1. v.dims[i] \in Pos /\ c[i] \in Nat /\ c[i] < v.dims[i] /\ v.strides[i] \in Int /\ Inner(v.dims, i) \in Pos
    <3>1. i \in 0 .. n
      OBVIOUS
    <3>2. Inner(v.dims, i) \in Pos
      BY <1>1, <3>1, Inners
    <3> QED BY <1>1, <1>4, <3>2
  <2>2. CASE v.dims[i] > 1
    <3>1. v.strides[i] = Inner(v.dims, i)
      BY <1>1, <2>2 DEF InOrder
    <3> QED BY <1>5, <3>1
  <2>3. CASE ~(v.dims[i] > 1)
    <3>1. c[i] = 0
      BY <2>1, <2>3 DEF Pos
    <3>2. c[i] * v.strides[i] = 0 /\ c[i] * Inner(v.dims, i) = 0
      BY <2>1, <3>1 DEF Pos
    <3> QED BY <1>5, <3>2
  <2> QED BY <2>2, <2>3
<1>7. Flat(v.dims, c) = Total([i \in 1 .. n |-> c[i] * Inner(v.dims, i)])
  BY <1>1 DEF Flat
<1>8. x = [i \in 1 .. n |-> c[i] * Inner(v.dims, i)]
  BY <1>6
<1>9. Flat(v.dims, c) = k
  BY <1>1, <1>3, FlatOfCoords
<1> QED BY <1>3, <1>5, <1>7, <1>8, <1>9

\* A view of its own tracks a buffer in order.
LEMMA CreateTracks ==
    ASSUME NEW n \in Nat, NEW dims \in [1 .. n -> Pos], NEW b \in Nat, Size(dims) <= b,
           NEW f, DOMAIN f = 0 .. Size(dims) - 1, \A k \in DOMAIN f : f[k] = k
    PROVE  /\ view_create(dims) \in Ranked(n) /\ Tracks(view_create(dims), f, b)
           /\ view_create(dims).mask = << >> /\ view_create(dims).dims = dims
           /\ view_create(dims).offset = 0 /\ view_create(dims).contiguous
<1> DEFINE u == [dims |-> dims, strides |-> RowMajor(dims), offset |-> 0, contiguous |-> TRUE, mask |-> << >>]
<1>1. RowMajor(dims) \in [1 .. n -> Int]
  <2>1. \A i \in 1 .. n : i \in 0 .. n /\ Inner(dims, i) \in Pos
    BY Inners
  <2> QED BY <2>1 DEF RowMajor, Pos
<1>2. u \in Ranked(n)
  BY <1>1 DEF Ranked
<1>3. InOrder(u.dims, u.strides)
  BY DEF InOrder, RowMajor
<1>4. u.dims = dims /\ u.offset = 0 /\ u.mask = << >> /\ u.contiguous
  OBVIOUS
<1>5. view_create(dims) = Canonical(u)
  BY DEF view_create
<1>6. Canonical(u).offset = 0 /\ Canonical(u).contiguous
  BY DEF Canonical
<1> HIDE DEF u
<1>7. ASSUME NEW k \in DOMAIN f PROVE Place(u, Coords(u.dims, k)) = k
  BY <1>2, <1>3, <1>4, PlaceInOrder
<1>8. Size(dims) \in Pos
  BY Sizes
<1>9. \A k \in DOMAIN f : k \in 0 .. b - 1
  BY <1>8 DEF Pos
<1>10. \A c : ~Masked(u, c)
  BY <1>4 DEF Masked
<1>11. Tracks(u, f, b)
  BY <1>4, <1>7, <1>9, <1>10 DEF Tracks
<1>12. /\ Canonical(u) \in Ranked(n) /\ Tracks(Canonical(u), f, b)
       /\ Canonical(u).mask = << >> /\ Canonical(u).dims = dims
  BY <1>2, <1>4, <1>11, CanonicalTracks
<1> QED BY <1>5, <1>6, <1>12

\* What a view marked as contiguous holds.
LEMMA ContiguousTracks ==
    ASSUME NEW n \in Nat, NEW v \in Ranked(n), NEW b \in Nat, NEW f, Tracks(v, f, b), v.mask = << >>,
           v.contiguous
    PROVE  v.offset = 0 /\ Size(v.dims) <= b /\ \A k \in DOMAIN f : f[k] = k
<1>1. v.dims \in [1 .. n -> Pos] /\ v.strides \in [1 .. n -> Int] /\ v.offset \in Int
  BY DEF Ranked
<1>2. Size(v.dims) \in Pos /\ DOMAIN f = 0 .. Size(v.dims) - 1
  BY <1>1, Sizes DEF Tracks
<1>3. \A c : ~Masked(v, c)
  BY DEF Masked
<1>4. \A k \in DOMAIN f : f[k] = k /\ Place(v, Coords(v.dims, k)) = k /\ k \in 0 .. b - 1
  BY <1>3 DEF Tracks
<1>5. Size(v.dims) <= b
  <2>1. Size(v.dims) - 1 \in DOMAIN f
    BY <1>2 DEF Pos
  <2>2. Size(v.dims) - 1 \in 0 .. b - 1
    BY <1>4, <2>1
  <2> QED BY <1>2, <2>2 DEF Pos
<1>6. v.offset = 0
  <2> DEFINE low == [i \in 1 .. n |-> 0]
  <2>1. Inside(v.dims, low) /\ low \in [1 .. n -> Int] /\ \A i \in 1 .. n : low[i] = 0
    BY <1>1 DEF Inside, Pos
  <2> HIDE DEF low
  <2>2. PICK x \in [1 .. n -> Int] : /\ \A i \in 1 .. n : x[i] = low[i] * v.strides[i]
                                     /\ Place(v, low) = v.offset + Total(x)
    BY <2>1, PlaceIs
  <2>3. \A i \in 1 .. n : x[i] = 0
    BY <1>1, <2>1, <2>2
  <2>4. x = [i \in 1 .. n |-> 0]
    BY <2>3
  <2>5. Total(x) = 0
    BY <2>4, TotalZero
  <2>6. Flat(v.dims, low) \in DOMAIN f /\ Coords(v.dims, Flat(v.dims, low)) = low
    BY <1>1, <1>2, <2>1, InsideFlat
  <2>7. Place(v, low) = Flat(v.dims, low)
    BY <1>4, <2>6
  <2>8. Flat(v.dims, low) = Total([i \in 1 .. n |-> low[i] * Inner(v.dims, i)])
    BY <1>1 DEF Flat
  <2>9. ASSUME NEW i \in 1 .. n PROVE low[i] * Inner(v.dims, i) = 0
    <3>1. i \in 0 .. n
      OBVIOUS
    <3>2. Inner(v.dims, i) \in Pos
      BY <1>1, <3>1, Inners
    <3> QED BY <2>1, <3>2 DEF Pos
  <2>10. [i \in 1 .. n |-> low[i] * Inner(v.dims, i)] = [i \in 1 .. n |-> 0]
    BY <2>9
  <2>11. Total([i \in 1 .. n |-> low[i] * Inner(v.dims, i)]) = 0
    BY <2>10, TotalZero
  <2> QED BY <1>1, <2>2, <2>5, <2>7, <2>8, <2>11
<1> QED BY <1>4, <1>5, <1>6

-----------------------------------------------------------------------------
(* Merging.  Dimensions that were merged count like digits: group j of them *)
(* turns after bounds[j] elements.                                          *)

Groups == [size : Pos, stride : Int, real : Nat]

LEMMA Appending ==
    ASSUME NEW K \in Pos, NEW m \in [1 .. K -> Groups], NEW r \in Groups
    PROVE  \E a \in [1 .. K + 1 -> Groups] :
               a = Append(m, r) /\ a[K + 1] = r /\ \A j \in 1 .. K : a[j] = m[j]
<1>1. K \in Nat
  BY DEF Pos
<1>2. m \in Seq(Groups) /\ Len(m) = K
  BY <1>1
<1>3. PICK a : a = Append(m, r)
  OBVIOUS
<1>4. /\ a \in Seq(Groups) /\ Len(a) = K + 1 /\ a[K + 1] = r
      /\ \A j \in 1 .. K : a[j] = m[j]
  BY <1>2, <1>3, AppendProperties
<1>5. a \in [1 .. Len(a) -> Groups]
  BY <1>4, LenProperties
<1> QED BY <1>3, <1>4, <1>5

LEMMA Replacing ==
    ASSUME NEW K \in Pos, NEW m \in [1 .. K -> Groups], NEW r \in Groups
    PROVE  \E a \in [1 .. K -> Groups] :
               a = Append(Front(m), r) /\ a[K] = r /\ \A j \in 1 .. K - 1 : a[j] = m[j]
<1>1. K \in Nat /\ K >= 1
  BY DEF Pos
<1>2. m \in Seq(Groups) /\ Len(m) = K
  BY <1>1
<1>4. PICK f : f = Front(m)
  OBVIOUS
<1>5. f \in Seq(Groups) /\ Len(f) = K - 1 /\ \A j \in 1 .. K - 1 : f[j] = m[j]
  <2>1. f = SubSeq(m, 1, K - 1)
    BY <1>2, <1>4 DEF Front
  <2>2. 1 \in Int /\ K - 1 \in Int /\ \A j \in 1 .. K - 1 : m[j] \in Groups
    BY <1>1
  <2>3. /\ SubSeq(m, 1, K - 1) \in Seq(Groups)
        /\ Len(SubSeq(m, 1, K - 1)) = IF 1 <= K - 1 THEN K - 1 - 1 + 1 ELSE 0
        /\ \A j \in 1 .. K - 1 - 1 + 1 : SubSeq(m, 1, K - 1)[j] = m[1 + j - 1]
    BY <2>2, SubSeqProperties
  <2>4. K - 1 - 1 + 1 = K - 1 /\ (~(1 <= K - 1) => K - 1 = 0) /\ \A j \in 1 .. K - 1 : 1 + j - 1 = j
    BY <1>1
  <2> QED BY <2>1, <2>3, <2>4
<1>6. PICK a : a = Append(f, r)
  OBVIOUS
<1>7. a \in [1 .. K -> Groups] /\ a[K] = r /\ \A j \in 1 .. K - 1 : a[j] = f[j]
  <2>1. (K - 1) + 1 = K
    BY <1>1
  <2>2. /\ a \in Seq(Groups) /\ Len(a) = K /\ a[K] = r
        /\ \A j \in 1 .. K - 1 : a[j] = f[j]
    BY <1>5, <1>6, <2>1, AppendProperties
  <2>3. a \in [1 .. Len(a) -> Groups]
    BY <2>2, LenProperties
  <2> QED BY <2>2, <2>3
<1> QED BY <1>4, <1>5, <1>6, <1>7

\* What element k's coordinates up to i are worth, and what the groups are.
Upto(v, k, i) == Total([j \in 1 .. i |-> Coords(v.dims, k)[j] * v.strides[j]])
Turn(m, B, k, j) == ((k \div B[j]) % m[j].size) * m[j].stride
Worth(K, m, B, k) == Total([j \in 1 .. K |-> Turn(m, B, k, j)])

LEMMA UptoStep ==
    ASSUME NEW n \in Nat, NEW v \in Ranked(n), NEW k \in Nat, NEW i \in 1 .. n
    PROVE  /\ Upto(v, k, i - 1) \in Int
           /\ Upto(v, k, i) = Upto(v, k, i - 1) + ((k \div Inner(v.dims, i)) % v.dims[i]) * v.strides[i]
           /\ ((k \div Inner(v.dims, i)) % v.dims[i]) \in Nat
<1> DEFINE a == [j \in 1 .. i |-> Coords(v.dims, k)[j] * v.strides[j]]
           b == [j \in 1 .. i - 1 |-> Coords(v.dims, k)[j] * v.strides[j]]
<1>1. v.dims \in [1 .. n -> Pos] /\ v.strides \in [1 .. n -> Int]
  BY DEF Ranked
<1>2. /\ Coords(v.dims, k) \in [1 .. n -> Nat]
      /\ \A j \in 1 .. n : Coords(v.dims, k)[j] = (k \div Inner(v.dims, j)) % v.dims[j]
  BY <1>1, CoordsIn
<1>3. \A j \in 1 .. n : Coords(v.dims, k)[j] * v.strides[j] \in Int
  BY <1>1, <1>2
<1>4. a \in [1 .. i -> Int] /\ b \in [1 .. i - 1 -> Int]
  BY <1>3
<1>5. b = [j \in 1 .. i - 1 |-> a[j]] /\ a[i] = Coords(v.dims, k)[i] * v.strides[i]
  OBVIOUS
<1>6. Upto(v, k, i) = Total(a) /\ Upto(v, k, i - 1) = Total(b)
  BY DEF Upto
<1> HIDE DEF a, b
<1>7. Total(a) = Total(b) + a[i] /\ Total(b) \in Int
  <2>1. PICK m \in Nat : m + 1 = i /\ m = i - 1
    OBVIOUS
  <2>2. a \in [1 .. m + 1 -> Int] /\ b \in [1 .. m -> Int] /\ b = [j \in 1 .. m |-> a[j]]
    BY <1>4, <1>5, <2>1
  <2>3. Total(a) = Total([j \in 1 .. m |-> a[j]]) + a[m + 1]
    BY <2>2, TotalStep
  <2>4. Total(b) \in Int
    BY <2>2, TotalInt
  <2> QED BY <2>1, <2>2, <2>3, <2>4
<1> QED BY <1>2, <1>5, <1>6, <1>7

LEMMA TurnInt ==
    ASSUME NEW K \in Nat, NEW m \in [1 .. K -> Groups], NEW B \in [0 .. K -> Pos], NEW k \in Nat, NEW j \in 1 .. K
    PROVE  Turn(m, B, k, j) \in Int /\ (k \div B[j]) % m[j].size \in Nat
<1>1. B[j] \in Pos /\ m[j].size \in Pos /\ m[j].stride \in Int
  <2>1. j \in 0 .. K
    OBVIOUS
  <2> QED BY <2>1 DEF Groups
<1>2. PICK x \in Nat : x = k \div B[j]
  BY <1>1, Division
<1>3. PICK y \in Nat : y = x % m[j].size
  BY <1>1, Division
<1>4. y * m[j].stride \in Int
  BY <1>1
<1> QED BY <1>2, <1>3, <1>4 DEF Turn

LEMMA WorthInt ==
    ASSUME NEW K \in Nat, NEW m \in [1 .. K -> Groups], NEW B \in [0 .. K -> Pos], NEW k \in Nat
    PROVE  Worth(K, m, B, k) \in Int /\ [j \in 1 .. K |-> Turn(m, B, k, j)] \in [1 .. K -> Int]
<1>1. [j \in 1 .. K |-> Turn(m, B, k, j)] \in [1 .. K -> Int]
  BY TurnInt
<1> QED BY <1>1, TotalInt DEF Worth

\* A group more, and another last group.
LEMMA WorthMore ==
    ASSUME NEW K \in Nat, NEW m \in [1 .. K -> Groups], NEW B \in [0 .. K -> Pos],
           NEW l \in [1 .. K + 1 -> Groups], NEW C \in [0 .. K + 1 -> Pos],
           \A j \in 1 .. K : l[j] = m[j] /\ C[j] = B[j], NEW k \in Nat
    PROVE  Worth(K + 1, l, C, k) = Worth(K, m, B, k) + Turn(l, C, k, K + 1)
<1> DEFINE a == [j \in 1 .. K + 1 |-> Turn(l, C, k, j)]
           b == [j \in 1 .. K |-> Turn(m, B, k, j)]
<1>1. a \in [1 .. K + 1 -> Int]
  <2>1. K + 1 \in Nat
    OBVIOUS
  <2> QED BY <2>1, WorthInt
<1>2. \A j \in 1 .. K : a[j] = b[j]
  BY DEF Turn
<1>3. b = [j \in 1 .. K |-> a[j]] /\ a[K + 1] = Turn(l, C, k, K + 1)
  <2>1. K + 1 \in 1 .. K + 1
    OBVIOUS
  <2>2. a[K + 1] = Turn(l, C, k, K + 1)
    BY <2>1
  <2>3. b = [j \in 1 .. K |-> b[j]]
    OBVIOUS
  <2> HIDE DEF a, b
  <2> QED BY <1>2, <2>2, <2>3
<1>4. Worth(K + 1, l, C, k) = Total(a) /\ Worth(K, m, B, k) = Total(b)
  BY DEF Worth
<1> HIDE DEF a, b
<1>5. Total(a) = Total(b) + a[K + 1]
  BY <1>1, <1>3, TotalStep
<1> QED BY <1>3, <1>4, <1>5

\* Two lists of groups, with the elements inside each, which differ in the last.
ButLast(K, m, B, l, C) ==
    /\ m \in [1 .. K -> Groups] /\ B \in [0 .. K -> Pos]
    /\ l \in [1 .. K -> Groups] /\ C \in [0 .. K -> Pos]
    /\ \A j \in 1 .. K - 1 : l[j] = m[j] /\ C[j] = B[j]

LEMMA WorthLast ==
    ASSUME NEW K \in Pos, NEW m, NEW B, NEW l, NEW C, ButLast(K, m, B, l, C), NEW k \in Nat
    PROVE  Worth(K, l, C, k) = Worth(K, m, B, k) + (Turn(l, C, k, K) - Turn(m, B, k, K))
<1> USE DEF ButLast
<1> DEFINE a == [j \in 1 .. K |-> Turn(m, B, k, j)]
           b == [j \in 1 .. K |-> Turn(l, C, k, j)]
<1>1. K \in Nat /\ K \in 1 .. K
  BY DEF Pos
<1>2. a \in [1 .. K -> Int] /\ b \in [1 .. K -> Int]
  <2>1. \A j \in 1 .. K : Turn(m, B, k, j) \in Int
    BY <1>1, TurnInt
  <2>2. \A j \in 1 .. K : Turn(l, C, k, j) \in Int
    BY <1>1, TurnInt
  <2> QED BY <2>1, <2>2
<1>3. ASSUME NEW j \in 1 .. K, j # K PROVE b[j] = a[j]
  <2>1. j \in 1 .. K - 1
    BY <1>1, <1>3
  <2> QED BY <2>1 DEF Turn
<1>4. a[K] = Turn(m, B, k, K) /\ b[K] = Turn(l, C, k, K)
  BY <1>1
<1>5. Worth(K, l, C, k) = Total(b) /\ Worth(K, m, B, k) = Total(a)
  BY DEF Worth
<1> HIDE DEF a, b
<1>6. PICK x \in Int : x = b[K]
  BY <1>1, <1>2
<1>7. \A j \in 1 .. K : b[j] = IF j = K THEN x ELSE a[j]
  BY <1>3, <1>6
<1>8. Total(b) = Total(a) + (x - a[K])
  BY <1>1, <1>2, <1>7, TotalChanged
<1> QED BY <1>4, <1>5, <1>6, <1>8

LEMMA TotalNone ==
    ASSUME NEW a, a \in [1 .. 0 -> Int]
    PROVE  Total(a) = 0
<1>1. a = [i \in 1 .. 0 |-> 0]
  OBVIOUS
<1>2. 0 \in Nat
  OBVIOUS
<1> QED BY <1>1, <1>2, TotalZero

\* The turns of a dimension of s merged into a group of z.
Joined(k, b, s, z, t, u) == ((k \div b) % (z * s)) * t = ((k \div (s * b)) % z) * u + ((k \div b) % s) * t

LEMMA JoinTurn ==
    ASSUME NEW k \in Nat, NEW b \in Pos, NEW s \in Pos, NEW z \in Pos, NEW t \in Int, NEW u \in Int,
           z = 1 \/ u = s * t
    PROVE  Joined(k, b, s, z, t, u)
<1>1. PICK x \in Nat : x = k \div b
  BY Division
<1>2. z * s \in Pos /\ x % (z * s) = s * ((x \div s) % z) + (x % s)
  BY DivTwice
<1>3. x \div s = k \div (s * b)
  BY <1>1, DivTwice
<1>4. x \div s \in Nat
  BY Division
<1>5. PICK y \in Nat : y = (x \div s) % z /\ y < z
  BY <1>4, Division
<1>6. PICK d \in Nat : d = x % s
  BY Division
<1>7. (s * y + d) * t = y * (s * t) + d * t
  <2>1. ASSUME NEW p \in Nat PROVE (p * y + d) * t = y * (p * t) + d * t
    OBVIOUS
  <2> QED BY <2>1 DEF Pos
<1>8. y * (s * t) = y * u
  <2>1. CASE z = 1
    <3>1. y = 0
      BY <1>5, <2>1
    <3>2. s * t \in Int
      BY DEF Pos
    <3> QED BY <3>1, <3>2
  <2>2. CASE u = s * t
    BY <2>2
  <2> QED BY <2>1, <2>2
<1>9. ((k \div b) % (z * s)) * t = (s * y + d) * t
  BY <1>1, <1>2, <1>5, <1>6
<1>10. ((k \div (s * b)) % z) * u = y * u
  BY <1>3, <1>5
<1>11. ((k \div b) % s) * t = d * t
  BY <1>1, <1>6
<1> QED BY <1>7, <1>8, <1>9, <1>10, <1>11 DEF Joined

\* After merging the dimensions up to i.
Fits(v, i, m, K, B) ==
    /\ m \in [1 .. K -> Groups] /\ B \in [0 .. K -> Pos] /\ B[K] = Inner(v.dims, i)
    /\ \A j \in 1 .. K : B[j - 1] = B[j] * m[j].size /\ m[j].real \in {0, m[j].size}
    /\ \A j \in 0 .. K : \E l \in 0 .. i : B[j] = Inner(v.dims, l)
    /\ \A k \in Nat : Upto(v, k, i) = Worth(K, m, B, k)

Merges(v, i, a) ==
    \E K \in Pos : \E B :
        Fits(v, i, a.merged, K, B) /\ (a.merging => a.merged[K].size = 1)

LEMMA FirstMerges ==
    ASSUME NEW n \in Pos, NEW v \in Ranked(n), v.mask = << >>
    PROVE  Merges(v, 1, First(v))
<1> DEFINE r == [size |-> v.dims[1], stride |-> v.strides[1], real |-> IF v.strides[1] # 0 THEN v.dims[1] ELSE 0]
           m == <<r>>
           B == [j \in 0 .. 1 |-> IF j = 1 THEN Inner(v.dims, 1) ELSE Inner(v.dims, 0)]
<1>1. n \in Nat /\ 1 \in 1 .. n /\ 0 \in 0 .. n /\ 1 \in 0 .. n
  BY DEF Pos
<1>2. v.dims \in [1 .. n -> Pos] /\ v.strides \in [1 .. n -> Int]
  BY DEF Ranked
<1>3. Inner(v.dims, 0) \in Pos /\ Inner(v.dims, 1) \in Pos /\ Inner(v.dims, 0) = v.dims[1] * Inner(v.dims, 1)
  <2>1. Inner(v.dims, 1 - 1) = v.dims[1] * Inner(v.dims, 1)
    BY <1>1, <1>2, Inners
  <2>2. 1 - 1 = 0
    OBVIOUS
  <2> QED BY <1>1, <1>2, <2>1, <2>2, Inners
<1>4. r \in Groups
  BY <1>1, <1>2 DEF Groups, Pos
<1>5. m \in [1 .. 1 -> Groups] /\ m[1] = r
  <2> HIDE DEF r
  <2> QED BY <1>4
<1>6. B \in [0 .. 1 -> Pos] /\ B[1] = Inner(v.dims, 1) /\ B[0] = Inner(v.dims, 0)
  BY <1>3
<1>7. r.size = v.dims[1] /\ r.stride = v.strides[1] /\ r.real \in {0, r.size}
  OBVIOUS
<1>8. First(v).merged = m /\ (First(v).merging => v.dims[1] = 1)
  BY DEF First, Narrow
<1> HIDE DEF m, B, r
<1>9. ASSUME NEW k \in Nat PROVE Upto(v, k, 1) = Worth(1, m, B, k)
  <2>1. Upto(v, k, 1) = Upto(v, k, 0) + ((k \div Inner(v.dims, 1)) % v.dims[1]) * v.strides[1]
    <3>1. Upto(v, k, 1) = Upto(v, k, 1 - 1) + ((k \div Inner(v.dims, 1)) % v.dims[1]) * v.strides[1]
      BY <1>1, UptoStep
    <3>2. 1 - 1 = 0
      OBVIOUS
    <3> QED BY <3>1, <3>2
  <2>2. Upto(v, k, 0) = 0
    <3> DEFINE x == [j \in 1 .. 0 |-> Coords(v.dims, k)[j] * v.strides[j]]
    <3>1. x \in [1 .. 0 -> Int]
      OBVIOUS
    <3>2. Upto(v, k, 0) = Total(x)
      BY DEF Upto
    <3> HIDE DEF x
    <3> QED BY <3>1, <3>2, TotalNone
  <2> DEFINE y == [j \in 1 .. 1 |-> Turn(m, B, k, j)]
             z == [j \in 1 .. 0 |-> y[j]]
  <2>3. Turn(m, B, k, 1) = ((k \div Inner(v.dims, 1)) % v.dims[1]) * v.strides[1]
    BY <1>5, <1>6, <1>7 DEF Turn
  <2>4. Worth(1, m, B, k) = Total(y)
    BY DEF Worth
  <2>5. y \in [1 .. 0 + 1 -> Int] /\ y[0 + 1] = Turn(m, B, k, 1)
    <3>1. 1 \in Nat /\ 0 + 1 = 1 /\ 1 \in 1 .. 1
      OBVIOUS
    <3>2. y[1] = Turn(m, B, k, 1)
      BY <3>1
    <3>3. y \in [1 .. 1 -> Int]
      <4>1. \A j \in 1 .. 1 : Turn(m, B, k, j) \in Int
        BY <1>5, <1>6, <3>1, TurnInt
      <4> QED BY <4>1
    <3> HIDE DEF y
    <3> QED BY <3>1, <3>2, <3>3
  <2>6. z \in [1 .. 0 -> Int]
    OBVIOUS
  <2>7. Total(y) = Total(z) + y[0 + 1]
    <3>1. 0 \in Nat
      OBVIOUS
    <3> HIDE DEF y
    <3> QED BY <2>5, <3>1, TotalStep
  <2>8. Total(z) = 0
    <3> HIDE DEF z
    <3> QED BY <2>6, TotalNone
  <2>9. y[0 + 1] \in Int
    <3> HIDE DEF y
    <3> QED BY <2>5
  <2> HIDE DEF y, z
  <2> QED BY <2>1, <2>2, <2>3, <2>4, <2>5, <2>7, <2>8, <2>9
<1>10. ASSUME NEW j \in 1 .. 1 PROVE B[j - 1] = B[j] * m[j].size /\ m[j].real \in {0, m[j].size}
  <2>1. j = 1 /\ j - 1 = 0
    OBVIOUS
  <2>2. Inner(v.dims, 0) = Inner(v.dims, 1) * v.dims[1]
    BY <1>1, <1>2, <1>3 DEF Pos
  <2> QED BY <1>5, <1>6, <1>7, <2>1, <2>2
<1>11. ASSUME NEW j \in 0 .. 1 PROVE \E l \in 0 .. 1 : B[j] = Inner(v.dims, l)
  <2>1. j \in {0, 1} /\ 0 \in 0 .. 1 /\ 1 \in 0 .. 1
    OBVIOUS
  <2> QED BY <1>6, <2>1
<1>12. Fits(v, 1, m, 1, B)
  BY <1>5, <1>6, <1>9, <1>10, <1>11 DEF Fits
<1>13. 1 \in Pos
  BY DEF Pos
<1> QED BY <1>5, <1>7, <1>8, <1>12, <1>13 DEF Merges

\* A dimension of size 1 changes nothing.
LEMMA MergeSkips ==
    ASSUME NEW n \in Nat, NEW v \in Ranked(n), NEW i \in 1 .. n, v.dims[i] = 1,
           NEW m, NEW K, NEW B, Fits(v, i - 1, m, K, B)
    PROVE  Fits(v, i, m, K, B)
<1>1. v.dims \in [1 .. n -> Pos] /\ v.strides \in [1 .. n -> Int]
  BY DEF Ranked
<1>2. Inner(v.dims, i) \in Pos /\ Inner(v.dims, i - 1) = v.dims[i] * Inner(v.dims, i)
  <2>1. i \in 0 .. n
    OBVIOUS
  <2> QED BY <1>1, <2>1, Inners
<1>3. Inner(v.dims, i - 1) = Inner(v.dims, i)
  BY <1>2 DEF Pos
<1>4. ASSUME NEW k \in Nat PROVE Upto(v, k, i) = Upto(v, k, i - 1)
  <2>1. /\ Upto(v, k, i - 1) \in Int
        /\ Upto(v, k, i) = Upto(v, k, i - 1) + ((k \div Inner(v.dims, i)) % v.dims[i]) * v.strides[i]
    BY UptoStep
  <2>2. PICK x \in Nat : x = k \div Inner(v.dims, i)
    BY <1>2, Division
  <2>3. x % 1 = 0
    OBVIOUS
  <2>4. 0 * v.strides[i] = 0
    BY <1>1
  <2> QED BY <2>1, <2>2, <2>3, <2>4
<1>5. 0 .. i - 1 \subseteq 0 .. i
  OBVIOUS
<1> QED BY <1>3, <1>4, <1>5 DEF Fits

\* A dimension becomes a group of its own.
LEMMA MergeAppends ==
    ASSUME NEW n \in Nat, NEW v \in Ranked(n), NEW i \in 1 .. n,
           NEW m, NEW K \in Pos, NEW B, Fits(v, i - 1, m, K, B), NEW r \in Groups,
           r.size = v.dims[i], r.stride = v.strides[i], r.real \in {0, r.size}
    PROVE  \E C : Fits(v, i, Append(m, r), K + 1, C)
<1> DEFINE C == [j \in 0 .. K + 1 |-> IF j = K + 1 THEN Inner(v.dims, i) ELSE B[j]]
<1>1. v.dims \in [1 .. n -> Pos] /\ v.strides \in [1 .. n -> Int]
  BY DEF Ranked
<1>2. Inner(v.dims, i) \in Pos /\ Inner(v.dims, i - 1) = v.dims[i] * Inner(v.dims, i)
  <2>1. i \in 0 .. n
    OBVIOUS
  <2> QED BY <1>1, <2>1, Inners
<1>3. /\ m \in [1 .. K -> Groups] /\ B \in [0 .. K -> Pos] /\ B[K] = Inner(v.dims, i - 1)
      /\ \A j \in 1 .. K : B[j - 1] = B[j] * m[j].size /\ m[j].real \in {0, m[j].size}
      /\ \A j \in 0 .. K : \E l \in 0 .. i - 1 : B[j] = Inner(v.dims, l)
      /\ \A k \in Nat : Upto(v, k, i - 1) = Worth(K, m, B, k)
  BY DEF Fits
<1>6. K \in Nat /\ K >= 1
  BY DEF Pos
<1>7. C \in [0 .. K + 1 -> Pos] /\ C[K + 1] = Inner(v.dims, i) /\ \A j \in 0 .. K : C[j] = B[j]
  <2>1. B \in [0 .. K -> Pos]
    BY <1>3
  <2>2. ASSUME NEW j \in 0 .. K PROVE j \in 0 .. K + 1 /\ j # K + 1 /\ B[j] \in Pos
    BY <1>6, <2>1
  <2>3. ASSUME NEW j \in 0 .. K + 1, j # K + 1 PROVE j \in 0 .. K
    BY <1>6, <2>3
  <2>4. K + 1 \in 0 .. K + 1
    BY <1>6
  <2>5. ASSUME NEW j \in 0 .. K + 1 PROVE (IF j = K + 1 THEN Inner(v.dims, i) ELSE B[j]) \in Pos
    BY <1>2, <2>2, <2>3
  <2>6. C \in [0 .. K + 1 -> Pos]
    BY <2>5
  <2> QED BY <2>2, <2>4, <2>6
<1> HIDE DEF C
<1>5. PICK a \in [1 .. K + 1 -> Groups] :
         a = Append(m, r) /\ a[K + 1] = r /\ \A j \in 1 .. K : a[j] = m[j]
  <2>1. m \in [1 .. K -> Groups]
    BY <1>3
  <2> QED BY <2>1, Appending
<1>8. ASSUME NEW j \in 1 .. K + 1 PROVE C[j - 1] = C[j] * a[j].size /\ a[j].real \in {0, a[j].size}
  <2>1. CASE j = K + 1
    <3>1. j - 1 = K /\ K \in 0 .. K
      BY <1>6, <2>1
    <3>2. C[j - 1] = v.dims[i] * Inner(v.dims, i)
      BY <1>2, <1>3, <1>7, <3>1
    <3>3. v.dims[i] * Inner(v.dims, i) = Inner(v.dims, i) * v.dims[i]
      BY <1>1, <1>2 DEF Pos
    <3> QED BY <1>5, <1>7, <2>1, <3>2, <3>3
  <2>2. CASE j # K + 1
    <3>1. j \in 1 .. K /\ j \in 0 .. K /\ j - 1 \in 0 .. K
      BY <1>6, <2>2
    <3> QED BY <1>3, <1>5, <1>7, <3>1
  <2> QED BY <2>1, <2>2
<1>9. ASSUME NEW j \in 0 .. K + 1 PROVE \E l \in 0 .. i : C[j] = Inner(v.dims, l)
  <2>1. CASE j = K + 1
    <3>1. i \in 0 .. i
      OBVIOUS
    <3> QED BY <1>7, <2>1, <3>1
  <2>2. CASE j # K + 1
    <3>1. j \in 0 .. K
      BY <1>6, <2>2
    <3>2. PICK l \in 0 .. i - 1 : B[j] = Inner(v.dims, l)
      BY <1>3, <3>1
    <3>3. l \in 0 .. i
      OBVIOUS
    <3> QED BY <1>7, <3>1, <3>2, <3>3
  <2> QED BY <2>1, <2>2
<1>10. ASSUME NEW k \in Nat PROVE Upto(v, k, i) = Worth(K + 1, a, C, k)
  <2>1. Upto(v, k, i) = Upto(v, k, i - 1) + ((k \div Inner(v.dims, i)) % v.dims[i]) * v.strides[i]
    BY UptoStep
  <2>2. Turn(a, C, k, K + 1) = ((k \div Inner(v.dims, i)) % v.dims[i]) * v.strides[i]
    BY <1>5, <1>7 DEF Turn
  <2>3. \A j \in 1 .. K : a[j] = m[j] /\ C[j] = B[j]
    BY <1>5, <1>6, <1>7
  <2>4. Worth(K + 1, a, C, k) = Worth(K, m, B, k) + Turn(a, C, k, K + 1)
    BY <1>3, <1>5, <1>6, <1>7, <2>3, WorthMore
  <2>5. Upto(v, k, i - 1) = Worth(K, m, B, k)
    BY <1>3
  <2> QED BY <2>1, <2>2, <2>4, <2>5
<1>11. Fits(v, i, a, K + 1, C)
  BY <1>5, <1>7, <1>8, <1>9, <1>10 DEF Fits
<1> QED BY <1>5, <1>11

\* A dimension is merged into the last group.
LEMMA MergeJoins ==
    ASSUME NEW n \in Nat, NEW v \in Ranked(n), NEW i \in 1 .. n,
           NEW m, NEW K \in Pos, NEW B, Fits(v, i - 1, m, K, B), NEW r \in Groups,
           m[K].size = 1 \/ m[K].stride = v.dims[i] * v.strides[i],
           r.size = m[K].size * v.dims[i], r.stride = v.strides[i], r.real \in {0, r.size}
    PROVE  \E C : Fits(v, i, Append(Front(m), r), K, C)
<1> DEFINE C == [j \in 0 .. K |-> IF j = K THEN Inner(v.dims, i) ELSE B[j]]
<1>1. v.dims \in [1 .. n -> Pos] /\ v.strides \in [1 .. n -> Int]
  BY DEF Ranked
<1>2. Inner(v.dims, i) \in Pos /\ Inner(v.dims, i - 1) = v.dims[i] * Inner(v.dims, i)
  <2>1. i \in 0 .. n
    OBVIOUS
  <2> QED BY <1>1, <2>1, Inners
<1>3. /\ m \in [1 .. K -> Groups] /\ B \in [0 .. K -> Pos] /\ B[K] = Inner(v.dims, i - 1)
      /\ \A j \in 1 .. K : B[j - 1] = B[j] * m[j].size /\ m[j].real \in {0, m[j].size}
      /\ \A j \in 0 .. K : \E l \in 0 .. i - 1 : B[j] = Inner(v.dims, l)
      /\ \A k \in Nat : Upto(v, k, i - 1) = Worth(K, m, B, k)
  BY DEF Fits
<1>6. K \in Nat /\ K >= 1 /\ K \in 1 .. K /\ K - 1 \in 0 .. K
  BY DEF Pos
<1>7. C \in [0 .. K -> Pos] /\ C[K] = Inner(v.dims, i) /\ \A j \in 0 .. K - 1 : C[j] = B[j]
  BY <1>2, <1>3, <1>6
<1> HIDE DEF C
<1>5. PICK a \in [1 .. K -> Groups] :
         a = Append(Front(m), r) /\ a[K] = r /\ \A j \in 1 .. K - 1 : a[j] = m[j]
  <2>1. m \in [1 .. K -> Groups]
    BY <1>3
  <2> QED BY <2>1, Replacing
<1>12. m[K].size \in Pos /\ m[K].stride \in Int
  BY <1>3, <1>6 DEF Groups
<1>8. ASSUME NEW j \in 1 .. K PROVE C[j - 1] = C[j] * a[j].size /\ a[j].real \in {0, a[j].size}
  <2>1. CASE j = K
    <3>1. K - 1 \in 0 .. K - 1
      BY <1>6
    <3>2. C[K - 1] = B[K] * m[K].size
      BY <1>3, <1>6, <1>7, <3>1
    <3>3. ASSUME NEW d \in Pos, NEW x \in Pos, NEW z \in Pos PROVE (d * x) * z = x * (z * d)
      BY DEF Pos
    <3>4. (v.dims[i] * Inner(v.dims, i)) * m[K].size = Inner(v.dims, i) * (m[K].size * v.dims[i])
      BY <1>1, <1>2, <1>12, <3>3
    <3> QED BY <1>2, <1>3, <1>5, <1>7, <2>1, <3>2, <3>4
  <2>2. CASE j # K
    <3>1. j \in 1 .. K - 1 /\ j \in 0 .. K - 1 /\ j - 1 \in 0 .. K - 1
      BY <1>6, <2>2
    <3> QED BY <1>3, <1>5, <1>7, <3>1
  <2> QED BY <2>1, <2>2
<1>9. ASSUME NEW j \in 0 .. K PROVE \E l \in 0 .. i : C[j] = Inner(v.dims, l)
  <2>1. CASE j = K
    <3>1. i \in 0 .. i
      OBVIOUS
    <3> QED BY <1>7, <2>1, <3>1
  <2>2. CASE j # K
    <3>1. j \in 0 .. K - 1
      BY <1>6, <2>2
    <3>2. PICK l \in 0 .. i - 1 : B[j] = Inner(v.dims, l)
      BY <1>3
    <3>3. l \in 0 .. i
      OBVIOUS
    <3> QED BY <1>7, <3>1, <3>2, <3>3
  <2> QED BY <2>1, <2>2
<1>10. ASSUME NEW k \in Nat PROVE Upto(v, k, i) = Worth(K, a, C, k)
  <2>1. Upto(v, k, i) = Upto(v, k, i - 1) + ((k \div Inner(v.dims, i)) % v.dims[i]) * v.strides[i]
    BY UptoStep
  <2>2. Turn(a, C, k, K) = ((k \div Inner(v.dims, i)) % (m[K].size * v.dims[i])) * v.strides[i]
    BY <1>5, <1>7 DEF Turn
  <2>3. \A j \in 1 .. K - 1 : a[j] = m[j] /\ C[j] = B[j]
    BY <1>5, <1>6, <1>7
  <2>4. Worth(K, a, C, k) = Worth(K, m, B, k) + (Turn(a, C, k, K) - Turn(m, B, k, K))
    <3>1. ButLast(K, m, B, a, C)
      BY <1>3, <1>5, <1>7, <2>3 DEF ButLast
    <3> QED BY <3>1, WorthLast
  <2>5. Upto(v, k, i - 1) = Worth(K, m, B, k)
    BY <1>3
  <2>6. Turn(m, B, k, K) = ((k \div (v.dims[i] * Inner(v.dims, i))) % m[K].size) * m[K].stride
    BY <1>2, <1>3 DEF Turn
  <2>7. v.dims[i] \in Pos /\ v.strides[i] \in Int
    BY <1>1
  <2>8. ((k \div Inner(v.dims, i)) % (m[K].size * v.dims[i])) * v.strides[i]
          = ((k \div (v.dims[i] * Inner(v.dims, i))) % m[K].size) * m[K].stride
            + ((k \div Inner(v.dims, i)) % v.dims[i]) * v.strides[i]
    <3>1. PICK d \in Pos : d = v.dims[i]
      BY <2>7
    <3>2. PICK b \in Pos : b = Inner(v.dims, i)
      BY <1>2
    <3>3. PICK z \in Pos : z = m[K].size
      BY <1>12
    <3>4. PICK t \in Int : t = v.strides[i]
      BY <2>7
    <3>5. PICK u \in Int : u = m[K].stride
      BY <1>12
    <3>6. z = 1 \/ u = d * t
      BY <3>1, <3>3, <3>4, <3>5
    <3>7. Joined(k, b, d, z, t, u)
      BY <3>6, JoinTurn
    <3> QED BY <3>1, <3>2, <3>3, <3>4, <3>5, <3>7 DEF Joined
  <2>9. PICK d : d = ((k \div Inner(v.dims, i)) % v.dims[i]) * v.strides[i]
    OBVIOUS
  <2>10. d \in Int
    BY <2>7, <2>9, UptoStep
  <2>11. Turn(a, C, k, K) = Turn(m, B, k, K) + d
    BY <2>2, <2>6, <2>8, <2>9
  <2>12. Turn(m, B, k, K) \in Int /\ Worth(K, m, B, k) \in Int
    BY <1>3, <1>6, TurnInt, WorthInt
  <2>13. Upto(v, k, i) = Worth(K, m, B, k) + d
    BY <2>1, <2>5, <2>9
  <2> QED BY <2>4, <2>10, <2>11, <2>12, <2>13
<1>11. Fits(v, i, a, K, C)
  BY <1>5, <1>7, <1>8, <1>9, <1>10 DEF Fits
<1> QED BY <1>5, <1>11

\* What merging goes through.
Runs == UNION {[1 .. K -> Groups] : K \in Pos}
Accs == [merging : BOOLEAN, merged : Runs]

LEMMA FirstIn ==
    ASSUME NEW n \in Pos, NEW v \in Ranked(n), v.mask = << >>
    PROVE  First(v) \in Accs
<1>1. v.dims[1] \in Pos /\ v.strides[1] \in Int
  <2>1. 1 \in 1 .. n
    BY DEF Pos
  <2> QED BY <2>1 DEF Ranked
<1> DEFINE r == [size |-> v.dims[1], stride |-> v.strides[1], real |-> IF v.strides[1] # 0 THEN v.dims[1] ELSE 0]
<1>2. r \in Groups
  BY <1>1 DEF Groups, Pos
<1>3. First(v).merged = <<r>> /\ First(v).merging = (v.dims[1] = 1)
      /\ First(v) = [merging |-> First(v).merging, merged |-> First(v).merged]
  BY DEF First, Narrow
<1> HIDE DEF r
<1>4. <<r>> \in [1 .. 1 -> Groups]
  BY <1>2
<1>5. <<r>> \in Runs
  <2>1. 1 \in Pos
    BY DEF Pos
  <2> QED BY <1>4, <2>1 DEF Runs
<1> QED BY <1>3, <1>5 DEF Accs

LEMMA MergeIn ==
    ASSUME NEW n \in Nat, NEW v \in Ranked(n), v.mask = << >>, NEW i \in 1 .. n, NEW a \in Accs
    PROVE  Merge(v, a, i) \in Accs
<1> DEFINE s == v.dims[i]
           last == Last(a.merged)
           r == [size |-> last.size * s, stride |-> v.strides[i], real |-> IF a.merging THEN s ELSE last.real * s]
           t == [size |-> s, stride |-> v.strides[i], real |-> s]
<1>1. v.dims[i] \in Pos /\ v.strides[i] \in Int
  BY DEF Ranked
<1>2. a.merging \in BOOLEAN /\ a.merged \in Runs
  BY DEF Accs
<1>3. PICK K \in Pos : a.merged \in [1 .. K -> Groups]
  BY <1>2 DEF Runs
<1>4. K \in Nat /\ K + 1 \in Pos /\ K \in 1 .. K
  BY DEF Pos
<1>5. last \in Groups
  <2>1. a.merged \in Seq(Groups) /\ Len(a.merged) = K
    BY <1>3, <1>4
  <2> QED BY <1>3, <1>4, <2>1 DEF Last
<1>6. last.size * s \in Pos /\ last.real * s \in Nat /\ s \in Nat
  <2>1. last.size \in Pos /\ last.real \in Nat
    BY <1>5 DEF Groups
  <2>2. ASSUME NEW x \in Pos, NEW y \in Nat, NEW z \in Pos PROVE x * z \in Pos /\ y * z \in Nat /\ z \in Nat
    BY DEF Pos
  <2> HIDE DEF last, s
  <2> QED BY <1>1, <2>1, <2>2 DEF s
<1>7. r \in Groups /\ t \in Groups
  BY <1>1, <1>2, <1>6 DEF Groups
<1>8. Append(Front(a.merged), r) \in Runs /\ Append(a.merged, t) \in Runs
  <2> HIDE DEF r, t, last, s
  <2>1. Append(Front(a.merged), r) \in [1 .. K -> Groups]
    <3>1. PICK m : m = a.merged
      OBVIOUS
    <3>2. m \in [1 .. K -> Groups]
      BY <1>3, <3>1
    <3>3. PICK x \in [1 .. K -> Groups] : x = Append(Front(m), r)
      BY <1>7, <3>2, Replacing
    <3> QED BY <3>1, <3>3
  <2>2. Append(a.merged, t) \in [1 .. K + 1 -> Groups]
    <3>1. PICK m : m = a.merged
      OBVIOUS
    <3>2. m \in [1 .. K -> Groups]
      BY <1>3, <3>1
    <3>3. PICK y \in Groups : y = t
      BY <1>7
    <3>4. PICK x \in [1 .. K + 1 -> Groups] : x = Append(m, y) /\ x[K + 1] = y /\ \A j \in 1 .. K : x[j] = m[j]
      BY <3>2, Appending
    <3> QED BY <3>1, <3>3, <3>4
  <2> QED BY <1>4, <2>1, <2>2 DEF Runs
<1>9. Merge(v, a, i) = IF s = 1 THEN a
                       ELSE [merging |-> Narrow(v, i),
                             merged |-> IF a.merging \/ last.stride = s * v.strides[i]
                                        THEN Append(Front(a.merged), r) ELSE Append(a.merged, t)]
  BY DEF Merge
<1>10. Narrow(v, i) \in BOOLEAN
  BY DEF Narrow
<1> HIDE DEF r, t, last, s
<1> QED BY <1>8, <1>9, <1>10 DEF Accs

\* One more dimension.
LEMMA MergeMerges ==
    ASSUME NEW n \in Nat, NEW v \in Ranked(n), v.mask = << >>, NEW i \in 1 .. n, NEW a \in Accs,
           Merges(v, i - 1, a)
    PROVE  Merges(v, i, Merge(v, a, i))
<1> DEFINE s == v.dims[i]
           last == Last(a.merged)
           r == [size |-> last.size * s, stride |-> v.strides[i], real |-> IF a.merging THEN s ELSE last.real * s]
           t == [size |-> s, stride |-> v.strides[i], real |-> s]
<1>1. v.dims[i] \in Pos /\ v.strides[i] \in Int
  BY DEF Ranked
<1>16. PICK K \in Pos : \E B : Fits(v, i - 1, a.merged, K, B) /\ (a.merging => a.merged[K].size = 1)
  BY DEF Merges
<1>2. PICK B : Fits(v, i - 1, a.merged, K, B) /\ (a.merging => a.merged[K].size = 1)
  BY <1>16
<1>3. a.merged \in [1 .. K -> Groups] /\ K \in Nat /\ K + 1 \in Pos /\ K \in 1 .. K /\ a.merging \in BOOLEAN
  BY <1>2 DEF Fits, Pos, Accs
<1>4. last = a.merged[K] /\ last \in Groups
  <2>1. a.merged \in Seq(Groups) /\ Len(a.merged) = K
    BY <1>3
  <2> QED BY <1>3, <2>1 DEF Last
<1>5. last.real \in {0, last.size} /\ last.size \in Pos /\ last.real \in Nat /\ last.stride \in Int
  <2>1. a.merged[K].real \in {0, a.merged[K].size}
    BY <1>2, <1>3 DEF Fits
  <2>2. last.size \in Pos /\ last.real \in Nat /\ last.stride \in Int
    BY <1>4 DEF Groups
  <2> HIDE DEF last
  <2> QED BY <1>4, <2>1, <2>2
<1>6. last.size * s \in Pos /\ last.real * s \in Nat /\ s \in Nat /\ last.real * s \in {0, last.size * s} /\ 1 * s = s
  <2>1. ASSUME NEW x \in Pos, NEW y \in Nat, NEW z \in Pos, y \in {0, x}
        PROVE  x * z \in Pos /\ y * z \in Nat /\ z \in Nat /\ y * z \in {0, x * z} /\ 1 * z = z
    BY <2>1 DEF Pos
  <2> HIDE DEF last, s
  <2> QED BY <1>1, <1>5, <2>1 DEF s
<1>7. r \in Groups /\ t \in Groups
  BY <1>1, <1>3, <1>6 DEF Groups
<1>8. /\ r.size = last.size * s /\ r.stride = v.strides[i] /\ r.real = IF a.merging THEN s ELSE last.real * s
      /\ t.size = s /\ t.stride = v.strides[i] /\ t.real = s
  OBVIOUS
<1>9. Merge(v, a, i) = IF s = 1 THEN a
                       ELSE [merging |-> Narrow(v, i),
                             merged |-> IF a.merging \/ last.stride = s * v.strides[i]
                                        THEN Append(Front(a.merged), r) ELSE Append(a.merged, t)]
  BY DEF Merge
<1>10. s # 1 => ~Narrow(v, i)
  BY DEF Narrow
<1>11. v.dims[i] = s
  OBVIOUS
<1>12. r.real \in {0, r.size}
  <2> HIDE DEF r, t, last, s
  <2>1. CASE a.merging
    <3>1. last.size = 1
      BY <1>2, <1>4, <2>1
    <3> QED BY <1>6, <1>8, <2>1, <3>1
  <2>2. CASE ~a.merging
    BY <1>6, <1>8, <2>2
  <2> QED BY <2>1, <2>2
<1> HIDE DEF r, t, last, s
<1>13. CASE s = 1
  <2>1. Fits(v, i, a.merged, K, B)
    BY <1>2, <1>11, <1>13, MergeSkips
  <2>2. Merge(v, a, i) = a
    BY <1>9, <1>13
  <2> QED BY <1>2, <2>1, <2>2 DEF Merges
<1>14. CASE s # 1 /\ (a.merging \/ last.stride = s * v.strides[i])
  <2>1. /\ Merge(v, a, i).merged = Append(Front(a.merged), r)
        /\ ~Merge(v, a, i).merging
    BY <1>9, <1>10, <1>14
  <2>2. a.merged[K].size = 1 \/ a.merged[K].stride = v.dims[i] * v.strides[i]
    BY <1>2, <1>4, <1>11, <1>14
  <2>3. r.size = a.merged[K].size * v.dims[i] /\ r.stride = v.strides[i]
    BY <1>4, <1>8, <1>11
  <2>4. PICK C : Fits(v, i, Append(Front(a.merged), r), K, C)
    BY <1>2, <1>7, <1>12, <2>2, <2>3, MergeJoins
  <2> QED BY <2>1, <2>4 DEF Merges
<1>15. CASE s # 1 /\ ~(a.merging \/ last.stride = s * v.strides[i])
  <2>1. /\ Merge(v, a, i).merged = Append(a.merged, t)
        /\ ~Merge(v, a, i).merging
    BY <1>9, <1>10, <1>15
  <2>2. t.size = v.dims[i] /\ t.stride = v.strides[i] /\ t.real \in {0, t.size}
    BY <1>8, <1>11
  <2>3. PICK C : Fits(v, i, Append(a.merged, t), K + 1, C)
    BY <1>2, <1>7, <2>2, MergeAppends
  <2> QED BY <1>3, <2>1, <2>3 DEF Merges
<1> QED BY <1>13, <1>14, <1>15

LEMMA DimsMerged ==
    ASSUME NEW n \in Pos, NEW v \in Ranked(n), v.mask = << >>
    PROVE  \E K \in Pos : \E B : Fits(v, n, merge_dims(v), K, B)
<1> DEFINE Rec(f) == [i \in 1 .. Len(v.dims) |-> IF i = 1 THEN First(v) ELSE Merge(v, f[i - 1], i)]
           acc == CHOOSE f : f = Rec(f)
           g == [i \in 1 .. n - 1 |-> [a \in Accs |-> Merge(v, a, i + 1)]]
<1>1. n \in Nat /\ n >= 1 /\ n - 1 \in Nat
  BY DEF Pos
<1>2. Len(v.dims) = n
  <2>1. v.dims \in [1 .. n -> Pos]
    BY DEF Ranked
  <2> QED BY <1>1, <2>1
<1>3. g \in [1 .. n - 1 -> [Accs -> Accs]]
  <2>1. ASSUME NEW i \in 1 .. n - 1, NEW a \in Accs PROVE Merge(v, a, i + 1) \in Accs
    <3>1. i + 1 \in 1 .. n
      BY <1>1
    <3> QED BY <1>1, <3>1, MergeIn
  <2> QED BY <2>1
<1>4. First(v) \in Accs
  BY FirstIn
<1>5. PICK e \in [0 .. n - 1 -> Accs] : Follows(e, n - 1, First(v), g)
  <2> HIDE DEF g
  <2> QED BY <1>1, <1>3, <1>4, Iterated
<1>6. e[0] = First(v) /\ \A i \in 1 .. n - 1 : e[i] = Merge(v, e[i - 1], i + 1)
  <2>1. ASSUME NEW i \in 1 .. n - 1 PROVE e[i] = Merge(v, e[i - 1], i + 1)
    <3>1. e[i] = g[i][e[i - 1]]
      BY <1>5 DEF Follows
    <3>2. e[i - 1] \in Accs
      BY <1>1
    <3> QED BY <3>1, <3>2
  <2> QED BY <1>5, <2>1 DEF Follows
<1> HIDE DEF g
<1> DEFINE d == [i \in 1 .. n |-> e[i - 1]]
<1>7. d = Rec(d)
  <2>1. ASSUME NEW i \in 1 .. n PROVE d[i] = IF i = 1 THEN First(v) ELSE Merge(v, d[i - 1], i)
    <3>1. CASE i = 1
      BY <1>6, <3>1
    <3>2. CASE i # 1
      <4>1. i - 1 \in 1 .. n - 1 /\ (i - 1) + 1 = i /\ i - 1 \in 1 .. n /\ (i - 1) - 1 \in 0 .. n - 1
        BY <1>1, <3>2
      <4>2. e[i - 1] = Merge(v, e[(i - 1) - 1], i)
        BY <1>6, <4>1
      <4>3. d[i] = e[i - 1] /\ d[i - 1] = e[(i - 1) - 1]
        BY <4>1
      <4> QED BY <3>2, <4>2, <4>3
    <3> QED BY <3>1, <3>2
  <2> QED BY <1>2, <2>1
<1>8. acc = Rec(acc)
  <2> HIDE DEF d
  <2>1. \E f : f = Rec(f)
    BY <1>7
  <2> HIDE DEF Rec
  <2> QED BY <2>1
<1>9. merge_dims(v) = acc[n].merged
  BY <1>2 DEF merge_dims
<1> HIDE DEF acc, d
<1>10. acc[1] = First(v) /\ \A i \in 2 .. n : acc[i] = Merge(v, acc[i - 1], i)
  <2>1. 1 \in 1 .. n /\ \A i \in 2 .. n : i \in 1 .. n /\ i # 1
    BY <1>1
  <2>2. \A i \in 1 .. n : acc[i] = IF i = 1 THEN First(v) ELSE Merge(v, acc[i - 1], i)
    BY <1>2, <1>8
  <2> QED BY <2>1, <2>2
<1> DEFINE G == {i \in 0 .. n - 1 : acc[i + 1] \in Accs /\ Merges(v, i + 1, acc[i + 1])}
<1>11. 0 \in G
  <2>1. Merges(v, 1, First(v))
    BY FirstMerges
  <2>2. 0 \in 0 .. n - 1 /\ 0 + 1 = 1
    BY <1>1
  <2> QED BY <1>4, <1>10, <2>1, <2>2
<1>12. ASSUME NEW i \in 1 .. n - 1, i - 1 \in G PROVE i \in G
  <2>1. i + 1 \in 2 .. n /\ i + 1 \in 1 .. n /\ (i + 1) - 1 = i /\ (i - 1) + 1 = i
    BY <1>1
  <2>2. acc[i] \in Accs /\ Merges(v, i, acc[i])
    BY <1>12, <2>1
  <2>3. acc[i + 1] = Merge(v, acc[i], i + 1)
    BY <1>10, <2>1
  <2>4. Merge(v, acc[i], i + 1) \in Accs
    BY <1>1, <2>1, <2>2, MergeIn
  <2>5. Merges(v, i + 1, Merge(v, acc[i], i + 1))
    BY <1>1, <2>1, <2>2, MergeMerges
  <2> QED BY <2>3, <2>4, <2>5
<1>13. G = 0 .. n - 1
  <2>1. G \subseteq 0 .. n - 1
    OBVIOUS
  <2> HIDE DEF G
  <2> QED BY <1>1, <2>1, <1>11, <1>12, AllAlong
<1>14. Merges(v, n, acc[n])
  <2>1. n - 1 \in 0 .. n - 1 /\ (n - 1) + 1 = n
    BY <1>1
  <2>2. n - 1 \in G
    <3> HIDE DEF G
    <3> QED BY <1>13, <2>1
  <2> QED BY <2>1, <2>2
<1> QED BY <1>9, <1>14 DEF Merges

-----------------------------------------------------------------------------
(* Cutting.                                                                 *)

LEMMA MaxIn ==
    ASSUME NEW p \in Nat, NEW S, S \subseteq 1 .. p, S # {}
    PROVE  Max(S) \in S /\ \A y \in S : Max(S) >= y
<1> DEFINE T == {p - x : x \in S}
<1>1. T \subseteq Nat /\ T # {}
  <2>1. \A x \in S : p - x \in Nat
    OBVIOUS
  <2>2. T \subseteq Nat
    BY <2>1
  <2>3. T # {}
    OBVIOUS
  <2> QED BY <2>2, <2>3
<1>2. PICK t \in T : \A u \in T : t <= u
  <2> HIDE DEF T
  <2> QED BY <1>1, Least
<1>3. PICK x \in S : t = p - x
  BY <1>2
<1>4. ASSUME NEW y \in S PROVE x >= y
  <2>1. p - y \in T
    OBVIOUS
  <2>2. p - x <= p - y
    BY <1>2, <1>3, <2>1
  <2> QED BY <2>2
<1>5. x \in S /\ \A y \in S : x >= y
  BY <1>3, <1>4
<1> HIDE DEF T
<1> QED BY <1>5 DEF Max

LEMMA CutFromIn ==
    ASSUME NEW p \in Nat, NEW dims, NEW size
    PROVE  CutFrom(dims, p, size) \in 1 .. p + 1
<1> DEFINE enough == {j \in 1 .. p : Block(dims, j, p) >= size}
<1>1. CutFrom(dims, p, size) = IF size = 1 THEN p + 1 ELSE IF enough = {} THEN 1 ELSE Max(enough)
  BY DEF CutFrom
<1>2. enough \subseteq 1 .. p
  OBVIOUS
<1> HIDE DEF enough
<1>3. enough # {} => Max(enough) \in 1 .. p
  BY <1>2, MaxIn
<1>4. p + 1 \in 1 .. p + 1 /\ 1 \in 1 .. p + 1 /\ 1 .. p \subseteq 1 .. p + 1
  OBVIOUS
<1> QED BY <1>1, <1>3, <1>4

\* The stride that cutting gives dimension j.
CutStride(dims, m, p, j) ==
    IF j < p /\ m.real > 0 /\ Block(dims, j + 1, p) >= m.real THEN 0 ELSE m.stride * Block(dims, j + 1, p)

\* Dimensions q to p are as many elements as group m.
Whole(n, dims, m, p, q) ==
    /\ dims \in [1 .. n -> Pos] /\ p \in 0 .. n /\ q \in 1 .. p + 1 /\ m \in Groups
    /\ m.real \in {0, m.size} /\ Block(dims, q, p) = m.size

\* One digit of a group.
LEMMA CutDigit ==
    ASSUME NEW n \in Nat, NEW dims, NEW m, NEW p, NEW q, Whole(n, dims, m, p, q),
           NEW k \in Nat, NEW x, x = k \div Inner(dims, p), NEW j \in q .. p
    PROVE  Coords(dims, k)[j] * CutStride(dims, m, p, j)
               = m.stride * ((x % Block(dims, j, p)) - (x % Block(dims, j + 1, p)))
<1>20. /\ dims \in [1 .. n -> Pos] /\ p \in 0 .. n /\ q \in 1 .. p + 1 /\ m \in Groups
       /\ m.real \in {0, m.size} /\ Block(dims, q, p) = m.size
  BY DEF Whole
<1> USE <1>20
<1>1. j \in 1 .. n /\ j \in 0 .. n /\ j \in 1 .. p /\ j \in 0 .. p /\ p \in 0 .. n /\ p \in Nat
  OBVIOUS
<1>2. PICK a \in Pos : a = dims[j]
  BY <1>1
<1>3. PICK b \in Pos : b = Block(dims, j + 1, p)
  <2>1. j + 1 \in 1 .. p + 1
    OBVIOUS
  <2> QED BY <2>1, BlockStep
<1>4. PICK I \in Pos : I = Inner(dims, p)
  BY <1>1, Inners
<1>5. Block(dims, j, p) = a * b
  BY <1>1, <1>2, <1>3, BlockStep
<1>6. Inner(dims, j) = b * I
  <2>1. Inner(dims, j) = Block(dims, j + 1, n) /\ Inner(dims, p) = Block(dims, p + 1, n)
    BY <1>1, Inners
  <2>2. n \in 0 .. n /\ j + 1 \in 1 .. p + 1
    OBVIOUS
  <2>3. Block(dims, j + 1, n) = Block(dims, j + 1, p) * Block(dims, p + 1, n)
    BY <2>2, BlockSplits
  <2> QED BY <1>3, <1>4, <2>1, <2>3
<1>7. x \in Nat
  BY <1>4, Division
<1>8. k \div Inner(dims, j) = x \div b
  <2>1. (k \div I) \div b = k \div (b * I)
    BY DivTwice
  <2> QED BY <1>4, <1>6, <2>1
<1>9. x \div b \in Nat
  BY <1>7, Division
<1>10. PICK y \in Nat : y = (x \div b) % a /\ y < a
  BY <1>9, Division
<1>11. Coords(dims, k)[j] = y
  <2>1. Coords(dims, k)[j] = (k \div Inner(dims, j)) % dims[j]
    BY <1>1, CoordsIn
  <2> QED BY <1>2, <1>8, <1>10, <2>1
<1>12. PICK z \in Nat : z = x % b
  BY <1>7, Division
<1>13. x % (a * b) = b * y + z
  BY <1>7, <1>10, <1>12, DivTwice
<1>14. PICK s \in Int : s = m.stride
  BY DEF Groups
<1>15. m.stride * ((x % Block(dims, j, p)) - (x % Block(dims, j + 1, p))) = y * (s * b)
  <2>1. ASSUME NEW c \in Nat PROVE s * ((c * y + z) - z) = y * (s * c)
    <3>1. (c * y + z) - z = c * y
      OBVIOUS
    <3>2. s * (c * y) = y * (s * c)
      OBVIOUS
    <3> QED BY <3>1, <3>2
  <2>2. s * ((b * y + z) - z) = y * (s * b)
    BY <2>1 DEF Pos
  <2> QED BY <1>3, <1>5, <1>12, <1>13, <1>14, <2>2
<1>16. CASE j < p /\ m.real > 0 /\ Block(dims, j + 1, p) >= m.real
  <2>1. m.real = m.size
    BY <1>16
  <2>2. j - 1 \in 0 .. j /\ q \in 1 .. (j - 1) + 1 /\ (j - 1) + 1 = j /\ q \in 1 .. j + 1
    OBVIOUS
  <2>3. Block(dims, q, p) = Block(dims, q, j) * b
    BY <1>1, <1>3, <2>2, BlockSplits
  <2>4. Block(dims, q, j) = Block(dims, q, j - 1) * Block(dims, j, j)
    BY <1>1, <2>2, BlockSplits
  <2>5. Block(dims, j, j) = a * Block(dims, j + 1, j) /\ Block(dims, j + 1, j) = 1
    <3>1. j \in 1 .. j
      BY <1>1
    <3> QED BY <1>1, <1>2, <3>1, BlockStep
  <2>6. PICK c \in Pos : c = Block(dims, q, j - 1)
    <3>1. j - 1 \in 0 .. n
      BY <1>1
    <3> QED BY <2>2, <3>1, BlockStep
  <2>7. Block(dims, q, j) = c * a /\ c * a \in Pos
    BY <2>4, <2>5, <2>6 DEF Pos
  <2>8. b >= (c * a) * b
    BY <1>3, <1>16, <2>1, <2>3, <2>7
  <2>9. a = 1
    <3>1. PICK w \in Pos : w = c * a
      BY <2>7
    <3>2. b >= w * b
      BY <2>8, <3>1
    <3>3. CASE w = 1
      <4>1. a <= c * a
        BY DEF Pos
      <4> QED BY <3>1, <3>3, <4>1 DEF Pos
    <3>4. CASE w # 1
      <4>1. PICK u \in Nat : w = u + 2
        <5>1. w - 2 \in Nat /\ w = (w - 2) + 2
          BY <3>4 DEF Pos
        <5> QED BY <5>1
      <4>2. w * b = u * b + 2 * b /\ u * b \in Nat
        BY <4>1 DEF Pos
      <4> QED BY <3>2, <4>2 DEF Pos
    <3> QED BY <3>3, <3>4
  <2>10. y = 0
    BY <1>10, <2>9
  <2>11. CutStride(dims, m, p, j) = 0
    BY <1>16 DEF CutStride
  <2>12. s * b \in Int
    BY DEF Pos
  <2>13. y * (s * b) = 0
    BY <2>10, <2>12
  <2> QED BY <1>11, <1>15, <2>10, <2>11, <2>13
<1>17. CASE ~(j < p /\ m.real > 0 /\ Block(dims, j + 1, p) >= m.real)
  <2>1. CutStride(dims, m, p, j) = s * b
    BY <1>3, <1>14, <1>17 DEF CutStride
  <2> QED BY <1>11, <1>15, <2>1
<1> QED BY <1>16, <1>17

\* All digits of a group together count its turns.
Digits(n, dims, m, p, q, k, d) ==
    \A j \in 1 .. n : d[j] = IF j \in q .. p THEN Coords(dims, k)[j] * CutStride(dims, m, p, j) ELSE 0

LEMMA CutTurns ==
    ASSUME NEW n \in Nat, NEW dims, NEW m, NEW p, NEW q, Whole(n, dims, m, p, q),
           NEW k \in Nat, NEW d \in [1 .. n -> Int], Digits(n, dims, m, p, q, k, d)
    PROVE  Total(d) = ((k \div Inner(dims, p)) % m.size) * m.stride
<1>20. /\ dims \in [1 .. n -> Pos] /\ p \in 0 .. n /\ q \in 1 .. p + 1 /\ m \in Groups
       /\ m.real \in {0, m.size} /\ Block(dims, q, p) = m.size
  BY DEF Whole
<1> USE <1>20
<1>1. PICK x \in Nat : x = k \div Inner(dims, p)
  <2>1. Inner(dims, p) \in Pos
    BY Inners
  <2> QED BY <2>1, Division
<1>2. \A j \in 1 .. p + 1 : Block(dims, j, p) \in Pos
  BY BlockStep
<1>3. \A j \in 1 .. p + 1 : x % Block(dims, j, p) \in Nat
  BY <1>1, <1>2, Division
<1>4. PICK s \in Int : s = m.stride
  BY DEF Groups
<1>5. PICK y \in Nat : y = x % m.size
  BY <1>3
<1>19. \A j \in 1 .. n : d[j] = IF j \in q .. p THEN Coords(dims, k)[j] * CutStride(dims, m, p, j) ELSE 0
  BY DEF Digits
<1> DEFINE D(t) == s * (y - (x % Block(dims, t + 1, p)))
           S == [t \in 0 .. n |-> IF t < q - 1 THEN 0 ELSE IF t <= p THEN D(t) ELSE s * y]
<1>6. \A t \in q - 1 .. p : D(t) \in Int
  <2> TAKE t \in q - 1 .. p
  <2>1. t + 1 \in 1 .. p + 1
    OBVIOUS
  <2>2. PICK z \in Nat : z = x % Block(dims, t + 1, p)
    BY <1>3, <2>1
  <2>3. s * (y - z) \in Int
    OBVIOUS
  <2> QED BY <2>2, <2>3
<1>7. D(q - 1) = 0
  <2>1. (q - 1) + 1 = q
    OBVIOUS
  <2>2. x % Block(dims, q, p) = y
    BY <1>5
  <2>3. s * (y - y) = 0
    OBVIOUS
  <2> QED BY <2>1, <2>2, <2>3
<1>8. D(p) = s * y
  <2>1. Block(dims, p + 1, p) = 1
    BY BlockStep
  <2>2. x % 1 = 0
    OBVIOUS
  <2>3. s * (y - 0) = s * y
    OBVIOUS
  <2> QED BY <2>1, <2>2, <2>3
<1>9. ASSUME NEW j \in q .. p PROVE d[j] = D(j) - D(j - 1)
  <2>1. j \in 1 .. n /\ j \in 1 .. p + 1 /\ j + 1 \in 1 .. p + 1 /\ (j - 1) + 1 = j
    OBVIOUS
  <2>2. d[j] = Coords(dims, k)[j] * CutStride(dims, m, p, j)
    BY <1>19, <2>1
  <2>3. d[j] = s * ((x % Block(dims, j, p)) - (x % Block(dims, j + 1, p)))
    BY <1>1, <1>4, <2>2, CutDigit
  <2>4. PICK u \in Nat : u = x % Block(dims, j, p)
    BY <1>3, <2>1
  <2>5. PICK w \in Nat : w = x % Block(dims, j + 1, p)
    BY <1>3, <2>1
  <2>6. s * (u - w) = s * (y - w) - s * (y - u)
    OBVIOUS
  <2> QED BY <2>1, <2>3, <2>4, <2>5, <2>6
<1>10. s * y \in Int
  OBVIOUS
<1> HIDE DEF D
<1>11. \A t \in 0 .. n : S[t] = IF t < q - 1 THEN 0 ELSE IF t <= p THEN D(t) ELSE s * y
  OBVIOUS
<1>12. S \in [0 .. n -> Int]
  <2>1. ASSUME NEW t \in 0 .. n PROVE (IF t < q - 1 THEN 0 ELSE IF t <= p THEN D(t) ELSE s * y) \in Int
    <3>1. ~(t < q - 1) /\ t <= p => t \in q - 1 .. p
      OBVIOUS
    <3> QED BY <1>6, <1>10, <3>1
  <2> QED BY <2>1
<1> HIDE DEF S
<1>13. S[0] = 0
  <2>1. 0 \in 0 .. n
    OBVIOUS
  <2>2. CASE 0 < q - 1
    BY <1>11, <2>1, <2>2
  <2>3. CASE ~(0 < q - 1)
    <3>1. q - 1 = 0 /\ 0 <= p
      BY <2>3
    <3> QED BY <1>7, <1>11, <2>1, <3>1
  <2> QED BY <2>2, <2>3
<1>14. S[n] = s * y
  <2>1. n \in 0 .. n
    OBVIOUS
  <2>2. CASE n <= p
    <3>1. n = p /\ ~(n < q - 1)
      BY <2>2
    <3> QED BY <1>8, <1>11, <2>1, <3>1
  <2>3. CASE ~(n <= p)
    <3>1. ~(n < q - 1)
      BY <2>3
    <3> QED BY <1>11, <2>1, <2>3, <3>1
  <2> QED BY <2>2, <2>3
<1>15. ASSUME NEW t \in 1 .. n PROVE S[t] = S[t - 1] + d[t]
  <2>1. t \in 0 .. n /\ t - 1 \in 0 .. n
    OBVIOUS
  <2>2. CASE t < q
    <3>1. t \notin q .. p /\ t - 1 < q - 1
      BY <2>2
    <3>2. d[t] = 0 /\ S[t - 1] = 0
      BY <1>11, <1>19, <2>1, <3>1
    <3>3. S[t] = 0
      <4>1. CASE t < q - 1
        BY <1>11, <2>1, <4>1
      <4>2. CASE ~(t < q - 1)
        <5>1. t = q - 1 /\ t <= p
          BY <2>2, <4>2
        <5> QED BY <1>7, <1>11, <2>1, <5>1
      <4> QED BY <4>1, <4>2
    <3> QED BY <3>2, <3>3
  <2>3. CASE t \in q .. p
    <3>1. ~(t < q - 1) /\ t <= p /\ ~(t - 1 < q - 1) /\ t - 1 <= p /\ t \in q - 1 .. p /\ t - 1 \in q - 1 .. p
      BY <2>3
    <3>2. S[t] = D(t) /\ S[t - 1] = D(t - 1)
      BY <1>11, <2>1, <3>1
    <3>3. D(t) \in Int /\ D(t - 1) \in Int
      BY <1>6, <3>1
    <3>4. d[t] = D(t) - D(t - 1)
      BY <1>9, <2>3
    <3> QED BY <3>2, <3>3, <3>4
  <2>4. CASE t > p /\ ~(t < q)
    <3>1. t \notin q .. p /\ ~(t < q - 1) /\ ~(t <= p) /\ ~(t - 1 < q - 1)
      BY <2>4
    <3>2. d[t] = 0 /\ S[t] = s * y
      BY <1>11, <1>19, <2>1, <3>1
    <3>3. S[t - 1] = s * y
      <4>1. CASE t - 1 <= p
        <5>1. t - 1 = p
          BY <2>4, <4>1
        <5> QED BY <1>8, <1>11, <2>1, <3>1, <4>1, <5>1
      <4>2. CASE ~(t - 1 <= p)
        BY <1>11, <2>1, <3>1, <4>2
      <4> QED BY <4>1, <4>2
    <3> QED BY <1>10, <3>2, <3>3
  <2>5. t < q \/ t \in q .. p \/ (t > p /\ ~(t < q))
    OBVIOUS
  <2> QED BY <2>2, <2>3, <2>4, <2>5
<1>16. Sums(S, n, d)
  BY <1>12, <1>13, <1>15 DEF Sums
<1>17. Total(d) = s * y
  BY <1>14, <1>16, TotalIs
<1>18. s * y = y * s
  OBVIOUS
<1> QED BY <1>1, <1>4, <1>5, <1>17, <1>18

\* The groups from l on, and what the new coordinates of k are worth.
Inward(K, m, B, k, l) == Total([j \in 1 .. K |-> IF j >= l THEN Turn(m, B, k, j) ELSE 0])
Reach(dims, strides, k) == Total([j \in DOMAIN dims |-> Coords(dims, k)[j] * strides[j]])

LEMMA InwardStep ==
    ASSUME NEW K \in Nat, NEW m \in [1 .. K -> Groups], NEW B \in [0 .. K -> Pos], NEW k \in Nat, NEW l \in 1 .. K
    PROVE  /\ Inward(K, m, B, k, l) = Inward(K, m, B, k, l + 1) + Turn(m, B, k, l)
           /\ Inward(K, m, B, k, l + 1) \in Int
<1> DEFINE a == [j \in 1 .. K |-> IF j >= l + 1 THEN Turn(m, B, k, j) ELSE 0]
           b == [j \in 1 .. K |-> IF j >= l THEN Turn(m, B, k, j) ELSE 0]
<1>1. \A j \in 1 .. K : Turn(m, B, k, j) \in Int
  BY TurnInt
<1>2. a \in [1 .. K -> Int] /\ b \in [1 .. K -> Int]
  BY <1>1
<1>3. PICK x \in Int : x = Turn(m, B, k, l)
  BY <1>1
<1>4. \A j \in 1 .. K : b[j] = IF j = l THEN x ELSE a[j]
  <2> TAKE j \in 1 .. K
  <2>1. CASE j = l
    BY <1>3, <2>1
  <2>2. CASE j # l
    BY <2>2
  <2> QED BY <2>1, <2>2
<1>5. a[l] = 0
  OBVIOUS
<1>6. Inward(K, m, B, k, l) = Total(b) /\ Inward(K, m, B, k, l + 1) = Total(a)
  BY DEF Inward
<1> HIDE DEF a, b
<1>7. Total(b) = Total(a) + (x - a[l])
  BY <1>2, <1>4, TotalChanged
<1>8. Total(a) \in Int
  BY <1>2, TotalInt
<1> QED BY <1>3, <1>5, <1>6, <1>7, <1>8

\* a has, dimension by dimension, what the coordinates of k are worth.
Terms(n, dims, strides, k, a) == \A j \in 1 .. n : a[j] = Coords(dims, k)[j] * strides[j]

LEMMA ReachIs ==
    ASSUME NEW n \in Nat, NEW dims \in [1 .. n -> Pos], NEW strides \in [1 .. n -> Int], NEW k \in Nat
    PROVE  \E a \in [1 .. n -> Int] : /\ Terms(n, dims, strides, k, a)
                                     /\ Reach(dims, strides, k) = Total(a)
                                     /\ Total(a) \in Int
<1> DEFINE a == [j \in 1 .. n |-> Coords(dims, k)[j] * strides[j]]
<1>1. Coords(dims, k) \in [1 .. n -> Nat]
  BY CoordsIn
<1>2. \A j \in 1 .. n : Coords(dims, k)[j] * strides[j] \in Int
  BY <1>1
<1>3. a \in [1 .. n -> Int] /\ Terms(n, dims, strides, k, a)
  BY <1>2 DEF Terms
<1>4. Reach(dims, strides, k) = Total(a)
  BY DEF Reach
<1> HIDE DEF a
<1>5. Total(a) \in Int
  BY <1>3, TotalInt
<1> QED BY <1>3, <1>4, <1>5

\* s is o with the strides of q to p, which had none, given by group g.
Strided(n, dims, g, p, q, o, s) ==
    /\ \A j \in 1 .. p : o[j] = 0
    /\ \A j \in 1 .. n : s[j] = IF j \in q .. p THEN CutStride(dims, g, p, j) ELSE o[j]

LEMMA CutReach ==
    ASSUME NEW n \in Nat, NEW dims \in [1 .. n -> Pos], NEW p \in 0 .. n, NEW q \in 1 .. p + 1,
           NEW g \in Groups, g.real \in {0, g.size}, Block(dims, q, p) = g.size,
           NEW o \in [1 .. n -> Int], NEW s \in [1 .. n -> Int],
           Strided(n, dims, g, p, q, o, s), NEW k \in Nat
    PROVE  /\ Reach(dims, s, k) = Reach(dims, o, k) + ((k \div Inner(dims, p)) % g.size) * g.stride
           /\ Reach(dims, o, k) \in Int
<1>1. PICK x \in [1 .. n -> Int] : /\ Terms(n, dims, s, k, x)
                                   /\ Reach(dims, s, k) = Total(x)
                                   /\ Total(x) \in Int
  BY ReachIs
<1>2. PICK y \in [1 .. n -> Int] : /\ Terms(n, dims, o, k, y)
                                   /\ Reach(dims, o, k) = Total(y)
                                   /\ Total(y) \in Int
  BY ReachIs
<1>3. Coords(dims, k) \in [1 .. n -> Nat]
  BY CoordsIn
<1> DEFINE d == [j \in 1 .. n |-> IF j \in q .. p THEN Coords(dims, k)[j] * CutStride(dims, g, p, j) ELSE 0]
<1>4. d \in [1 .. n -> Int]
  <2>1. ASSUME NEW j \in 1 .. n
        PROVE  (IF j \in q .. p THEN Coords(dims, k)[j] * CutStride(dims, g, p, j) ELSE 0) \in Int
    <3>1. CASE j \in q .. p
      <4>1. s[j] \in Int /\ s[j] = CutStride(dims, g, p, j) /\ Coords(dims, k)[j] \in Nat
        BY <1>3, <3>1 DEF Strided
      <4> QED BY <3>1, <4>1
    <3> QED BY <3>1
  <2> QED BY <2>1
<1>5. Digits(n, dims, g, p, q, k, d)
  BY DEF Digits
<1>9. \A j \in 1 .. n : j \notin q .. p => d[j] = 0
  OBVIOUS
<1> HIDE DEF d
<1>6. ASSUME NEW j \in 1 .. n PROVE x[j] = y[j] + d[j]
  <2>1. CASE j \in q .. p
    <3>1. j \in 1 .. p
      BY <2>1
    <3>2. o[j] = 0 /\ s[j] = CutStride(dims, g, p, j)
      BY <2>1, <3>1 DEF Strided
    <3>3. PICK c \in Nat : c = Coords(dims, k)[j]
      BY <1>3
    <3>4. y[j] = c * 0
      BY <1>2, <3>2, <3>3 DEF Terms
    <3>5. x[j] = d[j] /\ d[j] \in Int
      BY <1>1, <1>4, <1>5, <2>1, <3>2 DEF Digits, Terms
    <3> QED BY <3>4, <3>5
  <2>2. CASE j \notin q .. p
    <3>1. s[j] = o[j] /\ d[j] = 0
      BY <1>9, <2>2 DEF Strided
    <3>2. x[j] = y[j] /\ y[j] \in Int
      BY <1>1, <1>2, <3>1 DEF Terms
    <3> QED BY <3>1, <3>2
  <2> QED BY <2>1, <2>2
<1>7. Total(x) = Total(y) + Total(d)
  <2>1. Added(n, y, d, x)
    BY <1>4, <1>6 DEF Added
  <2> QED BY <2>1, TotalAdds
<1>8. Total(d) = ((k \div Inner(dims, p)) % g.size) * g.stride
  <2>1. Whole(n, dims, g, p, q)
    BY DEF Whole
  <2> QED BY <1>4, <1>5, <2>1, CutTurns
<1> QED BY <1>1, <1>2, <1>7, <1>8

\* Every group ends where a new dimension ends.
Cuttable(n, dims, K, B) == \A j \in 0 .. K : \E t \in 0 .. n : B[j] = Inner(dims, t)

\* While cutting: groups from l on are done.
Cutting(n, dims, K, m, B, l, a) ==
    /\ a.at \in 0 .. n /\ a.strides \in [1 .. n -> Int] /\ a.ok \in BOOLEAN
    /\ Cuttable(n, dims, K, B) => a.ok
    /\ \A j \in 1 .. a.at : a.strides[j] = 0
    /\ a.ok => /\ Inner(dims, a.at) = B[l - 1]
               /\ \A k \in Nat : Reach(dims, a.strides, k) = Inward(K, m, B, k, l)

LEMMA CutFits ==
    ASSUME NEW n \in Nat, NEW dims \in [1 .. n -> Pos], NEW p \in 0 .. n, NEW t \in 0 .. n, NEW size \in Pos,
           Inner(dims, t) = Inner(dims, p) * size
    PROVE  Block(dims, CutFrom(dims, p, size), p) = size
<1>1. CASE size = 1
  <2>1. CutFrom(dims, p, size) = p + 1
    BY <1>1 DEF CutFrom
  <2> QED BY <1>1, <2>1, BlockStep
<1>2. CASE size # 1
  <2> DEFINE enough == {j \in 1 .. p : Block(dims, j, p) >= size}
  <2>1. CutFrom(dims, p, size) = IF enough = {} THEN 1 ELSE Max(enough)
    BY <1>2 DEF CutFrom
  <2>2. enough \subseteq 1 .. p /\ \A j \in enough : Block(dims, j, p) >= size
    OBVIOUS
  <2>3. PICK I \in Pos : I = Inner(dims, p)
    BY Inners
  <2>4. PICK J \in Pos : J = Inner(dims, t)
    BY Inners
  <2>5. J = I * size
    BY <2>3, <2>4
  <2>6. J > I
    <3>1. ASSUME NEW x \in Pos, NEW y \in Nat PROVE x * (y + 2) > x
      <4>1. x * (y + 2) = x * y + 2 * x /\ x * y \in Nat
        BY DEF Pos
      <4> QED BY <4>1 DEF Pos
    <3>2. PICK y \in Nat : size = y + 2
      <4>1. size - 2 \in Nat /\ size = (size - 2) + 2
        BY <1>2 DEF Pos
      <4> QED BY <4>1
    <3> QED BY <2>5, <3>1, <3>2
  <2>7. n \in 0 .. n /\ p \in Nat /\ t \in Nat /\ p \in 0 .. n
    OBVIOUS
  <2>8. t < p
    <3>1. ASSUME ~(t < p) PROVE FALSE
      <4>1. p + 1 \in 1 .. n + 1 /\ t + 1 \in p + 1 .. n + 1
        BY <3>1
      <4>2. Block(dims, t + 1, n) <= Block(dims, p + 1, n)
        BY <2>7, <4>1, BlockShrinks
      <4>3. J <= I
        BY <2>3, <2>4, <4>2, Inners
      <4> QED BY <2>6, <4>3 DEF Pos
    <3> QED BY <3>1
  <2>9. Block(dims, t + 1, p) = size
    <3>1. t + 1 \in 1 .. p + 1
      BY <2>8
    <3>2. Block(dims, t + 1, n) = Block(dims, t + 1, p) * Block(dims, p + 1, n)
      BY <2>7, <3>1, BlockSplits
    <3>3. PICK b \in Pos : b = Block(dims, t + 1, p)
      BY <3>1, BlockStep
    <3>4. J = b * I
      BY <2>3, <2>4, <3>2, <3>3, Inners
    <3>5. ASSUME NEW x \in Pos, NEW y \in Pos, NEW z \in Pos, x * y = z * x PROVE z = y
      <4>1. z * x = x * z
        BY DEF Pos
      <4>2. x * z = x * y
        BY <3>5, <4>1
      <4> QED BY <4>2 DEF Pos
    <3> QED BY <2>5, <3>3, <3>4, <3>5
  <2>10. t + 1 \in enough
    <3>1. t + 1 \in 1 .. p /\ size >= size
      BY <2>8 DEF Pos
    <3> QED BY <2>9, <3>1
  <2> HIDE DEF enough
  <2>11. PICK j \in enough : j = Max(enough) /\ j >= t + 1
    <3>1. enough # {} /\ p \in Nat
      BY <2>10
    <3>2. Max(enough) \in enough /\ \A y \in enough : Max(enough) >= y
      BY <2>2, <3>1, MaxIn
    <3> QED BY <2>10, <3>2
  <2>12. t + 1 \in 1 .. p + 1 /\ j \in t + 1 .. p + 1 /\ j \in 1 .. p + 1
    BY <2>2, <2>8, <2>11
  <2>13. Block(dims, j, p) <= Block(dims, t + 1, p)
    BY <2>7, <2>12, BlockShrinks
  <2>14. Block(dims, j, p) >= size /\ Block(dims, j, p) \in Pos
    BY <2>2, <2>12, BlockStep
  <2>15. Block(dims, j, p) = size
    BY <2>9, <2>13, <2>14 DEF Pos
  <2> QED BY <2>1, <2>10, <2>11, <2>15
<1> QED BY <1>1, <1>2

LEMMA CutStep ==
    ASSUME NEW n \in Nat, NEW dims \in [1 .. n -> Pos], NEW K \in Nat,
           NEW m \in [1 .. K -> Groups], NEW B \in [0 .. K -> Pos], NEW l \in 1 .. K,
           B[l - 1] = B[l] * m[l].size, m[l].real \in {0, m[l].size},
           NEW a, Cutting(n, dims, K, m, B, l + 1, a)
    PROVE  Cutting(n, dims, K, m, B, l, CutOne(dims, m[l], a))
<1> DEFINE w == CutOne(dims, m[l], a)
<1>1. PICK p \in 0 .. n : p = a.at
  BY DEF Cutting
<1>2. PICK q \in 1 .. p + 1 : q = CutFrom(dims, p, m[l].size)
  BY CutFromIn
<1>3. PICK g \in Groups : g = m[l]
  OBVIOUS
<1>4. /\ w.ok = (a.ok /\ Block(dims, q, p) = g.size) /\ w.at = q - 1
      /\ w.strides = [j \in 1 .. n |-> IF j \in q .. p THEN CutStride(dims, g, p, j) ELSE a.strides[j]]
  BY <1>1, <1>2, <1>3 DEF CutOne, CutStride
<1> HIDE DEF w
<1>5. g.size \in Pos /\ g.stride \in Int /\ g.real \in Nat
  BY DEF Groups
<1>6. a.strides \in [1 .. n -> Int] /\ \A j \in 1 .. p : a.strides[j] = 0
  BY <1>1 DEF Cutting
<1>7. ASSUME NEW j \in q .. p PROVE CutStride(dims, g, p, j) \in Int
  <2>1. j + 1 \in 1 .. p + 1
    OBVIOUS
  <2>2. Block(dims, j + 1, p) \in Pos
    BY <2>1, BlockStep
  <2>3. g.stride * Block(dims, j + 1, p) \in Int
    BY <1>5, <2>2 DEF Pos
  <2> QED BY <2>3 DEF CutStride
<1>8. w.strides \in [1 .. n -> Int] /\ \A j \in 1 .. n : w.strides[j] = IF j \in q .. p THEN CutStride(dims, g, p, j) ELSE a.strides[j]
  BY <1>4, <1>6, <1>7
<1>9. w.at \in 0 .. n
  BY <1>4
<1>10. ASSUME NEW j \in 1 .. w.at PROVE w.strides[j] = 0
  <2>1. j \in 1 .. n /\ j \notin q .. p /\ j \in 1 .. p
    BY <1>4
  <2> QED BY <1>6, <1>8, <2>1
<1>11. w.ok \in BOOLEAN
  BY <1>4
<1>12. ASSUME w.ok
       PROVE  /\ Inner(dims, w.at) = B[l - 1]
              /\ \A k \in Nat : Reach(dims, w.strides, k) = Inward(K, m, B, k, l)
  <2>1. a.ok /\ Block(dims, q, p) = g.size
    BY <1>4, <1>12
  <2>2. Inner(dims, p) = B[l] /\ \A k \in Nat : Reach(dims, a.strides, k) = Inward(K, m, B, k, l + 1)
    <3>1. (l + 1) - 1 = l
      OBVIOUS
    <3> QED BY <1>1, <2>1, <3>1 DEF Cutting
  <2>3. B[l] \in Pos
    <3>1. l \in 0 .. K
      OBVIOUS
    <3> QED BY <3>1
  <2>4. Inner(dims, q - 1) = B[l - 1]
    <3>1. q - 1 \in 0 .. n /\ (q - 1) + 1 = q /\ n \in 0 .. n /\ p \in 0 .. n
      OBVIOUS
    <3>2. Inner(dims, q - 1) = Block(dims, q, n) /\ Inner(dims, p) = Block(dims, p + 1, n)
      BY <3>1, Inners
    <3>3. Block(dims, q, n) = Block(dims, q, p) * Block(dims, p + 1, n)
      BY <3>1, BlockSplits
    <3>4. B[l - 1] = B[l] * g.size
      BY <1>3
    <3>5. B[l] * g.size = g.size * B[l]
      BY <1>5, <2>3 DEF Pos
    <3> QED BY <2>1, <2>2, <3>2, <3>3, <3>4, <3>5
  <2>6. PICK s \in [1 .. n -> Int] : s = w.strides
    BY <1>8
  <2>7. PICK o \in [1 .. n -> Int] : o = a.strides
    BY <1>6
  <2>5. ASSUME NEW k \in Nat PROVE Reach(dims, w.strides, k) = Inward(K, m, B, k, l)
    <3>1. /\ Reach(dims, s, k) = Reach(dims, o, k) + ((k \div Inner(dims, p)) % g.size) * g.stride
          /\ Reach(dims, o, k) \in Int
      <4>1. g.real \in {0, g.size}
        BY <1>3
      <4>2. Strided(n, dims, g, p, q, o, s)
        BY <1>6, <1>8, <2>6, <2>7 DEF Strided
      <4> QED BY <2>1, <4>1, <4>2, CutReach
    <3>9. Turn(m, B, k, l) = ((k \div Inner(dims, p)) % g.size) * g.stride
      BY <1>3, <2>2 DEF Turn
    <3>10. Inward(K, m, B, k, l) = Inward(K, m, B, k, l + 1) + Turn(m, B, k, l)
      BY InwardStep
    <3> QED BY <2>2, <2>6, <2>7, <3>1, <3>9, <3>10
  <2> QED BY <1>4, <2>4, <2>5
<1>13. ASSUME Cuttable(n, dims, K, B) PROVE w.ok
  <2>1. a.ok /\ Inner(dims, p) = B[l]
    <3>1. (l + 1) - 1 = l
      OBVIOUS
    <3> QED BY <1>1, <1>13, <3>1 DEF Cutting
  <2>2. l - 1 \in 0 .. K
    OBVIOUS
  <2>3. PICK t \in 0 .. n : B[l - 1] = Inner(dims, t)
    BY <1>13, <2>2 DEF Cuttable
  <2>4. Inner(dims, t) = Inner(dims, p) * g.size
    BY <1>3, <2>1, <2>3
  <2>5. Block(dims, q, p) = g.size
    BY <1>2, <1>3, <1>5, <2>4, CutFits
  <2> QED BY <1>4, <2>1, <2>5
<1> QED BY <1>8, <1>9, <1>10, <1>11, <1>12, <1>13 DEF Cutting, w

\* What cutting goes through.
Cuts(n) == [ok : BOOLEAN, at : 0 .. n, strides : [1 .. n -> Int]]

LEMMA CutIn ==
    ASSUME NEW n \in Nat, NEW dims \in [1 .. n -> Pos], NEW g \in Groups, NEW a \in Cuts(n)
    PROVE  CutOne(dims, g, a) \in Cuts(n)
<1>1. PICK p \in 0 .. n : p = a.at
  BY DEF Cuts
<1>2. PICK q \in 1 .. p + 1 : q = CutFrom(dims, p, g.size)
  BY CutFromIn
<1>3. g.stride \in Int
  BY DEF Groups
<1>4. ASSUME NEW j \in q .. p PROVE CutStride(dims, g, p, j) \in Int
  <2>1. j + 1 \in 1 .. p + 1
    OBVIOUS
  <2>2. Block(dims, j + 1, p) \in Pos
    BY <2>1, BlockStep
  <2>3. g.stride * Block(dims, j + 1, p) \in Int
    BY <1>3, <2>2 DEF Pos
  <2> QED BY <2>3 DEF CutStride
<1>5. a.strides \in [1 .. n -> Int] /\ a.ok \in BOOLEAN
  BY DEF Cuts
<1> DEFINE s == [j \in 1 .. n |-> IF j \in q .. p THEN CutStride(dims, g, p, j) ELSE a.strides[j]]
<1>6. s \in [1 .. n -> Int]
  BY <1>4, <1>5
<1>7. CutOne(dims, g, a) = [ok |-> a.ok /\ Block(dims, q, p) = g.size, at |-> q - 1, strides |-> s]
  BY <1>1, <1>2 DEF CutOne, CutStride
<1> HIDE DEF s
<1>8. q - 1 \in 0 .. n /\ (a.ok /\ Block(dims, q, p) = g.size) \in BOOLEAN
  OBVIOUS
<1> QED BY <1>6, <1>7, <1>8 DEF Cuts

LEMMA CuttingStarts ==
    ASSUME NEW n \in Nat, NEW dims \in [1 .. n -> Pos], NEW K \in Nat,
           NEW m \in [1 .. K -> Groups], NEW B \in [0 .. K -> Pos], B[K] = 1,
           NEW a \in Cuts(n), a = [ok |-> TRUE, at |-> n, strides |-> [j \in 1 .. n |-> 0]]
    PROVE  Cutting(n, dims, K, m, B, K + 1, a)
<1>1. a.ok = TRUE /\ a.at = n /\ \A j \in 1 .. n : a.strides[j] = 0
  OBVIOUS
<1>2. a.strides \in [1 .. n -> Int] /\ a.at \in 0 .. n
  BY DEF Cuts
<1>3. Inner(dims, n) = B[(K + 1) - 1]
  <2>1. (K + 1) - 1 = K
    OBVIOUS
  <2> QED BY <2>1, Inners
<1>4. ASSUME NEW k \in Nat PROVE Reach(dims, a.strides, k) = 0
  <2>1. PICK o \in [1 .. n -> Int] : o = a.strides
    BY <1>2
  <2>2. PICK x \in [1 .. n -> Int] : /\ Terms(n, dims, o, k, x)
                                     /\ Reach(dims, o, k) = Total(x)
                                     /\ Total(x) \in Int
    BY ReachIs
  <2>3. Coords(dims, k) \in [1 .. n -> Nat]
    BY CoordsIn
  <2>4. ASSUME NEW j \in 1 .. n PROVE x[j] = 0
    <3>1. PICK c \in Nat : c = Coords(dims, k)[j]
      BY <2>3
    <3>2. x[j] = c * 0
      BY <1>1, <2>1, <2>2, <3>1 DEF Terms
    <3> QED BY <3>2
  <2>5. x = [j \in 1 .. n |-> 0]
    BY <2>4
  <2>6. Total(x) = 0
    BY <2>5, TotalZero
  <2> QED BY <2>1, <2>2, <2>6
<1>5. ASSUME NEW k \in Nat PROVE Inward(K, m, B, k, K + 1) = 0
  <2> DEFINE z == [j \in 1 .. K |-> IF j >= K + 1 THEN Turn(m, B, k, j) ELSE 0]
  <2>1. z = [j \in 1 .. K |-> 0]
    OBVIOUS
  <2>2. Inward(K, m, B, k, K + 1) = Total(z)
    BY DEF Inward
  <2> HIDE DEF z
  <2> QED BY <2>1, <2>2, TotalZero
<1> QED BY <1>1, <1>2, <1>3, <1>4, <1>5 DEF Cutting

\* Whatever is cut from all groups reaches what the groups are worth.
LEMMA CutsAll ==
    ASSUME NEW n \in Nat, NEW dims \in [1 .. n -> Pos], NEW K \in Nat,
           NEW m \in [1 .. K -> Groups], NEW B \in [0 .. K -> Pos], B[K] = 1,
           \A j \in 1 .. K : B[j - 1] = B[j] * m[j].size /\ m[j].real \in {0, m[j].size}
    PROVE  Cutting(n, dims, K, m, B, 1, Cut(dims, m))
<1> DEFINE start == [ok |-> TRUE, at |-> n, strides |-> [j \in 1 .. n |-> 0]]
           Rec(f) == [i \in 1 .. Len(m) + 1 |->
                        IF i > Len(m) THEN [ok |-> TRUE, at |-> Len(dims), strides |-> [j \in DOMAIN dims |-> 0]]
                        ELSE CutOne(dims, m[i], f[i + 1])]
           acc == CHOOSE f : f = Rec(f)
           g == [i \in 1 .. K |-> [a \in Cuts(n) |-> CutOne(dims, m[(K + 1) - i], a)]]
<1>1. Len(m) = K /\ Len(dims) = n /\ DOMAIN dims = 1 .. n
  OBVIOUS
<1>2. start \in Cuts(n)
  BY DEF Cuts
<1>3. g \in [1 .. K -> [Cuts(n) -> Cuts(n)]]
  <2>1. ASSUME NEW i \in 1 .. K, NEW a \in Cuts(n) PROVE CutOne(dims, m[(K + 1) - i], a) \in Cuts(n)
    <3>1. PICK r \in Groups : r = m[(K + 1) - i]
      <4>1. (K + 1) - i \in 1 .. K
        OBVIOUS
      <4> QED BY <4>1
    <3>2. CutOne(dims, r, a) \in Cuts(n)
      BY CutIn
    <3> QED BY <3>1, <3>2
  <2> QED BY <2>1
<1> HIDE DEF start
<1>4. PICK e \in [0 .. K -> Cuts(n)] : Follows(e, K, start, g)
  <2> HIDE DEF g
  <2> QED BY <1>2, <1>3, Iterated
<1>5. e[0] = start /\ \A i \in 1 .. K : e[i] = CutOne(dims, m[(K + 1) - i], e[i - 1])
  <2>1. ASSUME NEW i \in 1 .. K PROVE e[i] = CutOne(dims, m[(K + 1) - i], e[i - 1])
    <3>1. e[i] = g[i][e[i - 1]]
      BY <1>4 DEF Follows
    <3>2. i - 1 \in 0 .. K
      OBVIOUS
    <3>3. e[i - 1] \in Cuts(n)
      BY <3>2
    <3> QED BY <3>1, <3>3
  <2> QED BY <1>4, <2>1 DEF Follows
<1> HIDE DEF g
<1> DEFINE d == [i \in 1 .. K + 1 |-> e[(K + 1) - i]]
<1>6. \A i \in 1 .. K + 1 : d[i] = IF i > K THEN start ELSE CutOne(dims, m[i], d[i + 1])
  <2> TAKE i \in 1 .. K + 1
  <2>1. CASE i > K
    <3>1. (K + 1) - i = 0
      BY <2>1
    <3> QED BY <1>5, <2>1, <3>1
  <2>2. CASE ~(i > K)
    <3>1. (K + 1) - i \in 1 .. K /\ (K + 1) - ((K + 1) - i) = i /\ i + 1 \in 1 .. K + 1
          /\ ((K + 1) - i) - 1 = (K + 1) - (i + 1)
      BY <2>2
    <3>2. e[(K + 1) - i] = CutOne(dims, m[i], e[(K + 1) - (i + 1)])
      BY <1>5, <3>1
    <3>3. d[i] = e[(K + 1) - i] /\ d[i + 1] = e[(K + 1) - (i + 1)]
      BY <3>1
    <3> QED BY <2>2, <3>2, <3>3
  <2> QED BY <2>1, <2>2
<1>7. start = [ok |-> TRUE, at |-> Len(dims), strides |-> [j \in DOMAIN dims |-> 0]]
  BY <1>1 DEF start
<1>8. \A f : Rec(f) = [i \in 1 .. K + 1 |-> IF i > K THEN start ELSE CutOne(dims, m[i], f[i + 1])]
  BY <1>1, <1>7
<1>9. d = Rec(d)
  <2>1. d = [i \in 1 .. K + 1 |-> IF i > K THEN start ELSE CutOne(dims, m[i], d[i + 1])]
    <3>1. d = [i \in 1 .. K + 1 |-> d[i]]
      OBVIOUS
    <3> HIDE DEF d
    <3> QED BY <1>6, <3>1
  <2> HIDE DEF d, Rec
  <2> QED BY <1>8, <2>1
<1>10. acc = Rec(acc)
  <2> HIDE DEF d
  <2>1. \E f : f = Rec(f)
    BY <1>9
  <2> HIDE DEF Rec
  <2> QED BY <2>1
<1>11. Cut(dims, m) = acc[1]
  BY DEF Cut
<1>12. acc = [i \in 1 .. K + 1 |-> IF i > K THEN start ELSE CutOne(dims, m[i], acc[i + 1])]
  <2> HIDE DEF acc, Rec
  <2> QED BY <1>8, <1>10
<1> HIDE DEF acc, d, Rec
<1>13. \A i \in 1 .. K + 1 : acc[i] = IF i > K THEN start ELSE CutOne(dims, m[i], acc[i + 1])
  BY <1>12
<1> DEFINE G == {i \in 0 .. K : Cutting(n, dims, K, m, B, (K + 1) - i, acc[(K + 1) - i])}
<1>14. 0 \in G
  <2>1. Cutting(n, dims, K, m, B, K + 1, start)
    <3>1. start = [ok |-> TRUE, at |-> n, strides |-> [j \in 1 .. n |-> 0]]
      BY DEF start
    <3> QED BY <1>2, <3>1, CuttingStarts
  <2>2. acc[K + 1] = start
    <3>1. K + 1 \in 1 .. K + 1 /\ K + 1 > K
      OBVIOUS
    <3> QED BY <1>13, <3>1
  <2>3. 0 \in 0 .. K /\ (K + 1) - 0 = K + 1
    OBVIOUS
  <2> QED BY <2>1, <2>2, <2>3
<1>15. ASSUME NEW i \in 1 .. K, i - 1 \in G PROVE i \in G
  <2>1. PICK l \in 1 .. K : l = (K + 1) - i
    <3>1. (K + 1) - i \in 1 .. K
      OBVIOUS
    <3> QED BY <3>1
  <2>2. (K + 1) - (i - 1) = l + 1
    BY <2>1
  <2>3. Cutting(n, dims, K, m, B, l + 1, acc[l + 1])
    BY <1>15, <2>2
  <2>4. acc[l] = CutOne(dims, m[l], acc[l + 1])
    <3>1. l \in 1 .. K + 1 /\ ~(l > K)
      OBVIOUS
    <3> QED BY <1>13, <3>1
  <2>5. Cutting(n, dims, K, m, B, l, CutOne(dims, m[l], acc[l + 1]))
    <3>1. B[l - 1] = B[l] * m[l].size /\ m[l].real \in {0, m[l].size}
      OBVIOUS
    <3> HIDE DEF G
    <3> QED BY <2>3, <3>1, CutStep
  <2> QED BY <2>1, <2>4, <2>5
<1>16. G = 0 .. K
  <2>1. G \subseteq 0 .. K
    OBVIOUS
  <2> HIDE DEF G
  <2> QED BY <1>14, <1>15, <2>1, AllAlong
<1>17. Cutting(n, dims, K, m, B, 1, acc[1])
  <2>1. K \in G
    <3>1. K \in 0 .. K
      OBVIOUS
    <3> HIDE DEF G
    <3> QED BY <1>16, <3>1
  <2>2. (K + 1) - K = 1
    OBVIOUS
  <2> QED BY <2>1, <2>2
<1> QED BY <1>11, <1>17

-----------------------------------------------------------------------------
(* Reshaping.                                                               *)

\* The strides that are cut reach what the old ones reached.
LEMMA CutPlaces ==
    ASSUME NEW n \in Pos, NEW v \in Ranked(n), v.mask = << >>, NEW r \in Pos, NEW dims \in [1 .. r -> Pos],
           NEW cut, cut = Cut(dims, merge_dims(v))
    PROVE  /\ cut.strides \in [1 .. r -> Int]
           /\ (\A t \in 0 .. n : \E s \in 0 .. r : Inner(v.dims, t) = Inner(dims, s)) => cut.ok
           /\ cut.ok => \A k \in Nat : Reach(dims, cut.strides, k) = Upto(v, k, n)
<1>1. PICK K \in Pos : \E B : Fits(v, n, merge_dims(v), K, B)
  BY DimsMerged
<1>2. PICK B : Fits(v, n, merge_dims(v), K, B)
  BY <1>1
<1>3. PICK m \in [1 .. K -> Groups] : m = merge_dims(v)
  BY <1>2 DEF Fits
<1>4. /\ B \in [0 .. K -> Pos] /\ B[K] = Inner(v.dims, n)
      /\ \A j \in 1 .. K : B[j - 1] = B[j] * m[j].size /\ m[j].real \in {0, m[j].size}
      /\ \A j \in 0 .. K : \E l \in 0 .. n : B[j] = Inner(v.dims, l)
      /\ \A k \in Nat : Upto(v, k, n) = Worth(K, m, B, k)
  BY <1>2, <1>3 DEF Fits
<1>5. v.dims \in [1 .. n -> Pos] /\ n \in Nat /\ r \in Nat /\ K \in Nat
  BY DEF Ranked, Pos
<1>6. B[K] = 1
  BY <1>4, <1>5, Inners
<1>7. Cutting(r, dims, K, m, B, 1, cut)
  BY <1>3, <1>4, <1>5, <1>6, CutsAll
<1>8. \A k \in Nat : Inward(K, m, B, k, 1) = Worth(K, m, B, k)
  <2> TAKE k \in Nat
  <2> DEFINE a == [j \in 1 .. K |-> IF j >= 1 THEN Turn(m, B, k, j) ELSE 0]
             b == [j \in 1 .. K |-> Turn(m, B, k, j)]
  <2>1. a = b
    OBVIOUS
  <2>2. Inward(K, m, B, k, 1) = Total(a) /\ Worth(K, m, B, k) = Total(b)
    BY DEF Inward, Worth
  <2> HIDE DEF a, b
  <2> QED BY <2>1, <2>2
<1>9. ASSUME \A t \in 0 .. n : \E s \in 0 .. r : Inner(v.dims, t) = Inner(dims, s) PROVE cut.ok
  <2>1. Cuttable(r, dims, K, B)
    <3>1. ASSUME NEW j \in 0 .. K PROVE \E s \in 0 .. r : B[j] = Inner(dims, s)
      <4>1. PICK l \in 0 .. n : B[j] = Inner(v.dims, l)
        BY <1>4
      <4>2. PICK s \in 0 .. r : Inner(v.dims, l) = Inner(dims, s)
        BY <1>9
      <4> QED BY <4>1, <4>2
    <3> QED BY <3>1 DEF Cuttable
  <2> QED BY <1>7, <2>1 DEF Cutting
<1>10. ASSUME cut.ok, NEW k \in Nat PROVE Reach(dims, cut.strides, k) = Upto(v, k, n)
  <2>1. Reach(dims, cut.strides, k) = Inward(K, m, B, k, 1)
    BY <1>7, <1>10 DEF Cutting
  <2> QED BY <1>4, <1>8, <2>1
<1>11. cut.strides \in [1 .. r -> Int]
  BY <1>7 DEF Cutting
<1> QED BY <1>9, <1>10, <1>11

LEMMA RestridedTracks ==
    ASSUME NEW n \in Pos, NEW v \in Ranked(n), NEW b \in Nat, NEW f, Tracks(v, f, b), v.mask = << >>,
           NEW r \in Pos, NEW dims \in [1 .. r -> Pos], Size(dims) = Size(v.dims),
           NEW cut, cut = Cut(dims, merge_dims(v)), cut.ok,
           NEW w, w = Restrided(v, dims, cut)
    PROVE  w \in Ranked(r) /\ Tracks(w, f, b) /\ w.mask = << >> /\ w.dims = dims
<1> DEFINE u == [dims |-> dims, strides |-> cut.strides, offset |-> v.offset,
                 contiguous |-> v.offset = 0 /\ v.mask = << >> /\ InOrder(dims, cut.strides),
                 mask |-> << >>]
<1>1. w = Canonical(u)
  BY DEF Restrided, Remasked
<1>2. cut.strides \in [1 .. r -> Int] /\ \A k \in Nat : Reach(dims, cut.strides, k) = Upto(v, k, n)
  BY CutPlaces
<1>3. u \in Ranked(r)
  BY <1>2 DEF Ranked, InOrder
<1>4. /\ u.dims = dims /\ u.strides = cut.strides /\ u.offset = v.offset /\ u.mask = << >>
      /\ u.contiguous => v.offset = 0 /\ InOrder(dims, cut.strides)
  OBVIOUS
<1> HIDE DEF u
<1>5. n \in Nat /\ r \in Nat /\ v.dims \in [1 .. n -> Pos] /\ v.strides \in [1 .. n -> Int] /\ v.offset \in Int
  BY DEF Ranked, Pos
<1>6. ASSUME NEW k \in Nat PROVE Place(u, Coords(dims, k)) = Place(v, Coords(v.dims, k))
  <2>1. Place(u, Coords(dims, k)) = v.offset + Reach(dims, cut.strides, k)
    <3>1. DOMAIN Coords(dims, k) = DOMAIN dims
      BY DEF Coords
    <3> QED BY <1>4, <3>1 DEF Place, Reach
  <2>2. Place(v, Coords(v.dims, k)) = v.offset + Upto(v, k, n)
    <3>1. DOMAIN Coords(v.dims, k) = 1 .. n
      BY <1>5 DEF Coords
    <3> QED BY <3>1 DEF Place, Upto
  <2> QED BY <1>2, <2>1, <2>2
<1>7. DOMAIN f = 0 .. Size(dims) - 1
  BY DEF Tracks
<1>8. Size(dims) \in Pos /\ DOMAIN f \subseteq Nat
  BY <1>5, <1>7, Sizes
<1>9. \A c : ~Masked(u, c) /\ ~Masked(v, c)
  BY <1>4 DEF Masked
<1>10. ASSUME NEW k \in DOMAIN f
       PROVE  f[k] = Place(u, Coords(dims, k)) /\ Place(u, Coords(dims, k)) \in 0 .. b - 1
  <2>1. f[k] = Place(v, Coords(v.dims, k)) /\ Place(v, Coords(v.dims, k)) \in 0 .. b - 1
    BY <1>9 DEF Tracks
  <2>2. Place(u, Coords(dims, k)) = Place(v, Coords(v.dims, k))
    BY <1>6, <1>8
  <2> QED BY <2>1, <2>2
<1>11. ASSUME NEW k \in DOMAIN f, u.contiguous PROVE f[k] = k
  <2>1. u.offset = 0 /\ InOrder(u.dims, u.strides) /\ k \in 0 .. Size(u.dims) - 1
    BY <1>4, <1>7, <1>11
  <2>2. Place(u, Coords(u.dims, k)) = k
    BY <1>3, <1>5, <2>1, PlaceInOrder
  <2> QED BY <1>4, <1>10, <2>2
<1>12. Tracks(u, f, b)
  BY <1>4, <1>7, <1>9, <1>10, <1>11 DEF Tracks
<1> QED BY <1>1, <1>3, <1>4, <1>5, <1>12, CanonicalTracks

LEMMA SameFields ==
    ASSUME NEW n, NEW u \in Ranked(n), u.offset = 0, u.contiguous = TRUE
    PROVE  [u EXCEPT !.offset = 0, !.contiguous = TRUE] = u
  BY DEF Ranked

\* A reshape that can be expressed keeps every element.
LEMMA Reshapes ==
    ASSUME NEW n \in Pos, NEW v \in Ranked(n), NEW b \in Nat, NEW f, Tracks(v, f, b), v.mask = << >>,
           NEW r \in Pos, NEW dims \in [1 .. r -> Pos], Size(dims) = Size(v.dims),
           NEW w, w = view_reshape(v, dims), w # NoView
    PROVE  w \in Ranked(r) /\ Tracks(w, f, b) /\ w.mask = << >> /\ w.dims = dims
<1>1. n \in Nat /\ r \in Nat /\ v.dims \in [1 .. n -> Pos]
  BY DEF Ranked, Pos
<1>2. CASE v.dims = dims
  <2>1. w = v
    BY <1>2 DEF view_reshape
  <2>2. n = r
    <3>1. Len(v.dims) = n /\ Len(dims) = r
      BY <1>1
    <3> QED BY <1>2, <3>1
  <2> QED BY <1>2, <2>1, <2>2
<1>3. CASE v.dims # dims /\ v.contiguous
  <2>1. w = [view_create(dims) EXCEPT !.offset = v.offset, !.contiguous = v.offset = 0 /\ v.mask = << >>]
    BY <1>3 DEF view_reshape
  <2>2. v.offset = 0 /\ Size(v.dims) <= b /\ \A k \in DOMAIN f : f[k] = k
    BY <1>1, <1>3, ContiguousTracks
  <2>3. DOMAIN f = 0 .. Size(dims) - 1
    BY DEF Tracks
  <2>4. PICK u : u = view_create(dims)
    OBVIOUS
  <2>5. /\ u \in Ranked(r) /\ Tracks(u, f, b)
        /\ u.mask = << >> /\ u.dims = dims
        /\ u.offset = 0 /\ u.contiguous
    BY <1>1, <2>2, <2>3, <2>4, CreateTracks
  <2>6. w = [u EXCEPT !.offset = 0, !.contiguous = TRUE]
    BY <2>1, <2>2, <2>4
  <2>7. w = u
    <3>1. u.contiguous = TRUE
      BY <2>5 DEF Ranked
    <3> QED BY <2>5, <2>6, <3>1, SameFields
  <2> QED BY <2>5, <2>7
<1>4. CASE v.dims # dims /\ ~v.contiguous
  <2>1. PICK cut : cut = Cut(dims, merge_dims(v))
    OBVIOUS
  <2>2. w = Restrided(v, dims, cut)
    BY <1>4, <2>1 DEF view_reshape
  <2>3. cut.ok
    BY <2>2 DEF Restrided
  <2> QED BY <2>1, <2>2, <2>3, RestridedTracks
<1> QED BY <1>2, <1>3, <1>4

\* Dimensions of size 1 in front change no stride.
Fronted(z, n, r, p, dims) ==
    /\ r = z + n /\ p \in [1 .. r -> Pos]
    /\ \A i \in 1 .. z : p[i] = 1
    /\ \A i \in 1 .. n : p[z + i] = dims[i]

LEMMA FrontInner ==
    ASSUME NEW n \in Nat, NEW dims \in [1 .. n -> Pos], NEW z \in Nat, NEW r, NEW p,
           Fronted(z, n, r, p, dims)
    PROVE  (\A t \in 0 .. n : Inner(p, z + t) = Inner(dims, t)) /\ Size(p) = Size(dims)
<1>1. r \in Nat /\ r = z + n /\ p \in [1 .. r -> Pos]
  BY DEF Fronted
<1>2. (\A i \in 1 .. z : p[i] = 1) /\ \A i \in 1 .. n : p[z + i] = dims[i]
  BY DEF Fronted
<1>3. /\ Inner(p, r) = 1 /\ \A i \in 1 .. r : Inner(p, i - 1) = p[i] * Inner(p, i)
      /\ \A i \in 0 .. r : Inner(p, i) \in Pos
      /\ Inner(p, 0) = Size(p)
  BY <1>1, Inners
<1>4. /\ Inner(dims, n) = 1 /\ \A i \in 1 .. n : Inner(dims, i - 1) = dims[i] * Inner(dims, i)
      /\ Inner(dims, 0) = Size(dims)
  BY Inners
<1> DEFINE G == {j \in 0 .. n : Inner(p, r - j) = Inner(dims, n - j)}
           H == {j \in 0 .. z : Inner(p, z - j) = Inner(p, z)}
<1>5. G = 0 .. n
  <2>1. 0 \in G
    <3>1. 0 \in 0 .. n /\ r - 0 = r /\ n - 0 = n
      BY <1>1
    <3> QED BY <1>3, <1>4, <3>1
  <2>2. ASSUME NEW j \in 1 .. n, j - 1 \in G PROVE j \in G
    <3>1. PICK i \in 1 .. n : i = (n - j) + 1
      <4>1. (n - j) + 1 \in 1 .. n
        OBVIOUS
      <4> QED BY <4>1
    <3>2. z + i \in 1 .. r /\ i \in 1 .. n /\ r - (j - 1) = z + i /\ r - j = (z + i) - 1 /\ n - (j - 1) = i /\ n - j = i - 1
      BY <1>1, <3>1
    <3>3. Inner(p, z + i) = Inner(dims, i)
      BY <2>2, <3>2
    <3>4. Inner(p, (z + i) - 1) = p[z + i] * Inner(p, z + i) /\ Inner(dims, i - 1) = dims[i] * Inner(dims, i)
      BY <1>3, <1>4, <3>2
    <3>5. Inner(p, (z + i) - 1) = Inner(dims, i - 1)
      BY <1>2, <3>3, <3>4
    <3> QED BY <3>2, <3>5
  <2>3. G \subseteq 0 .. n
    OBVIOUS
  <2> HIDE DEF G
  <2> QED BY <2>1, <2>2, <2>3, AllAlong
<1>6. ASSUME NEW t \in 0 .. n PROVE Inner(p, z + t) = Inner(dims, t)
  <2>1. n - t \in G
    <3>1. n - t \in 0 .. n
      OBVIOUS
    <3> HIDE DEF G
    <3> QED BY <1>5, <3>1
  <2>2. r - (n - t) = z + t /\ n - (n - t) = t
    BY <1>1
  <2> QED BY <2>1, <2>2
<1>7. H = 0 .. z
  <2>1. 0 \in H
    <3>1. 0 \in 0 .. z /\ z - 0 = z
      OBVIOUS
    <3> QED BY <3>1
  <2>2. ASSUME NEW j \in 1 .. z, j - 1 \in H PROVE j \in H
    <3>1. PICK i \in 1 .. z : i = (z - j) + 1
      <4>1. (z - j) + 1 \in 1 .. z
        OBVIOUS
      <4> QED BY <4>1
    <3>2. i \in 1 .. r /\ i \in 0 .. r /\ z - (j - 1) = i /\ z - j = i - 1
      BY <1>1, <3>1
    <3>3. Inner(p, i) = Inner(p, z)
      BY <2>2, <3>2
    <3>4. PICK x \in Pos : x = Inner(p, i)
      BY <1>3, <3>2
    <3>5. Inner(p, i - 1) = 1 * x
      BY <1>2, <1>3, <3>2, <3>4
    <3>6. 1 * x = x
      BY DEF Pos
    <3> QED BY <3>2, <3>3, <3>4, <3>5, <3>6
  <2>3. H \subseteq 0 .. z
    OBVIOUS
  <2> HIDE DEF H
  <2> QED BY <2>1, <2>2, <2>3, AllAlong
<1>8. Inner(p, 0) = Inner(p, z)
  <2>1. z \in H
    <3>1. z \in 0 .. z
      OBVIOUS
    <3> HIDE DEF H
    <3> QED BY <1>7, <3>1
  <2>2. z - z = 0
    OBVIOUS
  <2> QED BY <2>1, <2>2
<1>9. Inner(p, z) = Inner(dims, 0)
  <2>1. 0 \in 0 .. n /\ z + 0 = z
    OBVIOUS
  <2> QED BY <1>6, <2>1
<1> QED BY <1>3, <1>4, <1>6, <1>8, <1>9

\* Such a reshape can always be expressed.
LEMMA FrontExpressible ==
    ASSUME NEW n \in Pos, NEW v \in Ranked(n), v.mask = << >>, NEW z \in Nat, NEW r \in Pos,
           NEW p \in [1 .. r -> Pos], Fronted(z, n, r, p, v.dims)
    PROVE  view_reshape(v, p) # NoView
<1>1. n \in Nat /\ r \in Nat /\ v.dims \in [1 .. n -> Pos]
  BY DEF Ranked, Pos
<1>2. p # << >>
  <2>1. Len(p) = r /\ r # 0
    BY <1>1 DEF Pos
  <2> QED BY <2>1
<1>3. NoView.dims = << >>
  BY DEF NoView
<1>4. CASE v.dims = p
  <2>1. view_reshape(v, p) = v
    BY <1>4 DEF view_reshape
  <2>2. v.dims # << >>
    BY <1>2, <1>4
  <2> QED BY <1>3, <2>1, <2>2
<1>5. CASE v.dims # p /\ v.contiguous
  <2>1. view_reshape(v, p) = [view_create(p) EXCEPT !.offset = v.offset, !.contiguous = v.offset = 0 /\ v.mask = << >>]
    BY <1>5 DEF view_reshape
  <2>2. view_create(p).dims = p
    BY DEF view_create, Canonical
  <2>3. view_reshape(v, p).dims = p
    BY <2>1, <2>2 DEF view_create, Canonical
  <2> QED BY <1>2, <1>3, <2>3
<1>6. CASE v.dims # p /\ ~v.contiguous
  <2>1. PICK cut : cut = Cut(p, merge_dims(v))
    OBVIOUS
  <2>2. \A t \in 0 .. n : \E s \in 0 .. r : Inner(v.dims, t) = Inner(p, s)
    <3>1. \A t \in 0 .. n : Inner(p, z + t) = Inner(v.dims, t)
      <4>1. PICK d \in [1 .. n -> Pos] : d = v.dims
        BY <1>1
      <4>2. Fronted(z, n, r, p, d)
        BY <4>1
      <4>3. \A t \in 0 .. n : Inner(p, z + t) = Inner(d, t)
        BY <1>1, <4>2, FrontInner
      <4> QED BY <4>1, <4>3
    <3>2. \A t \in 0 .. n : z + t \in 0 .. r
      BY <1>1 DEF Fronted
    <3> QED BY <3>1, <3>2
  <2>3. cut.ok
    BY <2>1, <2>2, CutPlaces
  <2>4. view_reshape(v, p) = Restrided(v, p, cut)
    BY <1>6, <2>1 DEF view_reshape
  <2>5. Restrided(v, p, cut).dims = p
    BY <2>3 DEF Restrided, Remasked, Canonical
  <2> QED BY <1>2, <1>3, <2>4, <2>5
<1> QED BY <1>4, <1>5, <1>6

\* Broadcasting to more dimensions and then to larger ones.
LEMMA Broadcasts ==
    ASSUME NEW n \in Pos, NEW v \in Ranked(n), NEW b \in Nat, NEW f, Tracks(v, f, b), v.mask = << >>,
           NEW z \in Nat, NEW r \in Pos, NEW dims \in [1 .. r -> Pos],
           NEW p \in [1 .. r -> Pos], Fronted(z, n, r, p, v.dims),
           NEW a, a = IF p = v.dims THEN v ELSE EagerReshape(v, p),
           NEW w, w = IF p = dims THEN a ELSE EagerExpand(a, dims),
           NEW g, NEW h, Grown(r, p, dims, f, g, h)
    PROVE  w \in Ranked(r) /\ Tracks(w, h, b) /\ w.mask = << >>
<1>1. n \in Nat /\ r \in Nat /\ v.dims \in [1 .. n -> Pos]
  BY DEF Ranked, Pos
<1>2. PICK u : u = view_reshape(v, p)
  OBVIOUS
<1>3. u # NoView
  BY <1>2, FrontExpressible
<1>4. a = u
  <2>1. p = v.dims => u = v
    BY <1>2 DEF view_reshape
  <2>2. EagerReshape(v, p) = u
    BY <1>2, <1>3 DEF EagerReshape
  <2> QED BY <2>1, <2>2
<1>5. Size(p) = Size(v.dims)
  <2>1. PICK d \in [1 .. n -> Pos] : d = v.dims
    BY <1>1
  <2>2. Fronted(z, n, r, p, d)
    BY <2>1
  <2>3. Size(p) = Size(d)
    BY <1>1, <2>2, FrontInner
  <2> QED BY <2>1, <2>3
<1>6. a \in Ranked(r) /\ Tracks(a, f, b) /\ a.mask = << >> /\ a.dims = p
  BY <1>2, <1>3, <1>4, <1>5, Reshapes
<1>9. /\ DOMAIN h = 0 .. Size(dims) - 1
      /\ \A k \in DOMAIN h : Wrapped(r, Coords(dims, k), p, g[k]) /\ h[k] = f[Flat(p, g[k])]
  BY DEF Grown
<1>7. CASE p = dims
  <2>1. DOMAIN f = 0 .. Size(dims) - 1
    BY <1>6, <1>7 DEF Tracks
  <2>2. ASSUME NEW k \in DOMAIN h PROVE h[k] = f[k]
    <3>1. k \in Nat /\ k \in 0 .. Size(dims) - 1
      <4>1. Size(dims) \in Pos
        BY <1>1, Sizes
      <4> QED BY <1>9, <4>1 DEF Pos
    <3>2. PICK c \in [1 .. r -> Nat] : c = Coords(dims, k) /\ \A i \in 1 .. r : c[i] < dims[i]
      BY <1>1, <3>1, CoordsIn
    <3>3. \A i \in 1 .. r : c[i] % p[i] = c[i]
      <4>1. ASSUME NEW x \in Nat, NEW y \in Pos, x < y PROVE x % y = x
        <5>1. y * 0 + x = x /\ 0 \in Nat
          BY DEF Pos
        <5> QED BY <4>1, <5>1, Divided
      <4> QED BY <1>7, <3>2, <4>1
    <3>4. g[k] = [i \in 1 .. r |-> c[i]]
      BY <1>9, <3>2, <3>3 DEF Wrapped
    <3>5. g[k] = c
      BY <3>4
    <3>6. Flat(dims, Coords(dims, k)) = k
      BY <1>1, <3>1, FlatOfCoords
    <3>7. h[k] = f[Flat(p, g[k])]
      BY <1>9
    <3>8. Flat(p, g[k]) = k
      BY <1>7, <3>2, <3>5, <3>6
    <3> QED BY <3>7, <3>8
  <2>3. Tracks(a, h, b)
    <3>1. DOMAIN h = DOMAIN f
      BY <1>9, <2>1
    <3>2. DOMAIN f = 0 .. Size(a.dims) - 1
      BY <1>6 DEF Tracks
    <3>3. ASSUME NEW k \in DOMAIN h
          PROVE  /\ h[k] = IF Masked(a, Coords(a.dims, k)) THEN Zero ELSE Place(a, Coords(a.dims, k))
                 /\ ~Masked(a, Coords(a.dims, k)) => Place(a, Coords(a.dims, k)) \in 0 .. b - 1
                 /\ a.contiguous => h[k] = k
      <4>1. h[k] = f[k] /\ k \in DOMAIN f
        BY <2>2, <3>1
      <4> QED BY <1>6, <4>1 DEF Tracks
    <3> QED BY <3>1, <3>2, <3>3 DEF Tracks
  <2> QED BY <1>6, <1>7, <2>3
<1>8. CASE p # dims
  <2>1. w \in Expansions(a, dims)
    BY <1>8 DEF Expansions
  <2>2. Grown(r, a.dims, dims, f, g, h)
    BY <1>6
  <2>3. Expanding(r, a, f, b, dims, w, g, h)
    BY <1>1, <1>6, <2>1, <2>2 DEF Expanding
  <2> QED BY <2>3, Expands
<1> QED BY <1>7, <1>8

-----------------------------------------------------------------------------
(* Chains of operations.                                                    *)

\* A reshape is one that strides can express, and a padded tensor is only permuted.
Simple(v, o) ==
    /\ v.mask # << >> => o[1] = "permute"
    /\ o[1] = "reshape" => view_reshape(v, o[2]) # NoView

\* The inductive invariant.
Kept == base \in Nat /\ \E n \in Pos : view \in Ranked(n) /\ Tracks(view, meaning, base)

LEMMA RankedLen ==
    ASSUME NEW n \in Pos, NEW v \in Ranked(n)
    PROVE  /\ n \in Nat /\ v.dims \in [1 .. n -> Pos] /\ DOMAIN v.dims = 1 .. n /\ Len(v.dims) = n
           /\ Size(v.dims) \in Pos
<1>1. n \in Nat /\ v.dims \in [1 .. n -> Pos]
  BY DEF Ranked, Pos
<1>2. DOMAIN v.dims = 1 .. n /\ Len(v.dims) = n
  BY <1>1
<1> QED BY <1>1, <1>2, Sizes

LEMMA KeptInit ==
    Init => Kept
<1>1. SUFFICES ASSUME Init PROVE Kept
  OBVIOUS
<1>2. PICK s \in Bases : /\ base = Size(s) /\ view = view_create(s)
                         /\ meaning = [k \in 0 .. Size(s) - 1 |-> k]
  BY <1>1 DEF Init
<1>3. PICK n \in Pos : s \in [1 .. n -> Pos]
  <2>1. s \in Seq(Pos) /\ s # << >>
    BY BasesAssumption, <1>2 DEF BasesAssumption, Pos
  <2>2. Len(s) \in Nat /\ s \in [1 .. Len(s) -> Pos] /\ Len(s) # 0
    BY <2>1
  <2> QED BY <2>2 DEF Pos
<1>4. n \in Nat
  BY DEF Pos
<1>5. Size(s) \in Pos
  BY <1>3, <1>4, Sizes
<1>6. base \in Nat /\ Size(s) <= base
  BY <1>2, <1>5 DEF Pos
<1>7. DOMAIN meaning = 0 .. Size(s) - 1 /\ \A k \in DOMAIN meaning : meaning[k] = k
  BY <1>2
<1>8. view \in Ranked(n) /\ Tracks(view, meaning, base)
  BY <1>2, <1>3, <1>4, <1>6, <1>7, CreateTracks
<1> QED BY <1>6, <1>8 DEF Kept

LEMMA KeptReshape ==
    ASSUME Kept, NEW dims \in ShapesOf(Size(view.dims)), Reshape(dims), Simple(view, <<"reshape", dims>>)
    PROVE  Kept'
<1>1. PICK n \in Pos : view \in Ranked(n) /\ Tracks(view, meaning, base)
  BY DEF Kept
<1>2. PICK r \in Pos : dims \in [1 .. r -> Pos] /\ Size(dims) = Size(view.dims)
  <2>1. PICK r \in 1 .. MaxRank : dims \in [1 .. r -> {d \in 1 .. Size(view.dims) : Size(view.dims) % d = 0}]
    BY DEF ShapesOf
  <2>2. Size(dims) = Size(view.dims)
    BY DEF ShapesOf
  <2>3. Size(view.dims) \in Pos
    BY <1>1, RankedLen
  <2>4. {d \in 1 .. Size(view.dims) : Size(view.dims) % d = 0} \subseteq Pos
    BY <2>3 DEF Pos
  <2>5. dims \in [1 .. r -> Pos] /\ r \in Pos
    BY BoundsAssumption, <2>1, <2>4 DEF BoundsAssumption, Pos
  <2> QED BY <2>2, <2>5
<1>3. view.mask = << >> /\ view_reshape(view, dims) # NoView
  BY DEF Simple
<1>4. PICK w : w = view_reshape(view, dims)
  OBVIOUS
<1>5. view' = w /\ base' = base /\ meaning' = meaning
  <2>1. RuleReshape(view, dims) = w /\ EagerReshape(view, dims) = w
    BY <1>3, <1>4 DEF RuleReshape, EagerReshape
  <2> QED BY <2>1 DEF Reshape, Gives
<1>6. base \in Nat
  BY DEF Kept
<1>7. w \in Ranked(r) /\ Tracks(w, meaning, base)
  <2>1. PICK v \in Ranked(n) : v = view
    BY <1>1
  <2>2. PICK m : m = meaning
    OBVIOUS
  <2>3. PICK b \in Nat : b = base
    BY <1>6
  <2>4. w \in Ranked(r) /\ Tracks(w, m, b) /\ w.mask = << >> /\ w.dims = dims
    BY <1>1, <1>2, <1>3, <1>4, <2>1, <2>2, <2>3, Reshapes
  <2> QED BY <2>2, <2>3, <2>4
<1> QED BY <1>5, <1>6, <1>7 DEF Kept

LEMMA KeptExpand ==
    ASSUME Kept, NEW dims \in Shapes, Len(dims) = Len(view.dims), Expand(dims), Simple(view, <<"expand", dims>>)
    PROVE  Kept'
<1>1. PICK n \in Pos : view \in Ranked(n) /\ Tracks(view, meaning, base)
  BY DEF Kept
<1>2. PICK v \in Ranked(n) : v = view
  BY <1>1
<1>3. PICK f : f = meaning
  OBVIOUS
<1>4. PICK h : h = meaning'
  OBVIOUS
<1>5. base \in Nat
  BY DEF Kept
<1>6. n \in Nat /\ v.dims \in [1 .. n -> Pos] /\ DOMAIN v.dims = 1 .. n /\ Len(v.dims) = n
  BY RankedLen
<1>7. dims \in [1 .. n -> Pos] /\ DOMAIN dims = 1 .. n
  <2>1. PICK r \in 1 .. MaxRank : dims \in [1 .. r -> 1 .. MaxSize]
    BY DEF Shapes
  <2>2. r \in Nat /\ 1 .. MaxSize \subseteq Pos
    BY BoundsAssumption DEF BoundsAssumption, Pos
  <2>3. Len(dims) = r
    BY <2>1, <2>2
  <2>4. r = n
    BY <1>2, <1>6, <2>3
  <2> QED BY <2>1, <2>2, <2>4
<1>8. v.mask = << >>
  BY <1>2 DEF Simple
<1>9. PICK w \in Expansions(v, dims) : w = view'
  BY <1>2 DEF Expand, Gives, Expansions
<1> DEFINE g == [k \in 0 .. Size(dims) - 1 |-> [i \in 1 .. n |-> Coords(dims, k)[i] % v.dims[i]]]
<1>10. h = [k \in 0 .. Size(dims) - 1 |->
              f[Flat(v.dims, [i \in DOMAIN Coords(dims, k) |-> Coords(dims, k)[i] % v.dims[i]])]]
  BY <1>2, <1>3, <1>4 DEF Expand, Moved
<1>11. DOMAIN h = 0 .. Size(dims) - 1
  BY <1>10
<1>12. ASSUME NEW k \in DOMAIN h PROVE Wrapped(n, Coords(dims, k), v.dims, g[k]) /\ h[k] = f[Flat(v.dims, g[k])]
  <2>1. DOMAIN Coords(dims, k) = 1 .. n
    BY <1>7 DEF Coords
  <2>2. g[k] = [i \in 1 .. n |-> Coords(dims, k)[i] % v.dims[i]]
    BY <1>11
  <2>3. h[k] = f[Flat(v.dims, [i \in 1 .. n |-> Coords(dims, k)[i] % v.dims[i]])]
    BY <1>10, <1>11, <2>1
  <2> QED BY <2>2, <2>3 DEF Wrapped
<1>13. \A i \in 1 .. n : v.dims[i] \in {1, dims[i]}
  BY <1>2, <1>7 DEF Expand
<1> HIDE DEF g
<1>14. Grown(n, v.dims, dims, f, g, h)
  BY <1>11, <1>12, <1>13 DEF Grown
<1>15. Tracks(v, f, base)
  BY <1>1, <1>2, <1>3
<1>16. w \in Ranked(n) /\ Tracks(w, h, base) /\ w.mask = << >>
  <2>1. PICK b : b = base
    OBVIOUS
  <2>2. PICK u : u = g
    OBVIOUS
  <2>3. w \in Ranked(n) /\ Tracks(w, h, b) /\ w.mask = << >>
    <3>1. Tracks(v, f, b) /\ Grown(n, v.dims, dims, f, u, h)
      BY <1>14, <1>15, <2>1, <2>2
    <3> HIDE DEF g
    <3>2. Expanding(n, v, f, b, dims, w, u, h)
      BY <1>6, <1>7, <1>8, <3>1 DEF Expanding
    <3> QED BY <3>2, Expands
  <2> QED BY <2>1, <2>3
<1>17. base' = base
  BY DEF Expand, Gives
<1> QED BY <1>4, <1>5, <1>9, <1>16, <1>17 DEF Kept

LEMMA KeptBroadcast ==
    ASSUME Kept, NEW dims \in Shapes, Broadcast(dims), Simple(view, <<"broadcast", dims>>)
    PROVE  Kept'
<1>1. PICK n \in Pos : view \in Ranked(n) /\ Tracks(view, meaning, base)
  BY DEF Kept
<1>2. PICK v \in Ranked(n) : v = view
  BY <1>1
<1>3. PICK f : f = meaning
  OBVIOUS
<1>4. PICK h : h = meaning'
  OBVIOUS
<1>5. base \in Nat
  BY DEF Kept
<1>6. n \in Nat /\ v.dims \in [1 .. n -> Pos] /\ DOMAIN v.dims = 1 .. n /\ Len(v.dims) = n
  BY RankedLen
<1>7. PICK r \in Pos : dims \in [1 .. r -> Pos] /\ DOMAIN dims = 1 .. r /\ Len(dims) = r /\ r \in Nat
  <2>1. PICK r \in 1 .. MaxRank : dims \in [1 .. r -> 1 .. MaxSize]
    BY DEF Shapes
  <2>2. r \in Nat /\ r \in Pos /\ 1 .. MaxSize \subseteq Pos
    BY BoundsAssumption DEF BoundsAssumption, Pos
  <2>3. Len(dims) = r /\ DOMAIN dims = 1 .. r
    BY <2>1, <2>2
  <2> QED BY <2>1, <2>2, <2>3
<1>8. v.mask = << >>
  BY <1>2 DEF Simple
<1> DEFINE p == [i \in DOMAIN dims |->
                   IF i <= Len(dims) - Len(view.dims) THEN 1 ELSE view.dims[i - (Len(dims) - Len(view.dims))]]
           a == IF p = view.dims THEN view ELSE EagerReshape(view, p)
           w == IF p = dims THEN a ELSE EagerExpand(a, dims)
           g == [k \in 0 .. Size(dims) - 1 |-> [i \in 1 .. r |-> Coords(dims, k)[i] % p[i]]]
<1>9. /\ Len(dims) >= Len(v.dims)
      /\ \A i \in DOMAIN dims : p[i] \in {1, dims[i]}
      /\ view' = w
      /\ base' = base
  <2>1. /\ Len(dims) >= Len(view.dims)
        /\ \A i \in DOMAIN dims : p[i] \in {1, dims[i]}
    BY DEF Broadcast
  <2>2. view' = w
    BY DEF Broadcast, Gives
  <2>3. base' = base
    BY DEF Broadcast, Gives
  <2> QED BY <1>2, <2>1, <2>2, <2>3
<1>10. h = [k \in 0 .. Size(dims) - 1 |->
              f[Flat(p, [i \in DOMAIN Coords(dims, k) |-> Coords(dims, k)[i] % p[i]])]]
  BY <1>3, <1>4 DEF Broadcast, Moved
<1>11. PICK z \in Nat : r = z + n /\ z = Len(dims) - Len(v.dims)
  <2>1. r - n \in Nat /\ r = (r - n) + n /\ r - n = Len(dims) - Len(v.dims)
    BY <1>6, <1>7, <1>9
  <2> QED BY <2>1
<1>12. p = [i \in 1 .. r |-> IF i <= z THEN 1 ELSE v.dims[i - z]]
  BY <1>2, <1>7, <1>11
<1> HIDE DEF p
<1>13. \A i \in 1 .. r : p[i] = IF i <= z THEN 1 ELSE v.dims[i - z]
  BY <1>12
<1>14. p \in [1 .. r -> Pos]
  <2>1. ASSUME NEW i \in 1 .. r PROVE (IF i <= z THEN 1 ELSE v.dims[i - z]) \in Pos
    <3>1. CASE i <= z
      BY <3>1 DEF Pos
    <3>2. CASE ~(i <= z)
      <4>1. i - z \in 1 .. n
        BY <1>6, <1>7, <1>11, <3>2
      <4> QED BY <1>6, <3>2, <4>1
    <3> QED BY <3>1, <3>2
  <2> QED BY <1>12, <2>1
<1>15. Fronted(z, n, r, p, v.dims)
  <2>1. ASSUME NEW i \in 1 .. z PROVE p[i] = 1
    <3>1. i \in 1 .. r /\ i <= z
      BY <1>6, <1>11
    <3> QED BY <1>13, <3>1
  <2>2. ASSUME NEW i \in 1 .. n PROVE p[z + i] = v.dims[i]
    <3>1. z + i \in 1 .. r /\ ~(z + i <= z) /\ (z + i) - z = i
      BY <1>6, <1>11
    <3> QED BY <1>13, <3>1
  <2> QED BY <1>11, <1>14, <2>1, <2>2 DEF Fronted
<1>16. DOMAIN h = 0 .. Size(dims) - 1
  BY <1>10
<1>17. ASSUME NEW k \in DOMAIN h PROVE Wrapped(r, Coords(dims, k), p, g[k]) /\ h[k] = f[Flat(p, g[k])]
  <2>1. DOMAIN Coords(dims, k) = 1 .. r
    BY <1>7 DEF Coords
  <2>2. g[k] = [i \in 1 .. r |-> Coords(dims, k)[i] % p[i]]
    BY <1>16
  <2>3. h[k] = f[Flat(p, [i \in 1 .. r |-> Coords(dims, k)[i] % p[i]])]
    BY <1>10, <1>16, <2>1
  <2> QED BY <2>2, <2>3 DEF Wrapped
<1> HIDE DEF g
<1>18. Grown(r, p, dims, f, g, h)
  <2>1. \A i \in 1 .. r : p[i] \in {1, dims[i]}
    BY <1>7, <1>9
  <2> QED BY <1>16, <1>17, <2>1 DEF Grown
<1>19. w \in Ranked(r) /\ Tracks(w, h, base) /\ w.mask = << >>
  <2>1. PICK b : b = base
    OBVIOUS
  <2>2. PICK u : u = g
    OBVIOUS
  <2>3. Tracks(v, f, b) /\ Grown(r, p, dims, f, u, h) /\ b \in Nat
    BY <1>1, <1>2, <1>3, <1>5, <1>18, <2>1, <2>2
  <2>4. PICK q : q = p
    OBVIOUS
  <2>5. PICK c : c = a
    OBVIOUS
  <2>6. PICK x : x = w
    OBVIOUS
  <2>7. /\ c = IF q = v.dims THEN v ELSE EagerReshape(v, q)
        /\ x = IF q = dims THEN c ELSE EagerExpand(c, dims)
        /\ q \in [1 .. r -> Pos] /\ Fronted(z, n, r, q, v.dims) /\ Grown(r, q, dims, f, u, h)
    BY <1>2, <1>14, <1>15, <2>3, <2>4, <2>5, <2>6
  <2>8. x \in Ranked(r) /\ Tracks(x, h, b) /\ x.mask = << >>
    <3> HIDE DEF w, a
    <3> QED BY <1>7, <1>8, <2>3, <2>7, Broadcasts
  <2> QED BY <2>1, <2>6, <2>8
<1> QED BY <1>4, <1>5, <1>9, <1>19 DEF Kept

LEMMA AxesBijective ==
    ASSUME NEW n \in Nat, NEW axes \in Bijection(1 .. n, 1 .. n)
    PROVE  axes \in Bijections(n)
<1>1. axes \in [1 .. n -> 1 .. n] /\ \A j \in 1 .. n : \E i \in 1 .. n : axes[i] = j
  BY DEF Bijection, Surjection
<1>2. \A i, j \in 1 .. n : axes[i] = axes[j] => i = j
  BY DEF Bijection, Injection, IsInjective
<1> QED BY <1>1, <1>2 DEF Bijections

LEMMA KeptPermute ==
    ASSUME Kept, NEW axes \in Bijection(DOMAIN view.dims, DOMAIN view.dims), Permute(axes)
    PROVE  Kept'
<1>1. PICK n \in Pos : view \in Ranked(n) /\ Tracks(view, meaning, base)
  BY DEF Kept
<1>2. PICK v \in Ranked(n) : v = view
  BY <1>1
<1>3. PICK f : f = meaning
  OBVIOUS
<1>4. PICK h : h = meaning'
  OBVIOUS
<1>5. base \in Nat
  BY DEF Kept
<1>6. n \in Nat /\ v.dims \in [1 .. n -> Pos] /\ DOMAIN v.dims = 1 .. n /\ Len(v.dims) = n
  BY RankedLen
<1>7. axes \in Bijections(n)
  BY <1>2, <1>6, AxesBijective
<1>8. /\ axes \in [1 .. n -> 1 .. n] /\ DOMAIN axes = 1 .. n
      /\ \A i, j \in 1 .. n : axes[i] = axes[j] => i = j
      /\ \A j \in 1 .. n : \E i \in 1 .. n : axes[i] = j
  BY <1>7 DEF Bijections
<1>9. PICK w : w = view_permute(v, axes)
  OBVIOUS
<1>10. view' = w /\ base' = base
  BY <1>2, <1>9 DEF Permute, Gives
<1>11. w.dims = [i \in 1 .. n |-> v.dims[axes[i]]]
  BY <1>8, <1>9 DEF view_permute, Canonical, Ranked
<1>12. w.dims \in [1 .. n -> Pos] /\ DOMAIN w.dims = 1 .. n
  BY <1>6, <1>8, <1>11
<1> DEFINE at(i) == CHOOSE j \in DOMAIN axes : axes[j] = i
           g == [k \in 0 .. Size(w.dims) - 1 |-> [i \in 1 .. n |-> Coords(w.dims, k)[at(i)]]]
<1>13. h = [k \in 0 .. Size(w.dims) - 1 |->
              f[Flat(v.dims, [i \in DOMAIN Coords(w.dims, k) |-> Coords(w.dims, k)[at(i)]])]]
  BY <1>2, <1>3, <1>4, <1>10 DEF Permute, Moved
<1>14. \A i \in 1 .. n : at(i) \in 1 .. n /\ axes[at(i)] = i
  BY <1>8
<1>15. \A i \in 1 .. n : at(axes[i]) = i
  <2> TAKE i \in 1 .. n
  <2>1. axes[i] \in 1 .. n
    BY <1>8
  <2>2. at(axes[i]) \in 1 .. n /\ axes[at(axes[i])] = axes[i]
    BY <1>14, <2>1
  <2> HIDE DEF at
  <2> QED BY <1>8, <2>2
<1> HIDE DEF at
<1>16. DOMAIN h = 0 .. Size(w.dims) - 1
  BY <1>13
<1>17. ASSUME NEW k \in DOMAIN h
       PROVE  /\ g[k] \in [1 .. n -> Nat] /\ Reordered(n, Coords(w.dims, k), g[k], axes)
              /\ h[k] = f[Flat(v.dims, g[k])]
  <2>1. k \in Nat
    <3>1. Size(w.dims) \in Pos
      BY <1>6, <1>12, Sizes
    <3> QED BY <1>16, <3>1 DEF Pos
  <2>2. PICK c \in [1 .. n -> Nat] : c = Coords(w.dims, k)
    BY <1>6, <1>12, <2>1, CoordsIn
  <2>3. g[k] = [i \in 1 .. n |-> c[at(i)]]
    BY <1>16, <2>2
  <2>4. h[k] = f[Flat(v.dims, [i \in 1 .. n |-> c[at(i)]])]
    <3>1. DOMAIN c = 1 .. n
      OBVIOUS
    <3> QED BY <1>13, <1>16, <2>2, <3>1
  <2>5. g[k] \in [1 .. n -> Nat]
    BY <1>14, <2>3
  <2>6. Reordered(n, c, g[k], axes)
    <3>1. ASSUME NEW i \in 1 .. n PROVE c[i] = g[k][axes[i]]
      <4>1. axes[i] \in 1 .. n /\ at(axes[i]) = i
        BY <1>8, <1>15
      <4>2. g[k][axes[i]] = c[at(axes[i])]
        BY <2>3, <4>1
      <4> QED BY <4>1, <4>2
    <3> QED BY <3>1 DEF Reordered
  <2> QED BY <2>2, <2>3, <2>4, <2>5, <2>6
<1> HIDE DEF g
<1>18. w \in Ranked(n) /\ Tracks(w, h, base)
  <2>1. PICK b : b = base
    OBVIOUS
  <2>2. PICK u : u = g
    OBVIOUS
  <2>3. Tracks(v, f, b)
    BY <1>1, <1>2, <1>3, <2>1
  <2>4. Turned(n, axes, v.dims, w.dims, f, u, h)
    BY <1>16, <1>17, <2>2 DEF Turned
  <2>5. w \in Ranked(n) /\ Tracks(w, h, b) /\ (v.mask = << >> => w.mask = << >>)
    BY <1>6, <1>7, <1>9, <2>3, <2>4, Permutes
  <2> QED BY <2>1, <2>5
<1> QED BY <1>4, <1>5, <1>10, <1>18 DEF Kept

LEMMA KeptShrink ==
    ASSUME Kept, NEW pairs \in OneShrunk, \A i \in DOMAIN pairs : pairs[i][2] <= view.dims[i],
           Shrink(pairs), Simple(view, <<"shrink", pairs>>)
    PROVE  Kept'
<1>1. PICK n \in Pos : view \in Ranked(n) /\ Tracks(view, meaning, base)
  BY DEF Kept
<1>2. PICK v \in Ranked(n) : v = view
  BY <1>1
<1>3. PICK f : f = meaning
  OBVIOUS
<1>4. PICK h : h = meaning'
  OBVIOUS
<1>5. base \in Nat
  BY DEF Kept
<1>6. n \in Nat /\ v.dims \in [1 .. n -> Pos] /\ DOMAIN v.dims = 1 .. n /\ Len(v.dims) = n
  BY RankedLen
<1>7. pairs \in [1 .. n -> Nat \X Nat] /\ \A i \in 1 .. n : pairs[i][1] < pairs[i][2] /\ pairs[i][2] <= v.dims[i]
  <2>1. PICK i \in 1 .. n, p \in (0 .. MaxSize) \X (0 .. MaxSize) :
            p[1] < p[2] /\ pairs = [j \in 1 .. n |-> IF j = i THEN <<p[1], p[2]>> ELSE <<0, v.dims[j]>>]
    <3>1. PICK i \in DOMAIN view.dims, p \in {q \in (0 .. MaxSize) \X (0 .. MaxSize) : q[1] < q[2]} :
              pairs = [j \in DOMAIN view.dims |-> IF j = i THEN <<p[1], p[2]>> ELSE <<0, view.dims[j]>>]
      BY DEF OneShrunk
    <3> QED BY <1>2, <1>6, <3>1
  <2>2. p[1] \in Nat /\ p[2] \in Nat
    BY BoundsAssumption DEF BoundsAssumption
  <2>3. \A j \in 1 .. n : v.dims[j] \in Nat /\ 0 < v.dims[j]
    BY <1>6 DEF Pos
  <2>4. ASSUME NEW j \in 1 .. n PROVE pairs[j] \in Nat \X Nat /\ pairs[j][1] < pairs[j][2]
    <3>1. CASE j = i
      BY <2>1, <2>2, <3>1
    <3>2. CASE j # i
      <4>1. pairs[j] = <<0, v.dims[j]>>
        BY <2>1, <3>2
      <4> QED BY <2>3, <4>1
    <3> QED BY <3>1, <3>2
  <2>5. DOMAIN pairs = 1 .. n /\ pairs = [j \in 1 .. n |-> pairs[j]]
    BY <2>1
  <2>6. \A j \in 1 .. n : pairs[j][2] <= v.dims[j]
    BY <1>2, <2>5
  <2> QED BY <2>4, <2>5, <2>6
<1>8. v.mask = << >>
  BY <1>2 DEF Simple
<1>9. PICK w \in Shrinkings(v, pairs) : w = view'
  BY <1>2 DEF Shrink, Gives, Shrinkings
<1> DEFINE g == [k \in 0 .. Size(w.dims) - 1 |-> [i \in 1 .. n |-> Coords(w.dims, k)[i] + pairs[i][1]]]
<1>10. h = [k \in 0 .. Size(w.dims) - 1 |->
              f[Flat(v.dims, [i \in DOMAIN Coords(w.dims, k) |-> Coords(w.dims, k)[i] + pairs[i][1]])]]
  BY <1>2, <1>3, <1>4, <1>9 DEF Shrink, Moved
<1>11. DOMAIN h = 0 .. Size(w.dims) - 1
  BY <1>10
<1>18. DOMAIN w.dims = 1 .. n
  <2>1. DOMAIN pairs = 1 .. n
    BY <1>7
  <2>2. EagerShrink(v, pairs).dims = [i \in 1 .. n |-> pairs[i][2] - pairs[i][1]]
    BY <2>1 DEF EagerShrink, Shrunk, Ranked
  <2>3. view_shrink(v, pairs).dims = [i \in 1 .. n |-> pairs[i][2] - pairs[i][1]]
    BY <2>1 DEF view_shrink, Canonical, Shrunk, Ranked
  <2> QED BY <2>2, <2>3 DEF Shrinkings
<1>12. ASSUME NEW k \in DOMAIN h PROVE Shifted(n, Coords(w.dims, k), pairs, g[k]) /\ h[k] = f[Flat(v.dims, g[k])]
  <2>1. DOMAIN Coords(w.dims, k) = 1 .. n
    BY <1>18 DEF Coords
  <2>2. g[k] = [i \in 1 .. n |-> Coords(w.dims, k)[i] + pairs[i][1]]
    BY <1>11
  <2>3. h[k] = f[Flat(v.dims, [i \in 1 .. n |-> Coords(w.dims, k)[i] + pairs[i][1]])]
    BY <1>10, <1>11, <2>1
  <2> QED BY <2>2, <2>3 DEF Shifted
<1> HIDE DEF g
<1>14. CutOut(n, pairs, v.dims, w.dims, f, g, h)
  BY <1>7, <1>11, <1>12 DEF CutOut
<1>16. w \in Ranked(n) /\ Tracks(w, h, base) /\ w.mask = << >>
  <2>1. PICK b : b = base
    OBVIOUS
  <2>2. PICK u : u = g
    OBVIOUS
  <2>3. Tracks(v, f, b) /\ CutOut(n, pairs, v.dims, w.dims, f, u, h)
    BY <1>1, <1>2, <1>3, <1>14, <2>1, <2>2
  <2>4. w \in Ranked(n) /\ Tracks(w, h, b) /\ w.mask = << >>
    <3>1. Shrinking(n, v, f, b, pairs, w, u, h)
      BY <1>6, <1>7, <1>8, <2>3 DEF Shrinking
    <3> QED BY <3>1, Shrinks
  <2> QED BY <2>1, <2>4
<1>17. base' = base
  BY DEF Shrink, Gives
<1> QED BY <1>4, <1>5, <1>9, <1>16, <1>17 DEF Kept

LEMMA KeptPad ==
    ASSUME Kept, NEW pairs \in OnePadded, Pad(pairs), Simple(view, <<"pad", pairs>>)
    PROVE  Kept'
<1>1. PICK n \in Pos : view \in Ranked(n) /\ Tracks(view, meaning, base)
  BY DEF Kept
<1>2. PICK v \in Ranked(n) : v = view
  BY <1>1
<1>3. PICK f : f = meaning
  OBVIOUS
<1>4. PICK h : h = meaning'
  OBVIOUS
<1>5. base \in Nat
  BY DEF Kept
<1>6. n \in Nat /\ v.dims \in [1 .. n -> Pos] /\ DOMAIN v.dims = 1 .. n /\ Len(v.dims) = n
  BY RankedLen
<1>7. pairs \in [1 .. n -> Nat \X Nat] /\ DOMAIN pairs = 1 .. n
  <2>1. PICK i \in 1 .. n, p \in {<<1, 0>>, <<0, 1>>, <<1, 1>>} :
            pairs = [j \in 1 .. n |-> IF j = i THEN p ELSE <<0, 0>>]
    <3>1. PICK i \in DOMAIN view.dims, p \in {<<1, 0>>, <<0, 1>>, <<1, 1>>} :
              pairs = [j \in DOMAIN view.dims |-> IF j = i THEN p ELSE <<0, 0>>]
      BY DEF OnePadded
    <3> QED BY <1>2, <1>6, <3>1
  <2>2. p \in Nat \X Nat /\ <<0, 0>> \in Nat \X Nat
    OBVIOUS
  <2> QED BY <2>1, <2>2
<1>8. v.mask = << >>
  BY <1>2 DEF Simple
<1>9. PICK w : w = view_pad(v, pairs)
  OBVIOUS
<1>10. view' = w /\ base' = base
  BY <1>2, <1>9 DEF Pad, Gives
<1>11. DOMAIN w.dims = 1 .. n
  BY <1>7, <1>9 DEF view_pad, Canonical, Ranked
<1> DEFINE g == [k \in 0 .. Size(w.dims) - 1 |-> [i \in 1 .. n |-> Coords(w.dims, k)[i] - pairs[i][1]]]
           inside(c) == \A i \in DOMAIN c : c[i] \in pairs[i][1] .. pairs[i][1] + v.dims[i] - 1
           old(c) == Flat(v.dims, [i \in DOMAIN c |-> c[i] - pairs[i][1]])
<1>12. h = [k \in 0 .. Size(w.dims) - 1 |->
              IF inside(Coords(w.dims, k)) THEN f[old(Coords(w.dims, k))] ELSE Zero]
  BY <1>2, <1>3, <1>4, <1>10 DEF Pad
<1>13. DOMAIN h = 0 .. Size(w.dims) - 1
  BY <1>12
<1>14. ASSUME NEW k \in DOMAIN h
       PROVE  /\ Unpadded(n, Coords(w.dims, k), pairs, g[k])
              /\ h[k] = IF Within(v.dims, pairs, Coords(w.dims, k)) THEN f[Flat(v.dims, g[k])] ELSE Zero
  <2>1. DOMAIN Coords(w.dims, k) = 1 .. n
    BY <1>11 DEF Coords
  <2>2. g[k] = [i \in 1 .. n |-> Coords(w.dims, k)[i] - pairs[i][1]]
    BY <1>13
  <2>3. inside(Coords(w.dims, k)) <=> Within(v.dims, pairs, Coords(w.dims, k))
    BY <1>6, <2>1 DEF Within
  <2>4. old(Coords(w.dims, k)) = Flat(v.dims, g[k])
    BY <2>1, <2>2
  <2>5. h[k] = IF inside(Coords(w.dims, k)) THEN f[old(Coords(w.dims, k))] ELSE Zero
    <3> HIDE DEF inside, old
    <3> QED BY <1>12, <1>13
  <2> HIDE DEF inside, old, g
  <2>6. Unpadded(n, Coords(w.dims, k), pairs, g[k])
    BY <2>2 DEF Unpadded
  <2> QED BY <2>3, <2>4, <2>5, <2>6
<1> HIDE DEF g
<1>15. Framed(n, pairs, v.dims, w.dims, f, g, h)
  BY <1>13, <1>14 DEF Framed
<1>16. w \in Ranked(n) /\ Tracks(w, h, base)
  <2>1. PICK b : b = base
    OBVIOUS
  <2>2. PICK u : u = g
    OBVIOUS
  <2>3. Tracks(v, f, b) /\ Framed(n, pairs, v.dims, w.dims, f, u, h)
    BY <1>1, <1>2, <1>3, <1>15, <2>1, <2>2
  <2>4. w \in Ranked(n) /\ Tracks(w, h, b)
    BY <1>6, <1>7, <1>8, <1>9, <2>3, Pads
  <2> QED BY <2>1, <2>4
<1> QED BY <1>4, <1>5, <1>10, <1>16 DEF Kept

LEMMA KeptNext ==
    ASSUME \A v, o : Asked(v, o) => Simple(v, o)
    PROVE  Kept /\ [Next]_vars => Kept'
<1>1. SUFFICES ASSUME Kept, [Next]_vars PROVE Kept'
  OBVIOUS
<1>2. CASE UNCHANGED vars
  <2>1. base' = base /\ view' = view /\ meaning' = meaning
    BY <1>2 DEF vars
  <2> QED BY <1>1, <2>1 DEF Kept
<1>3. ASSUME NEW dims \in ShapesOf(Size(view.dims)), Reshape(dims) PROVE Kept'
  <2>1. Simple(view, <<"reshape", dims>>)
    BY <1>3 DEF Reshape
  <2> QED BY <1>1, <1>3, <2>1, KeptReshape
<1>4. ASSUME NEW dims \in {s \in Shapes : Len(s) = Len(view.dims) /\ Size(s) <= MaxSize}, Expand(dims) PROVE Kept'
  <2>1. Simple(view, <<"expand", dims>>)
    BY <1>4 DEF Expand
  <2> QED BY <1>1, <1>4, <2>1, KeptExpand
<1>5. ASSUME NEW dims \in {s \in Shapes : Size(s) <= MaxSize}, Broadcast(dims) PROVE Kept'
  <2>1. Simple(view, <<"broadcast", dims>>)
    BY <1>5 DEF Broadcast
  <2> QED BY <1>1, <1>5, <2>1, KeptBroadcast
<1>6. ASSUME NEW axes \in Bijection(DOMAIN view.dims, DOMAIN view.dims), Permute(axes) PROVE Kept'
  BY <1>1, <1>6, KeptPermute
<1>7. ASSUME NEW pairs \in {p \in OneShrunk : \A i \in DOMAIN p : p[i][2] <= view.dims[i]}, Shrink(pairs) PROVE Kept'
  <2>1. Simple(view, <<"shrink", pairs>>)
    BY <1>7 DEF Shrink
  <2>2. pairs \in OneShrunk /\ \A i \in DOMAIN pairs : pairs[i][2] <= view.dims[i]
    OBVIOUS
  <2> QED BY <1>1, <1>7, <2>1, <2>2, KeptShrink
<1>8. ASSUME NEW pairs \in OnePadded, Pad(pairs) PROVE Kept'
  <2>1. Simple(view, <<"pad", pairs>>)
    BY <1>8 DEF Pad
  <2> QED BY <1>1, <1>8, <2>1, KeptPad
<1>9. CASE Next
  BY <1>3, <1>4, <1>5, <1>6, <1>7, <1>8, <1>9 DEF Next
<1> QED BY <1>1, <1>2, <1>9

LEMMA ViewsKept ==
    ASSUME \A v, o : Asked(v, o) => Simple(v, o)
    PROVE  Spec => []Kept
<1>1. Init => Kept
  BY KeptInit
<1>2. Kept /\ [Next]_vars => Kept'
  BY KeptNext
<1> QED BY <1>1, <1>2, PTL DEF Spec

(* Whatever shapes programs start with, however many dimensions and elements   *)
(* tensors have and however long the chain of operations is: where reshapes    *)
(* are ones that strides can express and a padded tensor is only permuted,     *)
(* both ways of reading an element give what the operations mean               *)
(* (thvm_to_host_raw of ops/_.c, leaf_read of backend/cpu/dispatch.c).         *)
THEOREM ViewsReadRight ==
    ASSUME \A v, o : Asked(v, o) => Simple(v, o)
    PROVE  Spec => []ReadRight
<1>1. Kept => ReadRight
  <2>1. SUFFICES ASSUME Kept, NEW k \in DOMAIN meaning
                 PROVE  thvm_to_host_raw(view, k) = meaning[k] /\ leaf_read(view, k) = meaning[k]
    BY DEF ReadRight
  <2>2. base \in Nat
    BY <2>1 DEF Kept
  <2>3. PICK n \in Pos : view \in Ranked(n) /\ Tracks(view, meaning, base)
    BY <2>1 DEF Kept
  <2>4. n \in Nat
    BY DEF Pos
  <2> QED BY <2>2, <2>3, <2>4, TracksReads
<1>2. Spec => []Kept
  BY ViewsKept
<1> QED BY <1>1, <1>2, PTL

(* In the same programs, what is copied from the buffer of an unpadded tensor  *)
(* before elements are picked is never more than the buffer has                *)
(* (thvm_to_host_raw of ops/_.c).                                              *)
THEOREM ViewsSpanFits ==
    ASSUME \A v, o : Asked(v, o) => Simple(v, o)
    PROVE  Spec => []SpanFits
<1>1. Kept => SpanFits
  <2>1. SUFFICES ASSUME Kept, view.mask = << >> PROVE Span(view) <= base
    BY DEF SpanFits
  <2>2. base \in Nat
    BY <2>1 DEF Kept
  <2>3. PICK n \in Pos : view \in Ranked(n) /\ Tracks(view, meaning, base)
    BY <2>1 DEF Kept
  <2>4. n \in Nat
    BY DEF Pos
  <2> QED BY <2>1, <2>2, <2>3, <2>4, TracksSpan
<1>2. Spec => []Kept
  BY ViewsKept
<1> QED BY <1>1, <1>2, PTL

=============================================================================
