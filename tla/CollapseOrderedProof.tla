------------------------- MODULE CollapseOrderedProof -------------------------
(***************************************************************************)
(* The collapse by priority loses no branch and serves none twice, for any *)
(* net, any number of buckets and any limit, and whatever the reducer does *)
(* between two looks at the buckets.  Without INC it gives the leaves in   *)
(* the order of their depth.  A bucket is a queue, whatever its first      *)
(* capacity.                                                               *)
(***************************************************************************)
EXTENDS CollapseOrdered, BucketQueue, SequenceTheorems, TLAPS

Finite == INSTANCE FiniteSetTheorems

\* A task: a term and a path, which has a label and a branch at each step.
Item(L, T) == [term : T, path : Seq(L \X {0, 1})]

Typed(L, T) ==
    /\ buckets \in [Keys -> Seq(Item(L, T))] /\ best \in Keys
    /\ task \in Seq(Item(L, T)) /\ Len(task) <= 1
    /\ leaves \in Seq(Item(L, T)) /\ erased \in Seq(Item(L, T))

TypeOK == \E L, T : Typed(L, T)

-----------------------------------------------------------------------------
(* Trees, as families of paths: the one at e in E is P[e].                  *)

Tree(E, P) ==
    /\ E # {}
    /\ \A e, d \in E : Above(P[e], P[d]) => e = d
    /\ \A e \in E : \A n \in 1 .. Len(P[e]) : \E d \in E : Turned(P[e], n, P[d])

\* Numbering the ends in another way leaves a tree a tree.
LEMMA TreeMoved ==
  ASSUME NEW E, NEW F, NEW P, NEW Q, Tree(E, P),
         NEW M \in [F -> E], \A w, g \in F : M[w] = M[g] => w = g,
         \A e \in E : \E w \in F : M[w] = e,
         \A w \in F : Q[w] = P[M[w]]
  PROVE  Tree(F, Q)
<1>1. F # {}
  BY DEF Tree
<1>2. ASSUME NEW e \in F, NEW d \in F, Above(Q[e], Q[d]) PROVE e = d
  <2>1. M[e] \in E /\ M[d] \in E /\ Above(P[M[e]], P[M[d]])
    BY <1>2
  <2> QED BY <2>1 DEF Tree
<1>3. ASSUME NEW e \in F, NEW n \in 1 .. Len(Q[e]) PROVE \E d \in F : Turned(Q[e], n, Q[d])
  <2>1. PICK d \in E : Turned(P[M[e]], n, P[d])
    BY DEF Tree
  <2>2. PICK c \in F : M[c] = d
    OBVIOUS
  <2> QED BY <2>1, <2>2
<1> QED BY <1>1, <1>2, <1>3 DEF Tree

\* An end has turned into two, one in each branch, and the others are the same.
Grown(L, E, P, F, Q) ==
    \E e0 \in E : \E f0, f1 \in F : \E l \in L : \E M \in [F \ {f0, f1} -> E \ {e0}] :
        /\ f0 # f1
        /\ Q[f0] = Append(P[e0], <<l, 0>>) /\ Q[f1] = Append(P[e0], <<l, 1>>)
        /\ \A w, g \in F \ {f0, f1} : M[w] = M[g] => w = g
        /\ \A e \in E \ {e0} : \E w \in F \ {f0, f1} : M[w] = e
        /\ \A w \in F \ {f0, f1} : Q[w] = P[M[w]]

\* Such a family is a tree as well.
LEMMA TreeGrown ==
  ASSUME NEW L, NEW E, NEW F, NEW P \in [E -> Seq(L \X {0, 1})],
         NEW Q \in [F -> Seq(L \X {0, 1})], Tree(E, P), Grown(L, E, P, F, Q)
  PROVE  Tree(F, Q)
<1>8. PICK e0 \in E, f0 \in F, f1 \in F, l \in L :
        \E M \in [F \ {f0, f1} -> E \ {e0}] :
            /\ f0 # f1
            /\ Q[f0] = Append(P[e0], <<l, 0>>) /\ Q[f1] = Append(P[e0], <<l, 1>>)
            /\ \A w, g \in F \ {f0, f1} : M[w] = M[g] => w = g
            /\ \A e \in E \ {e0} : \E w \in F \ {f0, f1} : M[w] = e
            /\ \A w \in F \ {f0, f1} : Q[w] = P[M[w]]
  BY Zenon DEF Grown
<1>9. PICK M \in [F \ {f0, f1} -> E \ {e0}] :
            /\ f0 # f1
            /\ Q[f0] = Append(P[e0], <<l, 0>>) /\ Q[f1] = Append(P[e0], <<l, 1>>)
            /\ \A w, g \in F \ {f0, f1} : M[w] = M[g] => w = g
            /\ \A e \in E \ {e0} : \E w \in F \ {f0, f1} : M[w] = e
            /\ \A w \in F \ {f0, f1} : Q[w] = P[M[w]]
  BY Zenon, <1>8
<1> DEFINE p == P[e0]
           New == {f0, f1}
<1>1. /\ p \in Seq(L \X {0, 1}) /\ Len(p) \in Nat
      /\ \A w \in New : Len(Q[w]) = Len(p) + 1 /\ \A i \in 1 .. Len(p) : Q[w][i] = p[i]
      /\ Q[f0][Len(p) + 1] = <<l, 0>> /\ Q[f1][Len(p) + 1] = <<l, 1>>
  <2>1. p \in Seq(L \X {0, 1}) /\ Len(p) \in Nat /\ <<l, 0>> \in L \X {0, 1} /\ <<l, 1>> \in L \X {0, 1}
    OBVIOUS
  <2> HIDE DEF p
  <2>2. \A b \in {0, 1} : /\ Len(Append(p, <<l, b>>)) = Len(p) + 1
                          /\ \A i \in 1 .. Len(p) : Append(p, <<l, b>>)[i] = p[i]
                          /\ Append(p, <<l, b>>)[Len(p) + 1] = <<l, b>>
    BY <2>1, AppendProperties
  <2>3. Q[f0] = Append(p, <<l, 0>>) /\ Q[f1] = Append(p, <<l, 1>>)
    BY <1>9 DEF p
  <2>4. /\ Len(Q[f0]) = Len(p) + 1 /\ \A i \in 1 .. Len(p) : Q[f0][i] = p[i]
        /\ Q[f0][Len(p) + 1] = <<l, 0>>
    BY <2>2, <2>3
  <2>5. /\ Len(Q[f1]) = Len(p) + 1 /\ \A i \in 1 .. Len(p) : Q[f1][i] = p[i]
        /\ Q[f1][Len(p) + 1] = <<l, 1>>
    BY <2>2, <2>3
  <2> QED BY <2>1, <2>4, <2>5
<1>2. \A w \in F : Len(Q[w]) \in Nat
  OBVIOUS
<1>3. \A w \in F \ New : M[w] \in E /\ M[w] # e0 /\ Q[w] = P[M[w]]
  BY <1>9
<1>4. \A e \in E : Len(P[e]) \in Nat
  OBVIOUS
<1> HIDE DEF p
<1>10. \A w \in New : \A i \in 1 .. Len(p) : Q[w][i] = p[i]
  BY <1>1
<1>5. ASSUME NEW w \in F, NEW g \in F, Above(Q[w], Q[g]) PROVE w = g
  <2>1. CASE w \in New /\ g \in New
    <3>1. Q[w][Len(p) + 1] = Q[g][Len(p) + 1]
      BY <1>1, <1>5, <2>1 DEF Above
    <3>2. <<l, 0>> # <<l, 1>>
      OBVIOUS
    <3> QED BY <1>1, <2>1, <3>1, <3>2
  <2>2. CASE w \in New /\ g \notin New
    <3> DEFINE q == P[M[g]]
    <3>0. q = Q[g] /\ Len(q) \in Nat
      BY <1>2, <1>3, <2>2
    <3> HIDE DEF q
    <3>2. Len(p) <= Len(q)
      BY <1>1, <1>5, <2>2, <3>0 DEF Above
    <3>3. \A i \in 1 .. Len(p) : i \in 1 .. Len(Q[w])
      BY <1>1, <2>2
    <3>4. \A i \in 1 .. Len(p) : Q[g][i] = Q[w][i]
      BY Zenon, <1>5, <3>3 DEF Above
    <3>5. \A i \in 1 .. Len(p) : q[i] = p[i]
      BY <1>10, <2>2, <3>0, <3>4
    <3>1. Above(p, P[M[g]])
      BY <3>2, <3>5 DEF Above, q
    <3> QED BY <1>3, <2>2, <3>1 DEF Tree, p
  <2>3. CASE w \notin New /\ g \in New
    <3> DEFINE q == P[M[w]]
    <3>1. M[w] \in E /\ M[w] # e0 /\ q = Q[w] /\ Len(q) \in Nat
      BY <1>3, <1>4, <2>3
    <3> HIDE DEF q
    <3>2. Len(q) <= Len(p) + 1 /\ \A i \in 1 .. Len(q) : q[i] = Q[g][i]
      BY <1>1, <1>5, <2>3, <3>1 DEF Above
    <3>3. CASE Len(q) <= Len(p)
      <4>1. \A i \in 1 .. Len(p) : Q[g][i] = p[i]
        BY Zenon, <1>10, <2>3
      <4>4. \A i \in 1 .. Len(q) : i \in 1 .. Len(p)
        BY <1>1, <3>1, <3>3
      <4>2. \A i \in 1 .. Len(q) : q[i] = p[i]
        BY Zenon, <3>2, <4>1, <4>4
      <4>3. Above(q, p)
        BY <3>3, <4>2 DEF Above
      <4> QED BY <3>1, <4>3 DEF Tree, p, q
    <3>4. CASE Len(q) = Len(p) + 1
      <4>1. \A i \in 1 .. Len(p) : Q[g][i] = p[i]
        BY Zenon, <1>10, <2>3
      <4>2. \A i \in 1 .. Len(p) : i \in 1 .. Len(q)
        BY <1>1, <3>4
      <4>3. \A i \in 1 .. Len(p) : p[i] = q[i]
        BY <3>2, <4>1, <4>2
      <4>4. Len(p) <= Len(q)
        BY <1>1, <3>4
      <4>5. Above(p, q)
        BY <4>3, <4>4 DEF Above
      <4> QED BY <3>1, <4>5 DEF Tree, p, q
    <3> QED BY <1>1, <3>1, <3>2, <3>3, <3>4
  <2>4. CASE w \notin New /\ g \notin New
    <3>1. M[w] \in E /\ M[g] \in E /\ Above(P[M[w]], P[M[g]])
      BY <1>3, <1>5, <2>4
    <3>2. M[w] = M[g]
      BY <3>1 DEF Tree
    <3> QED BY <1>9, <2>4, <3>2
  <2> QED BY <2>1, <2>2, <2>3, <2>4
\* Where an end of the old tree was turned to, an end of the new one is.
<1>6. ASSUME NEW q, NEW n \in Nat \ {0}, NEW d \in E, Turned(q, n, P[d])
      PROVE \E g \in F : Turned(q, n, Q[g])
  <2>1. CASE d = e0
    <3>1. n <= Len(p)
      BY <1>6, <2>1 DEF Turned, p
    <3>2. n \in 1 .. Len(p)
      BY <1>1, <3>1
    <3>3. Q[f0][n] = p[n] /\ \A i \in 1 .. n - 1 : Q[f0][i] = p[i]
      <4>1. \A i \in 1 .. Len(p) : Q[f0][i] = p[i]
        BY Zenon, <1>10
      <4> QED BY <1>1, <3>2, <4>1
    <3>4. Turned(q, n, Q[f0])
      BY <1>1, <1>6, <2>1, <3>1, <3>3 DEF Turned, p
    <3> QED BY <3>4
  <2>2. CASE d # e0
    <3>1. PICK g \in F \ New : M[g] = d
      BY <1>9, <2>2
    <3> QED BY <1>3, <1>6, <3>1
  <2> QED BY <2>1, <2>2
<1>7. ASSUME NEW w \in F, NEW n \in 1 .. Len(Q[w]) PROVE \E g \in F : Turned(Q[w], n, Q[g])
  <2>1. CASE w \notin New
    <3>0. M[w] \in E /\ n \in 1 .. Len(P[M[w]])
      BY <1>3, <2>1
    <3>1. PICK d \in E : Turned(P[M[w]], n, P[d])
      BY Zenon, <3>0 DEF Tree
    <3>2. Turned(Q[w], n, P[d]) /\ n \in Nat \ {0}
      BY <1>2, <1>3, <2>1, <3>1
    <3> QED BY <1>6, <3>2
  <2>2. CASE w \in New /\ n <= Len(p)
    <3>1. n \in 1 .. Len(p)
      BY <1>1, <2>2
    <3>2. PICK d \in E : Turned(p, n, P[d])
      BY Zenon, <3>1 DEF Tree, p
    <3>3. Q[w][n] = p[n] /\ \A i \in 1 .. n - 1 : Q[w][i] = p[i]
      <4>1. \A i \in 1 .. Len(p) : Q[w][i] = p[i]
        BY Zenon, <1>10, <2>2
      <4> QED BY <1>1, <3>1, <4>1
    <3>4. Turned(Q[w], n, P[d])
      <4>1. /\ n <= Len(P[d]) /\ \A i \in 1 .. n - 1 : P[d][i] = p[i]
            /\ P[d][n] = <<p[n][1], 1 - p[n][2]>>
        BY <3>2 DEF Turned
      <4> QED BY <3>3, <4>1 DEF Turned
    <3>5. n \in Nat \ {0}
      BY <3>1
    <3> QED BY <1>6, <3>4, <3>5
  <2>3. CASE w \in New /\ n > Len(p)
    <3>1. n = Len(p) + 1
      BY <1>1, <2>3
    <3>2. \A g \in New : /\ n <= Len(Q[g])
                         /\ \A i \in 1 .. n - 1 : Q[g][i] = Q[w][i]
      <4>1. \A g \in New : \A i \in 1 .. Len(p) : Q[g][i] = p[i]
        BY Zenon, <1>10
      <4>2. n - 1 = Len(p) /\ \A g \in New : n <= Len(Q[g])
        BY <1>1, <3>1
      <4> QED BY <2>3, <4>1, <4>2
    <3>3. <<l, 0>> = <<Q[f1][n][1], 1 - Q[f1][n][2]>> /\ <<l, 1>> = <<Q[f0][n][1], 1 - Q[f0][n][2]>>
      BY <1>1, <3>1
    <3>4. Turned(Q[f0], n, Q[f1]) /\ Turned(Q[f1], n, Q[f0])
      <4>1. CASE w = f0
        BY <1>1, <3>1, <3>2, <3>3, <4>1 DEF Turned
      <4>2. CASE w = f1
        BY <1>1, <3>1, <3>2, <3>3, <4>2 DEF Turned
      <4> QED BY <2>3, <4>1, <4>2
    <3> QED BY <2>3, <3>4
  <2> QED BY <1>1, <2>1, <2>2, <2>3
<1> QED BY <1>5, <1>7 DEF Tree

-----------------------------------------------------------------------------
(* Trees whose ends are the positions of some lists.                        *)

EndsIn(ls)  == UNION {{s} \X DOMAIN ls[s] : s \in Lists}
PathsIn(ls) == [e \in EndsIn(ls) |-> ls[e[1]][e[2]].path]

Without(ls, a) == [ls EXCEPT ![a] = Tail(@)]
With(ls, b, x) == [ls EXCEPT ![b] = Append(@, x)]

\* Where the ends were before the first of list a was taken away.
Came(ls, a) == [e \in EndsIn(Without(ls, a)) |-> IF e[1] = a THEN <<a, e[2] + 1>> ELSE e]

\* The position behind the last of list b.
NewEnd(ls, b) == <<b, Len(ls[b]) + 1>>

\* Came is one to one, and leads to the same paths.
Nearer(ls, a) ==
    /\ <<a, 1>> \in EndsIn(ls) /\ PathsIn(ls)[<<a, 1>>] = Head(ls[a]).path
    /\ Came(ls, a) \in [EndsIn(Without(ls, a)) -> EndsIn(ls) \ {<<a, 1>>}]
    /\ \A w, g \in EndsIn(Without(ls, a)) : Came(ls, a)[w] = Came(ls, a)[g] => w = g
    /\ \A e \in EndsIn(ls) \ {<<a, 1>>} : \E w \in EndsIn(Without(ls, a)) : Came(ls, a)[w] = e
    /\ \A w \in EndsIn(Without(ls, a)) :
           PathsIn(Without(ls, a))[w] = PathsIn(ls)[Came(ls, a)[w]]

\* One end is new, and has the path of x.
Longer(ls, b, x) ==
    /\ NewEnd(ls, b) \notin EndsIn(ls)
    /\ EndsIn(With(ls, b, x)) = EndsIn(ls) \cup {NewEnd(ls, b)}
    /\ PathsIn(With(ls, b, x))[NewEnd(ls, b)] = x.path
    /\ \A e \in EndsIn(ls) : PathsIn(With(ls, b, x))[e] = PathsIn(ls)[e]

\* An end is a list and a position in it.
LEMMA EndsAre ==
  ASSUME NEW S, NEW ls \in [Lists -> Seq(S)]
  PROVE  /\ \A s, i : <<s, i>> \in EndsIn(ls) <=> s \in Lists /\ i \in 1 .. Len(ls[s])
         /\ \A e \in EndsIn(ls) : e = <<e[1], e[2]>> /\ e[1] \in Lists /\ e[2] \in 1 .. Len(ls[e[1]])
<1>1. \A s \in Lists : DOMAIN ls[s] = 1 .. Len(ls[s])
  OBVIOUS
<1>2. \A e : e \in EndsIn(ls) <=> \E s \in Lists : e \in {s} \X (1 .. Len(ls[s]))
  BY <1>1 DEF EndsIn
<1> QED BY <1>2

\* The tail of a list that is not empty.
LEMMA ListTail ==
  ASSUME NEW S, NEW s \in Seq(S), s # << >>
  PROVE  /\ Tail(s) \in Seq(S) /\ Len(Tail(s)) = Len(s) - 1 /\ Len(s) \in Nat \ {0}
         /\ \A i \in 1 .. Len(s) - 1 : Tail(s)[i] = s[i + 1]
         /\ Head(s) = s[1] /\ s[1] \in S
OBVIOUS

\* With the first of a list taken away, the others are one position nearer.
LEMMA TakenAway ==
  ASSUME NEW L, NEW T, NEW ls \in [Lists -> Seq(Item(L, T))], NEW a \in Lists, ls[a] # << >>
  PROVE  Without(ls, a) \in [Lists -> Seq(Item(L, T))] /\ Nearer(ls, a)
<1> DEFINE rs == Without(ls, a)
           E  == EndsIn(ls) \ {<<a, 1>>}
           M  == Came(ls, a)
<1>1. /\ Tail(ls[a]) \in Seq(Item(L, T)) /\ Len(Tail(ls[a])) = Len(ls[a]) - 1
      /\ Len(ls[a]) \in Nat \ {0} /\ Head(ls[a]) = ls[a][1]
      /\ \A i \in 1 .. Len(ls[a]) - 1 : Tail(ls[a])[i] = ls[a][i + 1]
  BY ListTail
<1>2. /\ rs \in [Lists -> Seq(Item(L, T))] /\ rs[a] = Tail(ls[a])
      /\ \A s \in Lists \ {a} : rs[s] = ls[s]
  BY <1>1 DEF Without
<1> HIDE DEF rs
<1>3. /\ \A s, i : <<s, i>> \in EndsIn(ls) <=> s \in Lists /\ i \in 1 .. Len(ls[s])
      /\ \A e \in EndsIn(ls) : e = <<e[1], e[2]>> /\ e[1] \in Lists /\ e[2] \in 1 .. Len(ls[e[1]])
  BY EndsAre
<1>4. /\ \A s, i : <<s, i>> \in EndsIn(rs) <=> s \in Lists /\ i \in 1 .. Len(rs[s])
      /\ \A e \in EndsIn(rs) : e = <<e[1], e[2]>> /\ e[1] \in Lists /\ e[2] \in 1 .. Len(rs[e[1]])
  BY <1>2, EndsAre
<1>5. <<a, 1>> \in EndsIn(ls) /\ PathsIn(ls)[<<a, 1>>] = Head(ls[a]).path
  BY <1>1, <1>3 DEF PathsIn
<1>6. ASSUME NEW w \in EndsIn(rs)
      PROVE  /\ M[w] \in E /\ PathsIn(rs)[w] = PathsIn(ls)[M[w]]
             /\ w[1] = a => M[w] = <<a, w[2] + 1>>
             /\ w[1] # a => M[w] = w
             /\ w = <<w[1], w[2]>> /\ w[2] \in Nat
  <2>0. M[w] = IF w[1] = a THEN <<a, w[2] + 1>> ELSE w
    BY DEF Came, rs
  <2>1. w = <<w[1], w[2]>> /\ w[1] \in Lists /\ w[2] \in 1 .. Len(rs[w[1]])
    BY <1>4
  <2>2. Len(rs[w[1]]) \in Nat
    BY <1>2, <2>1
  <2>3. CASE w[1] = a
    <3>1. w[2] \in 1 .. Len(ls[a]) - 1 /\ w[2] + 1 \in 1 .. Len(ls[a]) /\ w[2] + 1 # 1
      BY <1>1, <1>2, <2>1, <2>3
    <3>2. M[w] = <<a, w[2] + 1>> /\ M[w] \in E
      BY <1>3, <2>0, <2>3, <3>1
    <3>3. rs[w[1]][w[2]] = ls[a][w[2] + 1]
      BY <1>1, <1>2, <2>3, <3>1
    <3>4. PathsIn(rs)[w] = rs[w[1]][w[2]].path /\ PathsIn(ls)[M[w]] = ls[a][w[2] + 1].path
      BY <3>2 DEF PathsIn
    <3> QED BY <2>1, <2>2, <2>3, <3>2, <3>3, <3>4
  <2>4. CASE w[1] # a
    <3>1. M[w] = w /\ w \in EndsIn(ls) /\ rs[w[1]] = ls[w[1]]
      BY <1>2, <1>3, <2>0, <2>1, <2>4
    <3>2. w # <<a, 1>>
      BY <2>4
    <3>3. PathsIn(rs)[w] = PathsIn(ls)[w]
      BY <3>1 DEF PathsIn
    <3> QED BY <2>1, <2>2, <2>4, <3>1, <3>2, <3>3
  <2> QED BY <2>3, <2>4
<1>7. M \in [EndsIn(rs) -> E]
  BY <1>6 DEF Came, rs
<1> HIDE DEF M
<1>8. ASSUME NEW w \in EndsIn(rs), NEW g \in EndsIn(rs), M[w] = M[g] PROVE w = g
  <2>1. /\ w[1] = a => M[w] = <<a, w[2] + 1>>
        /\ w[1] # a => M[w] = w
        /\ w = <<w[1], w[2]>> /\ w[2] \in Nat
    BY <1>6
  <2>2. /\ g[1] = a => M[g] = <<a, g[2] + 1>>
        /\ g[1] # a => M[g] = g
        /\ g = <<g[1], g[2]>> /\ g[2] \in Nat
    BY <1>6
  <2>3. M[w][1] = w[1] /\ M[g][1] = g[1]
    BY <2>1, <2>2
  <2>4. CASE w[1] = a
    <3>1. w[2] + 1 = M[w][2] /\ g[2] + 1 = M[g][2]
      BY <1>8, <2>1, <2>2, <2>3, <2>4
    <3> QED BY <1>8, <2>1, <2>2, <2>3, <2>4, <3>1
  <2> QED BY <1>8, <2>1, <2>2, <2>3, <2>4
<1>9. ASSUME NEW e \in E PROVE \E w \in EndsIn(rs) : M[w] = e
  <2>1. e = <<e[1], e[2]>> /\ e[1] \in Lists /\ e[2] \in 1 .. Len(ls[e[1]]) /\ e # <<a, 1>>
    BY <1>3
  <2>2. CASE e[1] = a
    <3>1. e[2] # 1
      BY <2>1, <2>2
    <3>2. e[2] - 1 \in 1 .. Len(rs[a])
      BY <1>1, <1>2, <2>1, <2>2, <3>1
    <3>3. <<a, e[2] - 1>> \in EndsIn(rs)
      BY <1>4, <3>2
    <3>4. M[<<a, e[2] - 1>>] = <<a, e[2] - 1 + 1>>
      BY <1>6, <3>3
    <3>5. e[2] - 1 + 1 = e[2]
      BY <1>1, <2>1, <2>2
    <3> QED BY <2>1, <2>2, <3>3, <3>4, <3>5
  <2>3. CASE e[1] # a
    <3>1. e \in EndsIn(rs)
      BY <1>2, <1>4, <2>1, <2>3
    <3> QED BY <1>6, <2>3, <3>1
  <2> QED BY <2>2, <2>3
<1>10. \A w \in EndsIn(rs) : PathsIn(rs)[w] = PathsIn(ls)[M[w]]
  BY <1>6
<1> QED BY Zenon, <1>2, <1>5, <1>7, <1>8, <1>9, <1>10 DEF M, rs, Nearer

\* Something at the end of a list is one end more.
LEMMA PutBehind ==
  ASSUME NEW L, NEW T, NEW ls \in [Lists -> Seq(Item(L, T))], NEW b \in Lists,
         NEW x \in Item(L, T)
  PROVE  With(ls, b, x) \in [Lists -> Seq(Item(L, T))] /\ Longer(ls, b, x)
<1> DEFINE ms  == With(ls, b, x)
           new == NewEnd(ls, b)
<1>1. /\ Append(ls[b], x) \in Seq(Item(L, T)) /\ Len(Append(ls[b], x)) = Len(ls[b]) + 1
      /\ Len(ls[b]) \in Nat /\ Append(ls[b], x)[Len(ls[b]) + 1] = x
      /\ \A i \in 1 .. Len(ls[b]) : Append(ls[b], x)[i] = ls[b][i]
  BY AppendProperties
<1>2. /\ ms \in [Lists -> Seq(Item(L, T))] /\ ms[b] = Append(ls[b], x)
      /\ \A s \in Lists \ {b} : ms[s] = ls[s]
  BY <1>1 DEF With
<1> HIDE DEF ms
<1>3. /\ \A s, i : <<s, i>> \in EndsIn(ls) <=> s \in Lists /\ i \in 1 .. Len(ls[s])
      /\ \A e \in EndsIn(ls) : e = <<e[1], e[2]>> /\ e[1] \in Lists /\ e[2] \in 1 .. Len(ls[e[1]])
  BY EndsAre
<1>4. /\ \A s, i : <<s, i>> \in EndsIn(ms) <=> s \in Lists /\ i \in 1 .. Len(ms[s])
      /\ \A e \in EndsIn(ms) : e = <<e[1], e[2]>> /\ e[1] \in Lists /\ e[2] \in 1 .. Len(ms[e[1]])
  BY <1>2, EndsAre
<1>5. new \notin EndsIn(ls) /\ new \in EndsIn(ms)
  BY <1>1, <1>2, <1>3, <1>4 DEF NewEnd
<1>6. ASSUME NEW e \in EndsIn(ls)
      PROVE  e \in EndsIn(ms) /\ ms[e[1]][e[2]] = ls[e[1]][e[2]]
  <2>1. e = <<e[1], e[2]>> /\ e[1] \in Lists /\ e[2] \in 1 .. Len(ls[e[1]])
    BY <1>3
  <2>2. CASE e[1] = b
    BY <1>1, <1>2, <1>4, <2>1, <2>2
  <2>3. CASE e[1] # b
    BY <1>2, <1>4, <2>1, <2>3
  <2> QED BY <2>2, <2>3
<1>7. ASSUME NEW e \in EndsIn(ms), e # new PROVE e \in EndsIn(ls)
  <2>1. e = <<e[1], e[2]>> /\ e[1] \in Lists /\ e[2] \in 1 .. Len(ms[e[1]])
    BY <1>4
  <2>2. CASE e[1] = b
    <3>1. e[2] # Len(ls[b]) + 1
      BY <1>7, <2>1, <2>2 DEF NewEnd
    <3>2. e[2] \in 1 .. Len(ls[b])
      BY <1>1, <1>2, <2>1, <2>2, <3>1
    <3> QED BY <1>3, <2>1, <2>2, <3>2
  <2>3. CASE e[1] # b
    BY <1>2, <1>3, <2>1, <2>3
  <2> QED BY <2>2, <2>3
<1>8. EndsIn(ms) = EndsIn(ls) \cup {new}
  BY <1>5, <1>6, <1>7
<1>9. PathsIn(ms)[new] = x.path
  <2>1. PathsIn(ms)[new] = ms[b][Len(ls[b]) + 1].path
    BY <1>5 DEF PathsIn, NewEnd
  <2> QED BY <1>1, <1>2, <2>1
<1>10. \A e \in EndsIn(ls) : PathsIn(ms)[e] = PathsIn(ls)[e]
  BY <1>6 DEF PathsIn
<1> QED BY Zenon, <1>2, <1>5, <1>8, <1>9, <1>10 DEF ms, new, Longer

\* The path of every end is a sequence of branches.
LEMMA PathsTyped ==
  ASSUME NEW L, NEW T, NEW ls \in [Lists -> Seq(Item(L, T))]
  PROVE  PathsIn(ls) \in [EndsIn(ls) -> Seq(L \X {0, 1})]
<1>1. ASSUME NEW e \in EndsIn(ls) PROVE ls[e[1]][e[2]].path \in Seq(L \X {0, 1})
  <2>1. e[1] \in Lists /\ e[2] \in 1 .. Len(ls[e[1]])
    BY EndsAre
  <2>2. ls[e[1]] \in Seq(Item(L, T))
    BY <2>1
  <2>3. ls[e[1]][e[2]] \in Item(L, T)
    BY <2>1, <2>2
  <2> QED BY <2>3 DEF Item
<1> QED BY <1>1 DEF PathsIn

\* The first of a list may go to the end of another.
LEMMA PutElsewhere ==
  ASSUME NEW L, NEW T, NEW ls \in [Lists -> Seq(Item(L, T))],
         NEW a \in Lists, ls[a] # << >>, NEW b \in Lists,
         NEW x \in Item(L, T), x.path = Head(ls[a]).path,
         Tree(EndsIn(ls), PathsIn(ls))
  PROVE  Tree(EndsIn(With(Without(ls, a), b, x)), PathsIn(With(Without(ls, a), b, x)))
<1> DEFINE rs  == Without(ls, a)
           ms  == With(rs, b, x)
           new == NewEnd(rs, b)
           E   == EndsIn(ls) \ {<<a, 1>>}
           M   == Came(ls, a)
<1>0. rs \in [Lists -> Seq(Item(L, T))] /\ Nearer(ls, a)
  BY TakenAway
<1>1. <<a, 1>> \in EndsIn(ls) /\ PathsIn(ls)[<<a, 1>>] = x.path
  BY Zenon, <1>0 DEF Nearer
<1>2. /\ M \in [EndsIn(rs) -> E]
      /\ \A w, g \in EndsIn(rs) : M[w] = M[g] => w = g
      /\ \A e \in E : \E w \in EndsIn(rs) : M[w] = e
      /\ \A w \in EndsIn(rs) : PathsIn(rs)[w] = PathsIn(ls)[M[w]]
  BY Zenon, <1>0 DEF Nearer
<1> HIDE DEF M, rs
<1>3. ms \in [Lists -> Seq(Item(L, T))] /\ Longer(rs, b, x)
  BY <1>0, PutBehind
<1>4. /\ new \notin EndsIn(rs) /\ EndsIn(ms) = EndsIn(rs) \cup {new}
      /\ PathsIn(ms)[new] = x.path
      /\ \A e \in EndsIn(rs) : PathsIn(ms)[e] = PathsIn(rs)[e]
  BY Zenon, <1>3 DEF Longer
<1> HIDE DEF ms, new
<1> DEFINE N == [w \in EndsIn(ms) |-> IF w = new THEN <<a, 1>> ELSE M[w]]
<1>5. N[new] = <<a, 1>> /\ \A w \in EndsIn(rs) : N[w] = M[w] /\ M[w] \in E
  BY <1>2, <1>4
<1>6. N \in [EndsIn(ms) -> EndsIn(ls)]
  BY <1>1, <1>2, <1>4
<1> HIDE DEF N
<1>7. ASSUME NEW w \in EndsIn(ms), NEW g \in EndsIn(ms), N[w] = N[g] PROVE w = g
  <2>1. \A v \in EndsIn(rs) : N[v] = M[v] /\ N[v] # N[new]
    BY <1>5
  <2>2. CASE w = new \/ g = new
    BY <1>4, <1>7, <2>1, <2>2
  <2>3. CASE w \in EndsIn(rs) /\ g \in EndsIn(rs)
    BY <1>2, <1>7, <2>1, <2>3
  <2> QED BY <1>4, <2>2, <2>3
<1>8. ASSUME NEW e \in EndsIn(ls) PROVE \E w \in EndsIn(ms) : N[w] = e
  <2>1. CASE e = <<a, 1>>
    BY <1>4, <1>5, <2>1
  <2>2. CASE e # <<a, 1>>
    <3>1. PICK w \in EndsIn(rs) : M[w] = e
      BY <1>2, <2>2
    <3> QED BY <1>4, <1>5, <3>1
  <2> QED BY <2>1, <2>2
<1>9. \A w \in EndsIn(ms) : PathsIn(ms)[w] = PathsIn(ls)[N[w]]
  BY <1>1, <1>2, <1>4, <1>5
<1> HIDE DEF E
<1>10. Tree(EndsIn(ms), PathsIn(ms))
  BY <1>6, <1>7, <1>8, <1>9, TreeMoved
<1> QED BY <1>10 DEF ms, rs

\* The first of a list may be replaced by two that are its branches.
LEMMA PutTwice ==
  ASSUME NEW L, NEW T, NEW ls \in [Lists -> Seq(Item(L, T))],
         NEW a \in Lists, ls[a] # << >>, NEW b \in Lists, NEW c \in Lists, NEW l \in L,
         NEW x \in Item(L, T), x.path = Append(Head(ls[a]).path, <<l, 0>>),
         NEW y \in Item(L, T), y.path = Append(Head(ls[a]).path, <<l, 1>>),
         Tree(EndsIn(ls), PathsIn(ls))
  PROVE  Tree(EndsIn(With(With(Without(ls, a), b, x), c, y)),
              PathsIn(With(With(Without(ls, a), b, x), c, y)))
<1> DEFINE rs == Without(ls, a)
           qs == With(rs, b, x)
           ms == With(qs, c, y)
           f0 == NewEnd(rs, b)
           f1 == NewEnd(qs, c)
           e0 == <<a, 1>>
           E  == EndsIn(ls) \ {e0}
           M  == Came(ls, a)
<1>0. rs \in [Lists -> Seq(Item(L, T))] /\ Nearer(ls, a)
  BY TakenAway
<1>1. e0 \in EndsIn(ls) /\ PathsIn(ls)[e0] = Head(ls[a]).path
  BY Zenon, <1>0 DEF Nearer
<1>2. /\ M \in [EndsIn(rs) -> E]
      /\ \A w, g \in EndsIn(rs) : M[w] = M[g] => w = g
      /\ \A e \in E : \E w \in EndsIn(rs) : M[w] = e
      /\ \A w \in EndsIn(rs) : PathsIn(rs)[w] = PathsIn(ls)[M[w]]
  BY Zenon, <1>0 DEF Nearer
<1> HIDE DEF M, rs
<1>3. qs \in [Lists -> Seq(Item(L, T))] /\ Longer(rs, b, x)
  BY <1>0, PutBehind
<1>4. /\ f0 \notin EndsIn(rs) /\ EndsIn(qs) = EndsIn(rs) \cup {f0}
      /\ PathsIn(qs)[f0] = x.path
      /\ \A e \in EndsIn(rs) : PathsIn(qs)[e] = PathsIn(rs)[e]
  BY Zenon, <1>3 DEF Longer
<1> HIDE DEF qs, f0
<1>5. ms \in [Lists -> Seq(Item(L, T))] /\ Longer(qs, c, y)
  BY <1>3, PutBehind
<1>6. /\ f1 \notin EndsIn(qs) /\ EndsIn(ms) = EndsIn(qs) \cup {f1}
      /\ PathsIn(ms)[f1] = y.path
      /\ \A e \in EndsIn(qs) : PathsIn(ms)[e] = PathsIn(qs)[e]
  BY Zenon, <1>5 DEF Longer
<1> HIDE DEF ms, f1
<1>7. PathsIn(ls) \in [EndsIn(ls) -> Seq(L \X {0, 1})]
      /\ PathsIn(ms) \in [EndsIn(ms) -> Seq(L \X {0, 1})]
  BY <1>5, PathsTyped
<1>8. EndsIn(ms) \ {f0, f1} = EndsIn(rs) /\ f0 # f1 /\ f0 \in EndsIn(ms) /\ f1 \in EndsIn(ms)
  BY <1>4, <1>6
<1>9. PathsIn(ms)[f0] = Append(PathsIn(ls)[e0], <<l, 0>>)
      /\ PathsIn(ms)[f1] = Append(PathsIn(ls)[e0], <<l, 1>>)
  BY <1>1, <1>4, <1>6
<1>10. \A w \in EndsIn(rs) : PathsIn(ms)[w] = PathsIn(ls)[M[w]]
  BY <1>2, <1>4, <1>6
<1> HIDE DEF e0
<1>11. Tree(EndsIn(ms), PathsIn(ms))
  <2> DEFINE A == EndsIn(ls)
             B == EndsIn(ms)
             P == PathsIn(ls)
             Q == PathsIn(ms)
  <2>1. /\ P \in [A -> Seq(L \X {0, 1})] /\ Q \in [B -> Seq(L \X {0, 1})] /\ Tree(A, P)
        /\ e0 \in A /\ f0 \in B /\ f1 \in B /\ f0 # f1
        /\ Q[f0] = Append(P[e0], <<l, 0>>) /\ Q[f1] = Append(P[e0], <<l, 1>>)
        /\ M \in [B \ {f0, f1} -> A \ {e0}]
        /\ \A w, g \in B \ {f0, f1} : M[w] = M[g] => w = g
        /\ \A e \in A \ {e0} : \E w \in B \ {f0, f1} : M[w] = e
        /\ \A w \in B \ {f0, f1} : Q[w] = P[M[w]]
    BY <1>1, <1>2, <1>7, <1>8, <1>9, <1>10
  <2> HIDE DEF A, B, P, Q
  <2>2. Grown(L, A, P, B, Q)
    <3> SUFFICES \E e \in A : \E g, h \in B : \E k \in L : \E K \in [B \ {g, h} -> A \ {e}] :
            /\ g # h
            /\ Q[g] = Append(P[e], <<k, 0>>) /\ Q[h] = Append(P[e], <<k, 1>>)
            /\ \A u, v \in B \ {g, h} : K[u] = K[v] => u = v
            /\ \A d \in A \ {e} : \E w \in B \ {g, h} : K[w] = d
            /\ \A w \in B \ {g, h} : Q[w] = P[K[w]]
      BY Zenon DEF Grown
    <3> e0 \in A /\ f0 \in B /\ f1 \in B /\ M \in [B \ {f0, f1} -> A \ {e0}]
      BY <2>1
    <3> WITNESS e0 \in A
    <3> WITNESS f0 \in B, f1 \in B
    <3> WITNESS l \in L
    <3> WITNESS M \in [B \ {f0, f1} -> A \ {e0}]
    <3> QED BY <2>1
  <2>3. Tree(B, Q)
    BY <2>1, <2>2, TreeGrown
  <2> QED BY <2>3 DEF B, Q
<1> QED BY <1>11 DEF ms, qs, rs

-----------------------------------------------------------------------------
(* The lists of a state.                                                    *)

\* Some number in a non-empty set of natural numbers is the least.
LEMMA Least ==
  ASSUME NEW S, S \subseteq Nat, S # {}
  PROVE  \E k \in S : \A j \in S : k <= j
<1> DEFINE Up(n) == 0 .. n
           T == {Up(n) : n \in S}
           R == Finite!StrictSubsetOrdering(Nat)
<1>1. Finite!IsWellFoundedOn(R, Finite!FiniteSubsetsOf(Nat))
  BY Finite!FS_StrictSubsetOrderingWellFounded
<1>2. \A n \in S : Up(n) \in Finite!FiniteSubsetsOf(Nat)
  <2> TAKE n \in S
  <2>1. Finite!IsFiniteSet(0 .. n)
    BY Finite!FS_Interval
  <2> QED BY <2>1 DEF Finite!FiniteSubsetsOf
<1>4. T \subseteq Finite!FiniteSubsetsOf(Nat) /\ T # {}
  BY <1>2
<1>6. PICK x \in T : \A y \in T : <<y, x>> \notin R
  <2> HIDE DEF T, R
  <2> QED BY <1>1, <1>4, Finite!WFMin
<1>7. PICK k \in S : x = Up(k)
  BY <1>6
<1>8. ASSUME NEW j \in S, ~(k <= j) PROVE FALSE
  <2>1. Up(j) \in T
    OBVIOUS
  <2>2. Up(j) \subseteq Up(k) /\ Up(j) # Up(k) /\ Up(k) \subseteq Nat
    <3>1. k \in Nat /\ j \in Nat /\ j < k
      BY <1>8
    <3>2. k \in Up(k) /\ k \notin Up(j)
      BY <3>1
    <3> QED BY <3>1, <3>2
  <2>3. <<Up(j), Up(k)>> \in R
    BY <2>2 DEF Finite!StrictSubsetOrdering
  <2> QED BY <1>6, <1>7, <2>1, <2>3
<1> QED BY <1>8

\* Keys are natural numbers, and no key is the number of another list.
LEMMA KeysAre == Keys \subseteq Nat /\ Keys \subseteq Lists /\ Buckets \div 2 \in Keys
                 /\ \A k \in Keys : Later(k) \in Keys /\ k \notin {-1, -2, -3}
<1>1. Buckets \in Nat \ {0}
  BY BucketsAssumption
<1> QED BY <1>1 DEF Keys, Lists, Later

\* Lowest is what its name says whenever a task waits.
LEMMA LowestIs == Waiting # {} => Lowest \in Waiting /\ \A j \in Waiting : Lowest <= j
<1> SUFFICES ASSUME Waiting # {} PROVE Lowest \in Waiting /\ \A j \in Waiting : Lowest <= j
  OBVIOUS
<1>1. Waiting \subseteq Nat
  BY KeysAre DEF Waiting
<1>2. \E k \in Waiting : \A j \in Waiting : k <= j
  BY <1>1, Least
<1> QED BY <1>2 DEF Lowest

\* Peeling gives a key.
LEMMA PeelKey == \A t : \A k \in Keys : Peel(t, k).key \in Keys
<1> TAKE t
<1> TAKE k \in Keys
<1>1. \A c : (IF c \in 0 .. k THEN k - c ELSE 0) \in Keys
  BY BucketsAssumption DEF Keys
<1> QED BY Zenon, <1>1 DEF Peel

\* The lists of a state, given its variables.
Family(bs, tk, lv, er) ==
    [s \in Lists |-> CASE s = -1 -> lv [] s = -2 -> er [] s = -3 -> tk [] OTHER -> bs[s]]

\* What is where in the family of a state.
LEMMA FamilyIs ==
  ASSUME NEW bs, NEW tk, NEW lv, NEW er
  PROVE  /\ -1 \in Lists /\ -2 \in Lists /\ -3 \in Lists
         /\ \A s \in Lists : s \in {-1, -2, -3} \/ s \in Keys
         /\ DOMAIN Family(bs, tk, lv, er) = Lists
         /\ Family(bs, tk, lv, er)[-1] = lv /\ Family(bs, tk, lv, er)[-2] = er
         /\ Family(bs, tk, lv, er)[-3] = tk
         /\ \A k \in Keys : Family(bs, tk, lv, er)[k] = bs[k]
<1>1. -1 \in Lists /\ -2 \in Lists /\ -3 \in Lists
      /\ \A s \in Lists : s \in {-1, -2, -3} \/ s \in Keys
  BY BucketsAssumption DEF Lists, Keys
<1>2. \A k \in Keys : k \in Lists /\ k # -1 /\ k # -2 /\ k # -3
  BY KeysAre
<1> QED BY <1>1, <1>2 DEF Family

\* A family of lists of S, when each list is one.
LEMMA FamilyTyped ==
  ASSUME NEW S, NEW bs \in [Keys -> Seq(S)], NEW tk \in Seq(S), NEW lv \in Seq(S), NEW er \in Seq(S)
  PROVE  Family(bs, tk, lv, er) \in [Lists -> Seq(S)]
<1> DEFINE F == Family(bs, tk, lv, er)
<1>1. \A s \in Lists : F[s] \in Seq(S)
  BY FamilyIs
<1>2. F = [s \in Lists |-> F[s]]
  BY DEF Family
<1> QED BY <1>1, <1>2

\* A family is known by its lists.
Consists(F, bs, tk, lv, er) ==
    /\ F = [s \in Lists |-> F[s]] /\ F[-1] = lv /\ F[-2] = er /\ F[-3] = tk
    /\ \A k \in Keys : F[k] = bs[k]

\* Only one family has these lists.
LEMMA FamilyAgrees ==
  ASSUME NEW bs, NEW tk, NEW lv, NEW er, NEW F, Consists(F, bs, tk, lv, er)
  PROVE  Family(bs, tk, lv, er) = F
<1> DEFINE G == Family(bs, tk, lv, er)
<1>1. \A s \in Lists : F[s] = G[s]
  BY FamilyIs DEF Consists
<1>2. G = [s \in Lists |-> G[s]]
  BY DEF Family
<1> HIDE DEF G
<1>3. G = F
  BY <1>1, <1>2 DEF Consists
<1> QED BY <1>3 DEF G

\* What goes in or out of one list of a state does so in the family.
Dequeue(bs, k) == [bs EXCEPT ![k] = Tail(@)]

LEMMA TaskOut ==
  ASSUME NEW bs, NEW tk, NEW lv, NEW er
  PROVE  Without(Family(bs, tk, lv, er), -3)
           = Family(bs, Tail(tk), lv, er)
<1> DEFINE F == Family(bs, tk, lv, er)
           G == Without(F, -3)
<1>1. /\ DOMAIN F = Lists /\ -1 \in Lists /\ -2 \in Lists /\ -3 \in Lists
      /\ F[-1] = lv /\ F[-2] = er /\ F[-3] = tk
      /\ \A i \in Keys : F[i] = bs[i]
  BY FamilyIs
<1>2. \A i \in Keys : i \in Lists /\ i # -1 /\ i # -2 /\ i # -3
  BY KeysAre
<1> HIDE DEF F
<1>3. G = [s \in Lists |-> G[s]] /\ \A s \in Lists : G[s] = IF s = -3 THEN Tail(F[s]) ELSE F[s]
  BY <1>1 DEF Without
<1> HIDE DEF G
<1>5. Consists(G, bs, Tail(tk), lv, er)
  BY <1>1, <1>2, <1>3 DEF Consists
<1>6. Family(bs, Tail(tk), lv, er) = G
  BY <1>5, FamilyAgrees
<1> QED BY <1>6 DEF F, G

\* The same for a task that is taken.
LEMMA TaskIn ==
  ASSUME NEW bs, NEW tk, NEW lv, NEW er, NEW x
  PROVE  With(Family(bs, tk, lv, er), -3, x)
           = Family(bs, Append(tk, x), lv, er)
<1> DEFINE F == Family(bs, tk, lv, er)
           G == With(F, -3, x)
<1>1. /\ DOMAIN F = Lists /\ -1 \in Lists /\ -2 \in Lists /\ -3 \in Lists
      /\ F[-1] = lv /\ F[-2] = er /\ F[-3] = tk
      /\ \A i \in Keys : F[i] = bs[i]
  BY FamilyIs
<1>2. \A i \in Keys : i \in Lists /\ i # -1 /\ i # -2 /\ i # -3
  BY KeysAre
<1> HIDE DEF F
<1>3. G = [s \in Lists |-> G[s]] /\ \A s \in Lists : G[s] = IF s = -3 THEN Append(F[s], x) ELSE F[s]
  BY <1>1 DEF With
<1> HIDE DEF G
<1>5. Consists(G, bs, Append(tk, x), lv, er)
  BY <1>1, <1>2, <1>3 DEF Consists
<1>6. Family(bs, Append(tk, x), lv, er) = G
  BY <1>5, FamilyAgrees
<1> QED BY <1>6 DEF F, G

\* The same for a branch that is erased.
LEMMA ErasedIn ==
  ASSUME NEW bs, NEW tk, NEW lv, NEW er, NEW x
  PROVE  With(Family(bs, tk, lv, er), -2, x)
           = Family(bs, tk, lv, Append(er, x))
<1> DEFINE F == Family(bs, tk, lv, er)
           G == With(F, -2, x)
<1>1. /\ DOMAIN F = Lists /\ -1 \in Lists /\ -2 \in Lists /\ -3 \in Lists
      /\ F[-1] = lv /\ F[-2] = er /\ F[-3] = tk
      /\ \A i \in Keys : F[i] = bs[i]
  BY FamilyIs
<1>2. \A i \in Keys : i \in Lists /\ i # -1 /\ i # -2 /\ i # -3
  BY KeysAre
<1> HIDE DEF F
<1>3. G = [s \in Lists |-> G[s]] /\ \A s \in Lists : G[s] = IF s = -2 THEN Append(F[s], x) ELSE F[s]
  BY <1>1 DEF With
<1> HIDE DEF G
<1>5. Consists(G, bs, tk, lv, Append(er, x))
  BY <1>1, <1>2, <1>3 DEF Consists
<1>6. Family(bs, tk, lv, Append(er, x)) = G
  BY <1>5, FamilyAgrees
<1> QED BY <1>6 DEF F, G

\* The same for a leaf.
LEMMA LeafIn ==
  ASSUME NEW bs, NEW tk, NEW lv, NEW er, NEW x
  PROVE  With(Family(bs, tk, lv, er), -1, x)
           = Family(bs, tk, Append(lv, x), er)
<1> DEFINE F == Family(bs, tk, lv, er)
           G == With(F, -1, x)
<1>1. /\ DOMAIN F = Lists /\ -1 \in Lists /\ -2 \in Lists /\ -3 \in Lists
      /\ F[-1] = lv /\ F[-2] = er /\ F[-3] = tk
      /\ \A i \in Keys : F[i] = bs[i]
  BY FamilyIs
<1>2. \A i \in Keys : i \in Lists /\ i # -1 /\ i # -2 /\ i # -3
  BY KeysAre
<1> HIDE DEF F
<1>3. G = [s \in Lists |-> G[s]] /\ \A s \in Lists : G[s] = IF s = -1 THEN Append(F[s], x) ELSE F[s]
  BY <1>1 DEF With
<1> HIDE DEF G
<1>5. Consists(G, bs, tk, Append(lv, x), er)
  BY <1>1, <1>2, <1>3 DEF Consists
<1>6. Family(bs, tk, Append(lv, x), er) = G
  BY <1>5, FamilyAgrees
<1> QED BY <1>6 DEF F, G

\* The same for a task that leaves a bucket.
LEMMA BucketOut ==
  ASSUME NEW bs, DOMAIN bs = Keys, NEW tk, NEW lv, NEW er, NEW k \in Keys
  PROVE  Without(Family(bs, tk, lv, er), k)
           = Family(Dequeue(bs, k), tk, lv, er)
<1> DEFINE F == Family(bs, tk, lv, er)
           G == Without(F, k)
           cs == Dequeue(bs, k)
<1>1. /\ DOMAIN F = Lists /\ -1 \in Lists /\ -2 \in Lists /\ -3 \in Lists
      /\ F[-1] = lv /\ F[-2] = er /\ F[-3] = tk
      /\ \A i \in Keys : F[i] = bs[i]
  BY FamilyIs
<1>2. \A i \in Keys : i \in Lists /\ i # -1 /\ i # -2 /\ i # -3
  BY KeysAre
<1> HIDE DEF F
<1>3. G = [s \in Lists |-> G[s]] /\ \A s \in Lists : G[s] = IF s = k THEN Tail(F[s]) ELSE F[s]
  BY <1>1 DEF Without
<1>4. \A i \in Keys : cs[i] = IF i = k THEN Tail(bs[k]) ELSE bs[i]
  BY DEF Dequeue
<1> HIDE DEF G, cs
<1>5. Consists(G, cs, tk, lv, er)
  BY <1>1, <1>2, <1>3, <1>4 DEF Consists
<1>6. Family(cs, tk, lv, er) = G
  BY <1>5, FamilyAgrees
<1> QED BY <1>6 DEF F, G, cs

\* The same for a task that enters one.
LEMMA BucketIn ==
  ASSUME NEW bs, DOMAIN bs = Keys, NEW tk, NEW lv, NEW er, NEW k \in Keys, NEW x
  PROVE  With(Family(bs, tk, lv, er), k, x)
           = Family(Enqueue(bs, k, x), tk, lv, er)
<1> DEFINE F == Family(bs, tk, lv, er)
           G == With(F, k, x)
           cs == Enqueue(bs, k, x)
<1>1. /\ DOMAIN F = Lists /\ -1 \in Lists /\ -2 \in Lists /\ -3 \in Lists
      /\ F[-1] = lv /\ F[-2] = er /\ F[-3] = tk
      /\ \A i \in Keys : F[i] = bs[i]
  BY FamilyIs
<1>2. \A i \in Keys : i \in Lists /\ i # -1 /\ i # -2 /\ i # -3
  BY KeysAre
<1> HIDE DEF F
<1>3. G = [s \in Lists |-> G[s]] /\ \A s \in Lists : G[s] = IF s = k THEN Append(F[s], x) ELSE F[s]
  BY <1>1 DEF With
<1>4. \A i \in Keys : cs[i] = IF i = k THEN Append(bs[k], x) ELSE bs[i]
  BY DEF Enqueue
<1> HIDE DEF G, cs
<1>5. Consists(G, cs, tk, lv, er)
  BY <1>1, <1>2, <1>3, <1>4 DEF Consists
<1>6. Family(cs, tk, lv, er) = G
  BY <1>5, FamilyAgrees
<1> QED BY <1>6 DEF F, G, cs

-----------------------------------------------------------------------------
(* The invariant.                                                           *)

All == Family(buckets, task, leaves, erased)

Inv == \E L, T : Typed(L, T) /\ Tree(EndsIn(All), PathsIn(All))

\* The tree of the invariant is what NothingLost says of the state.
LEMMA TreeIsNothingLost == Tree(EndsIn(All), PathsIn(All)) => NothingLost
<1>1. \A s \in Lists : All[s] = ListAt(s)
  BY DEF All, Family, ListAt
<1>2. Ends = EndsIn(All)
  BY <1>1 DEF Ends, EndsIn
<1>3. ASSUME NEW e \in Ends PROVE PathOf(e) = PathsIn(All)[e]
  <2>1. e \in EndsIn(All) /\ e[1] \in Lists
    BY <1>2 DEF Ends
  <2> QED BY <1>1, <2>1 DEF PathOf, PathsIn
<1> QED BY <1>2, <1>3 DEF Tree, NothingLost

\* The family of the state has its lists.
LEMMA AllIs == /\ \A k \in Keys : All[k] = buckets[k]
               /\ All[-1] = leaves /\ All[-2] = erased /\ All[-3] = task
BY FamilyIs DEF All

\* It is a family of items.
LEMMA AllTyped ==
  ASSUME NEW L, NEW T, Typed(L, T)
  PROVE  All \in [Lists -> Seq(Item(L, T))] /\ DOMAIN buckets = Keys
<1>1. /\ buckets \in [Keys -> Seq(Item(L, T))] /\ task \in Seq(Item(L, T))
      /\ leaves \in Seq(Item(L, T)) /\ erased \in Seq(Item(L, T))
  BY DEF Typed
<1>2. Family(buckets, task, leaves, erased) \in [Lists -> Seq(Item(L, T))]
  BY <1>1, FamilyTyped
<1> QED BY <1>1, <1>2 DEF All

\* More labels and more terms make more items.
LEMMA ItemsWider ==
  ASSUME NEW L, NEW T, NEW M, NEW U, L \subseteq M, T \subseteq U
  PROVE  Item(L, T) \subseteq Item(M, U) /\ Seq(Item(L, T)) \subseteq Seq(Item(M, U))
<1>1. L \X {0, 1} \subseteq M \X {0, 1}
  OBVIOUS
<1>2. Seq(L \X {0, 1}) \subseteq Seq(M \X {0, 1})
  BY <1>1, SeqMonotonic
<1>3. Item(L, T) \subseteq Item(M, U)
  BY <1>2 DEF Item
<1> QED BY <1>3, SeqMonotonic

\* A state stays typed when labels and terms are added.
LEMMA TypedWider ==
  ASSUME NEW L, NEW T, NEW M, NEW U, L \subseteq M, T \subseteq U, Typed(L, T)
  PROVE  Typed(M, U)
<1>1. Seq(Item(L, T)) \subseteq Seq(Item(M, U))
  BY ItemsWider
<1> QED BY <1>1 DEF Typed

\* A task with another term.
LEMMA Renamed ==
  ASSUME NEW L, NEW T, NEW x \in Item(L, T), NEW t \in T
  PROVE  [x EXCEPT !.term = t] \in Item(L, T) /\ [x EXCEPT !.term = t].path = x.path
BY DEF Item

\* One task waits at first, with the empty path.
LEMMA InitInv == Init => Inv
<1> SUFFICES ASSUME Init PROVE Inv
  OBVIOUS
<1> DEFINE x  == [term |-> net.term, path |-> << >>]
           T  == {net.term}
           L  == {}
           bs == [k \in Keys |-> << >>]
           m  == Buckets \div 2
           F  == Family(bs, << >>, << >>, << >>)
<1>1. m \in Keys /\ 0 \in Keys
  BY KeysAre, BucketsAssumption DEF Keys
<1>2. x \in Item(L, T) /\ x.path = << >>
  BY DEF Item
<1>3. bs \in [Keys -> Seq(Item(L, T))] /\ << >> \in Seq(Item(L, T))
  OBVIOUS
<1>4. buckets = Enqueue(bs, m, x) /\ task = << >> /\ leaves = << >> /\ erased = << >> /\ best = 0
  BY DEF Init
<1> HIDE DEF x, bs, m, L, T
<1>5. Enqueue(bs, m, x) \in [Keys -> Seq(Item(L, T))]
  BY <1>1, <1>2, <1>3 DEF Enqueue
<1>6. Typed(L, T)
  BY <1>1, <1>3, <1>4, <1>5 DEF Typed
<1>7. F \in [Lists -> Seq(Item(L, T))]
  BY <1>3, FamilyTyped
<1>8. All = With(F, m, x)
  <2>1. With(F, m, x) = Family(Enqueue(bs, m, x), << >>, << >>, << >>)
    BY <1>1, <1>3, BucketIn
  <2> QED BY <1>4, <2>1 DEF All
<1>9. \A s \in Lists : F[s] = << >>
  BY FamilyIs DEF bs
<1> HIDE DEF F
<1>10. EndsIn(F) = {}
  BY <1>9 DEF EndsIn
<1>11. m \in Lists
  BY <1>1, KeysAre
<1>12. Longer(F, m, x)
  BY <1>2, <1>7, <1>11, PutBehind
<1>13. EndsIn(All) = {NewEnd(F, m)} /\ PathsIn(All)[NewEnd(F, m)] = << >>
  BY <1>2, <1>8, <1>10, <1>12 DEF Longer
<1>14. Tree(EndsIn(All), PathsIn(All))
  BY <1>13 DEF Tree
<1> QED BY <1>6, <1>14 DEF Inv

\* A task put back is moved.
LEMMA RequeueInv == Inv /\ Requeue => Inv'
<1> SUFFICES ASSUME Inv, Requeue PROVE Inv'
  OBVIOUS
<1> PICK L, T : Typed(L, T) /\ Tree(EndsIn(All), PathsIn(All))
  BY DEF Inv
<1> PICK t, k, j, y : /\ t = Peel(Taken.term, Lowest).term /\ j = Peel(Taken.term, Lowest).key
                      /\ k = Lowest /\ y = Taken
  OBVIOUS
<1> DEFINE U == T \cup {t}
           x == [y EXCEPT !.term = t]
<1>1. k \in Keys /\ buckets[k] # << >> /\ j \in Keys /\ k \in Lists /\ j \in Lists
  BY LowestIs, PeelKey, KeysAre DEF Requeue, Looking, Waiting
<1>2. Typed(L, U)
  BY TypedWider
<1>3. All \in [Lists -> Seq(Item(L, U))] /\ All[k] = buckets[k]
  BY <1>1, <1>2, AllTyped, AllIs
<1>4. y \in Item(L, U) /\ y = Head(All[k])
  <2>1. buckets[k] \in Seq(Item(L, U)) /\ y = Head(buckets[k])
    BY <1>1, <1>2 DEF Taken, Typed
  <2> QED BY <1>1, <1>3, <2>1, ListTail
<1>5. buckets' = Enqueue(Rest1, j, x) /\ UNCHANGED <<task, leaves, erased, best>>
  BY DEF Requeue
<1>6. Rest1 = Dequeue(buckets, k)
  BY DEF Rest1, Dequeue
<1>7. x \in Item(L, U) /\ x.path = Head(All[k]).path
  BY <1>4, Renamed
<1> HIDE DEF x, U
<1>8. Rest1 \in [Keys -> Seq(Item(L, U))]
  BY <1>1, <1>2, <1>6, ListTail DEF Typed, Dequeue
<1>9. All' = With(Without(All, k), j, x)
  <2>1. Without(All, k) = Family(Rest1, task, leaves, erased)
    <3>1. DOMAIN buckets = Keys
      BY <1>2, AllTyped
    <3>2. Without(Family(buckets, task, leaves, erased), k)
            = Family(Dequeue(buckets, k), task, leaves, erased)
      BY <1>1, <3>1, BucketOut
    <3> QED BY <1>6, <3>2 DEF All
  <2>2. With(Family(Rest1, task, leaves, erased), j, x)
          = Family(buckets', task, leaves, erased)
    BY <1>1, <1>5, <1>8, BucketIn
  <2> QED BY <1>5, <2>1, <2>2 DEF All
<1>10. Typed(L, U)'
  <2>1. buckets' \in [Keys -> Seq(Item(L, U))]
    BY <1>1, <1>5, <1>7, <1>8 DEF Enqueue
  <2> QED BY <1>2, <1>5, <2>1 DEF Typed
<1>11. Tree(EndsIn(With(Without(All, k), j, x)), PathsIn(With(Without(All, k), j, x)))
  BY <1>1, <1>3, <1>7, PutElsewhere
<1>12. Tree(EndsIn(All), PathsIn(All))'
  BY <1>9, <1>11
<1> QED BY <1>10, <1>12 DEF Inv

\* A task taken is moved to be in work.
LEMMA TakeInv == Inv /\ Take => Inv'
<1> SUFFICES ASSUME Inv, Take PROVE Inv'
  OBVIOUS
<1> PICK L, T : Typed(L, T) /\ Tree(EndsIn(All), PathsIn(All))
  BY DEF Inv
<1> PICK k, x : k = Lowest /\ x = Taken
  OBVIOUS
<1>1. k \in Keys /\ buckets[k] # << >> /\ k \in Lists /\ -3 \in Lists
  BY LowestIs, KeysAre, FamilyIs DEF Take, Looking, Waiting
<1>2. All \in [Lists -> Seq(Item(L, T))] /\ All[k] = buckets[k]
  BY <1>1, AllTyped, AllIs
<1>3. x \in Item(L, T) /\ x = Head(All[k])
  <2>1. buckets[k] \in Seq(Item(L, T)) /\ x = Head(buckets[k])
    BY <1>1 DEF Taken, Typed
  <2> QED BY <1>1, <1>2, <2>1, ListTail
<1>4. /\ buckets' = Rest1 /\ task' = <<x>> /\ best' = k /\ task = << >>
      /\ UNCHANGED <<leaves, erased>>
  BY DEF Take, Looking
<1>5. Rest1 = Dequeue(buckets, k)
  BY DEF Rest1, Dequeue
<1>6. Rest1 \in [Keys -> Seq(Item(L, T))]
  BY <1>1, <1>5, ListTail DEF Typed, Dequeue
<1>7. All' = With(Without(All, k), -3, x)
  <2>1. Without(All, k) = Family(Rest1, task, leaves, erased)
    <3>1. DOMAIN buckets = Keys
      BY AllTyped
    <3>2. Without(Family(buckets, task, leaves, erased), k)
            = Family(Dequeue(buckets, k), task, leaves, erased)
      BY <1>1, <3>1, BucketOut
    <3> QED BY <1>5, <3>2 DEF All
  <2>2. With(Family(Rest1, task, leaves, erased), -3, x)
          = Family(Rest1, Append(task, x), leaves, erased)
    BY <1>6, TaskIn
  <2>3. Append(task, x) = <<x>>
    BY <1>4
  <2> QED BY <1>4, <2>1, <2>2, <2>3 DEF All
<1>8. Typed(L, T)'
  <2>1. <<x>> \in Seq(Item(L, T)) /\ Len(<<x>>) <= 1
    BY <1>3
  <2> QED BY <1>1, <1>4, <1>6, <2>1 DEF Typed
<1>9. Tree(EndsIn(With(Without(All, k), -3, x)), PathsIn(With(Without(All, k), -3, x)))
  BY <1>1, <1>2, <1>3, PutElsewhere
<1>10. Tree(EndsIn(All), PathsIn(All))'
  BY <1>7, <1>9
<1> QED BY <1>8, <1>10 DEF Inv

\* What was reduced is split, erased or a leaf.
LEMMA ReturnInv == Inv /\ Return => Inv'
<1> SUFFICES ASSUME Inv, Return PROVE Inv'
  OBVIOUS
<1> PICK L, T : Typed(L, T) /\ Tree(EndsIn(All), PathsIn(All))
  BY DEF Inv
<1> PICK t, x, y, b0, b1, l, j :
        /\ t = Result.term /\ x = task[1] /\ y = [x EXCEPT !.term = t]
        /\ b0 = Branch1(0) /\ b1 = Branch1(1) /\ j = Later(best)
        /\ l = IF t.tag = "USP" THEN 100 + t.ext ELSE t.ext
  OBVIOUS
<1> DEFINE U == T \cup {t, b0.term, b1.term}
           M == L \cup {l}
<1>1. /\ Typed(M, U) /\ All \in [Lists -> Seq(Item(M, U))] /\ DOMAIN buckets = Keys
      /\ All[-3] = task
  <2>1. Typed(M, U)
    BY TypedWider
  <2> QED BY <2>1, AllTyped, AllIs
<1>2. task # << >> /\ task' = << >> /\ best' = 0
  BY DEF Return
<1>3. x \in Item(M, U) /\ x = Head(task) /\ Tail(task) = << >>
  <2>1. task \in Seq(Item(M, U)) /\ Len(task) <= 1
    BY <1>1 DEF Typed
  <2> HIDE DEF U, M
  <2>2. /\ Tail(task) \in Seq(Item(M, U)) /\ Len(Tail(task)) = Len(task) - 1
        /\ Len(task) \in Nat \ {0} /\ Head(task) = task[1] /\ task[1] \in Item(M, U)
    BY <1>2, <2>1, ListTail
  <2>3. Len(Tail(task)) = 0
    BY <2>1, <2>2
  <2>4. Tail(task) = << >>
    BY <2>2, <2>3, EmptySeq
  <2> QED BY <2>2, <2>4
<1>4. y \in Item(M, U) /\ y.path = Head(All[-3]).path
  <2>1. t \in U
    OBVIOUS
  <2> HIDE DEF U, M
  <2> QED BY <1>1, <1>3, <2>1, Renamed
<1>5. -1 \in Lists /\ -2 \in Lists /\ -3 \in Lists /\ 0 \in Keys /\ j \in Keys /\ j \in Lists
  <2>1. best \in Keys
    BY DEF Typed
  <2>2. 0 \in Keys
    BY BucketsAssumption DEF Keys
  <2> QED BY <2>1, <2>2, KeysAre, FamilyIs
<1>6. Without(All, -3) = Family(buckets, << >>, leaves, erased)
  <2>1. Without(Family(buckets, task, leaves, erased), -3)
          = Family(buckets, Tail(task), leaves, erased)
    BY TaskOut
  <2> QED BY <1>3, <2>1 DEF All
<1>7. << >> \in Seq(Item(M, U)) /\ Len(<< >>) = 0
  OBVIOUS
<1>8. /\ b0.term \in U /\ b0.path = Append(x.path, <<l, 0>>)
      /\ b1.term \in U /\ b1.path = Append(x.path, <<l, 1>>)
      /\ b0 = [term |-> b0.term, path |-> b0.path] /\ b1 = [term |-> b1.term, path |-> b1.path]
  BY DEF Branch1
<1>9. b0 \in Item(M, U) /\ b1 \in Item(M, U) /\ l \in M
  <2>1. x.path \in Seq(M \X {0, 1}) /\ <<l, 0>> \in M \X {0, 1} /\ <<l, 1>> \in M \X {0, 1}
    BY <1>3 DEF Item
  <2>2. Append(x.path, <<l, 0>>) \in Seq(M \X {0, 1}) /\ Append(x.path, <<l, 1>>) \in Seq(M \X {0, 1})
    BY <2>1, AppendProperties
  <2> QED BY <1>8, <2>2 DEF Item
<1>10. \/ buckets' = Spread(j) /\ UNCHANGED <<leaves, erased>>
       \/ erased' = Append(erased, y) /\ UNCHANGED <<buckets, leaves>>
       \/ leaves' = Append(leaves, y) /\ UNCHANGED <<buckets, erased>>
  BY DEF Return
<1>11. Spread(j) = Enqueue(Enqueue(buckets, j, b0), j, b1)
  BY DEF Spread
<1> HIDE DEF U, M
<1>12. CASE buckets' = Spread(j) /\ UNCHANGED <<leaves, erased>>
  <2> DEFINE bs == Enqueue(buckets, j, b0)
  <2>1. bs \in [Keys -> Seq(Item(M, U))] /\ DOMAIN bs = Keys
    BY <1>1, <1>5, <1>9 DEF Enqueue, Typed
  <2>2. buckets' \in [Keys -> Seq(Item(M, U))]
    BY <1>5, <1>9, <1>11, <1>12, <2>1 DEF Enqueue
  <2>3. Typed(M, U)'
    BY <1>1, <1>2, <1>5, <1>7, <1>12, <2>2 DEF Typed
  <2>4. With(Without(All, -3), j, b0) = Family(bs, << >>, leaves, erased)
    BY <1>1, <1>5, <1>6, BucketIn
  <2> HIDE DEF bs
  <2>5. With(Family(bs, << >>, leaves, erased), j, b1)
          = Family(Enqueue(bs, j, b1), << >>, leaves, erased)
    BY <1>5, <2>1, BucketIn
  <2>6. All' = With(With(Without(All, -3), j, b0), j, b1)
    BY <1>2, <1>11, <1>12, <2>4, <2>5 DEF All, bs
  <2>7. Head(All[-3]).path = x.path
    BY <1>1, <1>3
  <2>8. Tree(EndsIn(With(With(Without(All, -3), j, b0), j, b1)),
             PathsIn(With(With(Without(All, -3), j, b0), j, b1)))
    <3>1. /\ All[-3] # << >> /\ All \in [Lists -> Seq(Item(M, U))]
          /\ b0.path = Append(Head(All[-3]).path, <<l, 0>>)
          /\ b1.path = Append(Head(All[-3]).path, <<l, 1>>)
      BY <1>1, <1>2, <1>8, <2>7
    <3> QED BY Zenon, <1>5, <1>9, <3>1, PutTwice
  <2>9. Tree(EndsIn(All), PathsIn(All))'
    BY <2>6, <2>8
  <2> QED BY <2>3, <2>9 DEF Inv
<1>13. CASE erased' = Append(erased, y) /\ UNCHANGED <<buckets, leaves>>
  <2>1. Append(erased, y) \in Seq(Item(M, U))
    BY <1>1, <1>4 DEF Typed
  <2>2. Typed(M, U)'
    BY <1>1, <1>2, <1>5, <1>7, <1>13, <2>1 DEF Typed
  <2>3. With(Without(All, -3), -2, y) = Family(buckets, << >>, leaves, Append(erased, y))
    BY <1>6, ErasedIn
  <2>4. All' = With(Without(All, -3), -2, y)
    BY <1>2, <1>13, <2>3 DEF All
  <2>5. Tree(EndsIn(With(Without(All, -3), -2, y)), PathsIn(With(Without(All, -3), -2, y)))
    BY <1>1, <1>2, <1>4, <1>5, PutElsewhere
  <2>6. Tree(EndsIn(All), PathsIn(All))'
    BY <2>4, <2>5
  <2> QED BY <2>2, <2>6 DEF Inv
<1>14. CASE leaves' = Append(leaves, y) /\ UNCHANGED <<buckets, erased>>
  <2>1. Append(leaves, y) \in Seq(Item(M, U))
    BY <1>1, <1>4 DEF Typed
  <2>2. Typed(M, U)'
    BY <1>1, <1>2, <1>5, <1>7, <1>14, <2>1 DEF Typed
  <2>3. With(Without(All, -3), -1, y) = Family(buckets, << >>, Append(leaves, y), erased)
    BY <1>6, LeafIn
  <2>4. All' = With(Without(All, -3), -1, y)
    BY <1>2, <1>14, <2>3 DEF All
  <2>5. Tree(EndsIn(With(Without(All, -3), -1, y)), PathsIn(With(Without(All, -3), -1, y)))
    BY <1>1, <1>2, <1>4, <1>5, PutElsewhere
  <2>6. Tree(EndsIn(All), PathsIn(All))'
    BY <2>4, <2>5
  <2> QED BY <2>2, <2>6 DEF Inv
<1> QED BY <1>10, <1>12, <1>13, <1>14

\* Every step keeps the invariant.
LEMMA StepInv == Inv /\ [Next]_vars => Inv'
<1> SUFFICES ASSUME Inv, [Next]_vars PROVE Inv'
  OBVIOUS
<1>1. CASE Work
  BY <1>1 DEF Work, walk, Inv, Typed, All
<1>2. CASE UNCHANGED vars
  BY <1>2 DEF vars, walk, Inv, Typed, All
<1> QED BY <1>1, <1>2, RequeueInv, TakeInv, ReturnInv DEF Next

(***************************************************************************)
(* Whatever the reducer makes of the tasks, at any number of buckets and   *)
(* any limit, every branch opened is waiting, decided or in work, and once *)
(* only.                                                                   *)
(***************************************************************************)
THEOREM NoBranchLost == Spec => []NothingLost
<1>1. Inv => NothingLost
  BY TreeIsNothingLost DEF Inv
<1> QED BY <1>1, InitInv, StepInv, PTL DEF Spec

-----------------------------------------------------------------------------
(* The order of the leaves, by the depth of the tasks they come from.       *)

Depth(x)  == Len(x.path)
Depths(s) == {Depth(s[i]) : i \in 1 .. Len(s)}
Sorted(s) == \A i, j \in 1 .. Len(s) : i < j => Depth(s[i]) <= Depth(s[j])

\* The bucket of a task of depth d, when no task was moved.
KeyOf(d) == IF Buckets \div 2 + d < Buckets - 1 THEN Buckets \div 2 + d ELSE Buckets - 1

WaitingDepths(bs) == UNION {Depths(bs[k]) : k \in Keys}

\* Every task is in its bucket, and there behind those that are less deep.
Tidy(bs) == \A k \in Keys : Sorted(bs[k]) /\ \A d \in Depths(bs[k]) : k = KeyOf(d)

(***************************************************************************)
(* The tasks waiting are of two depths that differ by one, the task in     *)
(* work is of the lower one, and no leaf is deeper than any of them.       *)
(***************************************************************************)
Order(bs, tk, lv, key) ==
    /\ Tidy(bs) /\ Sorted(lv)
    /\ \A d, e \in WaitingDepths(bs) : d <= e + 1
    /\ \A c \in Depths(lv) : \A d \in WaitingDepths(bs) \cup Depths(tk) : c <= d
    /\ \A d \in Depths(tk) :
           /\ key = KeyOf(d)
           /\ \A e \in WaitingDepths(bs) : d <= e /\ e <= d + 1

\* One superposition deeper is one key later, up to the last.
LEMMA KeysOfDepths ==
  /\ KeyOf(0) = Buckets \div 2
  /\ \A d \in Nat : KeyOf(d) \in Keys /\ Later(KeyOf(d)) = KeyOf(d + 1)
  /\ \A d, e \in Nat : d <= e => KeyOf(d) <= KeyOf(e)
<1>1. Buckets \in Nat \ {0}
  BY BucketsAssumption
<1> QED BY <1>1 DEF KeyOf, Keys, Later

\* Depths are natural numbers.
LEMMA DepthsAre ==
  ASSUME NEW L, NEW T, NEW s \in Seq(Item(L, T))
  PROVE  /\ Depths(s) \subseteq Nat
         /\ \A i \in 1 .. Len(s) : Depth(s[i]) \in Depths(s)
<1>1. ASSUME NEW i \in 1 .. Len(s) PROVE Depth(s[i]) \in Nat
  <2>1. s[i] \in Item(L, T)
    OBVIOUS
  <2>2. s[i].path \in Seq(L \X {0, 1})
    BY <2>1 DEF Item
  <2> QED BY <2>2 DEF Depth
<1> QED BY <1>1 DEF Depths

\* A list stays sorted when something deeper comes at its end.
LEMMA SortedAppend ==
  ASSUME NEW L, NEW T, NEW s \in Seq(Item(L, T)), NEW x \in Item(L, T),
         Sorted(s), \A d \in Depths(s) : d <= Depth(x)
  PROVE  Sorted(Append(s, x)) /\ Depths(Append(s, x)) = Depths(s) \cup {Depth(x)}
<1> DEFINE r == Append(s, x)
<1>1. /\ Len(r) = Len(s) + 1 /\ r[Len(s) + 1] = x /\ Len(s) \in Nat
      /\ \A i \in 1 .. Len(s) : r[i] = s[i]
  BY AppendProperties
<1>2. \A i \in 1 .. Len(s) : Depth(s[i]) \in Depths(s)
  BY DepthsAre
<1> HIDE DEF r
<1>3. ASSUME NEW i \in 1 .. Len(r), NEW j \in 1 .. Len(r), i < j PROVE Depth(r[i]) <= Depth(r[j])
  <2>1. i \in 1 .. Len(s) /\ r[i] = s[i]
    BY <1>1, <1>3
  <2>2. CASE j \in 1 .. Len(s)
    <3>1. r[j] = s[j] /\ Depth(s[i]) <= Depth(s[j])
      BY <1>1, <1>3, <2>1, <2>2 DEF Sorted
    <3> QED BY <2>1, <3>1
  <2>3. CASE j = Len(s) + 1
    BY <1>1, <1>2, <2>1, <2>3
  <2> QED BY <1>1, <2>2, <2>3
<1>4. Sorted(r)
  BY <1>3 DEF Sorted
<1>5. 1 .. Len(r) = 1 .. Len(s) \cup {Len(s) + 1}
  BY <1>1
<1>6. Depths(r) = Depths(s) \cup {Depth(x)}
  BY <1>1, <1>5 DEF Depths
<1> QED BY <1>4, <1>6 DEF r

\* A list without its first stays sorted.
LEMMA SortedTail ==
  ASSUME NEW L, NEW T, NEW s \in Seq(Item(L, T)), s # << >>, Sorted(s)
  PROVE  Sorted(Tail(s)) /\ Depths(Tail(s)) \subseteq Depths(s)
<1>1. /\ Len(Tail(s)) = Len(s) - 1 /\ Len(s) \in Nat \ {0}
      /\ \A i \in 1 .. Len(s) - 1 : Tail(s)[i] = s[i + 1] /\ i + 1 \in 1 .. Len(s)
  BY ListTail
<1>2. Depths(Tail(s)) \subseteq Depths(s)
  BY <1>1 DEF Depths
<1>3. ASSUME NEW i \in 1 .. Len(Tail(s)), NEW j \in 1 .. Len(Tail(s)), i < j
      PROVE Depth(Tail(s)[i]) <= Depth(Tail(s)[j])
  <2>1. i + 1 \in 1 .. Len(s) /\ j + 1 \in 1 .. Len(s) /\ i + 1 < j + 1
    BY <1>1, <1>3
  <2>2. Depth(s[i + 1]) <= Depth(s[j + 1])
    BY <2>1 DEF Sorted
  <2> QED BY <1>1, <2>2
<1> QED BY <1>2, <1>3 DEF Sorted

\* A task as deep as any waiting keeps its bucket sorted.
LEMMA TidyIn ==
  ASSUME NEW L, NEW T, NEW bs \in [Keys -> Seq(Item(L, T))], NEW x \in Item(L, T),
         NEW k \in Keys, k = KeyOf(Depth(x)), Tidy(bs),
         \A d \in WaitingDepths(bs) : d <= Depth(x)
  PROVE  Tidy(Enqueue(bs, k, x))
         /\ WaitingDepths(Enqueue(bs, k, x)) = WaitingDepths(bs) \cup {Depth(x)}
<1> DEFINE cs == Enqueue(bs, k, x)
<1>1. cs[k] = Append(bs[k], x) /\ \A j \in Keys \ {k} : cs[j] = bs[j]
  BY DEF Enqueue
<1>2. Sorted(bs[k]) /\ bs[k] \in Seq(Item(L, T)) /\ \A d \in Depths(bs[k]) : d <= Depth(x) /\ k = KeyOf(d)
  BY DEF Tidy, WaitingDepths
<1>3. Sorted(cs[k]) /\ Depths(cs[k]) = Depths(bs[k]) \cup {Depth(x)}
  BY <1>1, <1>2, SortedAppend
<1> HIDE DEF cs
<1>4. Tidy(cs)
  BY <1>1, <1>2, <1>3 DEF Tidy
<1>5. WaitingDepths(cs) = WaitingDepths(bs) \cup {Depth(x)}
  <2>1. ASSUME NEW d \in WaitingDepths(cs) PROVE d \in WaitingDepths(bs) \cup {Depth(x)}
    BY <1>1, <1>3 DEF WaitingDepths
  <2>2. ASSUME NEW d \in WaitingDepths(bs) PROVE d \in WaitingDepths(cs)
    BY <1>1, <1>3 DEF WaitingDepths
  <2>3. Depth(x) \in WaitingDepths(cs)
    BY <1>3 DEF WaitingDepths
  <2> QED BY <2>1, <2>2, <2>3
<1> QED BY <1>4, <1>5 DEF cs

\* The buckets stay tidy when a task leaves.
LEMMA TidyOut ==
  ASSUME NEW L, NEW T, NEW bs \in [Keys -> Seq(Item(L, T))], NEW k \in Keys, bs[k] # << >>,
         Tidy(bs)
  PROVE  Tidy(Dequeue(bs, k)) /\ WaitingDepths(Dequeue(bs, k)) \subseteq WaitingDepths(bs)
<1> DEFINE cs == Dequeue(bs, k)
<1>1. cs[k] = Tail(bs[k]) /\ \A j \in Keys \ {k} : cs[j] = bs[j]
  BY DEF Dequeue
<1>2. Sorted(bs[k]) /\ bs[k] \in Seq(Item(L, T)) /\ \A d \in Depths(bs[k]) : k = KeyOf(d)
  BY DEF Tidy
<1>3. Sorted(cs[k]) /\ Depths(cs[k]) \subseteq Depths(bs[k])
  BY <1>1, <1>2, SortedTail
<1> HIDE DEF cs
<1>4. Tidy(cs)
  BY <1>1, <1>2, <1>3 DEF Tidy
<1>5. WaitingDepths(cs) \subseteq WaitingDepths(bs)
  BY <1>1, <1>3 DEF WaitingDepths
<1> QED BY <1>4, <1>5 DEF cs

\* The first of the lowest bucket is one of the least deep tasks.
LEMMA HeadLeast ==
  ASSUME NEW L, NEW T, NEW bs \in [Keys -> Seq(Item(L, T))], Tidy(bs),
         NEW k \in Keys, bs[k] # << >>, \A j \in Keys : bs[j] # << >> => k <= j
  PROVE  /\ Depth(Head(bs[k])) \in Depths(bs[k]) /\ k = KeyOf(Depth(Head(bs[k])))
         /\ \A d \in WaitingDepths(bs) : Depth(Head(bs[k])) <= d
<1> DEFINE h == Depth(Head(bs[k]))
<1>1. bs[k] \in Seq(Item(L, T)) /\ Len(bs[k]) \in Nat \ {0} /\ Head(bs[k]) = bs[k][1]
  BY ListTail
<1>2. h \in Depths(bs[k]) /\ h \in Nat
  BY <1>1, DepthsAre
<1>3. k = KeyOf(h)
  BY <1>2 DEF Tidy
<1> HIDE DEF h
<1>4. ASSUME NEW j \in Keys, NEW d \in Depths(bs[j]) PROVE h <= d
  <2>1. bs[j] \in Seq(Item(L, T)) /\ d \in Nat
    BY DepthsAre
  <2>2. bs[j] # << >>
    BY DEF Depths
  <2>3. k <= j /\ j = KeyOf(d)
    BY <2>2 DEF Tidy
  <2>4. CASE j = k
    <3>1. PICK i \in 1 .. Len(bs[k]) : d = Depth(bs[k][i])
      BY <2>4 DEF Depths
    <3>2. CASE i = 1
      BY <1>1, <1>2, <3>1, <3>2 DEF h
    <3>3. CASE i # 1
      <4>1. 1 \in 1 .. Len(bs[k]) /\ 1 < i
        BY <1>1, <3>3
      <4>2. Depth(bs[k][1]) <= Depth(bs[k][i])
        BY <4>1 DEF Tidy, Sorted
      <4> QED BY <1>1, <3>1, <4>2 DEF h
    <3> QED BY <3>2, <3>3
  <2>5. CASE j # k
    <3> SUFFICES ASSUME ~(h <= d) PROVE FALSE
      OBVIOUS
    <3>1. KeyOf(d) <= KeyOf(h)
      BY <1>2, <2>1, KeysOfDepths
    <3>2. j \in Nat /\ k \in Nat
      BY KeysAre
    <3> QED BY <1>3, <2>3, <2>5, <3>1, <3>2
  <2> QED BY <2>4, <2>5
<1>5. \A d \in WaitingDepths(bs) : h <= d
  BY <1>4 DEF WaitingDepths
<1> QED BY <1>2, <1>3, <1>5 DEF h

Ordered == ~moved => Order(buckets, task, leaves, best)

\* One task of depth 0.
LEMMA InitOrdered == Init => Ordered
<1> SUFFICES ASSUME Init PROVE Ordered
  OBVIOUS
<1> DEFINE x  == [term |-> net.term, path |-> << >>]
           T  == {net.term}
           L  == {}
           bs == [k \in Keys |-> << >>]
           m  == Buckets \div 2
<1>1. m \in Keys /\ m = KeyOf(Depth(x))
  BY KeysAre, KeysOfDepths DEF Depth
<1>2. x \in Item(L, T) /\ Depth(x) = 0
  BY DEF Item, Depth
<1>3. bs \in [Keys -> Seq(Item(L, T))] /\ \A k \in Keys : Len(bs[k]) = 0
  OBVIOUS
<1>4. /\ buckets = Enqueue(bs, m, x) /\ task = << >> /\ leaves = << >>
  BY DEF Init
<1> HIDE DEF x, bs, m, L, T
<1>5. \A k \in Keys : Depths(bs[k]) = {} /\ Sorted(bs[k])
  BY <1>3 DEF Depths, Sorted
<1>6. Tidy(bs) /\ WaitingDepths(bs) = {}
  BY <1>5 DEF Tidy, WaitingDepths
<1>7. Tidy(buckets) /\ WaitingDepths(buckets) = {0}
  BY <1>1, <1>2, <1>3, <1>4, <1>6, TidyIn
<1>8. Depths(task) = {} /\ Depths(leaves) = {} /\ Sorted(leaves)
  BY <1>4 DEF Depths, Sorted
<1> QED BY <1>7, <1>8 DEF Ordered, Order

\* The task taken is of the lower of the two depths.
LEMMA TakeOrdered == Inv /\ Ordered /\ Take => Ordered'
<1> SUFFICES ASSUME Inv, Ordered, Take, ~moved PROVE Order(buckets, task, leaves, best)'
  BY DEF Ordered, Take
<1> PICK L, T : Typed(L, T)
  BY DEF Inv
<1> PICK k, x, h : k = Lowest /\ x = Taken /\ h = Depth(x)
  OBVIOUS
<1>1. k \in Keys /\ buckets[k] # << >> /\ \A j \in Keys : buckets[j] # << >> => k <= j
  BY LowestIs DEF Take, Looking, Waiting
<1>2. /\ buckets' = Dequeue(buckets, k) /\ task' = <<x>> /\ best' = k /\ leaves' = leaves
      /\ x = Head(buckets[k])
  BY DEF Take, Taken, Rest1, Dequeue
<1>3. buckets \in [Keys -> Seq(Item(L, T))] /\ leaves \in Seq(Item(L, T))
  BY DEF Typed
<1>4. /\ Tidy(buckets) /\ Sorted(leaves)
      /\ \A d, e \in WaitingDepths(buckets) : d <= e + 1
      /\ \A c \in Depths(leaves) : \A d \in WaitingDepths(buckets) : c <= d
  BY DEF Ordered, Order
<1>5. Tidy(buckets') /\ WaitingDepths(buckets') \subseteq WaitingDepths(buckets)
  BY <1>1, <1>2, <1>3, <1>4, TidyOut
<1>6. h \in Depths(buckets[k]) /\ k = KeyOf(h) /\ \A d \in WaitingDepths(buckets) : h <= d
  <2>1. Depth(Head(buckets[k])) = h
    BY <1>2
  <2>2. /\ Depth(Head(buckets[k])) \in Depths(buckets[k]) /\ k = KeyOf(Depth(Head(buckets[k])))
        /\ \A d \in WaitingDepths(buckets) : Depth(Head(buckets[k])) <= d
    BY <1>1, <1>3, <1>4, HeadLeast
  <2> QED BY <2>1, <2>2
<1>7. h \in WaitingDepths(buckets)
  BY <1>1, <1>6 DEF WaitingDepths
<1>8. Depths(task') = {h}
  BY <1>2 DEF Depths
<1> QED BY <1>2, <1>4, <1>5, <1>6, <1>7, <1>8 DEF Order

\* There is one task in work.
LEMMA OneTask ==
  ASSUME NEW S, NEW s \in Seq(S), s # << >>, Len(s) <= 1
  PROVE  Len(s) = 1 /\ s[1] \in S
<1>1. Len(s) \in Nat \ {0}
  BY EmptySeq
<1>2. Len(s) = 1
  BY <1>1
<1>3. 1 \in 1 .. Len(s)
  BY <1>2
<1>4. s[1] \in S
  BY <1>3
<1> QED BY <1>2, <1>4

\* Its branches are one deeper, as a leaf it is as deep as any before it.
LEMMA ReturnOrdered == Inv /\ Ordered /\ Return => Ordered'
<1> SUFFICES ASSUME Inv, Ordered, Return, ~moved PROVE Order(buckets, task, leaves, best)'
  BY DEF Ordered, Return
<1> PICK L, T : Typed(L, T)
  BY DEF Inv
<1> PICK x, h : x = task[1] /\ h = Depth(x)
  OBVIOUS
<1>0. PICK t, y, b0, b1, l, j :
        /\ t = Result.term /\ y = [x EXCEPT !.term = t]
        /\ b0 = Branch1(0) /\ b1 = Branch1(1) /\ j = Later(best)
        /\ l = IF t.tag = "USP" THEN 100 + t.ext ELSE t.ext
  OBVIOUS
<1> DEFINE U == T \cup {t, b0.term, b1.term}
           M == L \cup {l}
<1>1. /\ buckets \in [Keys -> Seq(Item(M, U))] /\ task \in Seq(Item(M, U)) /\ Len(task) <= 1
      /\ leaves \in Seq(Item(M, U))
  <2>1. Typed(M, U)
    BY TypedWider
  <2> QED BY <2>1 DEF Typed
<1>2. task # << >> /\ task' = << >>
  BY DEF Return
<1>3. x \in Item(M, U) /\ Depths(task) = {h} /\ h \in Nat
  <2>1. Len(task) = 1 /\ x \in Item(M, U)
    BY <1>1, <1>2, OneTask
  <2>2. Depths(task) = {h}
    BY <2>1 DEF Depths
  <2> QED BY <1>1, <2>1, <2>2, DepthsAre
<1>4. y \in Item(M, U) /\ Depth(y) = h
  <2>1. t \in U
    OBVIOUS
  <2> HIDE DEF U, M
  <2> QED BY <1>0, <1>3, <2>1, Renamed DEF Depth
<1>5. /\ b0.term \in U /\ b0.path = Append(x.path, <<l, 0>>)
      /\ b1.term \in U /\ b1.path = Append(x.path, <<l, 1>>)
      /\ b0 = [term |-> b0.term, path |-> b0.path] /\ b1 = [term |-> b1.term, path |-> b1.path]
  BY <1>0 DEF Branch1
<1>6. b0 \in Item(M, U) /\ b1 \in Item(M, U) /\ Depth(b0) = h + 1 /\ Depth(b1) = h + 1
  <2>1. x.path \in Seq(M \X {0, 1}) /\ <<l, 0>> \in M \X {0, 1} /\ <<l, 1>> \in M \X {0, 1}
    BY <1>3 DEF Item
  <2>2. /\ Append(x.path, <<l, 0>>) \in Seq(M \X {0, 1}) /\ Append(x.path, <<l, 1>>) \in Seq(M \X {0, 1})
        /\ Len(Append(x.path, <<l, 0>>)) = Len(x.path) + 1
        /\ Len(Append(x.path, <<l, 1>>)) = Len(x.path) + 1
    BY <2>1, AppendProperties
  <2>3. b0 \in Item(M, U) /\ b1 \in Item(M, U)
    BY <1>5, <2>2 DEF Item
  <2> QED BY <1>5, <2>2, <2>3 DEF Depth
<1>7. \/ buckets' = Spread(j) /\ UNCHANGED leaves
      \/ UNCHANGED <<buckets, leaves>>
      \/ leaves' = Append(leaves, y) /\ UNCHANGED buckets
  BY <1>0 DEF Return
<1>8. Spread(j) = Enqueue(Enqueue(buckets, j, b0), j, b1)
  BY <1>0 DEF Spread
<1> HIDE DEF U, M
<1>9. Depths(task') = {}
  BY <1>2 DEF Depths
<1>10. /\ Tidy(buckets) /\ Sorted(leaves)
       /\ \A d, e \in WaitingDepths(buckets) : d <= e + 1
       /\ \A c \in Depths(leaves) : \A d \in WaitingDepths(buckets) \cup {h} : c <= d
       /\ best = KeyOf(h) /\ \A e \in WaitingDepths(buckets) : h <= e /\ e <= h + 1
  BY <1>3 DEF Ordered, Order
<1>11. j = KeyOf(h + 1) /\ j \in Keys
  BY <1>0, <1>3, <1>10, KeysOfDepths
<1>12. Depths(leaves) \subseteq Nat
  BY <1>1, DepthsAre
<1>13. CASE buckets' = Spread(j) /\ UNCHANGED leaves
  <2> DEFINE bs == Enqueue(buckets, j, b0)
  <2>1. Tidy(bs) /\ WaitingDepths(bs) = WaitingDepths(buckets) \cup {h + 1}
    <3>1. /\ j = KeyOf(Depth(b0)) /\ \A d \in WaitingDepths(buckets) : d <= Depth(b0)
          /\ Tidy(buckets) /\ j \in Keys
          /\ buckets \in [Keys -> Seq(Item(M, U))] /\ b0 \in Item(M, U)
      BY <1>1, <1>6, <1>10, <1>11
    <3>2. Tidy(bs) /\ WaitingDepths(bs) = WaitingDepths(buckets) \cup {Depth(b0)}
      BY <3>1, TidyIn
    <3> QED BY <1>6, <3>2
  <2>2. bs \in [Keys -> Seq(Item(M, U))]
    BY <1>1, <1>6, <1>11 DEF Enqueue
  <2> HIDE DEF bs
  <2>3. \A d \in WaitingDepths(bs) : d <= h + 1
    BY <1>3, <1>10, <2>1
  <2>4. Tidy(Enqueue(bs, j, b1)) /\ WaitingDepths(Enqueue(bs, j, b1)) = WaitingDepths(bs) \cup {h + 1}
    BY <1>6, <1>11, <2>1, <2>2, <2>3, TidyIn
  <2>5. buckets' = Enqueue(bs, j, b1)
    BY <1>8, <1>13 DEF bs
  <2>6. Tidy(buckets') /\ WaitingDepths(buckets') = WaitingDepths(buckets) \cup {h + 1}
    BY <2>1, <2>4, <2>5
  <2>7. WaitingDepths(buckets) \subseteq Int
    <3>1. \A k \in Keys : buckets[k] \in Seq(Item(M, U))
      BY <1>1
    <3>2. \A k \in Keys : Depths(buckets[k]) \subseteq Nat
      BY <3>1, DepthsAre
    <3> QED BY <3>2 DEF WaitingDepths
  <2>8. \A d, e \in WaitingDepths(buckets') : d <= e + 1
    BY <1>3, <1>10, <2>6, <2>7
  <2>9. \A c \in Depths(leaves) : \A d \in WaitingDepths(buckets') : c <= d
    BY <1>3, <1>10, <1>12, <2>6
  <2> QED BY <1>9, <1>10, <1>13, <2>6, <2>8, <2>9 DEF Order
<1>14. CASE UNCHANGED <<buckets, leaves>>
  BY <1>9, <1>10, <1>14 DEF Order
<1>15. CASE leaves' = Append(leaves, y) /\ UNCHANGED buckets
  <2>1. Sorted(leaves') /\ Depths(leaves') = Depths(leaves) \cup {h}
    <3>1. /\ Sorted(leaves) /\ \A d \in Depths(leaves) : d <= Depth(y)
          /\ leaves \in Seq(Item(M, U)) /\ y \in Item(M, U)
      BY <1>1, <1>4, <1>10
    <3>2. Sorted(Append(leaves, y)) /\ Depths(Append(leaves, y)) = Depths(leaves) \cup {Depth(y)}
      BY <3>1, SortedAppend
    <3> QED BY <1>4, <1>15, <3>2
  <2> QED BY <1>9, <1>10, <1>15, <2>1 DEF Order
<1> QED BY <1>7, <1>13, <1>14, <1>15

\* Every step keeps the order; after a move nothing is claimed.
LEMMA StepOrdered == Inv /\ Ordered /\ [Next]_vars => Ordered'
<1> SUFFICES ASSUME Inv, Ordered, [Next]_vars PROVE Ordered'
  OBVIOUS
<1>1. CASE Requeue
  BY <1>1 DEF Requeue, Ordered
<1>2. CASE Work
  BY <1>2 DEF Work, walk, Ordered
<1>3. CASE UNCHANGED vars
  BY <1>3 DEF vars, walk, Ordered
<1> QED BY <1>1, <1>2, <1>3, TakeOrdered, ReturnOrdered DEF Next

(***************************************************************************)
(* As long as no task was moved for its INCs, the leaves come in the order *)
(* of their depth, for any number of buckets, also past the last one.      *)
(***************************************************************************)
THEOREM InOrderOfDepth == Spec => []ShallowestFirst
<1>1. Inv /\ Ordered => ShallowestFirst
  <2> SUFFICES ASSUME Inv, Ordered, ~moved PROVE \A i, k \in DOMAIN leaves :
                      i < k => Len(leaves[i].path) <= Len(leaves[k].path)
    BY DEF ShallowestFirst
  <2>1. DOMAIN leaves = 1 .. Len(leaves)
    BY DEF Inv, Typed
  <2> QED BY <2>1 DEF Ordered, Order, Sorted, Depth
<1> QED BY <1>1, InitInv, StepInv, InitOrdered, StepOrdered, PTL DEF Spec

-----------------------------------------------------------------------------
(* The ring of a bucket is a queue, for every first capacity.               *)

\* Reduction modulo c of a number below 2c.
LEMMA ModSmall == ASSUME NEW c \in Nat, NEW n \in 0 .. c - 1
                  PROVE  n % c = n
  OBVIOUS

LEMMA ModWrap == ASSUME NEW c \in Nat, NEW n \in c .. 2 * c - 1
                 PROVE  n % c = n - c
  OBVIOUS

\* The slots of the tasks, and of the next one, are slots of the ring, and
\* all different.
LEMMA SlotsDiffer ==
  ASSUME RingOK, NEW i \in 0 .. cap - 1, NEW j \in 0 .. cap - 1
  PROVE  /\ At(i) \in 0 .. cap - 1
         /\ At(i) = At(j) => i = j
<1>1. cap \in Nat /\ cap > 0 /\ head \in 0 .. cap - 1
  BY DEF RingOK
<1>2. \A k \in 0 .. cap - 1 : At(k) = IF head + k < cap THEN head + k ELSE head + k - cap
  <2> TAKE k \in 0 .. cap - 1
  <2>1. CASE head + k < cap
    BY <1>1, <2>1, ModSmall DEF At
  <2>2. CASE head + k >= cap
    BY <1>1, <2>2, ModWrap DEF At
  <2> QED BY <1>1, <2>1, <2>2
<1> QED BY <1>1, <1>2

-----------------------------------------------------------------------------
(* The ring stays a ring.                                                   *)

LEMMA MovedType == ASSUME RingOK, count = cap
                   PROVE  /\ NewCap \in Nat /\ NewCap > count
                          /\ Moved \in [0 .. NewCap - 1 -> Nat]
<1>1. NewCap \in Nat /\ NewCap > count
  BY FirstCapAssumption DEF NewCap, RingOK
<1>2. ASSUME NEW i \in 0 .. NewCap - 1, i < count PROVE tasks[At(i)] \in Nat
  <2>1. At(i) \in 0 .. cap - 1
    BY <1>2, SlotsDiffer DEF RingOK
  <2> QED BY <2>1 DEF RingOK
<1> QED BY <1>1, <1>2 DEF Moved

LEMMA InitRing == InitBucket => RingOK
  BY DEF InitBucket, RingOK

LEMMA StepRing == RingOK /\ [BucketNext]_bucketVars => RingOK'
<1> SUFFICES ASSUME RingOK, [BucketNext]_bucketVars PROVE RingOK'
  OBVIOUS
<1>1. CASE PushInPlace
  <2>1. At(count) \in 0 .. cap - 1
    BY <1>1, SlotsDiffer DEF PushInPlace, RingOK
  <2> QED BY <1>1, <2>1 DEF PushInPlace, RingOK
<1>2. CASE PushAndGrow
  <2>1. count = cap
    BY <1>2 DEF PushAndGrow, RingOK
  <2>2. tasks' \in [0 .. NewCap - 1 -> Nat]
    BY <1>2, <2>1, MovedType DEF PushAndGrow, RingOK
  <2> QED BY <1>2, <2>1, <2>2, MovedType DEF PushAndGrow, RingOK
<1>3. CASE BucketPop
  <2>1. cap > 0 /\ head \in 0 .. cap - 1
    BY <1>3 DEF BucketPop, RingOK
  <2>2. (head + 1) % cap \in 0 .. cap - 1
    BY <2>1 DEF RingOK
  <2>3. tasks[head] \in Nat
    BY <2>1 DEF RingOK
  <2> QED BY <1>3, <2>1, <2>2, <2>3 DEF BucketPop, RingOK
<1>4. CASE UNCHANGED bucketVars
  BY <1>4 DEF bucketVars, RingOK
<1> QED BY <1>1, <1>2, <1>3, <1>4 DEF BucketNext

(***************************************************************************)
(* The ring is always as long as its capacity and holds no more tasks than *)
(* that: bucket_push and bucket_pop stay inside the array.                 *)
(***************************************************************************)
THEOREM RingAlwaysOK == BucketSpec => []RingOK
  BY InitRing, StepRing, PTL DEF BucketSpec

-----------------------------------------------------------------------------
(* Every step is one of a queue.                                            *)

LEMMA ContentsType ==
  ASSUME RingOK
  PROVE  /\ Contents \in Seq(Nat) /\ Len(Contents) = count
         /\ \A i \in 1 .. count : Contents[i] = tasks[At(i - 1)]
<1>1. ASSUME NEW i \in 1 .. count PROVE tasks[At(i - 1)] \in Nat
  <2>1. i - 1 \in 0 .. cap - 1
    BY DEF RingOK
  <2>2. At(i - 1) \in 0 .. cap - 1
    BY <2>1, SlotsDiffer
  <2> QED BY <2>2 DEF RingOK
<1>2. count \in Nat
  BY DEF RingOK
<1> QED BY <1>1, <1>2 DEF Contents

LEMMA PushAppends ==
  ASSUME RingOK, PushInPlace
  PROVE  Contents' = Append(Contents, pushes + 1)
<1>1. /\ cap \in Nat /\ count \in 0 .. cap - 1 /\ count' = count + 1
      /\ tasks \in [0 .. cap - 1 -> Nat]
  BY DEF PushInPlace, RingOK
<1>2. \A k \in 0 .. cap - 1 : At(k)' = At(k)
  BY DEF PushInPlace, At
<1>3. ASSUME NEW i \in 1 .. count + 1
      PROVE  tasks'[At(i - 1)] = IF i = count + 1 THEN pushes + 1 ELSE tasks[At(i - 1)]
  <2>1. /\ At(count) \in 0 .. cap - 1 /\ At(i - 1) \in 0 .. cap - 1
        /\ At(i - 1) = At(count) => i - 1 = count
    BY <1>1, SlotsDiffer
  <2> QED BY <1>1, <2>1 DEF PushInPlace
<1>4. Contents' = [i \in 1 .. count + 1 |->
                      IF i = count + 1 THEN pushes + 1 ELSE tasks[At(i - 1)]]
  BY <1>1, <1>2, <1>3 DEF Contents
<1> QED BY <1>1, <1>4, ContentsType

LEMMA GrowAppends ==
  ASSUME RingOK, PushAndGrow
  PROVE  Contents' = Append(Contents, pushes + 1)
<1>1. /\ count = cap /\ count' = count + 1 /\ cap' = NewCap /\ head' = 0
      /\ cap \in Nat /\ NewCap \in Nat /\ NewCap > count
      /\ tasks' = [Moved EXCEPT ![count] = pushes + 1]
  BY MovedType DEF PushAndGrow, RingOK
<1>2. \A k \in 0 .. NewCap - 1 : At(k)' = k
  BY <1>1, ModSmall DEF At
<1>3. ASSUME NEW i \in 1 .. count + 1
      PROVE  tasks'[i - 1] = IF i = count + 1 THEN pushes + 1 ELSE tasks[At(i - 1)]
  BY <1>1 DEF Moved
<1>4. Contents' = [i \in 1 .. count + 1 |->
                      IF i = count + 1 THEN pushes + 1 ELSE tasks[At(i - 1)]]
  BY <1>1, <1>2, <1>3 DEF Contents
<1> QED BY <1>1, <1>4, ContentsType

LEMMA TailAt == ASSUME NEW s \in Seq(Nat), s # <<>>
                PROVE  Tail(s) = [i \in 1 .. Len(s) - 1 |-> s[i + 1]]
<1>1. /\ Tail(s) \in Seq(Nat) /\ Len(Tail(s)) = Len(s) - 1
      /\ \A i \in 1 .. Len(s) - 1 : Tail(s)[i] = s[i + 1]
  BY HeadTailProperties
<1>2. Tail(s) \in [1 .. Len(s) - 1 -> Nat]
  BY <1>1, LenProperties
<1> QED BY <1>1, <1>2

LEMMA PopTakesOldest ==
  ASSUME RingOK, BucketPop
  PROVE  /\ Contents # <<>>
         /\ got' = Head(Contents)
         /\ Contents' = Tail(Contents)
<1>1. /\ cap \in Nat /\ cap > 0 /\ head \in 0 .. cap - 1 /\ count \in 1 .. cap
      /\ count' = count - 1 /\ cap' = cap /\ tasks' = tasks
      /\ head' = (head + 1) % cap /\ got' = tasks[head]
  BY DEF BucketPop, RingOK
<1>2. At(0) = head
  BY <1>1, ModSmall DEF At
<1>3. \A k \in 0 .. count - 2 : At(k)' = At(k + 1)
  <2> TAKE k \in 0 .. count - 2
  <2>1. CASE head + 1 = cap
    <3>1. head' = 0
      BY <1>1, <2>1, ModWrap
    <3>2. At(k)' = k
      BY <1>1, <3>1, ModSmall DEF At
    <3>3. At(k + 1) = k
      <4>1. head + (k + 1) = cap + k /\ cap + k \in cap .. 2 * cap - 1
        BY <1>1, <2>1
      <4> QED BY <1>1, <4>1, ModWrap DEF At
    <3> QED BY <3>2, <3>3
  <2>2. CASE head + 1 < cap
    <3>1. head' = head + 1
      BY <1>1, <2>2, ModSmall
    <3> QED BY <1>1, <3>1 DEF At
  <2> QED BY <1>1, <2>1, <2>2
<1>4. Contents' = [i \in 1 .. count - 1 |-> tasks[At(i)]]
  BY <1>1, <1>3 DEF Contents
<1>5. Tail(Contents) = [i \in 1 .. count - 1 |-> tasks[At(i)]]
  <2>1. Tail(Contents) = [i \in 1 .. count - 1 |-> Contents[i + 1]]
    <3>1. Contents # <<>>
      BY <1>1, ContentsType
    <3> QED BY <3>1, ContentsType, TailAt
  <2>2. \A i \in 1 .. count - 1 : Contents[i + 1] = tasks[At(i)]
    <3> TAKE i \in 1 .. count - 1
    <3>1. i + 1 \in 1 .. count /\ (i + 1) - 1 = i
      BY <1>1
    <3> QED BY <3>1, ContentsType
  <2> QED BY <2>1, <2>2
<1>6. Head(Contents) = tasks[head]
  BY <1>1, <1>2, ContentsType
<1> QED BY <1>1, <1>4, <1>5, <1>6, ContentsType

LEMMA InitQueue == InitBucket => Abstract!Init
  BY DEF InitBucket, Abstract!Init, Contents

LEMMA StepQueue ==
  RingOK /\ [BucketNext]_bucketVars =>
      [Abstract!Push \/ Abstract!Pop]_<<Contents, pushes, got>>
<1> SUFFICES ASSUME RingOK, [BucketNext]_bucketVars
             PROVE  [Abstract!Push \/ Abstract!Pop]_<<Contents, pushes, got>>
  OBVIOUS
<1>1. CASE PushInPlace
  BY <1>1, PushAppends DEF PushInPlace, Abstract!Push
<1>2. CASE PushAndGrow
  BY <1>2, GrowAppends DEF PushAndGrow, Abstract!Push
<1>3. CASE BucketPop
  BY <1>3, PopTakesOldest DEF BucketPop, Abstract!Pop
<1>4. CASE UNCHANGED bucketVars
  BY <1>4 DEF bucketVars, Contents, At
<1> QED BY <1>1, <1>2, <1>3, <1>4 DEF BucketNext

(***************************************************************************)
(* A bucket of thvm_collapse_ordered is a first-in first-out queue, however*)
(* often its ring wraps around and grows.                                  *)
(***************************************************************************)
THEOREM BucketIsFifo == BucketSpec => IsFifo
  BY InitQueue, StepQueue, RingAlwaysOK, PTL DEF BucketSpec, IsFifo, Abstract!Spec

=============================================================================
