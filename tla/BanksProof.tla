------------------------------ MODULE BanksProof -------------------------------
(***************************************************************************)
(* Banks hands no cell out twice, for any number of cells and of threads,  *)
(* any sizes of allocations and any sequence of parallel phases.           *)
(***************************************************************************)
EXTENDS Banks, TLAPS

USE CellsAssumption, ThreadsAssumption, SizesAssumption, ReservesAssumption

\* What is left, divided among the threads, is there for all of them.
LEMMA Division == ASSUME NEW a \in Nat, NEW n \in Nat \ {0}
                  PROVE  a \div n \in Nat /\ n * (a \div n) <= a
  OBVIOUS

LEMMA Multiples == ASSUME NEW p \in Nat, NEW i \in Nat, NEW j \in Nat, i < j
                   PROVE  i * p + p <= j * p /\ i * p \in Nat /\ j * p \in Nat
  OBVIOUS

LEMMA InitInv == Init => Inv
<1> SUFFICES ASSUME Init PROVE Inv
  OBVIOUS
<1>1. twice = FALSE /\ aborted = FALSE /\ taken = {} /\ pos = 1 /\ n_threads = 0
  BY DEF Init, InitCells
<1>2. bank_next \in [Tids -> Nat] /\ bank_end \in [Tids -> 0 .. Cells]
  BY DEF Init, InitCells
<1>3. TypeOK /\ CellsOnce
  BY <1>1, <1>2 DEF TypeOK, CellsOnce
<1> QED BY <1>1, <1>3 DEF Inv, SerialInv, BanksInv

-----------------------------------------------------------------------------
(* The banks cut from what is left lie one after the other.                 *)

LEMMA BanksInOrder ==
  ASSUME pos \in 1 .. Cells, NEW nt \in 2 .. MaxThreads
  PROVE  /\ \A i \in 0 .. nt - 1 : /\ BankStart(i, nt) \in Nat /\ BankEnd(i, nt) \in Nat
                                   /\ pos <= BankStart(i, nt)
                                   /\ BankStart(i, nt) <= BankEnd(i, nt)
                                   /\ BankEnd(i, nt) <= Cells
         /\ \A i, j \in 0 .. nt - 1 : i < j => BankEnd(i, nt) <= BankStart(j, nt)
<1> DEFINE per == PerThread(nt)
<1>1. per \in Nat /\ nt * per <= Cells - pos
  BY Division DEF PerThread
<1>2. ASSUME NEW i \in 0 .. nt - 1
      PROVE  i * per \in Nat /\ i * per + per <= nt * per
  BY <1>1, Multiples
<1>3. ASSUME NEW i \in 0 .. nt - 1, NEW j \in 0 .. nt - 1, i < j
      PROVE  i * per + per <= j * per
  BY <1>1, <1>3, Multiples
<1>4. \A i \in 0 .. nt - 1 : BankStart(i, nt) = pos + i * per
  BY DEF BankStart
<1> HIDE DEF per
<1>5. \A i \in 0 .. nt - 1 :
         BankEnd(i, nt) = IF i = nt - 1 THEN Cells ELSE pos + i * per + per
  BY <1>4 DEF BankEnd, per
<1>6. ASSUME NEW i \in 0 .. nt - 1
      PROVE  /\ BankStart(i, nt) \in Nat /\ BankEnd(i, nt) \in Nat
             /\ pos <= BankStart(i, nt)
             /\ BankStart(i, nt) <= BankEnd(i, nt)
             /\ BankEnd(i, nt) <= Cells
  <2>1. i * per \in Nat /\ i * per + per <= Cells - pos
    <3>1. nt * per \in Int
      BY <1>1
    <3> QED BY <1>1, <1>2, <3>1
  <2> QED BY <1>1, <1>4, <1>5, <2>1
<1>7. ASSUME NEW i \in 0 .. nt - 1, NEW j \in 0 .. nt - 1, i < j
      PROVE  BankEnd(i, nt) <= BankStart(j, nt)
  <2>1. i * per + per <= j * per /\ i * per \in Nat /\ j * per \in Nat
    BY <1>2, <1>3, <1>7
  <2>2. i # nt - 1
    BY <1>7
  <2> QED BY <1>1, <1>4, <1>5, <2>1, <2>2
<1> QED BY <1>6, <1>7

-----------------------------------------------------------------------------
(* Every step keeps the invariant.                                          *)

LEMMA BeginInv == ASSUME Inv, ~aborted, n_threads = 0, NEW nt \in 2 .. MaxThreads, InitBanks(nt)
                  PROVE  Inv'
<1>1. pos \in 1 .. Cells /\ \A c \in taken : c < pos
  BY DEF Inv, SerialInv
<1>2. /\ n_threads' = nt /\ pos' = pos /\ taken' = taken
      /\ twice' = twice /\ aborted' = aborted
  BY DEF InitBanks
<1>3. \A i \in 0 .. nt - 1 : /\ bank_next'[i] = BankStart(i, nt)
                             /\ bank_end'[i] = BankEnd(i, nt)
  BY DEF InitBanks, Tids
<1>4. TypeOK'
  BY <1>1, BanksInOrder DEF InitBanks, Inv, TypeOK, Tids
<1>5. BanksInv'
  BY <1>1, <1>2, <1>3, BanksInOrder DEF BanksInv, Inv, TypeOK
<1> QED BY <1>1, <1>2, <1>4, <1>5 DEF Inv, CellsOnce, SerialInv

LEMMA BankAllocInv ==
  ASSUME Inv, ~aborted, NEW w \in Sizes, NEW i \in 0 .. n_threads - 1, BankAlloc(i, w)
  PROVE  Inv'
<1>1. /\ TypeOK /\ CellsOnce /\ BanksInv /\ n_threads \in 2 .. MaxThreads /\ pos >= 1
      /\ n_threads' = n_threads /\ pos' = pos /\ bank_end' = bank_end
      /\ bank_next' = [bank_next EXCEPT ![i] = @ + w] /\ w \in Nat
      /\ i \in Tids /\ bank_next[i] \in Nat
  BY DEF BankAlloc, Inv, TypeOK, Tids
<1>2. CASE bank_next[i] + w > bank_end[i]
  <2>1. aborted' = TRUE /\ taken' = taken /\ twice' = twice
    BY <1>2 DEF BankAlloc, Refuse
  <2>2. bank_next' \in [Tids -> Nat]
    BY <1>1 DEF TypeOK
  <2>3. TypeOK' /\ CellsOnce'
    BY <1>1, <2>1, <2>2 DEF TypeOK, CellsOnce
  <2> QED BY <2>1, <2>3 DEF Inv
<1>3. CASE ~(bank_next[i] + w > bank_end[i])
  <2> DEFINE cells == bank_next[i] .. bank_next[i] + w - 1
  <2>1. /\ taken' = taken \cup cells /\ aborted' = aborted
        /\ twice' = (twice \/ cells \cap taken # {})
    BY <1>3 DEF BankAlloc, HandOut
  <2>2. /\ pos <= bank_next[i] /\ bank_end[i] \in Nat /\ bank_end[i] <= Cells
        /\ \A c \in taken : ~(bank_next[i] <= c /\ c < bank_end[i])
    BY <1>1 DEF BanksInv, TypeOK
  <2>3. pos \in Nat
    BY <1>1 DEF TypeOK
  <2>4. \A c \in cells : c \in Nat /\ bank_next[i] <= c /\ c < bank_end[i] /\ c < bank_next[i] + w
    BY <1>1, <1>3, <2>2
  <2>5. cells \cap taken = {}
    BY <2>2, <2>4
  <2>6. CellsOnce'
    <3>1. cells \subseteq 1 .. Cells - 1
      BY <1>1, <2>2, <2>3, <2>4
    <3>2. ~twice'
      BY <1>1, <2>1, <2>5, Zenon DEF CellsOnce
    <3> QED BY <1>1, <2>1, <3>1, <3>2 DEF CellsOnce
  <2>7. TypeOK'
    <3>1. bank_next' \in [Tids -> Nat]
      BY <1>1 DEF TypeOK
    <3>2. taken' \subseteq Nat
      BY <1>1, <2>1, <2>4 DEF TypeOK
    <3>3. twice' \in BOOLEAN /\ aborted' \in BOOLEAN
      BY <1>1, <2>1, Zenon DEF TypeOK
    <3> QED BY <1>1, <3>1, <3>2, <3>3 DEF TypeOK
  <2>8. \A j \in 0 .. n_threads - 1 :
           /\ bank_next'[j] = IF j = i THEN bank_next[i] + w ELSE bank_next[j]
           /\ bank_next[j] \in Nat /\ bank_end[j] \in Nat
    BY <1>1 DEF TypeOK, Tids
  <2>9. BanksInv'
    <3>1. ASSUME NEW j \in 0 .. n_threads - 1
          PROVE  /\ pos <= bank_next'[j] /\ bank_next'[j] <= bank_end[j]
                 /\ bank_end[j] <= Cells
      BY <1>1, <1>3, <2>2, <2>3, <2>8 DEF BanksInv
    <3>2. ASSUME NEW j \in 0 .. n_threads - 1, NEW c \in taken'
          PROVE  ~(bank_next'[j] <= c /\ c < bank_end[j])
      <4>1. CASE c \in taken
        <5>1. ~(bank_next[j] <= c /\ c < bank_end[j]) /\ c \in Nat
          BY <1>1, <4>1 DEF BanksInv, TypeOK
        <5> QED BY <1>1, <2>8, <5>1
      <4>2. CASE c \in cells /\ j = i
        BY <1>1, <2>4, <2>8, <4>2
      <4>3. CASE c \in cells /\ j < i
        <5>1. bank_end[j] <= bank_next[i]
          BY <1>1, <4>3 DEF BanksInv
        <5> QED BY <1>1, <2>4, <2>8, <4>3, <5>1
      <4>4. CASE c \in cells /\ i < j
        <5>1. bank_end[i] <= bank_next[j]
          BY <1>1, <4>4 DEF BanksInv
        <5> QED BY <1>1, <2>2, <2>4, <2>8, <4>4, <5>1
      <4> QED BY <1>1, <2>1, <4>1, <4>2, <4>3, <4>4
    <3>3. ASSUME NEW j \in 0 .. n_threads - 1, NEW k \in 0 .. n_threads - 1, j < k
          PROVE  bank_end[j] <= bank_next'[k]
      <4>1. bank_end[j] <= bank_next[k]
        BY <1>1, <3>3 DEF BanksInv
      <4> QED BY <1>1, <2>8, <4>1
    <3>4. ASSUME NEW c \in taken'
          PROVE  c < pos \/ \E j \in 0 .. n_threads - 1 : c < bank_next'[j]
      <4>1. CASE c \in taken
        <5>1. c \in Nat /\ (c < pos \/ \E j \in 0 .. n_threads - 1 : c < bank_next[j])
          BY <1>1, <4>1 DEF BanksInv, TypeOK
        <5> QED BY <1>1, <2>8, <5>1
      <4>2. CASE c \in cells
        BY <2>4, <2>8, <4>2
      <4> QED BY <2>1, <4>1, <4>2
    <3> QED BY <1>1, <3>1, <3>2, <3>3, <3>4 DEF BanksInv
  <2> QED BY <1>1, <2>1, <2>6, <2>7, <2>9 DEF Inv, SerialInv
<1> QED BY <1>2, <1>3

LEMMA SerialAllocInv ==
  ASSUME Inv, ~aborted, NEW w \in Sizes, NEW r \in Reserves, SerialAlloc(w, r)
  PROVE  Inv'
<1>1. /\ n_threads = 0 /\ n_threads' = 0 /\ pos' = pos + w /\ w \in Nat /\ r \in Nat
      /\ bank_next' = bank_next /\ bank_end' = bank_end
      /\ pos \in 1 .. Cells /\ taken \subseteq Nat /\ \A c \in taken : c < pos
  BY DEF SerialAlloc, Inv, TypeOK, SerialInv
<1>2. CASE pos + w > Cells - r
  <2>1. aborted' = TRUE /\ taken' = taken /\ twice' = twice
    BY <1>2 DEF SerialAlloc, Refuse
  <2>2. TypeOK' /\ CellsOnce'
    BY <1>1, <2>1 DEF Inv, TypeOK, CellsOnce
  <2> QED BY <2>1, <2>2 DEF Inv
<1>3. CASE ~(pos + w > Cells - r)
  <2>1. /\ taken' = taken \cup (pos .. pos + w - 1) /\ aborted' = aborted
        /\ twice' = (twice \/ (pos .. pos + w - 1) \cap taken # {})
    BY <1>3 DEF SerialAlloc, HandOut
  <2>2. (pos .. pos + w - 1) \cap taken = {}
    BY <1>1
  <2> QED BY <1>1, <1>3, <2>1, <2>2
          DEF Inv, TypeOK, CellsOnce, SerialInv, BanksInv
<1> QED BY <1>2, <1>3

LEMMA EndInv == ASSUME Inv, ~aborted, n_threads > 1, FinalizeBanks
                PROVE  Inv'
<1>1. /\ TypeOK /\ BanksInv /\ CellsOnce /\ n_threads \in 2 .. MaxThreads /\ pos \in Nat /\ pos >= 1
      /\ n_threads' = 0 /\ taken' = taken /\ twice' = twice /\ aborted' = aborted
      /\ bank_next' = bank_next /\ bank_end' = bank_end
      /\ pos' \in Reached /\ \A p \in Reached : p <= pos'
  BY DEF FinalizeBanks, Inv, TypeOK
<1>2. \A i \in 0 .. n_threads - 1 : /\ bank_next[i] \in Nat /\ bank_end[i] \in Nat
                                    /\ bank_next[i] <= bank_end[i] /\ bank_end[i] <= Cells
                                    /\ pos <= bank_next[i]
  BY <1>1 DEF BanksInv, TypeOK, Tids
<1>3. pos' \in 1 .. Cells
  <2>1. pos <= Cells
    <3>1. 0 \in 0 .. n_threads - 1
      BY <1>1
    <3> QED BY <1>1, <1>2, <3>1
  <2>2. CASE pos' = pos
    BY <1>1, <2>1, <2>2
  <2>3. CASE \E i \in 0 .. n_threads - 1 : pos' = bank_next[i]
    BY <1>1, <1>2, <2>3
  <2> QED BY <1>1, <2>2, <2>3 DEF Reached
<1>4. ASSUME NEW c \in taken PROVE c < pos'
  <2>1. c \in Nat /\ (c < pos \/ \E i \in 0 .. n_threads - 1 : c < bank_next[i])
    BY <1>1 DEF BanksInv, TypeOK
  <2>2. pos <= pos' /\ \A i \in 0 .. n_threads - 1 : bank_next[i] <= pos'
    BY <1>1 DEF Reached
  <2> QED BY <1>1, <1>2, <1>3, <2>1, <2>2
<1> QED BY <1>1, <1>3, <1>4 DEF Inv, TypeOK, CellsOnce, SerialInv, BanksInv

LEMMA StepInv == Inv /\ [Next]_bankVars => Inv'
<1> SUFFICES ASSUME Inv, [Next]_bankVars PROVE Inv'
  OBVIOUS
<1>1. CASE Next
  <2>1. CASE Begin
    BY <1>1, <2>1, BeginInv DEF Next, Begin
  <2>2. CASE Alloc
    BY <1>1, <2>2, BankAllocInv, SerialAllocInv DEF Next, Alloc
  <2>3. CASE End
    BY <1>1, <2>3, EndInv DEF Next, End
  <2> QED BY <1>1, <2>1, <2>2, <2>3 DEF Next
<1>2. CASE UNCHANGED bankVars
  BY <1>2 DEF bankVars, Inv, TypeOK, CellsOnce, SerialInv, BanksInv
<1> QED BY <1>1, <1>2

(***************************************************************************)
(* No heap cell and no tensor number is ever handed out twice, whatever    *)
(* banks thvm_collapse_par cuts and whatever the threads take from them.   *)
(***************************************************************************)
THEOREM NoCellTwice == Spec => []CellsOnce
<1>1. Inv => CellsOnce
  BY DEF Inv
<1> QED BY <1>1, InitInv, StepInv, PTL DEF Spec

=============================================================================
