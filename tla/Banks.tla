-------------------------------- MODULE Banks ---------------------------------
(***************************************************************************)
(* Bump allocation of numbered cells, shared out to threads: heap_alloc of *)
(* src/src/heap/alloc.c and the banks that thvm_collapse_par (inet/_.c)    *)
(* sets up and takes down again.  Tensor numbers are handed out by the     *)
(* same scheme (tensor/create.c).                                          *)
(*                                                                         *)
(* Alone, the program takes cells at pos.  For a parallel phase what is    *)
(* left is cut into one bank per thread; afterwards pos is the highest     *)
(* cell any thread has reached.  An allocation that does not fit ends the  *)
(* program with an assertion.                                              *)
(***************************************************************************)
EXTENDS Integers

CONSTANTS Cells,       \* HEAP_CAP or MAX_TENSORS
          MaxThreads,  \* banks there are: 16 in the code
          Sizes,       \* how many cells one allocation may take
          Reserves     \* cells a serial allocation must leave free: 1 for the
                       \* heap; 64 or none for tensors

ASSUME CellsAssumption    == Cells \in Nat \ {0}
ASSUME ThreadsAssumption  == MaxThreads \in Nat \ {0}
ASSUME SizesAssumption    == Sizes \subseteq Nat
ASSUME ReservesAssumption == Reserves \subseteq Nat

VARIABLES pos,        \* heap_pos: the first cell not yet taken
          n_threads,  \* 0 outside a parallel phase
          bank_next,  \* for each thread, its next cell
          bank_end,   \* and the first cell that is not its own
          taken,      \* the cells handed out so far
          twice,      \* some cell was handed out twice
          aborted     \* an allocation did not fit

bankVars == <<pos, n_threads, bank_next, bank_end, taken, twice, aborted>>

Tids == 0 .. MaxThreads - 1

\* Cell 0 is never handed out.
InitCells ==
    /\ pos = 1 /\ n_threads = 0
    /\ bank_next = [i \in Tids |-> 0] /\ bank_end = [i \in Tids |-> 0]
    /\ taken = {} /\ twice = FALSE /\ aborted = FALSE

\* A definition Slip_X is a plausible mistake in X that the properties
\* notice.

\* heap_per
PerThread(nt) == (Cells - pos) \div nt

BankStart(i, nt) == pos + i * PerThread(nt)
BankEnd(i, nt) == IF i = nt - 1 THEN Cells ELSE BankStart(i, nt) + PerThread(nt)

\* thvm_collapse_par: Init per-thread heap banks
InitBanks(nt) ==
    /\ n_threads' = nt
    /\ bank_next' = [i \in Tids |-> IF i < nt THEN BankStart(i, nt) ELSE bank_next[i]]
    /\ bank_end' = [i \in Tids |-> IF i < nt THEN BankEnd(i, nt) ELSE bank_end[i]]
    /\ UNCHANGED <<pos, taken, twice, aborted>>

\* Cells first, first + 1, ... go to whoever asked.
HandOut(first, w) ==
    LET cells == first .. first + w - 1 IN
    /\ taken' = taken \cup cells
    /\ twice' = (twice \/ cells \cap taken # {})

Refuse == aborted' = TRUE /\ UNCHANGED <<taken, twice>>

\* heap_alloc, of thread i in a parallel phase and of the program alone.
BankAlloc(i, w) ==
    /\ n_threads > 1
    /\ bank_next' = [bank_next EXCEPT ![i] = @ + w]
    /\ IF bank_next[i] + w > bank_end[i] THEN Refuse
       ELSE HandOut(bank_next[i], w) /\ UNCHANGED aborted
    /\ UNCHANGED <<pos, n_threads, bank_end>>

SerialAlloc(w, reserve) ==
    /\ n_threads <= 1
    /\ pos' = pos + w
    /\ IF pos + w > Cells - reserve THEN Refuse
       ELSE HandOut(pos, w) /\ UNCHANGED aborted
    /\ UNCHANGED <<n_threads, bank_next, bank_end>>

\* thvm_collapse_par: Finalize banks
Slip_Reached == {pos, bank_next[0]}
Reached == {pos} \cup {bank_next[i] : i \in 0 .. n_threads - 1}

FinalizeBanks ==
    /\ pos' \in Reached /\ \A p \in Reached : p <= pos'
    /\ n_threads' = 0
    /\ UNCHANGED <<bank_next, bank_end, taken, twice, aborted>>

-----------------------------------------------------------------------------
(* A program that allocates, goes parallel and comes back as it likes.      *)

Init == InitCells

Begin == n_threads = 0 /\ \E nt \in 2 .. MaxThreads : InitBanks(nt)
Alloc == \E w \in Sizes : \/ \E i \in 0 .. n_threads - 1 : BankAlloc(i, w)
                          \/ \E r \in Reserves : SerialAlloc(w, r)
End   == n_threads > 1 /\ FinalizeBanks

Next == ~aborted /\ (Begin \/ Alloc \/ End)

Spec == Init /\ [][Next]_bankVars

-----------------------------------------------------------------------------

TypeOK ==
    /\ pos \in Nat /\ n_threads \in {0} \cup 2 .. MaxThreads
    /\ bank_next \in [Tids -> Nat] /\ bank_end \in [Tids -> 0 .. Cells]
    /\ taken \subseteq Nat /\ twice \in BOOLEAN /\ aborted \in BOOLEAN

(***************************************************************************)
(* No cell is ever handed out twice: not to two threads, not by a thread   *)
(* and the program after it, not in two phases, whatever the sizes of the  *)
(* banks came to.  And every cell handed out is one that there is.         *)
(***************************************************************************)
CellsOnce == ~twice /\ taken \subseteq 1 .. Cells - 1

(***************************************************************************)
(* The inductive invariant.                                                *)
(***************************************************************************)
\* Alone, everything from pos on is free.
SerialInv == n_threads = 0 => pos \in 1 .. Cells /\ \A c \in taken : c < pos

\* In a phase the banks are above pos, one after the other, and every thread
\* has taken what is below its next cell and nothing above it.
BanksInv ==
    n_threads > 1 =>
        /\ \A i \in 0 .. n_threads - 1 :
               /\ pos <= bank_next[i] /\ bank_next[i] <= bank_end[i]
               /\ bank_end[i] <= Cells
               /\ \A c \in taken : ~(bank_next[i] <= c /\ c < bank_end[i])
        /\ \A i, j \in 0 .. n_threads - 1 : i < j => bank_end[i] <= bank_next[j]
        /\ \A c \in taken : c < pos \/ \E i \in 0 .. n_threads - 1 : c < bank_next[i]

Inv == TypeOK /\ CellsOnce /\ (~aborted => pos >= 1 /\ SerialInv /\ BanksInv)

=============================================================================
