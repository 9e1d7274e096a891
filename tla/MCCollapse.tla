------------------------------ MODULE MCCollapse -----------------------------
(***************************************************************************)
(* Collapse on the programs of Programs, for TLC.                          *)
(***************************************************************************)
EXTENDS Collapse, Definitions

AllNets == CombinatorNets \cup FirstOrderNets \cup DefinitionNets

\* What CollapseProof assumes of the nets without definitions.
ASSUME PlainPrograms == \A n \in CombinatorNets \cup FirstOrderNets : Plain(n)

-----------------------------------------------------------------------------
(* Properties.                                                              *)

(***************************************************************************)
(* Every leaf of the collapse is the value the program has on the path to  *)
(* it, whatever the budgets of the calls that reduced it: the rules of the *)
(* reducer agree with the language, and a drained term resumes as if the   *)
(* call had never stopped.  A program that uses definitions, whose labels  *)
(* are made up as they are unfolded, ends with the leaves it should have,  *)
(* each of them once: every unfolding is a copy of its own, and within one *)
(* what belongs together stays together.                                   *)
(***************************************************************************)
LeavesRight ==
    IF net.outcomes = {}
    THEN \A i \in DOMAIN leaves :
            IsValue(leaves[i].term, Meaning(net.tree, leaves[i].path))
    ELSE Finished =>
            /\ Len(leaves) = Cardinality(net.outcomes)
            /\ {leaves[i].term : i \in DOMAIN leaves} = {Num(n) : n \in net.outcomes}

\* A pointer is what distinguishes its users: <<tag, loc>> for the projections
\* of a DUP cell, for a variable and for a lambda, <<"", loc>> for other nodes.
Pointer(t) == <<IF t.tag \in {"DP0", "DP1", "VAR", "LAM", "BRI"} THEN t.tag ELSE "", t.val>>

\* The cells that the user of a term uses as well.
Below(h, t) ==
    CASE t.val <= 0 -> {}
      [] t.tag = "VAR" /\ h[t.val].sub -> {}
      [] Binder(t)     -> {t.val + 1}
      [] t.tag = "ALO" -> IF h[t.val + 1].tag = "NUM" THEN {} ELSE {t.val}
      [] OTHER -> {t.val + i - 1 : i \in 1 .. Arity(t)}

\* Numbers are copied freely, and so is what stands for one; the uses of a UDP
\* take turns.
Copied(h, t) ==
    \/ Below(h, t) = {} /\ t.tag # "VAR"
    \/ t.tag = "UDP"
    \/ t.tag = "VAR" /\ h[t.val].tag \in {"NUM", "ANY"}

\* The cells in use: those of the roots, and those below a cell in use.
InUse(h, roots) ==
    LET used[cells \in SUBSET (1 .. Len(h))] ==
            LET more == cells \cup UNION {Below(h, h[i]) : i \in cells} IN
            IF more = cells THEN cells ELSE used[more]
    IN used[roots]

(***************************************************************************)
(* Wherever the reducer may be stopped, the net it leaves is linear: every *)
(* projection, variable and node has at most one user.  The SUB bit relies *)
(* on it: the half of a DUP that a cell holds for the sibling is handed out*)
(* without being copied, so a second taker would get a term in use.  And   *)
(* no term names cells that were not allocated (NoDangling).               *)
(***************************************************************************)
Linear ==
    \A h \in {Stopped} :
        /\ AllAllocated(h)
        /\ LET users == {i \in InUse(h, Len(heap) + 1 .. Len(h)) : ~Copied(h, h[i])} IN
           Cardinality({Pointer(h[i]) : i \in users}) = Cardinality(users)

(***************************************************************************)
(* Reduction ends: stopping and resuming never makes it start over.        *)
(***************************************************************************)
Terminates == <>Finished

=============================================================================
