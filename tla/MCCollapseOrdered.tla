-------------------------- MODULE MCCollapseOrdered ---------------------------
(***************************************************************************)
(* CollapseOrdered on small programs, for TLC.                             *)
(***************************************************************************)
EXTENDS CollapseOrdered, Programs

Soon(t) == Wrap("INC", t)
Two(l, i) == Sup(l, N(i), N(i + 1))

\* Trees of superpositions, balanced and not, deeper than there are keys.
Plain ==
    { Sup(1, Sup(2, Two(3, 1), N(3)), Sup(4, N(4), Two(5, 5))),
      Sup(1, N(1), Sup(2, N(2), Sup(3, N(3), Sup(4, N(4), Two(5, 5))))),
      Sup(1, Sup(2, Sup(3, Sup(4, Two(5, 1), N(3)), Two(4, 4)), N(6)), Two(2, 7)),
      Op(0, Sup(1, N(1), Sup(2, N(2), N(3))), Sup(1, Two(3, 10), N(20))),
      App(Fn(Dup(1, V(1), Sup(3, V(1), V(2)))), Two(2, 1)),
      App(Fn(Sup(2, Leaf("ERA"), V(1))), Sup(2, Two(1, 1), N(3))),
      App(Sup(1, IncBy(1), Sup(2, Leaf("ERA"), IncBy(5))), Two(3, 1)),
      Dup(7, Sup(7, Two(1, 1), Two(2, 3)), Sup(3, V(1), V(2))),
      Sup(1, Usp(1, N(1), Two(2, 2)), Usp(1, N(4), N(5))),
      Op(1, Two(1, 5), Two(2, 7)), N(4), Leaf("ERA") }

\* With priorities, at the first key and beyond it.
Prioritized ==
    { Sup(1, N(1), Soon(Sup(2, N(2), Soon(N(3))))),
      Sup(1, Sup(2, N(1), N(2)), Soon(Soon(Soon(Sup(3, N(3), Soon(Soon(Soon(N(4))))))))),
      Op(0, Sup(1, Soon(N(1)), N(2)), Soon(Two(2, 5))),
      Sup(1, Leaf("ERA"), Soon(Two(2, 1))), Soon(Soon(N(1))) }

PriorityNets == {NetOf(t) : t \in Plain \cup Prioritized}

(***************************************************************************)
(* Every leaf is the value of the program on the path to it, and only      *)
(* branches that mean nothing have been skipped.                           *)
(***************************************************************************)
LeavesRight ==
    /\ \A i \in DOMAIN leaves : IsValue(leaves[i].term, Meaning(net.tree, leaves[i].path))
    /\ \A i \in DOMAIN erased : Meaning(net.tree, erased[i].path).k = "ERA"

=============================================================================
