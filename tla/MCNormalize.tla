----------------------------- MODULE MCNormalize ------------------------------
(***************************************************************************)
(* Normalize on small data structures, for TLC.                            *)
(***************************************************************************)
EXTENDS Normalize, Programs

Sum(a, b) == Op(0, a, b)
Pair(a, b) == Ctr(<<a, b>>)

\* Unreduced fields, nested and shared; variables and projections in fields;
\* halves erased after the other was taken; terms that are stuck.
Structures ==
    { Pair(Sum(N(1), N(2)), Sum(N(3), N(4))),
      Ctr(<<Sum(N(1), N(2)), Pair(Sum(N(3), N(4)), App(Id, N(5))), Mat(0, N(1), Id)>>),
      Pair(Sum(N(1), N(2)), Pair(Sum(N(3), N(4)), Pair(Sum(N(5), N(6)), N(7)))),
      Dup(1, Sum(N(1), N(2)), Pair(V(1), V(2))),
      Dup(1, Sum(N(1), N(2)), Pair(Sum(V(1), N(5)), Ctr(<<N(0), V(2), Sum(N(1), N(1))>>))),
      Dup(1, Sup(1, N(1), N(2)), Pair(V(1), V(2))),
      Dup(1, Sup(2, N(1), N(2)), Pair(Sum(V(1), N(1)), V(2))),
      Dup(1, Pair(Sum(N(1), N(2)), Sum(N(3), N(4))), Pair(V(1), V(2))),
      App(Fn(Pair(V(1), Sum(N(1), N(2)))), Sum(N(3), N(4))),
      App(Fn(Dup(1, V(1), Pair(Sum(V(1), V(2)), N(2)))), Sum(N(3), N(4))),
      Dup(1, Sum(N(1), N(2)), Pair(Seq2(Wrap("ERASE", V(1)), N(3)), V(2))),
      Pair(Wrap("INC", Sum(N(1), N(2))), Wrap("ERASE", Sum(N(1), N(2)))),
      Open(Pair(V(1), Sum(N(1), N(2)))), Open(Dup(1, V(1), Pair(V(1), V(2)))),
      Open(Pair(App(V(1), Sum(N(1), N(2))), Sum(N(1), Id))),
      Pair(App(Mat(2, Fn(Fn(Sum(V(1), V(2)))), Id), Pair(N(1), Sum(N(1), N(1)))),
           Eql(Sum(N(1), N(1)), N(2))),
      Eql(Mat(0, Sum(N(1), N(2)), Id), Mat(0, N(4), Sum(N(1), N(2)))),
      App(Mat(0, N(4), Id), Pair(N(1), N(2))), Sum(N(1), Sum(N(2), N(3))) }

StructureNets == {NetOf(t) : t \in Structures}

RECURSIVE HoldsValue(_, _, _)

\* The term t, read back from h, is the value v with everything below it.
HoldsValue(h, t, v) ==
    /\ IsValue(t, v)
    /\ v.k = "CTR" => /\ t.ext = Len(v.fields)
                      /\ \A i \in DOMAIN v.fields :
                            HoldsValue(h, h[t.val + i - 1], Force(v.fields[i]))

(***************************************************************************)
(* What thvm_normalize returns is the value of the program, down to the    *)
(* fields of its constructors: every slot was reduced, to the right value, *)
(* although the slots share terms and are reduced in an order of their own.*)
(***************************************************************************)
NormalForm == pass > 0 /\ anchor = 0 /\ Idle => HoldsValue(heap, root, Meaning(net.tree, <<>>))

=============================================================================
