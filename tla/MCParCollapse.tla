---------------------------- MODULE MCParCollapse -----------------------------
(***************************************************************************)
(* ParCollapse for TLC.  Only one reduction at a time needs a frame: the   *)
(* stack of the reducer is shared by all threads, and two that need one at *)
(* the same time pop each other's.                                         *)
(***************************************************************************)
EXTENDS ParCollapse

In(threads, count, splits, framed) ==
    [threads |-> threads, count |-> count, splits |-> splits, framed |-> framed]

\* Too few leaves, more threads than banks, superpositions inside one
\* another, a framed reduction, three threads and two.
OneFrame ==
    { In(1, 3, {}, {}), In(2, 0, {}, {}), In(4, 1, {}, {}),
      In(2, 2, {<<1>>, <<1, 1>>}, {<<1>>}),
      In(2, 2, {<<2>>, <<2, 0>>}, {<<2, 0>>}),
      In(4, 4, {<<4>>}, {<<4>>}) }

=============================================================================
