------------------------------ MODULE MCWsDeque ------------------------------
(***************************************************************************)
(* WsDeque with two interchangeable thieves, for TLC.                      *)
(***************************************************************************)
EXTENDS WsDeque, TLC

ThiefSymmetry == Permutations(Thieves)

=============================================================================
