------------------------------ MODULE MCGroup -------------------------------
(* One group with room for two of three people and two handlers at a time. *)
EXTENDS Group, TLC

CONSTANTS g1, c1, c2

Handlers == Permutations(Call)

MCVerify == g1 :> "all"
=============================================================================
