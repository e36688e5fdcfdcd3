------------------------------- MODULE MCMmr -------------------------------
(* Two data tell the leaves apart; which of them is which does not matter. *)
EXTENDS Prover

DataSymmetry == Permutations(Data)
=============================================================================
