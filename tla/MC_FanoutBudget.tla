-------------------------- MODULE MC_FanoutBudget ---------------------------
(* Instances of FanoutBudget for TLC. *)
EXTENDS FanoutBudget, TLC

CONSTANTS p1, p2, p3

MC_Proc == {p1, p2, p3}
Symmetry == Permutations(MC_Proc)
=============================================================================
