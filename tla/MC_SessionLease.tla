-------------------------- MODULE MC_SessionLease ---------------------------
(* Instances of SessionLease for TLC. *)
EXTENDS SessionLease, TLC

CONSTANTS p1, p2, p3

MC_Proc == {p1, p2, p3}
MC_Pair == {p1, p2}
Symmetry == Permutations(MC_Proc)
=============================================================================
