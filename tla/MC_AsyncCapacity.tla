-------------------------- MODULE MC_AsyncCapacity --------------------------
(* Instances of AsyncCapacity for TLC. *)
EXTENDS AsyncCapacity

CONSTANTS p1, p2

MC_Proc == {p1, p2}
=============================================================================
