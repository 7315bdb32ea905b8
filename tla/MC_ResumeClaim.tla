--------------------------- MODULE MC_ResumeClaim ---------------------------
(* Instances of ResumeClaim for TLC. *)
EXTENDS ResumeClaim

CONSTANTS p1, p2

MC_Proc == {p1, p2}
=============================================================================
