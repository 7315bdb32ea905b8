---------------------------- MODULE MC_FileLease ----------------------------
(* Instances of FileLease for TLC. *)
EXTENDS FileLease

CONSTANTS p1, p2, p3

MC_Proc == {p1, p2, p3}
MC_Opaque == {<<p3, p1>>}
=============================================================================
