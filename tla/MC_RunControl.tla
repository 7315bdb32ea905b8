--------------------------- MODULE MC_RunControl ----------------------------
(* Instances of RunControl for TLC. *)
EXTENDS RunControl

CONSTANTS s1, t1

MC_Stopper == {s1}
MC_Steerer == {t1}
MC_Faults == Fault \ {"lateProof"}
MC_StopFaults == Fault \ {"steerClose", "steerDrain"}
=============================================================================
