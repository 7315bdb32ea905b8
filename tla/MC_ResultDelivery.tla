-------------------------- MODULE MC_ResultDelivery ---------------------------
(* Instances of ResultDelivery for TLC. *)
EXTENDS ResultDelivery
=============================================================================
