------------------------------- MODULE MCSemfs ------------------------------
(* Instances of Semfs for TLC. *)
EXTENDS Semfs
=============================================================================
