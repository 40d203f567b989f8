------------------------------ MODULE MCSched -------------------------------
(* An instance of Sched for TLC: two cpus, and one cpu for liveness. *)
EXTENDS Sched, TLC

CONSTANTS b1, b2

MCBoot == (1 :> b1) @@ (2 :> b2)
MCBoot1 == 1 :> b1

symmetry == Permutations(Threads \ {b1, b2})
=============================================================================
