----------------------------- MODULE MCMachine -----------------------------
(* Constants of the TLC runs of MachineController. *)
EXTENDS MachineController, TLC

Symmetry == Permutations(PodName)

=============================================================================
