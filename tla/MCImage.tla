------------------------------ MODULE MCImage ------------------------------
(* Constants of the TLC runs of MachineImage. *)
EXTENDS MachineImage, TLC

Symmetry == Permutations(Snapshot)

=============================================================================
