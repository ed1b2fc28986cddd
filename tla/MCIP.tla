-------------------------------- MODULE MCIP --------------------------------
(* Constants of the TLC runs of IPController. *)
EXTENDS IPController, TLC

Symmetry == Permutations(Machine) \cup Permutations(IP)
=============================================================================
