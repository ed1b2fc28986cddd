------------------------------ MODULE MCStream ------------------------------
(* Constants of the TLC runs of Stream. *)
EXTENDS Stream, TLC

Symmetry == Permutations(Conn) \cup Permutations(Resource)
=============================================================================
