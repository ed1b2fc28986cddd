----------------------------- MODULE MCLonghorn -----------------------------
(* Constants of the TLC runs of LonghornVolume. *)
EXTENDS LonghornVolume, TLC

=============================================================================
