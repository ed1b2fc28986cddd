------------------------------- MODULE MCQemu -------------------------------
(* Constants of the TLC runs of QemuMigrate. *)
EXTENDS QemuMigrate, TLC

=============================================================================
