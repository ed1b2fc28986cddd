---------------------------- MODULE MigrationJob ----------------------------
(***************************************************************************)
(* What the VirtualMachine controller relies on when it waits for the Job  *)
(* <machine>-migrate (pkg/controller/vm/migrate.go, runMigrationJob): a    *)
(* Job that has succeeded has moved the guest, and the guest moves once.   *)
(* A Job that has failed says nothing about the guest, which QEMU may      *)
(* still be moving.                                                        *)
(***************************************************************************)
VARIABLES
    job,    \* "running", "succeeded" or "failed": Job.Status
    guest   \* "source" or "target": the pod whose QEMU executes the guest

Init == job = "running" /\ guest = "source"

Move == guest = "source" /\ job # "succeeded" /\ guest' = "target" /\ UNCHANGED job
Succeed == job = "running" /\ guest = "target" /\ job' = "succeeded" /\ UNCHANGED guest
Fail == job = "running" /\ job' = "failed" /\ UNCHANGED guest

Spec == Init /\ [][Move \/ Succeed \/ Fail]_<<job, guest>>

=============================================================================
