---------------------------- MODULE QemuMigrate -----------------------------
(***************************************************************************)
(* The migration job's program (pkg/qemu, cmd/main.go -migrate) and the    *)
(* QMP monitor of the source QEMU it talks to over a stream socket.        *)
(*                                                                         *)
(* QEMU writes replies in the order of the commands and events whenever    *)
(* they happen; a read returns everything written so far, so the client    *)
(* may find an event in place of a reply, or both run together.  A panic,  *)
(* and an error of Migrate, fail the job's pod; the Job controller starts  *)
(* another one, which issues the migrate command once more.                *)
(***************************************************************************)
EXTENDS Naturals, Sequences

CONSTANTS
    MayFill,      \* whether a reply may fill readReply's buffer exactly
    MaxAttempts,  \* pods the Job controller starts before the Job has failed
    MaxEvents,    \* bound on events that have nothing to do with the migration
    MaxFaults     \* bound on failures

\* What query-migrate reports; "none" before the first migrate command.
MigStatus == {"none", "setup", "active", "completed", "failed"}
Command == {"capabilities", "migrate", "query"}

\* A message of the monitor: the greeting, a reply with an empty return, with
\* a status or with an error, an event.
Message == [kind: {"greeting", "return", "error", "event"} \cup MigStatus,
            fills: BOOLEAN]

ASSUME QemuConstants ==
    /\ MayFill \in BOOLEAN
    /\ MaxAttempts \in Nat /\ MaxEvents \in Nat /\ MaxFaults \in Nat

VARIABLES
    job,       \* the Job: "running", "succeeded", "failed"
    attempts,  \* pods started
    pc,        \* where the client is: "off" without a pod
    open,      \* whether its connection is open
    ready,     \* whether it has negotiated capabilities, and gets events
    cmds,      \* commands written and not yet executed
    inbox,     \* messages written by QEMU and not yet read
    mig,       \* QEMU's migration status
    guest,     \* "source" or "target"
    cause,     \* why the last pod failed: "none", "event", "closed", "other"
    events, faults

qemu == <<mig, guest>>
link == <<open, ready, cmds, inbox>>
bounds == <<events, faults>>
vars == <<job, attempts, pc, link, qemu, cause, bounds>>

Label == {"off", "greeting", "capabilities", "migrate", "tick", "query"}

\* The Job and its client, the connection, QEMU and the bounds.
JobTypeOK ==
    /\ job \in {"running", "succeeded", "failed"} /\ attempts \in 0..MaxAttempts
    /\ pc \in Label /\ cause \in {"none", "event", "closed", "other"}

LinkTypeOK ==
    /\ open \in BOOLEAN /\ ready \in BOOLEAN
    /\ cmds \in Seq(Command) /\ inbox \in Seq(Message)

QemuTypeOK ==
    /\ mig \in MigStatus /\ guest \in {"source", "target"}
    /\ events \in 0..MaxEvents /\ faults \in 0..MaxFaults

TypeOK == JobTypeOK /\ LinkTypeOK /\ QemuTypeOK

Init ==
    /\ job = "running" /\ attempts = 0 /\ pc = "off"
    /\ open = FALSE /\ ready = FALSE /\ cmds = <<>> /\ inbox = <<>>
    /\ mig = "none" /\ guest = "source" /\ cause = "none"
    /\ events = 0 /\ faults = 0

-----------------------------------------------------------------------------
(* The socket. *)

Text(k) == [kind |-> k, fills |-> FALSE]
Reply(k) == IF MayFill THEN {[kind |-> k, fills |-> b] : b \in BOOLEAN} ELSE {Text(k)}

\* readReply returns what there is; a message that fills the buffer exactly
\* makes it read on, and wait for another one.
Readable == inbox # <<>> /\ ~inbox[Len(inbox)].fills

\* The messages read were one reply or one event: anything else is not JSON.
OneMessage == Len(inbox) = 1

\* Write(c) after everything written so far was read.
Write(c) == cmds' = Append(cmds, c) /\ inbox' = <<>> /\ UNCHANGED <<open, ready>>

Hangup == open' = FALSE /\ ready' = FALSE /\ cmds' = <<>> /\ inbox' = <<>>

-----------------------------------------------------------------------------
(* The client. *)

\* (Mutant: the Job is not given up.)
DialAgain ==
    /\ job # "succeeded" /\ pc = "off"
    /\ attempts' = attempts + 1
    /\ pc' = "greeting" /\ open' = TRUE /\ ready' = FALSE
    /\ cmds' = <<>> /\ inbox' = <<Text("greeting")>>
    /\ UNCHANGED <<job, qemu, cause, bounds>>

\* NewMonitorClient, in the next pod of the Job.
Dial ==
    /\ job = "running" /\ pc = "off" /\ attempts < MaxAttempts
    /\ attempts' = attempts + 1
    /\ pc' = "greeting" /\ open' = TRUE /\ ready' = FALSE
    /\ cmds' = <<>> /\ inbox' = <<Text("greeting")>>
    /\ UNCHANGED <<job, qemu, cause, bounds>>

setCapabilities ==
    /\ pc = "greeting" /\ Readable /\ OneMessage
    /\ Write("capabilities") /\ pc' = "capabilities"
    /\ UNCHANGED <<job, attempts, qemu, cause, bounds>>

\* monitorExecCommand: whatever is read is taken for the reply, and the reply
\* to migrate is not looked at.
migrate ==
    /\ pc = "capabilities" /\ Readable /\ OneMessage
    /\ Write("migrate") /\ pc' = "migrate"
    /\ UNCHANGED <<job, attempts, qemu, cause, bounds>>

migrateReply ==
    /\ pc = "migrate" /\ Readable /\ OneMessage
    /\ inbox' = <<>> /\ pc' = "tick"
    /\ UNCHANGED <<job, attempts, open, ready, cmds, qemu, cause, bounds>>

\* Every second: readSilently, for a tenth of a second, then query-migrate.
queryMigrate ==
    /\ pc = "tick" /\ open
    /\ Write("query") /\ pc' = "query"
    /\ UNCHANGED <<job, attempts, qemu, cause, bounds>>

Status == inbox[1].kind

\* (Mutant: a migration under way is taken for a completed one.)
CompletedOrActive == Status \in {"completed", "active"}

Completed == Status = "completed"

\* (Mutant: a migration that failed is waited for like any other.)
queryEver ==
    /\ pc = "query" /\ Readable /\ OneMessage
    /\ Status \in {"event", "error", "setup", "active", "failed"}
    /\ inbox' = <<>> /\ pc' = "tick"
    /\ UNCHANGED <<job, attempts, open, ready, cmds, qemu, cause, bounds>>

\* No return value, or one that says the migration is under way.
queryAgain ==
    /\ pc = "query" /\ Readable /\ OneMessage
    /\ Status \in {"event", "error", "setup", "active"}
    /\ inbox' = <<>> /\ pc' = "tick"
    /\ UNCHANGED <<job, attempts, open, ready, cmds, qemu, cause, bounds>>

\* Migrate returns nil; the program ends with exit code 0.
migrateReturns ==
    /\ pc = "query" /\ Readable /\ OneMessage /\ Completed
    /\ job' = "succeeded" /\ pc' = "off" /\ Hangup
    /\ UNCHANGED <<attempts, qemu, cause, bounds>>

\* The pod fails; the Job fails with the last one it may start.
PodFails(why) ==
    /\ cause' = why /\ pc' = "off" /\ Hangup
    /\ job' = IF attempts < MaxAttempts THEN "running" ELSE "failed"
    /\ UNCHANGED <<attempts, qemu>>

\* Migrate returns an error: the migration has failed, or the reply has no
\* status (an empty return: no migration, or the reply to another command).
migrateFails ==
    /\ pc = "query" /\ Readable /\ OneMessage
    /\ Status \in {"failed", "return", "none"}
    /\ PodFails("other") /\ UNCHANGED bounds

\* parseReply panics: two messages were read at once.
parseReplyPanics ==
    /\ pc \in {"capabilities", "migrate", "query"} /\ Readable /\ ~OneMessage
    /\ PodFails("event") /\ UNCHANGED bounds

\* The deadline of 42 hours ends a read that waits for more.
readTimesOut ==
    /\ pc = "query" /\ inbox # <<>> /\ ~Readable
    /\ PodFails("other") /\ UNCHANGED bounds

\* A read finds the connection closed.
readEOF ==
    /\ pc # "off" /\ ~open
    /\ PodFails("closed") /\ UNCHANGED bounds

client == \/ Dial \/ setCapabilities \/ migrate \/ migrateReply \/ queryMigrate
          \/ queryAgain \/ migrateReturns \/ migrateFails \/ parseReplyPanics
          \/ readTimesOut \/ readEOF

-----------------------------------------------------------------------------
(* QEMU. *)

Send(msgs) == \E x \in msgs : inbox' = Append(inbox, x)

\* The next command is executed.  A migrate command is refused while a
\* migration is under way; after a completed one it starts another, which
\* finds nobody listening.
Execute ==
    /\ open /\ cmds # <<>> /\ cmds' = Tail(cmds)
    /\ \/ /\ Head(cmds) = "capabilities" /\ ready' = TRUE
          /\ Send({Text("return")}) /\ UNCHANGED mig
       \/ /\ Head(cmds) = "migrate" /\ mig \in {"setup", "active"}
          /\ Send({Text("error")}) /\ UNCHANGED <<ready, mig>>
       \/ /\ Head(cmds) = "migrate" /\ mig \notin {"setup", "active"}
          /\ mig' = "setup" /\ Send({Text("return")}) /\ UNCHANGED ready
       \/ /\ Head(cmds) = "query" /\ Send(Reply(mig)) /\ UNCHANGED <<ready, mig>>
    /\ UNCHANGED <<job, attempts, pc, open, guest, cause, bounds>>

Emit == inbox' = IF ready THEN Append(inbox, Text("event")) ELSE inbox

\* The target has accepted the connection.
MigrationStarts ==
    /\ mig = "setup" /\ guest = "source" /\ mig' = "active"
    /\ UNCHANGED <<job, attempts, pc, link, guest, cause, bounds>>

\* The guest stops, with a STOP event, and goes on at the target.
MigrationCompletes ==
    /\ mig = "active" /\ mig' = "completed" /\ guest' = "target" /\ Emit
    /\ UNCHANGED <<job, attempts, pc, open, ready, cmds, cause, bounds>>

\* Nobody listens at the target once the guest is there.
NobodyListens ==
    /\ mig = "setup" /\ guest = "target" /\ mig' = "failed"
    /\ UNCHANGED <<job, attempts, pc, link, guest, cause, bounds>>

Fault == faults < MaxFaults /\ faults' = faults + 1

MigrationFails ==
    /\ mig \in {"setup", "active"} /\ guest = "source" /\ Fault /\ mig' = "failed"
    /\ UNCHANGED <<job, attempts, pc, link, guest, cause, events>>

\* An event of the guest or of a device.
OtherEvent ==
    /\ ready /\ events < MaxEvents /\ events' = events + 1 /\ Emit
    /\ UNCHANGED <<job, attempts, pc, open, ready, cmds, qemu, cause, faults>>

\* The source QEMU, or the job's node, goes away.
ConnectionLost ==
    /\ open /\ Fault /\ Hangup
    /\ UNCHANGED <<job, attempts, pc, qemu, cause, events>>

Next == client \/ Execute \/ MigrationStarts \/ MigrationCompletes \/ NobodyListens
            \/ MigrationFails \/ OtherEvent \/ ConnectionLost

\* The client is ticked every second and the Job controller starts its pods;
\* QEMU executes commands and a migration attempt ends.  The guest's pages are
\* assumed to be sent faster than it dirties them.
Fairness == /\ WF_vars(client) /\ WF_vars(Execute)
            /\ WF_vars(MigrationStarts) /\ WF_vars(MigrationCompletes)
            /\ WF_vars(NobodyListens)

Spec == Init /\ [][Next]_vars
FairSpec == Spec /\ Fairness

-----------------------------------------------------------------------------
(* Properties. *)

\* What the controller relies on: the job and the guest behave as MigrationJob
\* says; in particular a job that succeeded has moved the guest, which the
\* cleanup of the old pod rests on (Migrate).
Contract == INSTANCE MigrationJob WITH job <- job, guest <- guest

\* The program and QEMU together implement that contract (Migrate).
ImplementsContract == Contract!Spec

\* The inductive invariant behind it: "completed" is reported only of a guest
\* that is at the target, whether by QEMU or by a reply not yet read, and the
\* Job has no pod left when it is over.
CompletedIsMoved ==
    /\ pc # "off" => job = "running"
    /\ mig = "completed" => guest = "target"
    /\ (\E i \in 1..Len(inbox) : inbox[i].kind = "completed") => guest = "target"
    /\ job = "succeeded" => guest = "target"

\* The job ends: every pod of it does, and they are bounded (Migrate).
JobEnds == <>(job # "running")

\* Only the loss of the connection makes the client panic: an event that is
\* written meanwhile does not (Migrate, readSilently).
EventsAreRead == cause # "event"

=============================================================================
