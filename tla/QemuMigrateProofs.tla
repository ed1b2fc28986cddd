------------------------- MODULE QemuMigrateProofs --------------------------
(***************************************************************************)
(* Proofs about QemuMigrate: its type invariant, the invariant that        *)
(* "completed" is said only of a guest that has moved, and from it that    *)
(* the migration program implements the contract of MigrationJob.          *)
(***************************************************************************)
EXTENDS QemuMigrate, SequenceTheorems, TLAPS

-----------------------------------------------------------------------------
(* The socket: what appending and dropping does to the messages. *)

\* A message appended to a sequence is its last element; the others stay.
LEMMA AppendElement ==
    ASSUME NEW S, NEW s \in Seq(S), NEW x \in S
    PROVE /\ Append(s, x) \in Seq(S)
          /\ \A i \in 1..Len(Append(s, x)) :
                Append(s, x)[i] = x \/ (i \in 1..Len(s) /\ Append(s, x)[i] = s[i])
  OBVIOUS

\* Every message is in the type of messages.
LEMMA TextType == \A k \in {"greeting", "return", "error", "event"} \cup MigStatus :
                     Text(k) \in Message
  BY DEF Text, Message

\* A reply with a status is a message.
LEMMA ReplyType == ASSUME NEW k \in MigStatus
                   PROVE \A x \in Reply(k) : x \in Message /\ x.kind = k
<1>1. \A x \in Reply(k) : \E b \in BOOLEAN : x = [kind |-> k, fills |-> b]
  BY DEF Reply, Text
<1> QED BY <1>1 DEF Message

-----------------------------------------------------------------------------
(* Types. *)

\* A step of the client keeps the types (client).
LEMMA ClientType == TypeOK /\ client => TypeOK'
<1> SUFFICES ASSUME TypeOK, client PROVE TypeOK'
  OBVIOUS
<1> USE DEF client, Dial, setCapabilities, migrate, migrateReply, queryMigrate, queryAgain,
            migrateReturns, migrateFails, parseReplyPanics, readTimesOut, readEOF
<1>1. JobTypeOK'
  <2>1. CASE Dial
    BY <2>1, QemuConstants DEF TypeOK, JobTypeOK, Label
  <2>2. CASE ~Dial
    <3>1. attempts' = attempts /\ pc' \in Label
      BY <2>2 DEF PodFails, Label
    <3>2. job' \in {"running", "succeeded", "failed"}
      BY <2>2 DEF PodFails, TypeOK, JobTypeOK
    <3>3. cause' \in {"none", "event", "closed", "other"}
      BY <2>2 DEF PodFails, TypeOK, JobTypeOK
    <3> QED BY <3>1, <3>2, <3>3 DEF TypeOK, JobTypeOK
  <2> QED BY <2>1, <2>2
<1>2. open' \in BOOLEAN /\ ready' \in BOOLEAN
  BY DEF Write, Hangup, PodFails, TypeOK, LinkTypeOK
<1>3. \/ cmds' = <<>> \/ cmds' = cmds
      \/ \E c \in Command : cmds' = Append(cmds, c)
  BY DEF Write, Hangup, PodFails, Command
<1>4. cmds' \in Seq(Command)
  <2>1. cmds \in Seq(Command) /\ <<>> \in Seq(Command)
    BY EmptySeq DEF TypeOK, LinkTypeOK
  <2>2. \A c \in Command : Append(cmds, c) \in Seq(Command)
    BY <2>1, AppendElement
  <2> QED BY <1>3, <2>1, <2>2
<1>5. inbox' = <<>> \/ inbox' = <<Text("greeting")>>
  BY DEF Write, Hangup, PodFails
<1>6. inbox' \in Seq(Message)
  <2>1. Text("greeting") \in Message
    BY TextType
  <2>2. <<Text("greeting")>> \in Seq(Message)
    BY <2>1, EmptySeq, AppendElement
  <2> QED BY <1>5, <2>2, EmptySeq
<1>7. UNCHANGED <<mig, guest, events, faults>>
  BY DEF PodFails, qemu, bounds
<1> QED BY <1>1, <1>2, <1>4, <1>6, <1>7 DEF TypeOK, LinkTypeOK, QemuTypeOK

\* So does a command QEMU executes (Execute).
LEMMA ExecuteType == TypeOK /\ Execute => TypeOK'
<1> SUFFICES ASSUME TypeOK, Execute PROVE TypeOK'
  OBVIOUS
<1>1. inbox' \in Seq(Message)
  <2>1. mig \in MigStatus
    BY DEF TypeOK, QemuTypeOK
  <2>2. \E x \in Message : inbox' = Append(inbox, x)
    BY <2>1, TextType, ReplyType DEF Execute, Send
  <2> QED BY <2>2, AppendElement DEF TypeOK, LinkTypeOK
<1>2. cmds' \in Seq(Command)
  BY DEF Execute, TypeOK, LinkTypeOK
<1>3. open' \in BOOLEAN /\ ready' \in BOOLEAN
  BY DEF Execute, TypeOK, LinkTypeOK
<1>4. mig' \in MigStatus
  BY DEF Execute, TypeOK, QemuTypeOK, MigStatus
<1>5. UNCHANGED <<job, attempts, pc, cause, guest, events, faults>>
  BY DEF Execute, bounds
<1> QED BY <1>1, <1>2, <1>3, <1>4, <1>5 DEF TypeOK, JobTypeOK, LinkTypeOK, QemuTypeOK

\* And what happens in QEMU and to the connection.
LEMMA QemuType ==
    TypeOK /\ (MigrationStarts \/ MigrationCompletes \/ NobodyListens
                 \/ MigrationFails \/ OtherEvent \/ ConnectionLost) => TypeOK'
<1> SUFFICES ASSUME TypeOK,
                    MigrationStarts \/ MigrationCompletes \/ NobodyListens
                      \/ MigrationFails \/ OtherEvent \/ ConnectionLost
             PROVE TypeOK'
  OBVIOUS
<1> USE DEF MigrationStarts, MigrationCompletes, NobodyListens, MigrationFails, OtherEvent,
            ConnectionLost
<1>1. UNCHANGED <<job, attempts, pc, cause>>
  OBVIOUS
<1>2. QemuTypeOK'
  BY QemuConstants DEF TypeOK, QemuTypeOK, MigStatus, Fault, qemu, bounds
<1>3. open' \in BOOLEAN /\ ready' \in BOOLEAN
  BY DEF TypeOK, LinkTypeOK, Hangup, link
<1>4. cmds' \in Seq(Command)
  <2>1. cmds' = cmds \/ cmds' = <<>>
    BY DEF Hangup, link
  <2> QED BY <2>1, EmptySeq DEF TypeOK, LinkTypeOK
<1>5. inbox' \in Seq(Message)
  <2>1. Text("event") \in Message
    BY TextType
  <2>2. inbox' = inbox \/ inbox' = <<>> \/ inbox' = Append(inbox, Text("event"))
    BY DEF Hangup, Emit, link
  <2> QED BY <2>1, <2>2, EmptySeq, AppendElement DEF TypeOK, LinkTypeOK
<1> QED BY <1>1, <1>2, <1>3, <1>4, <1>5 DEF TypeOK, JobTypeOK, LinkTypeOK

\* The variables keep their types: replies, commands and bounds (Migrate).
THEOREM TypeCorrect == Spec => []TypeOK
<1>1. Init => TypeOK
  <2> SUFFICES ASSUME Init PROVE TypeOK
    OBVIOUS
  <2>1. JobTypeOK /\ QemuTypeOK
    BY QemuConstants DEF Init, JobTypeOK, QemuTypeOK, Label, MigStatus
  <2>2. cmds \in Seq(Command) /\ inbox \in Seq(Message)
    BY EmptySeq DEF Init
  <2> QED BY <2>1, <2>2 DEF Init, TypeOK, LinkTypeOK
<1>2. TypeOK /\ [Next]_vars => TypeOK'
  <2> SUFFICES ASSUME TypeOK, [Next]_vars PROVE TypeOK'
    OBVIOUS
  <2>1. CASE UNCHANGED vars
    BY <2>1 DEF TypeOK, JobTypeOK, LinkTypeOK, QemuTypeOK, vars, link, qemu, bounds
  <2>2. CASE Next
    BY <2>2, ClientType, ExecuteType, QemuType DEF Next
  <2> QED BY <2>1, <2>2
<1> QED BY <1>1, <1>2, PTL DEF Spec

-----------------------------------------------------------------------------
(* The invariant, and the contract. *)

\* An empty inbox holds no "completed".
LEMMA ClientMoved == TypeOK /\ CompletedIsMoved /\ client => CompletedIsMoved'
<1> SUFFICES ASSUME TypeOK, CompletedIsMoved, client PROVE CompletedIsMoved'
  OBVIOUS
<1>0. UNCHANGED <<mig, guest>>
  BY DEF client, Dial, setCapabilities, migrate, migrateReply, queryMigrate, queryAgain,
         migrateReturns, migrateFails, parseReplyPanics, readTimesOut, readEOF,
         PodFails, qemu
<1>1. CASE Dial
  BY <1>0, <1>1 DEF Dial, CompletedIsMoved, Text
<1>2. inbox' = <<>> => ~ \E i \in 1..Len(inbox') : inbox'[i].kind = "completed"
  OBVIOUS
<1>3. CASE setCapabilities \/ migrate \/ queryMigrate \/ migrateReply \/ queryAgain
  BY <1>0, <1>2, <1>3 DEF setCapabilities, migrate, queryMigrate, migrateReply,
                          queryAgain, Write, CompletedIsMoved
<1>4. CASE migrateReturns
  <2>1. guest = "target"
    BY <1>4 DEF migrateReturns, Completed, Status, OneMessage, CompletedIsMoved
  <2> QED BY <1>0, <1>2, <1>4, <2>1 DEF migrateReturns, Hangup, CompletedIsMoved
<1>5. CASE migrateFails \/ parseReplyPanics \/ readTimesOut \/ readEOF
  BY <1>0, <1>2, <1>5 DEF migrateFails, parseReplyPanics, readTimesOut, readEOF,
                          PodFails, Hangup, CompletedIsMoved
<1> QED BY <1>1, <1>3, <1>4, <1>5 DEF client

\* A reply says "completed" only of the status it was made from.
LEMMA ExecuteMoved == TypeOK /\ CompletedIsMoved /\ Execute => CompletedIsMoved'
<1> SUFFICES ASSUME TypeOK, CompletedIsMoved, Execute PROVE CompletedIsMoved'
  OBVIOUS
<1>1. PICK x \in Message : /\ inbox' = Append(inbox, x)
                           /\ x.kind = "completed" => guest = "target"
  BY TextType, ReplyType DEF Execute, Send, TypeOK, QemuTypeOK, CompletedIsMoved, Text, MigStatus
<1>2. \A i \in 1..Len(inbox') :
         inbox'[i] = x \/ (i \in 1..Len(inbox) /\ inbox'[i] = inbox[i])
  BY <1>1, AppendElement DEF TypeOK, LinkTypeOK
<1>3. mig' = "completed" => guest = "target"
  BY DEF Execute, CompletedIsMoved
<1> QED BY <1>1, <1>2, <1>3 DEF Execute, CompletedIsMoved

\* The guest only ever moves to the target, and "completed" is set when it does.
LEMMA QemuMoved ==
    TypeOK /\ CompletedIsMoved
      /\ (MigrationStarts \/ MigrationCompletes \/ NobodyListens
            \/ MigrationFails \/ OtherEvent \/ ConnectionLost) => CompletedIsMoved'
<1> SUFFICES ASSUME TypeOK, CompletedIsMoved,
                    MigrationStarts \/ MigrationCompletes \/ NobodyListens
                      \/ MigrationFails \/ OtherEvent \/ ConnectionLost
             PROVE CompletedIsMoved'
  OBVIOUS
<1>1. ASSUME Emit PROVE \A i \in 1..Len(inbox') :
         inbox'[i].kind # "completed" \/ (i \in 1..Len(inbox) /\ inbox'[i] = inbox[i])
  BY <1>1, TextType, AppendElement DEF Emit, Text, TypeOK, LinkTypeOK
<1>2. CASE MigrationStarts \/ NobodyListens \/ MigrationFails
  BY <1>2 DEF MigrationStarts, NobodyListens, MigrationFails, CompletedIsMoved, link
<1>3. CASE MigrationCompletes
  BY <1>3 DEF MigrationCompletes, CompletedIsMoved
<1>4. CASE OtherEvent
  BY <1>1, <1>4 DEF OtherEvent, CompletedIsMoved, qemu
<1>5. CASE ConnectionLost
  BY <1>5 DEF ConnectionLost, Hangup, CompletedIsMoved, qemu
<1> QED BY <1>2, <1>3, <1>4, <1>5

\* "completed" is reported only of a guest that is at the target, so a job that
\* succeeded has moved it (Migrate).
THEOREM CompletedMoved == Spec => []CompletedIsMoved
<1>1. Init => CompletedIsMoved
  BY DEF Init, CompletedIsMoved
<1>2. TypeOK /\ CompletedIsMoved /\ [Next]_vars => CompletedIsMoved'
  <2> SUFFICES ASSUME TypeOK, CompletedIsMoved, [Next]_vars PROVE CompletedIsMoved'
    OBVIOUS
  <2>1. CASE UNCHANGED vars
    BY <2>1 DEF CompletedIsMoved, vars, link, qemu, bounds
  <2>2. CASE Next
    BY <2>2, ClientMoved, ExecuteMoved, QemuMoved DEF Next
  <2> QED BY <2>1, <2>2
<1> QED BY <1>1, <1>2, TypeCorrect, PTL DEF Spec

\* The migration program and QEMU implement the contract the controller relies
\* on, for any number of attempts, events and failures (runMigrationJob).
THEOREM Implements == Spec => ImplementsContract
<1>1. Init => Contract!Init
  BY DEF Init, Contract!Init
<1>2. TypeOK /\ CompletedIsMoved /\ [Next]_vars
        => [Contract!Move \/ Contract!Succeed \/ Contract!Fail]_<<job, guest>>
  <2> SUFFICES ASSUME TypeOK, CompletedIsMoved, [Next]_vars
               PROVE \/ Contract!Move \/ Contract!Succeed \/ Contract!Fail
                     \/ UNCHANGED <<job, guest>>
    OBVIOUS
  <2> USE DEF Contract!Move, Contract!Succeed, Contract!Fail
  <2>1. CASE UNCHANGED vars
    BY <2>1 DEF vars, qemu
  <2>2. CASE Dial \/ setCapabilities \/ migrate \/ migrateReply \/ queryMigrate \/ queryAgain
    BY <2>2 DEF Dial, setCapabilities, migrate, migrateReply, queryMigrate, queryAgain, qemu
  <2>3. CASE migrateReturns
    <3>1. guest = "target"
      BY <2>3 DEF migrateReturns, Completed, Status, OneMessage, CompletedIsMoved
    <3>2. job = "running"
      BY <2>3 DEF migrateReturns, CompletedIsMoved
    <3> QED BY <2>3, <3>1, <3>2 DEF migrateReturns, qemu
  <2>4. CASE migrateFails \/ parseReplyPanics \/ readTimesOut \/ readEOF
    BY <2>4 DEF migrateFails, parseReplyPanics, readTimesOut, readEOF, PodFails, qemu,
                CompletedIsMoved
  <2>5. CASE MigrationCompletes
    BY <2>5 DEF MigrationCompletes, TypeOK, QemuTypeOK, CompletedIsMoved
  <2>6. CASE Execute \/ MigrationStarts \/ NobodyListens \/ MigrationFails
               \/ OtherEvent \/ ConnectionLost
    BY <2>6 DEF Execute, MigrationStarts, NobodyListens, MigrationFails, OtherEvent,
                ConnectionLost, qemu
  <2> QED BY <2>1, <2>2, <2>3, <2>4, <2>5, <2>6 DEF Next, client
<1> QED BY <1>1, <1>2, TypeCorrect, CompletedMoved, PTL
        DEF Spec, ImplementsContract, Contract!Spec

=============================================================================
