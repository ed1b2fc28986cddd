------------------------- MODULE IPControllerProofs -------------------------
(***************************************************************************)
(* The IP controller never undoes what another process has written to a    *)
(* machine, for any machines, addresses and devices.                       *)
(***************************************************************************)
EXTENDS IPController, TLAPS

Busy == [st: {"busy"}, map: Table, vms: [Machine -> VM],
         latest: SUBSET Machine, left: SUBSET Machine]
Ticked == [st: {"read"}, cur: Table \cup {None}, latest: BOOLEAN]

\* A copy the worker holds as the latest, and has yet to write, is the machine
\* itself: every other writer takes it out of latest (updateMachines).
WorkIsCurrent ==
    work # Idle => \A m \in work.latest \cap work.left : work.vms[m] = vm[m]

\* What others have written is counted, so the count keeps to its bound.
Counted == \A m \in Machine : vm[m].written <= writes

Safe == TypeOK /\ WorkIsCurrent /\ Counted

\* What updateMachines writes, it writes to a machine it has a current copy of,
\* and it changes the address alone (updateMachineStatus).
LEMMA WriteIsCurrent ==
    ASSUME Safe, work # Idle, NEW m \in work.left, updateMachineStatus(m)
    PROVE  /\ m \in Machine
           /\ vm' \in [Machine -> VM] /\ vmView' \in [Machine -> VM]
           /\ vmLatest' \subseteq Machine /\ \A k \in vmLatest' : vmView'[k] = vm'[k]
           /\ \A k \in Machine \ {m} : vm'[k] = vm[k]
           /\ vm'[m].mac = vm[m].mac /\ vm'[m].written = vm[m].written
<1>1. work \in Busy
  BY DEF Safe, TypeOK, Busy
<1>2. m \in Machine
  BY <1>1 DEF Busy
<1>3. CASE Outdated(m) /\ m \in work.latest
  <2>1. work.vms[m] = vm[m] /\ work.vms[m] \in VM
    BY <1>1, <1>2, <1>3 DEF Safe, WorkIsCurrent, Busy
  <2>2. work.map[m].ip \in IP
    BY <1>1, <1>2, <1>3 DEF Outdated, Busy, Table, ARPEntry
  <2>3. vm' = [vm EXCEPT ![m] = [vm[m] EXCEPT !.ip = work.map[m].ip]]
    BY <1>3, <2>1 DEF updateMachineStatus, VMStored
  <2>4. vmLatest' = vmLatest \ {m} /\ vmView' = vmView
    BY <1>3 DEF updateMachineStatus, VMStored
  <2>5. [vm[m] EXCEPT !.ip = work.map[m].ip] \in VM
    BY <2>1, <2>2 DEF VM
  <2>6. vm \in [Machine -> VM] /\ vmView \in [Machine -> VM] /\ vmLatest \subseteq Machine
        /\ \A k \in vmLatest : vmView[k] = vm[k]
    BY DEF Safe, TypeOK
  <2>7. vm'[m] = [vm[m] EXCEPT !.ip = work.map[m].ip]
    BY <1>2, <2>3, <2>6
  <2>8. vm'[m].mac = vm[m].mac /\ vm'[m].written = vm[m].written
    BY <2>1, <2>7 DEF VM
  <2>9. QED BY <1>2, <2>3, <2>4, <2>5, <2>6, <2>8
<1>4. CASE ~(Outdated(m) /\ m \in work.latest)
  BY <1>2, <1>4 DEF updateMachineStatus, machines, Safe, TypeOK
<1>5. QED BY <1>3, <1>4

\* A write by another process, and what it leaves of the worker's copies.
LEMMA StoredSafe ==
    ASSUME Safe, NEW m \in Machine, NEW o \in VM, VMStored(m, o), work' = Overtaken(m),
           writes' \in 0..MaxWrites, writes' >= writes, o.written <= writes',
           leases' = leases, UNCHANGED <<guests, table, tableView, tableLatest, queued>>,
           tick' = tick
    PROVE  Safe'
<1>1. /\ vm' \in [Machine -> VM] /\ vmView' \in [Machine -> VM]
      /\ vmLatest' \subseteq Machine /\ \A k \in vmLatest' : vmView'[k] = vm'[k]
      /\ \A k \in Machine : vm'[k] = IF k = m THEN o ELSE vm[k]
  BY DEF Safe, TypeOK, VMStored
<1>2. Counted'
  <2>1. \A k \in Machine : vm[k].written \in Nat /\ vm[k].written <= writes
    BY DEF Safe, TypeOK, VM, Counted
  <2>2. writes \in Nat /\ writes' \in Nat
    BY IPConstants DEF Safe, TypeOK
  <2>3. QED BY <1>1, <2>1, <2>2 DEF Counted
<1>3. work' = Idle \/ work' \in Busy
  BY DEF Overtaken, Safe, TypeOK, Busy
<1>4. WorkIsCurrent'
  <2>1. CASE work = Idle
    BY <2>1 DEF Overtaken, WorkIsCurrent
  <2>2. CASE work # Idle
    <3>1. work \in Busy BY <2>2 DEF Safe, TypeOK, Busy
    <3>2. work' = [work EXCEPT !.latest = @ \ {m}]
      BY <2>2 DEF Overtaken
    <3>3. work'.vms = work.vms /\ work'.left = work.left /\ work'.latest = work.latest \ {m}
      BY <3>1, <3>2 DEF Busy
    <3>4. \A k \in work'.latest \cap work'.left : k \in Machine /\ k # m
      BY <3>1, <3>3 DEF Busy
    <3>5. QED BY <1>1, <2>2, <3>3, <3>4 DEF WorkIsCurrent, Safe
  <2>3. QED BY <2>1, <2>2
<1>5. TypeOK'
  BY <1>1, <1>3 DEF Safe, TypeOK, guests, Busy
<1>6. QED BY <1>2, <1>4, <1>5 DEF Safe

\* A step that leaves the machines and the worker alone.
LEMMA RestSafe ==
    ASSUME Safe, TypeOK', UNCHANGED <<machines, work>>, writes' >= writes,
           writes' \in Nat
    PROVE  Safe'
<1>1. \A k \in Machine : vm[k].written \in Nat /\ vm[k].written <= writes
  BY DEF Safe, TypeOK, VM, Counted
<1>2. writes \in Nat BY IPConstants DEF Safe, TypeOK
<1>3. Counted' BY <1>1, <1>2 DEF Counted, machines
<1>4. WorkIsCurrent' BY DEF WorkIsCurrent, Safe, machines, Idle
<1>5. QED BY <1>3, <1>4 DEF Safe

\* The ticks: what is read from the lister and from the kernel is a table.
LEMMA TickSafe ==
    ASSUME Safe, TableGet \/ updateARPTable
    PROVE  Safe'
<1>1. CASE TableGet
  <2>1. tick' \in Ticked
    BY <1>1 DEF TableGet, Safe, TypeOK, Ticked
  <2>2. TypeOK'
    BY <1>1, <2>1 DEF TableGet, Safe, TypeOK, Ticked, guests, machines, tables, bounds
  <2>3. QED
    BY <1>1, <2>2, RestSafe, IPConstants DEF TableGet, machines, bounds, Safe, TypeOK
<1>2. CASE updateARPTable
  <2>1. /\ table' \in Table \cup {None} /\ tableView' \in Table \cup {None}
        /\ tableLatest' \in BOOLEAN
        /\ tableLatest' => tableView' = table'
    BY <1>2 DEF updateARPTable, Scanned, TableStored, tables, Safe, TypeOK
  <2>2. tick' = Idle /\ UNCHANGED <<lease, arp, vm, vmView, vmLatest, queued, work,
                                    leases, writes>>
    BY <1>2 DEF updateARPTable, guests, machines, bounds
  <2>3. TypeOK'
    BY <2>1, <2>2 DEF Safe, TypeOK
  <2>4. QED
    BY <1>2, <2>3, RestSafe, IPConstants DEF updateARPTable, machines, bounds, Safe, TypeOK
<1>3. QED BY <1>1, <1>2

\* The worker: its copies are the lister's, and of those the latest are the
\* machines themselves (arpWorker).
LEMMA ArpWorkerSafe ==
    ASSUME Safe, arpWorker
    PROVE  Safe'
<1>1. CASE tableView = None
  <2>1. work' = work BY <1>1 DEF arpWorker
  <2>2. TypeOK'
    BY <2>1 DEF arpWorker, Safe, TypeOK, guests, machines, tables, bounds
  <2>3. QED
    BY <2>1, <2>2, RestSafe, IPConstants DEF arpWorker, machines, bounds, Safe, TypeOK
<1>2. CASE tableView # None
  <2>1. work' = [st |-> "busy", map |-> tableView, vms |-> vmView,
                 latest |-> vmLatest, left |-> Machine]
    BY <1>2 DEF arpWorker
  <2>2. work' \in Busy
    BY <1>2, <2>1 DEF Safe, TypeOK, Busy
  <2>3. TypeOK'
    BY <2>2 DEF arpWorker, Safe, TypeOK, guests, machines, tables, bounds, Busy
  <2>4. WorkIsCurrent'
    BY <2>1 DEF WorkIsCurrent, arpWorker, machines, Safe, TypeOK
  <2>5. Counted'
    BY DEF Counted, arpWorker, machines, bounds, Safe
  <2>6. QED BY <2>3, <2>4, <2>5 DEF Safe
<1>3. QED BY <1>1, <1>2

\* The worker's write, and the machines it has left (updateMachines).
LEMMA UpdateMachinesSafe ==
    ASSUME Safe, updateMachines
    PROVE  Safe'
<1>1. PICK m \in work.left :
        /\ updateMachineStatus(m)
        /\ work' = IF work.left = {m} THEN Idle ELSE [work EXCEPT !.left = @ \ {m}]
  BY DEF updateMachines
<1>2. work # Idle BY DEF updateMachines
<1>3. /\ m \in Machine
      /\ vm' \in [Machine -> VM] /\ vmView' \in [Machine -> VM]
      /\ vmLatest' \subseteq Machine /\ \A k \in vmLatest' : vmView'[k] = vm'[k]
      /\ \A k \in Machine \ {m} : vm'[k] = vm[k]
      /\ vm'[m].mac = vm[m].mac /\ vm'[m].written = vm[m].written
  BY <1>1, <1>2, WriteIsCurrent
<1>4. work \in Busy BY <1>2 DEF Safe, TypeOK, Busy
<1>5. work' = Idle \/ work' \in Busy BY <1>1, <1>4 DEF Busy
<1>6. TypeOK'
  BY <1>3, <1>5 DEF updateMachines, Safe, TypeOK, guests, tables, bounds, Busy
<1>7. Counted'
  <2>1. writes' = writes BY DEF updateMachines, bounds
  <2>2. \A k \in Machine : vm'[k].written = vm[k].written BY <1>3
  <2>3. QED BY <2>1, <2>2 DEF Counted, Safe
<1>8. WorkIsCurrent'
  <2>1. CASE work' = Idle BY <2>1 DEF WorkIsCurrent, Idle
  <2>2. CASE work' # Idle
    <3>1. work' = [work EXCEPT !.left = @ \ {m}] BY <1>1, <2>2
    <3>2. work'.vms = work.vms /\ work'.latest = work.latest /\ work'.left = work.left \ {m}
      BY <1>4, <3>1 DEF Busy
    <3>3. \A k \in work'.latest \cap work'.left :
             k \in Machine \ {m} /\ k \in work.latest \cap work.left
      BY <1>4, <3>2 DEF Busy
    <3>4. QED BY <1>2, <1>3, <3>2, <3>3 DEF WorkIsCurrent, Safe
  <2>3. QED BY <2>1, <2>2
<1>9. QED BY <1>6, <1>7, <1>8 DEF Safe

\* Informers, users, guests and the kernel.
LEMMA WorldSafe ==
    ASSUME Safe, \/ DeliverTable \/ Resync \/ DeliverMachines \/ Expire \/ TableDeleted
                 \/ \E m \in Machine : prepareMachine(m) \/ OthersWrite(m) \/ Lease(m)
                 \/ \E m \in Machine, d \in Device : Learn(m, d)
    PROVE  Safe'
<1> USE IPConstants
<1>1. CASE DeliverTable
  <2>1. TypeOK' BY <1>1 DEF DeliverTable, Safe, TypeOK, guests, machines, bounds
  <2>2. QED BY <1>1, <2>1, RestSafe DEF DeliverTable, machines, bounds, Safe, TypeOK
<1>2. CASE Resync
  <2>1. TypeOK' BY <1>2 DEF Resync, Safe, TypeOK, guests, machines, tables, bounds
  <2>2. QED BY <1>2, <2>1, RestSafe DEF Resync, machines, bounds, Safe, TypeOK
<1>3. CASE DeliverMachines
  <2>1. TypeOK' BY <1>3 DEF DeliverMachines, Safe, TypeOK, guests, tables, bounds
  <2>2. WorkIsCurrent' BY <1>3 DEF DeliverMachines, WorkIsCurrent, Safe, Idle
  <2>3. Counted' BY <1>3 DEF DeliverMachines, Counted, Safe, bounds
  <2>4. QED BY <2>1, <2>2, <2>3 DEF Safe
<1>4. CASE Expire
  <2>1. TypeOK' BY <1>4 DEF Expire, Safe, TypeOK, machines, tables, bounds
  <2>2. QED BY <1>4, <2>1, RestSafe DEF Expire, machines, bounds, Safe, TypeOK
<1>5. CASE TableDeleted
  <2>1. tick' = Idle \/ tick' \in Ticked
    BY <1>5 DEF TableDeleted, Safe, TypeOK, Ticked
  <2>2. writes' \in 0..MaxWrites /\ writes' >= writes
    BY <1>5 DEF TableDeleted, Safe, TypeOK
  <2>3. TypeOK'
    BY <1>5, <2>1, <2>2 DEF TableDeleted, Safe, TypeOK, guests, machines, Ticked
  <2>4. QED BY <1>5, <2>2, <2>3, RestSafe DEF TableDeleted, machines, Safe, TypeOK
<1>6. ASSUME NEW m \in Machine, prepareMachine(m) PROVE Safe'
  <2>1. vm[m] \in VM /\ vm[m].written <= writes /\ writes \in 0..MaxWrites
    BY DEF Safe, TypeOK, Counted
  <2>2. [vm[m] EXCEPT !.mac = TRUE] \in VM
        /\ [vm[m] EXCEPT !.mac = TRUE].written = vm[m].written
    BY <2>1 DEF VM
  <2>3. writes' = writes /\ writes >= writes
    BY <1>6, <2>1 DEF prepareMachine, bounds
  <2>4. QED BY <1>6, <2>1, <2>2, <2>3, StoredSafe DEF prepareMachine, tables, bounds
<1>7. ASSUME NEW m \in Machine, OthersWrite(m) PROVE Safe'
  <2>1. vm[m] \in VM /\ vm[m].written <= writes /\ writes \in 0..MaxWrites
    BY DEF Safe, TypeOK, Counted
  <2>2. writes < MaxWrites /\ writes' = writes + 1 BY <1>7 DEF OthersWrite
  <2>3. vm[m].written \in 0..MaxWrites BY <2>1 DEF VM
  <2>4. writes' \in 0..MaxWrites /\ writes' >= writes
        /\ vm[m].written + 1 \in 0..MaxWrites /\ vm[m].written + 1 <= writes'
    BY <2>1, <2>2, <2>3
  <2>5. [vm[m] EXCEPT !.written = @ + 1] \in VM
        /\ [vm[m] EXCEPT !.written = @ + 1].written = vm[m].written + 1
    BY <2>1, <2>4 DEF VM
  <2>6. QED BY <1>7, <2>4, <2>5, StoredSafe DEF OthersWrite, tables
<1>8. ASSUME NEW m \in Machine, Lease(m) PROVE Safe'
  <2>1. leases' \in 0..MaxLeases BY <1>8 DEF Lease, Safe, TypeOK
  <2>2. lease' \in [Machine -> IP \cup {None}] BY <1>8 DEF Lease, Safe, TypeOK
  <2>3. TypeOK'
    BY <1>8, <2>1, <2>2 DEF Lease, Safe, TypeOK, machines, tables
  <2>4. QED BY <1>8, <2>3, RestSafe DEF Lease, machines, Safe, TypeOK
<1>9. ASSUME NEW m \in Machine, NEW d \in Device, Learn(m, d) PROVE Safe'
  <2>1. lease[m] \in IP BY <1>9 DEF Learn, Safe, TypeOK
  <2>2. [mac |-> m, ip |-> lease[m], dev |-> d] \in Line BY <2>1 DEF Line
  <2>3. arp' \subseteq Line BY <1>9, <2>2 DEF Learn, Safe, TypeOK
  <2>4. TypeOK' BY <1>9, <2>3 DEF Learn, Safe, TypeOK, machines, tables, bounds
  <2>5. QED BY <1>9, <2>4, RestSafe DEF Learn, machines, bounds, Safe, TypeOK
<1>10. QED BY <1>1, <1>2, <1>3, <1>4, <1>5, <1>6, <1>7, <1>8, <1>9

\* Every step keeps the invariant.
LEMMA NextSafe ==
    ASSUME Safe, [Next]_vars
    PROVE  Safe'
<1>1. CASE UNCHANGED vars
  BY <1>1 DEF vars, guests, machines, tables, bounds, Safe, TypeOK, WorkIsCurrent,
              Counted, Idle
<1>2. CASE Next
  BY <1>2, TickSafe, ArpWorkerSafe, UpdateMachinesSafe, WorldSafe DEF Next
<1>3. QED BY <1>1, <1>2

\* At first no machine has been prepared, and the listers are up to date.
LEMMA InitSafe == Init => Safe
<1> SUFFICES ASSUME Init PROVE Safe
  OBVIOUS
<1>1. vm \in [Machine -> VM] BY IPConstants DEF Init, VM
<1>2. TypeOK
  <2>1. 0 \in 0..MaxLeases /\ 0 \in 0..MaxWrites BY IPConstants
  <2>2. QED BY <1>1, <2>1, Zenon DEF Init, TypeOK
<1>3. WorkIsCurrent BY DEF Init, WorkIsCurrent
<1>4. Counted BY <1>1, IPConstants DEF Init, Counted
<1>5. QED BY <1>2, <1>3, <1>4 DEF Safe

\* One step never takes a MAC away and never undoes a write of the others.
LEMMA StepKeepsOthers ==
    ASSUME Safe, [Next]_vars, NEW m \in Machine
    PROVE  /\ vm[m].mac => vm'[m].mac
           /\ vm'[m].written >= vm[m].written
<1>0. vm \in [Machine -> VM] /\ vm[m] \in VM /\ vm[m].written \in Nat
  BY DEF Safe, TypeOK, VM
<1>1. CASE vm' = vm
  BY <1>0, <1>1
<1>2. CASE updateMachines
  <2>1. PICK k \in work.left : updateMachineStatus(k)
    BY <1>2 DEF updateMachines
  <2>2. vm'[m].mac = vm[m].mac /\ vm'[m].written = vm[m].written
    BY <1>2, <2>1, WriteIsCurrent DEF updateMachines
  <2>3. QED BY <1>0, <2>2
<1>3. ASSUME NEW k \in Machine, prepareMachine(k)
      PROVE  /\ vm[m].mac => vm'[m].mac
             /\ vm'[m].written >= vm[m].written
  <2>1. vm' = [vm EXCEPT ![k] = [vm[k] EXCEPT !.mac = TRUE]]
    BY <1>3 DEF prepareMachine, VMStored
  <2>2. QED BY <1>0, <2>1 DEF VM
<1>4. ASSUME NEW k \in Machine, OthersWrite(k)
      PROVE  /\ vm[m].mac => vm'[m].mac
             /\ vm'[m].written >= vm[m].written
  <2>1. vm' = [vm EXCEPT ![k] = [vm[k] EXCEPT !.written = @ + 1]]
    BY <1>4 DEF OthersWrite, VMStored
  <2>2. QED BY <1>0, <2>1 DEF VM
<1>5. \/ vm' = vm \/ updateMachines
      \/ \E k \in Machine : prepareMachine(k) \/ OthersWrite(k)
  BY DEF Next, vars, machines, TableGet, updateARPTable, arpWorker, DeliverTable, Resync,
         DeliverMachines, Expire, TableDeleted, Lease, Learn
<1>6. QED BY <1>1, <1>2, <1>3, <1>4, <1>5

\* The state of the controller keeps its type, and the listers' copies that
\* count as the latest are (TypeOK).
THEOREM IPTypeCorrect == Spec => []TypeOK
<1>1. Safe => TypeOK BY DEF Safe
<1>2. QED BY <1>1, InitSafe, NextSafe, PTL DEF Spec

\* The worker writes whole machines from copies that may be stale, and never
\* undoes what another process has written (updateMachineStatus).
THEOREM OthersAreKept == Spec => OthersKept
<1>1. Safe /\ [Next]_vars =>
        [\A m \in Machine : /\ vm[m].mac => vm'[m].mac
                            /\ vm'[m].written >= vm[m].written]_vars
  BY StepKeepsOthers
<1>2. QED BY <1>1, InitSafe, NextSafe, PTL DEF Spec, OthersKept

=============================================================================
