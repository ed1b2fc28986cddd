---------------------------- MODULE IPController ----------------------------
(***************************************************************************)
(* The IP discovery controller (pkg/controller/ip): every five seconds it  *)
(* copies the kernel's ARP cache into the ARPTable of its device, and its  *)
(* worker copies the addresses of that table into the machines' status.    *)
(*                                                                         *)
(* Both write whole objects read from a lister.  An error of either write  *)
(* is ignored: the next tick and the informer's resync try again.  Whether *)
(* a copy is still the latest version is kept as a flag of the copy, which *)
(* every write to the object takes away.                                   *)
(***************************************************************************)
EXTENDS Naturals, FiniteSets

CONSTANTS
    None,
    Machine,    \* machines; each has a MAC address of its own
    IP,         \* addresses
    Device,     \* network devices of the node
    Bridge,     \* the one the machines are on
    MaxLeases,  \* bound on addresses given out and taken back
    MaxWrites   \* bound on writes to a machine by others

ASSUME IPConstants ==
    /\ None \notin IP /\ Bridge \in Device /\ IsFiniteSet(Machine)
    /\ MaxLeases \in Nat /\ MaxWrites \in Nat

\* A line of /proc/net/arp and an entry of the table.
Line == [mac: Machine, ip: IP, dev: Device]
ARPEntry == [ip: IP, dev: Device]
Table == [Machine -> ARPEntry \cup {None}]

\* A machine: whether it has its MAC yet, its address, and what the others
\* write to it, as a count.
VM == [mac: BOOLEAN, ip: IP \cup {None}, written: 0..MaxWrites]

VARIABLES
    lease,        \* the address each guest has, None when it is not running
    arp,          \* the kernel's cache
    vm, vmView,   \* the machines, and the lister's copies
    vmLatest,     \* the machines whose copy in the lister is the latest
    table, tableView, tableLatest,   \* the ARPTable, its copy, whether it is the latest
    tick,         \* what updateARPTable has read, "idle" between two ticks
    queued,       \* whether the table is in the queue
    work,         \* what the worker has read, "idle" between two keys
    leases, writes

guests == <<lease, arp>>
machines == <<vm, vmView, vmLatest>>
tables == <<table, tableView, tableLatest>>
bounds == <<leases, writes>>
vars == <<guests, machines, tables, tick, queued, work, bounds>>

Idle == [st |-> "idle"]

TypeOK ==
    /\ lease \in [Machine -> IP \cup {None}] /\ arp \subseteq Line
    /\ vm \in [Machine -> VM] /\ vmView \in [Machine -> VM] /\ vmLatest \subseteq Machine
    /\ \A m \in vmLatest : vmView[m] = vm[m]
    /\ table \in Table \cup {None} /\ tableView \in Table \cup {None}
    /\ tableLatest \in BOOLEAN
    /\ tableLatest => tableView = table
    /\ tick = Idle \/ tick \in [st: {"read"}, cur: Table \cup {None}, latest: BOOLEAN]
    /\ queued \in BOOLEAN
    /\ work = Idle \/ work \in [st: {"busy"}, map: Table, vms: [Machine -> VM],
                                latest: SUBSET Machine, left: SUBSET Machine]
    /\ leases \in 0..MaxLeases /\ writes \in 0..MaxWrites

Init ==
    /\ lease = [m \in Machine |-> None] /\ arp = {}
    /\ vm = [m \in Machine |-> [mac |-> FALSE, ip |-> None, written |-> 0]]
    /\ vmView = vm /\ vmLatest = Machine
    /\ table = None /\ tableView = None /\ tableLatest = TRUE
    /\ tick = Idle /\ queued = FALSE /\ work = Idle
    /\ leases = 0 /\ writes = 0

-----------------------------------------------------------------------------
(* The ARP table. *)

\* updateARPTable reads the lister's copy of the table ...
TableGet ==
    /\ tick = Idle
    /\ tick' = [st |-> "read", cur |-> tableView, latest |-> tableLatest]
    /\ UNCHANGED <<guests, machines, tables, queued, work, bounds>>

Empty == [m \in Machine |-> None]
Current == IF tick.cur = None THEN Empty ELSE tick.cur

\* (Mutant: an address once found is kept.)
ScannedOnce ==
    {t \in Table : \A m \in Machine :
        IF Current[m] = None /\ \E l \in arp : l.mac = m
        THEN \E l \in arp : l.mac = m /\ t[m] = [ip |-> l.ip, dev |-> l.dev]
        ELSE t[m] = Current[m]}

\* ... puts the lines of the cache over it, of two lines for the same MAC the
\* later one, and never takes an entry out ...
Scanned ==
    {t \in Table : \A m \in Machine :
        IF \E l \in arp : l.mac = m
        THEN \E l \in arp : l.mac = m /\ t[m] = [ip |-> l.ip, dev |-> l.dev]
        ELSE t[m] = Current[m]}

TableStored(t) == table' = t /\ tableLatest' = FALSE /\ UNCHANGED tableView

\* A Create fails when there is a table, an Update when the copy is stale.
Accepted == IF tick.cur = None THEN table = None ELSE tick.latest

\* ... and writes it if it is new or has changed; an error is logged.
updateARPTable ==
    /\ tick # Idle /\ tick' = Idle
    /\ \E t \in Scanned :
          IF (tick.cur = None \/ t # tick.cur) /\ Accepted
          THEN TableStored(t) ELSE UNCHANGED tables
    /\ UNCHANGED <<guests, machines, queued, work, bounds>>

-----------------------------------------------------------------------------
(* The machines. *)

\* (Mutant: a table that is gone is not noticed.)
arpWorkerUnchecked ==
    /\ work = Idle /\ queued /\ queued' = FALSE
    /\ work' = [st |-> "busy", map |-> tableView, vms |-> vmView,
                latest |-> vmLatest, left |-> Machine]
    /\ UNCHANGED <<guests, machines, tables, tick, bounds>>

\* arpWorker takes the key, and updateMachines lists the machines.
arpWorker ==
    /\ work = Idle /\ queued /\ queued' = FALSE
    /\ work' = IF tableView = None THEN Idle
               ELSE [st |-> "busy", map |-> tableView, vms |-> vmView,
                     latest |-> vmLatest, left |-> Machine]
    /\ UNCHANGED <<guests, machines, tables, tick, bounds>>

\* The entry updateMachines would write to m: its IP differs, or there was none.
Outdated(m) == /\ work.vms[m].mac /\ work.map[m] # None
               /\ work.map[m].ip # work.vms[m].ip

\* A write of m by anyone: no other copy of it is the latest any more.
VMStored(m, o) ==
    /\ vm' = [vm EXCEPT ![m] = o]
    /\ vmLatest' = vmLatest \ {m} /\ UNCHANGED vmView

\* (Mutant: the copy is written whether or not it is the latest version.)
updateBlindly(m) ==
    IF Outdated(m)
    THEN VMStored(m, [work.vms[m] EXCEPT !.ip = work.map[m].ip])
    ELSE UNCHANGED machines

\* updateMachineStatus of one machine; a conflict is ignored.
updateMachineStatus(m) ==
    IF Outdated(m) /\ m \in work.latest
    THEN VMStored(m, [work.vms[m] EXCEPT !.ip = work.map[m].ip])
    ELSE UNCHANGED machines

\* The next machine of the list.
updateMachines ==
    /\ work # Idle
    /\ \E m \in work.left :
          /\ updateMachineStatus(m)
          /\ work' = IF work.left = {m} THEN Idle
                     ELSE [work EXCEPT !.left = @ \ {m}]
    /\ UNCHANGED <<guests, tables, tick, queued, bounds>>

\* A copy that the worker holds is no longer the latest.
Overtaken(m) == IF work = Idle THEN work ELSE [work EXCEPT !.latest = @ \ {m}]

-----------------------------------------------------------------------------
(* Informers, the other writers, guests and the kernel. *)

DeliverTable ==
    /\ tableView # table \/ ~tableLatest
    /\ tableView' = table /\ tableLatest' = TRUE /\ queued' = TRUE
    /\ UNCHANGED <<guests, machines, table, tick, work, bounds>>

\* Every two minutes the informer hands every object to UpdateFunc again.
Resync ==
    /\ tableView # None /\ ~queued /\ queued' = TRUE
    /\ UNCHANGED <<guests, machines, tables, tick, work, bounds>>

DeliverMachines ==
    /\ vmLatest # Machine
    /\ vmView' = vm /\ vmLatest' = Machine
    /\ UNCHANGED <<guests, vm, tables, tick, queued, work, bounds>>

\* prepareMachine gives the machine its MAC.
prepareMachine(m) ==
    /\ ~vm[m].mac /\ VMStored(m, [vm[m] EXCEPT !.mac = TRUE])
    /\ work' = Overtaken(m)
    /\ UNCHANGED <<guests, tables, tick, queued, bounds>>

\* The VirtualMachine controller and the server write to it.
OthersWrite(m) ==
    /\ vm[m].mac /\ writes < MaxWrites /\ writes' = writes + 1
    /\ VMStored(m, [vm[m] EXCEPT !.written = @ + 1])
    /\ work' = Overtaken(m)
    /\ UNCHANGED <<guests, tables, tick, queued, leases>>

\* A user deletes the table.
TableDeleted ==
    /\ table # None /\ writes < MaxWrites /\ writes' = writes + 1
    /\ table' = None /\ tableLatest' = FALSE
    /\ tick' = IF tick = Idle THEN tick ELSE [tick EXCEPT !.latest = FALSE]
    /\ UNCHANGED <<guests, machines, tableView, queued, work, leases>>

\* A guest gets an address that nobody has, or another one, or stops.
Lease(m) ==
    /\ vm[m].mac /\ leases < MaxLeases /\ leases' = leases + 1
    /\ \E a \in (IP \cup {None}) \ {lease[m]} :
          /\ a # None => \A k \in Machine : lease[k] # a
          /\ lease' = [lease EXCEPT ![m] = a]
    /\ UNCHANGED <<arp, machines, tables, tick, queued, work, writes>>

\* The kernel hears of it; it has one line for an address on a device.
Learn(m, d) ==
    /\ lease[m] # None /\ [mac |-> m, ip |-> lease[m], dev |-> d] \notin arp
    /\ arp' = {l \in arp : l.ip # lease[m] \/ l.dev # d}
                \cup {[mac |-> m, ip |-> lease[m], dev |-> d]}
    /\ UNCHANGED <<lease, machines, tables, tick, queued, work, bounds>>

\* The line of an address nobody answers for may go away: Linux keeps it for as
\* long as the cache is small.
Expire ==
    /\ \E l \in arp : lease[l.mac] # l.ip /\ arp' = arp \ {l}
    /\ UNCHANGED <<lease, machines, tables, tick, queued, work, bounds>>

Next == \/ TableGet \/ updateARPTable \/ arpWorker \/ updateMachines
        \/ DeliverTable \/ Resync \/ DeliverMachines \/ Expire
        \/ TableDeleted
        \/ \E m \in Machine : prepareMachine(m) \/ OthersWrite(m) \/ Lease(m)
        \/ \E m \in Machine, d \in Device : Learn(m, d)

\* The ticker and the worker run for as long as the process, the informers
\* deliver and resync; the arp-scanner beside the controller pings the bridge's
\* addresses, so that the kernel hears of those that answer.  Nobody takes a
\* line out.
Fairness ==
    /\ WF_vars(TableGet) /\ WF_vars(updateARPTable)
    /\ WF_vars(arpWorker) /\ WF_vars(updateMachines)
    /\ WF_vars(DeliverTable) /\ WF_vars(Resync) /\ WF_vars(DeliverMachines)
    /\ \A m \in Machine : WF_vars(Learn(m, Bridge))

Spec == Init /\ [][Next]_vars
FairSpec == Spec /\ Fairness

-----------------------------------------------------------------------------
(* Properties. *)

\* The worker writes whole machines from copies that may be stale, and yet
\* never undoes what another has written: its conflicts are refused
\* (updateMachines, updateMachineStatus).
OthersKept ==
    [][\A m \in Machine : /\ vm[m].mac => vm'[m].mac
                          /\ vm'[m].written >= vm[m].written]_vars

\* The kernel lists no address but its own for the guest of m.
Unambiguous(m) == \A l \in arp : l.mac = m => l.ip = lease[m]

\* A running guest's address is found in the end, and stays, although errors of
\* both writes are ignored and each is made from a copy that others overtake, if
\* in the end the kernel lists no address the guest has given up: of two lines
\* for a MAC the later one wins, and nobody compares their age (updateARPTable,
\* arpWorker).
AddressIsFound ==
    \A m \in Machine :
        <>[]Unambiguous(m) => <>[](lease[m] # None => vm[m].ip = lease[m])

\* The status shows the address that is assigned to the guest, also when it has
\* none any more (VirtualMachineStatus.IP).
AddressIsAssigned == <>[](\A m \in Machine : vm[m].ip = lease[m])

=============================================================================
