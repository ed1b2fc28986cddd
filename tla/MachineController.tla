------------------------- MODULE MachineController -------------------------
(***************************************************************************)
(* The VirtualMachine controller of RancherVM (pkg/controller/vm) working  *)
(* on one VirtualMachine name: the machine worker (machine.go), live       *)
(* migration (migrate.go) and the noVNC console (novnc.go), against the    *)
(* Kubernetes API objects they share with the REST server, the IP          *)
(* discovery controller, the scheduler, the kubelets and the Job           *)
(* controller.                                                             *)
(*                                                                         *)
(* The API server holds the objects; the controller reads informer caches  *)
(* that trail them, and writes the machine with whole-object Updates the   *)
(* API server accepts only if they carry the current resourceVersion.      *)
(* Every API call of a sync is a step of its own.  Reads of a lister are   *)
(* merged with the call that follows them.                                 *)
(*                                                                         *)
(* A resourceVersion is compared, never computed with, so it is kept as    *)
(* two bits: cacheCur (the cached machine is the API's) and mCur (the      *)
(* worker's snapshot is the API's).                                        *)
(***************************************************************************)
EXTENDS Naturals, FiniteSets

CONSTANTS
    Node,           \* schedulable nodes
    PodName,        \* names of machine pods (newPodName draws a fresh one)
    None,           \* no object, the empty string, no name
    Gone,           \* the name of a pod that no longer exists
    ActionChoices,  \* values of Spec.Action the users ask for
    NodeChoices,    \* values of Spec.NodeName the users ask for
    NovncChoices,   \* values of Spec.HostedNovnc the users ask for
    MayDelete,      \* whether users delete the machine
    Lag,            \* whether the pod, job and service caches may trail the API
    MaxRequests,    \* bound on the users' creations, updates and deletions
    MaxFaults       \* bound on failures: API errors, crashes, evictions, ...

Action == {"start", "stop", "reboot"}

\* StateType; "unset" is the empty string of a machine no status was written to.
State == {"unset", "pending", "running", "stopping", "stopped", "terminating",
          "migrating", "error"}

MaybeNode == Node \cup {None}
PodRef == PodName \cup {None, Gone}

\* What the controller uses of a VirtualMachine.  prepared: the finalizer, the
\* ID and the MAC are set (one Update writes the three); deleting: it has a
\* DeletionTimestamp; snode, sip, vnc: Status.NodeName, NodeIP, VncEndpoint.
Machine == [prepared: BOOLEAN, deleting: BOOLEAN,
            action: Action, node: NodeChoices \cup {None}, novnc: BOOLEAN,
            state: State, snode: MaybeNode, sip: MaybeNode, vnc: MaybeNode]

\* A machine pod.  aff: the hostname its node affinity requires; mig: created
\* as a migration target (it has a migrate_port and waits for an incoming
\* guest); older: the machine pods that existed when it was created.
Pod == [node: MaybeNode, ready: BOOLEAN, unsched: BOOLEAN, deleting: BOOLEAN,
        aff: NodeChoices \cup {None}, mig: BOOLEAN, older: SUBSET PodName]

\* The migration Job <machine>-migrate, with its pod.
Job == [src: PodRef, dst: PodRef, st: {"active", "succeeded", "failed"},
        pod: BOOLEAN, del: BOOLEAN]

\* What the pod informer holds of the pods labelled with the machine's name.
PodList == [pods: [PodName -> Pod \cup {None}], console: BOOLEAN, jobPod: BOOLEAN]

ASSUME ConstantsAssumption ==
    /\ ActionChoices \subseteq Action
    /\ NovncChoices \subseteq BOOLEAN
    /\ MayDelete \in BOOLEAN
    /\ Lag \in BOOLEAN
    /\ MaxRequests \in Nat /\ MaxFaults \in Nat

ASSUME SentinelAssumption ==
    /\ None \notin Node /\ None \notin PodName /\ Gone \notin PodName
    /\ None # Gone
    /\ None \notin Machine /\ None \notin Pod /\ None \notin Job

VARIABLES
    vm,        \* the VirtualMachine object, or None
    vmCache,   \* the machine informer's copy
    cacheCur,  \* whether that copy has the object's resourceVersion
    pods,      \* machine pods by name
    console,   \* None, or the machine pod that the <machine>-novnc pod serves
    svc,       \* whether the <machine>-novnc service exists
    job,       \* the migration job, or None
    guests,    \* pods whose hypervisor executes the guest
    podCache, jobCache, svcCache,  \* the other informers' copies
    pc,        \* the worker's next step, named after the call it makes
    m,         \* the machine passed to process()
    mCur,      \* whether m has the object's resourceVersion
    m2,        \* machine2 of stop()
    pod, peer, \* the pods the functions of the sync pass along
    then,      \* where the sync goes after the console, or after teardown
    requests,  \* user requests so far
    faults     \* failures so far

api == <<pods, console, svc, job, guests>>
caches == <<vmCache, podCache, jobCache, svcCache>>
bounds == <<requests, faults>>
local == <<m, m2, pod, peer, then>>
vars == <<vm, cacheCur, api, caches, pc, local, mCur, bounds>>

AbortLabels == {"prepare", "setTerm", "start", "created", "delPod", "migrate",
                "target", "rbPod", "rbState", "clPod", "clJob", "clConsole",
                "stState", "tmFinal"}
StartLabels == {"start", "created", "console", "svc", "endpoint", "delPod",
                "migrate", "target", "rbPod", "rbState", "clPod", "clJob",
                "clConsole"}
StopLabels == {"stPods", "stJob", "stConsole", "stState"}
TeardownLabels == {"tmPods", "tmConsole", "tmSvc", "tmFinal"}
Label == {"idle", "prepare", "setTerm"} \cup StartLabels \cup StopLabels
            \cup TeardownLabels

TypeOK ==
    /\ vm \in Machine \cup {None} /\ vmCache \in Machine \cup {None}
    /\ cacheCur \in BOOLEAN /\ mCur \in BOOLEAN
    /\ pods \in [PodName -> Pod \cup {None}]
    /\ console \in PodRef /\ svc \in BOOLEAN /\ job \in Job \cup {None}
    /\ guests \subseteq PodName
    /\ podCache \in PodList /\ jobCache \in Job \cup {None}
    /\ svcCache \in BOOLEAN
    /\ pc \in Label
    /\ m \in Machine \cup {None} /\ m2 \in Machine \cup {None}
    /\ pod \in PodName \cup {None} /\ peer \in PodName \cup {None}
    /\ then \in {"idle", "delPod", "migrate", "target", "tmFinal"}
    /\ requests \in 0..MaxRequests /\ faults \in 0..MaxFaults

NoPods == [p \in PodName |-> None]

Init ==
    /\ vm = None /\ vmCache = None /\ cacheCur = TRUE
    /\ pods = NoPods /\ console = None /\ svc = FALSE /\ job = None
    /\ guests = {}
    /\ podCache = [pods |-> NoPods, console |-> FALSE, jobPod |-> FALSE]
    /\ jobCache = None /\ svcCache = FALSE
    /\ pc = "idle" /\ m = None /\ mCur = FALSE /\ m2 = None
    /\ pod = None /\ peer = None /\ then = "idle"
    /\ requests = 0 /\ faults = 0

-----------------------------------------------------------------------------
(* What the listers return. *)

Snapshot == [pods |-> pods, console |-> console # None,
             jobPod |-> IF job = None THEN FALSE ELSE job.pod]

PodView == IF Lag THEN podCache ELSE Snapshot
JobView == IF Lag THEN jobCache ELSE job
SvcView == IF Lag THEN svcCache ELSE svc

GetAlivePods(ps) == {p \in PodName : ps[p] # None /\ ~ps[p].deleting}
AliveView == GetAlivePods(PodView.pods)
Alive == GetAlivePods(pods)

\* (Mutant: terminating pods are taken for gone.)
ListsPodsAlive == AliveView # {} \/ PodView.console \/ PodView.jobPod

\* podLister.List({name: machine}) is not empty: machine pods, terminating or
\* not, the console pod and the migration job's pod carry that label.
ListsPods == \/ \E p \in PodName : PodView.pods[p] # None
             \/ PodView.console \/ PodView.jobPod

Name(p) == IF pods[p] = None THEN Gone ELSE p

(* Calls on the API server. *)

\* (Mutant: the API server does not compare resourceVersions.)
updateMachineStatusUnchecked(new) ==
    /\ vm' = IF new # m /\ vm # None THEN new ELSE vm
    /\ cacheCur' = (cacheCur /\ vm' = vm)

\* updateMachineStatus(m, new): no call when nothing changed; the Update is
\* accepted only if m carries the object's resourceVersion.
Accepted(new) == new = m \/ mCur
updateMachineStatus(new) ==
    /\ vm' = IF new # m /\ mCur THEN new ELSE vm
    /\ cacheCur' = (cacheCur /\ vm' = vm)

\* deleteMachinePods' DeleteCollection: machine pods terminate gracefully, the
\* console pod (grace period 0) and the job's pod go.
deleteMachinePods ==
    /\ pods' = [p \in PodName |-> IF pods[p] = None THEN None
                                  ELSE [pods[p] EXCEPT !.deleting = TRUE]]
    /\ console' = None
    /\ job' = IF job = None THEN None ELSE [job EXCEPT !.pod = FALSE]

DeletePod(p) ==
    pods' = IF pods[p] = None THEN pods ELSE [pods EXCEPT ![p].deleting = TRUE]

\* Foreground propagation: the job stays until its pod has been collected.
deleteMigrationJob == job' = IF job = None THEN None ELSE [job EXCEPT !.del = TRUE]

\* (Mutant: the migrate flag is not passed on.)
createMachinePodPlain(migrate) ==
    [node |-> None, ready |-> FALSE, unsched |-> FALSE, deleting |-> FALSE,
     aff |-> m.node, mig |-> FALSE,
     older |-> {q \in PodName : pods[q] # None}]

\* createMachinePod with addMachineAntiAffinity, addMigratePort, addNodeAffinity.
createMachinePod(migrate) ==
    [node |-> None, ready |-> FALSE, unsched |-> FALSE, deleting |-> FALSE,
     aff |-> m.node, mig |-> migrate,
     older |-> {q \in PodName : pods[q] # None}]

\* A name no object and no cached copy carries: newPodName is random.
Fresh(p) == /\ pods[p] = None
            /\ Lag => podCache.pods[p] = None
            /\ p \notin {pod, peer}

-----------------------------------------------------------------------------
(* The worker's control. *)

EndSync ==
    /\ pc' = "idle" /\ m' = None /\ mCur' = FALSE /\ m2' = None
    /\ pod' = None /\ peer' = None /\ then' = "idle"

Goto(label) == pc' = label /\ UNCHANGED local

\* Back in start() after updateNovnc, whose error start() only logs.
Resume ==
    IF then = "idle" THEN EndSync ELSE Goto(then) /\ UNCHANGED mCur

\* After an accepted write m is no longer the object's version.
UpdateThen(new, step) ==
    /\ updateMachineStatus(new)
    /\ IF Accepted(new) THEN step /\ mCur' = (mCur /\ new = m) ELSE EndSync

(* machineWorker and process(): pick the cached machine and dispatch. *)

\* (Mutant: the action is looked at before the DeletionTimestamp.)
DispatchActionFirst(v) ==
    CASE v.prepared /\ v.action = "start" -> "start"
      [] v.deleting /\ v.state # "terminating" /\ v.action # "start" -> "setTerm"
      [] v.deleting /\ v.state = "terminating" /\ v.action # "start" -> "tmPods"
      [] ~v.deleting /\ ~v.prepared -> "prepare"
      [] ~v.deleting /\ v.prepared /\ v.action = "stop" -> "stPods"
      [] OTHER -> "idle"

Dispatch(v) ==
    CASE v.deleting /\ v.state # "terminating" -> "setTerm"
      [] v.deleting /\ v.state = "terminating" -> "tmPods"
      [] ~v.deleting /\ ~v.prepared            -> "prepare"
      [] ~v.deleting /\ v.prepared /\ v.action = "start" -> "start"
      [] ~v.deleting /\ v.prepared /\ v.action = "stop"  -> "stPods"
      [] OTHER -> "idle"     \* invalid action: logged, nothing else

process ==
    /\ pc = "idle" /\ vmCache # None /\ Dispatch(vmCache) # "idle"
    /\ pc' = Dispatch(vmCache) /\ m' = vmCache /\ mCur' = cacheCur
    /\ m2' = vmCache
    /\ UNCHANGED <<vm, cacheCur, api, caches, pod, peer, then, bounds>>

prepareMachine ==
    /\ pc = "prepare"
    /\ updateMachineStatus([m EXCEPT !.prepared = TRUE])
    /\ EndSync
    /\ UNCHANGED <<api, caches, bounds>>

-----------------------------------------------------------------------------
(* start() *)

\* (Mutant: the pod's condition is copied instead of a StateType.)
StatusWithPodCondition(v, p) ==
    [v EXCEPT !.snode = IF p.node # None THEN p.node ELSE @,
              !.sip   = IF p.node # None THEN p.node ELSE @,
              !.state = IF p.deleting THEN "stopping"
                        ELSE IF p.ready THEN "ready" ELSE "pending"]

\* (Mutant: readiness is not looked at.)
StatusWithPodNotReady(v, p) ==
    [v EXCEPT !.snode = IF p.node # None THEN p.node ELSE @,
              !.sip   = IF p.node # None THEN p.node ELSE @,
              !.state = IF p.deleting THEN "stopping" ELSE "pending"]

\* updateMachineStatusWithPod
StatusWithPod(v, p) ==
    [v EXCEPT !.snode = IF p.node # None THEN p.node ELSE @,
              !.sip   = IF p.node # None THEN p.node ELSE @,
              !.state = IF p.deleting THEN "stopping"
                        ELSE IF p.ready THEN "running" ELSE "pending"]

\* What start() does once the pod and the console are up to date.
AfterPod(v, p) ==
    IF v.state = "pending" /\ p.unsched /\ p.aff # None /\ v.node # p.aff
    THEN "delPod"
    ELSE IF v.state = "running" /\ v.node # None /\ v.node # p.node
         THEN "migrate"
         ELSE IF v.state = "migrating" THEN "target" ELSE "idle"

\* (Mutant: a pod that is not ready yet does not count.)
updateMachinePodCreateImpatient ==
    /\ pc = "start" /\ ~\E p \in AliveView : PodView.pods[p].ready
    /\ \E p \in PodName :
        /\ Fresh(p)
        /\ pods' = [pods EXCEPT ![p] = createMachinePod(FALSE)]
        /\ pod' = p /\ then' = AfterPod(m, createMachinePod(FALSE))
    /\ pc' = "created"
    /\ UNCHANGED <<vm, cacheCur, console, svc, job, guests, caches,
                   m, m2, mCur, peer, bounds>>

\* updateMachinePod, no alive pod: create one ...
updateMachinePodCreate ==
    /\ pc = "start" /\ AliveView = {}
    /\ \E p \in PodName :
        /\ Fresh(p)
        /\ pods' = [pods EXCEPT ![p] = createMachinePod(FALSE)]
        /\ pod' = p /\ then' = AfterPod(m, createMachinePod(FALSE))
    /\ pc' = "created"
    /\ UNCHANGED <<vm, cacheCur, console, svc, job, guests, caches,
                   m, m2, mCur, peer, bounds>>

\* ... and write the status its creation returned.
updateMachinePodCreated ==
    /\ pc = "created"
    /\ UpdateThen([m EXCEPT !.state = "pending"], Goto("console"))
    /\ UNCHANGED <<api, caches, bounds>>

\* updateMachinePod, one alive pod: write its status.
updateMachinePodStatus ==
    /\ pc = "start"
    /\ \E p \in PodName :
        /\ AliveView = {p}
        /\ LET seen == PodView.pods[p]
           IN  UpdateThen(StatusWithPod(m, seen),
                   /\ pc' = "console" /\ pod' = p /\ then' = AfterPod(m, seen)
                   /\ UNCHANGED <<m, m2, peer>>)
    /\ UNCHANGED <<api, caches, bounds>>

\* updateMachinePod, more alive pods: no pod is returned, the status and the
\* console are left alone, and only a migrating machine goes on.
updateMachinePodMany ==
    /\ pc = "start"
    /\ \E p, q \in AliveView : p # q
    /\ IF m.state = "migrating" THEN Goto("target") /\ UNCHANGED mCur ELSE EndSync
    /\ UNCHANGED <<vm, cacheCur, api, caches, bounds>>

\* updateNovncPod creates the console pod if the cache has none, even a
\* terminating one; deleteConsolePod when the console is not wanted.
updateNovncPod ==
    /\ pc = "console"
    /\ console' = IF ~m.novnc THEN None
                  ELSE IF ~PodView.console /\ console = None THEN Name(pod)
                       ELSE console
    /\ Goto("svc")
    /\ UNCHANGED <<vm, cacheCur, pods, svc, job, guests, caches, mCur, bounds>>

\* updateNovncService; a cache that trails a deletion skips the creation, one
\* that trails a creation gets AlreadyExists and no endpoint.
updateNovncService ==
    /\ pc = "svc"
    /\ svc' = (m.novnc /\ (svc \/ ~SvcView))
    /\ IF m.novnc /\ svc /\ ~SvcView
       THEN Resume
       ELSE Goto("endpoint") /\ UNCHANGED mCur
    /\ UNCHANGED <<vm, cacheCur, pods, console, job, guests, caches, bounds>>

\* The VncEndpoint: the node's IP and the service's port, or empty.
updateNovncEndpoint ==
    /\ pc = "endpoint"
    /\ LET new == [m EXCEPT !.vnc = IF ~m.novnc THEN None
                                    ELSE IF m.sip = None THEN @ ELSE m.sip]
       IN  /\ updateMachineStatus(new)
           /\ IF then = "idle" THEN EndSync
              ELSE Goto(then) /\ mCur' = (mCur /\ new = m)
    /\ UNCHANGED <<api, caches, bounds>>

\* The user changed the node of an unschedulable pod: start over.
deleteUnschedulablePod ==
    /\ pc = "delPod"
    /\ DeletePod(pod)
    /\ EndSync
    /\ UNCHANGED <<vm, cacheCur, console, svc, job, guests, caches, bounds>>

-----------------------------------------------------------------------------
(* migrateMachine() *)

\* A running machine becomes migrating; machine2, which keeps m's
\* resourceVersion, is the machine of the rest of the sync.
migrateMachine ==
    /\ pc = "migrate"
    /\ LET new == [m EXCEPT !.state = "migrating"]
       IN  UpdateThen(new, pc' = "target" /\ m' = new
                           /\ UNCHANGED <<m2, pod, peer, then>>)
    /\ UNCHANGED <<api, caches, bounds>>

\* startMigrateTargetPod, one alive pod: create the target.
startMigrateTargetPod ==
    /\ pc = "target"
    /\ \E p \in PodName : AliveView = {p}
    /\ \E p \in PodName :
        /\ Fresh(p)
        /\ pods' = [pods EXCEPT ![p] = createMachinePod(TRUE)]
    /\ EndSync
    /\ UNCHANGED <<vm, cacheCur, console, svc, job, guests, caches, bounds>>

\* Neither one nor two alive pods: "strange number of machine pods found".
strangeNumberOfPods ==
    /\ pc = "target"
    /\ ~\E p, q \in PodName : AliveView = {p, q}
    /\ EndSync
    /\ UNCHANGED <<vm, cacheCur, api, caches, bounds>>

\* The two pods of a migration, by creation time.
OldNew(p, q) == AliveView = {p, q} /\ p \in PodView.pods[q].older
Canceled(p) == m.node = PodView.pods[p].node
BothReady(p, q) == PodView.pods[p].ready /\ PodView.pods[q].ready

\* migrateRollback: delete the job, the target, and be running again.
migrateRollbackJob ==
    /\ pc = "target"
    /\ \E p, q \in PodName :
        /\ OldNew(p, q) /\ Canceled(p)
        /\ pod' = p /\ peer' = q
    /\ deleteMigrationJob
    /\ pc' = "rbPod"
    /\ UNCHANGED <<vm, cacheCur, pods, console, svc, guests, caches,
                   m, m2, mCur, then, bounds>>

migrateRollbackPod ==
    /\ pc = "rbPod"
    /\ DeletePod(peer)
    /\ Goto("rbState")
    /\ UNCHANGED <<vm, cacheCur, console, svc, job, guests, caches, mCur, bounds>>

migrateRollbackState ==
    /\ pc = "rbState"
    /\ updateMachineStatus([m EXCEPT !.state = "running"])
    /\ EndSync
    /\ UNCHANGED <<api, caches, bounds>>

\* Not ready yet, or the job has not succeeded: wait for the next sync.
waitForMigration ==
    /\ pc = "target"
    /\ \E p, q \in PodName :
        /\ OldNew(p, q) /\ ~Canceled(p)
        /\ \/ ~BothReady(p, q)
           \/ JobView # None /\ JobView.st # "succeeded"
    /\ EndSync
    /\ UNCHANGED <<vm, cacheCur, api, caches, bounds>>

\* runMigrationJob, no job in the cache; the creation fails if one exists, or
\* if the newer pod has no migrate_port.
runMigrationJob ==
    /\ pc = "target"
    /\ \E p, q \in PodName :
        /\ OldNew(p, q) /\ ~Canceled(p) /\ BothReady(p, q) /\ JobView = None
        /\ job' = IF job # None \/ ~PodView.pods[q].mig THEN job
                  ELSE [src |-> Name(p), dst |-> Name(q), st |-> "active",
                        pod |-> FALSE, del |-> FALSE]
    /\ EndSync
    /\ UNCHANGED <<vm, cacheCur, pods, console, svc, guests, caches, bounds>>

\* migrationCleanup: the status of the new pod first, then the old pod, the
\* job and the console go; any error, NotFound too, ends it.
migrationCleanupStatus ==
    /\ pc = "target"
    /\ \E p, q \in PodName :
        /\ OldNew(p, q) /\ ~Canceled(p) /\ BothReady(p, q)
        /\ JobView # None /\ JobView.st = "succeeded"
        /\ UpdateThen(StatusWithPod([m EXCEPT !.action = "start"], PodView.pods[q]),
               /\ pc' = "clPod" /\ pod' = p /\ peer' = q
               /\ UNCHANGED <<m, m2, then>>)
    /\ UNCHANGED <<api, caches, bounds>>

migrationCleanupPod ==
    /\ pc = "clPod"
    /\ DeletePod(pod)
    /\ IF pods[pod] = None THEN EndSync ELSE Goto("clJob") /\ UNCHANGED mCur
    /\ UNCHANGED <<vm, cacheCur, console, svc, job, guests, caches, bounds>>

migrationCleanupJob ==
    /\ pc = "clJob"
    /\ deleteMigrationJob
    /\ IF job = None THEN EndSync ELSE Goto("clConsole") /\ UNCHANGED mCur
    /\ UNCHANGED <<vm, cacheCur, pods, console, svc, guests, caches, bounds>>

migrationCleanupConsole ==
    /\ pc = "clConsole"
    /\ console' = None
    /\ EndSync
    /\ UNCHANGED <<vm, cacheCur, pods, svc, job, guests, caches, bounds>>

-----------------------------------------------------------------------------
(* stop() *)

\* (Mutant: nothing is noted when no pod is left.)
stopPodsSilent ==
    /\ pc = "stPods"
    /\ IF ListsPods
       THEN deleteMachinePods /\ m2' = [m2 EXCEPT !.state = "stopping"]
       ELSE UNCHANGED <<m2, pods, console, job>>
    /\ pc' = "stJob"
    /\ UNCHANGED <<vm, cacheCur, svc, guests, caches, m, mCur, pod, peer, then,
                   bounds>>

stopPods ==
    /\ pc = "stPods"
    /\ IF ListsPods
       THEN deleteMachinePods /\ m2' = [m2 EXCEPT !.state = "stopping"]
       ELSE /\ m2' = [m2 EXCEPT !.state = "stopped", !.snode = None]
            /\ UNCHANGED <<pods, console, job>>
    /\ pc' = "stJob"
    /\ UNCHANGED <<vm, cacheCur, svc, guests, caches, m, mCur, pod, peer, then,
                   bounds>>

\* (Mutant: a job accepted for deletion counts as gone.)
stopJobTrusting ==
    /\ pc = "stJob"
    /\ deleteMigrationJob
    /\ pc' = "stConsole"
    /\ UNCHANGED <<vm, cacheCur, pods, console, svc, guests, caches, m, mCur,
                   m2, pod, peer, then, bounds>>

stopJob ==
    /\ pc = "stJob"
    /\ deleteMigrationJob
    /\ m2' = [m2 EXCEPT !.state = IF job = None THEN @ ELSE "stopping"]
    /\ pc' = "stConsole"
    /\ UNCHANGED <<vm, cacheCur, pods, console, svc, guests, caches, m, mCur,
                   pod, peer, then, bounds>>

stopConsole ==
    /\ pc = "stConsole"
    /\ console' = None
    /\ m2' = [m2 EXCEPT !.state = IF console = None THEN @ ELSE "stopping"]
    /\ pc' = "stState"
    /\ UNCHANGED <<vm, cacheCur, pods, svc, job, guests, caches, m, mCur, pod,
                   peer, then, bounds>>

stopStatus ==
    /\ pc = "stState"
    /\ updateMachineStatus(m2)
    /\ EndSync
    /\ UNCHANGED <<api, caches, bounds>>

-----------------------------------------------------------------------------
(* process() of a machine with a DeletionTimestamp *)

setTerminating ==
    /\ pc = "setTerm"
    /\ updateMachineStatus([m EXCEPT !.state = "terminating"])
    /\ EndSync
    /\ UNCHANGED <<api, caches, bounds>>

terminatePods ==
    /\ pc = "tmPods"
    /\ IF ListsPods THEN deleteMachinePods /\ then' = "idle"
       ELSE UNCHANGED <<pods, console, job>> /\ then' = "tmFinal"
    /\ pc' = "tmConsole"
    /\ UNCHANGED <<vm, cacheCur, svc, guests, caches, m, m2, mCur, pod, peer,
                   bounds>>

terminateConsole ==
    /\ pc = "tmConsole"
    /\ console' = None
    /\ then' = IF console = None THEN then ELSE "idle"
    /\ pc' = "tmSvc"
    /\ UNCHANGED <<vm, cacheCur, pods, svc, job, guests, caches, m, m2, mCur,
                   pod, peer, bounds>>

\* (Mutant: NotFound is an error like any other.)
terminateServiceStrict ==
    /\ pc = "tmSvc"
    /\ svc' = FALSE
    /\ EndSync
    /\ UNCHANGED <<vm, cacheCur, pods, console, job, guests, caches, bounds>>

terminateService ==
    /\ pc = "tmSvc"
    /\ svc' = FALSE
    /\ IF svc \/ then # "tmFinal" THEN EndSync
       ELSE Goto("tmFinal") /\ UNCHANGED mCur
    /\ UNCHANGED <<vm, cacheCur, pods, console, job, guests, caches, bounds>>

\* Without its finalizer the object is removed by the API server.
removeFinalizer ==
    /\ pc = "tmFinal"
    /\ vm' = IF mCur THEN None ELSE vm
    /\ cacheCur' = (cacheCur /\ ~mCur)
    /\ EndSync
    /\ UNCHANGED <<api, caches, bounds>>

-----------------------------------------------------------------------------
(* The users, through the REST server or kubectl. *)

\* The finalizer keeps a deleted machine until removeFinalizer; one without it
\* is removed at once.
NewMachine(action, node, novnc) ==
    [prepared |-> FALSE, deleting |-> FALSE, action |-> action, node |-> node,
     novnc |-> novnc, state |-> "unset", snode |-> None, sip |-> None,
     vnc |-> None]

Request == requests < MaxRequests /\ requests' = requests + 1

\* A write of the machine by anyone but the worker.
Overtake == cacheCur' = FALSE /\ mCur' = FALSE

instanceCreate ==
    /\ vm = None
    /\ \E a \in ActionChoices, n \in NodeChoices, v \in NovncChoices :
        vm' = NewMachine(a, n, v)
    /\ Request /\ Overtake
    /\ UNCHANGED <<api, caches, pc, local, faults>>

InstanceUpdate ==
    /\ vm # None
    /\ \E a \in ActionChoices, n \in NodeChoices, v \in NovncChoices :
        vm' = [vm EXCEPT !.action = a, !.node = n, !.novnc = v]
    /\ vm' # vm
    /\ Request /\ Overtake
    /\ UNCHANGED <<api, caches, pc, local, faults>>

InstanceDelete ==
    /\ MayDelete
    /\ vm # None /\ ~vm.deleting
    /\ vm' = IF vm.prepared THEN [vm EXCEPT !.deleting = TRUE] ELSE None
    /\ Request /\ Overtake
    /\ UNCHANGED <<api, caches, pc, local, faults>>

-----------------------------------------------------------------------------
(* The cluster: scheduler, kubelets, Job controller, garbage collector. *)

cluster == <<vm, cacheCur, caches, pc, local, mCur>>

\* Required node affinity (addNodeAffinity), and anti-affinity with the
\* machine's other pods, terminating ones too (addMachineAntiAffinity).
NodeAffinity(p, n) == pods[p].aff \in {None, n}
MachineAntiAffinity(p, n) ==
    \A q \in PodName \ {p} : pods[q] # None => pods[q].node # n
Fits(p, n) == NodeAffinity(p, n) /\ MachineAntiAffinity(p, n)

Waiting(p) == pods[p] # None /\ ~pods[p].deleting /\ pods[p].node = None

SchedulePod(p) ==
    /\ Waiting(p)
    /\ \E n \in Node :
        /\ Fits(p, n)
        /\ pods' = [pods EXCEPT ![p] = [@ EXCEPT !.node = n, !.unsched = FALSE]]
    /\ UNCHANGED <<console, svc, job, guests, cluster, bounds>>

PodUnschedulable(p) ==
    /\ Waiting(p) /\ ~pods[p].unsched
    /\ ~\E n \in Node : Fits(p, n)
    /\ pods' = [pods EXCEPT ![p].unsched = TRUE]
    /\ UNCHANGED <<console, svc, job, guests, cluster, bounds>>

\* The probe sees the VNC socket: the hypervisor is up, and has booted the
\* guest unless it was started to wait for an incoming migration.
PodReady(p) ==
    /\ pods[p] # None /\ ~pods[p].deleting /\ ~pods[p].ready
    /\ pods[p].node # None
    /\ pods' = [pods EXCEPT ![p].ready = TRUE]
    /\ guests' = IF pods[p].mig THEN guests ELSE guests \cup {p}
    /\ UNCHANGED <<console, svc, job, cluster, bounds>>

\* The grace period is over; no object is given the name again.
PodGone(p) ==
    /\ pods[p] # None /\ pods[p].deleting
    /\ pods' = [q \in PodName |->
                    IF q = p \/ pods[q] = None THEN None
                    ELSE [pods[q] EXCEPT !.older = @ \ {p}]]
    /\ guests' = guests \ {p}
    /\ console' = IF console = p THEN Gone ELSE console
    /\ job' = IF job = None THEN None
              ELSE [job EXCEPT !.src = IF @ = p THEN Gone ELSE @,
                               !.dst = IF @ = p THEN Gone ELSE @]
    /\ UNCHANGED <<svc, cluster, bounds>>

JobPodCreated ==
    /\ job # None /\ job.st = "active" /\ ~job.pod /\ ~job.del
    /\ job' = [job EXCEPT !.pod = TRUE]
    /\ UNCHANGED <<pods, console, svc, guests, cluster, bounds>>

JobRuns == job # None /\ job.st = "active" /\ job.pod

\* The job's pod has QEMU move the guest (qemu.MonitorClient.Migrate); QEMU goes
\* on by itself when the job has failed meanwhile (MigrationJob) ...
GuestMoves ==
    /\ job # None /\ job.st # "succeeded" /\ job.pod /\ job.src \in guests
    /\ \E p \in PodName : job.dst = p /\ pods[p] # None /\ p \notin guests
    /\ guests' = (guests \ {job.src}) \cup {job.dst}
    /\ UNCHANGED <<pods, console, svc, job, cluster, bounds>>

\* ... and exits 0 once query-migrate says "completed".
JobSucceeds ==
    /\ JobRuns /\ job.src \notin guests /\ job.dst \in guests
    /\ job' = [job EXCEPT !.st = "succeeded"]
    /\ UNCHANGED <<pods, console, svc, guests, cluster, bounds>>

JobCollected ==
    /\ job # None /\ job.del
    /\ job' = None
    /\ UNCHANGED <<pods, console, svc, guests, cluster, bounds>>

(* The informers; a delivery brings a cache to what the API holds now. *)

DeliverMachine ==
    /\ ~cacheCur
    /\ vmCache' = vm /\ cacheCur' = TRUE
    /\ UNCHANGED <<vm, api, podCache, jobCache, svcCache, pc, local, mCur, bounds>>

DeliverPods ==
    /\ Lag /\ podCache # Snapshot
    /\ podCache' = Snapshot
    /\ UNCHANGED <<vm, cacheCur, api, vmCache, jobCache, svcCache, pc, local,
                   mCur, bounds>>

DeliverJob ==
    /\ Lag /\ jobCache # job
    /\ jobCache' = job
    /\ UNCHANGED <<vm, cacheCur, api, vmCache, podCache, svcCache, pc, local,
                   mCur, bounds>>

DeliverService ==
    /\ Lag /\ svcCache # svc
    /\ svcCache' = svc
    /\ UNCHANGED <<vm, cacheCur, api, vmCache, podCache, jobCache, pc, local,
                   mCur, bounds>>

-----------------------------------------------------------------------------
(* Failures, at most MaxFaults of them. *)

Fault == faults < MaxFaults /\ faults' = faults + 1 /\ UNCHANGED requests

\* An API call fails with an error other than NotFound; the object missing
\* from a lister (machine image, credential) ends a sync the same way.
apiError ==
    /\ Fault
    /\ \/ pc \in AbortLabels /\ EndSync
       \/ pc = "console" /\ Goto("svc") /\ UNCHANGED mCur
       \/ pc = "svc" /\ m.novnc /\ Resume
       \/ pc = "svc" /\ ~m.novnc /\ Goto("endpoint") /\ UNCHANGED mCur
       \/ pc = "endpoint" /\ Resume
    /\ UNCHANGED <<vm, cacheCur, api, caches>>

\* stop() notes StateError and goes on with its next call.
apiErrorInStop ==
    /\ Fault
    /\ \/ pc = "stPods" /\ ListsPods /\ pc' = "stJob"
       \/ pc = "stJob" /\ pc' = "stConsole"
       \/ pc = "stConsole" /\ pc' = "stState"
    /\ m2' = [m2 EXCEPT !.state = "error"]
    /\ UNCHANGED <<vm, cacheCur, api, caches, m, mCur, pod, peer, then>>

\* (Mutant: an error does not keep the finalizer.)
apiErrorInTeardownIgnored ==
    /\ Fault
    /\ \/ pc = "tmPods" /\ ListsPods /\ Goto("tmConsole")
       \/ pc = "tmConsole" /\ Goto("tmSvc")
       \/ pc = "tmSvc" /\ Goto("tmFinal")
    /\ UNCHANGED <<vm, cacheCur, api, caches, mCur>>

\* The teardown goes on too, and keeps the finalizer.
apiErrorInTeardown ==
    /\ Fault
    /\ \/ /\ \/ pc = "tmPods" /\ ListsPods /\ pc' = "tmConsole"
             \/ pc = "tmConsole" /\ pc' = "tmSvc"
          /\ then' = "idle"
          /\ UNCHANGED <<m, m2, mCur, pod, peer>>
       \/ pc = "tmSvc" /\ EndSync
    /\ UNCHANGED <<vm, cacheCur, api, caches>>

\* The controller stops and starts again, or another one becomes leader; it
\* fills its caches before its workers run.
Crash ==
    /\ Fault
    /\ EndSync
    /\ vmCache' = vm /\ cacheCur' = TRUE
    /\ podCache' = (IF Lag THEN Snapshot ELSE podCache)
    /\ jobCache' = (IF Lag THEN job ELSE jobCache)
    /\ svcCache' = (IF Lag THEN svc ELSE svcCache)
    /\ UNCHANGED <<vm, api>>

\* A machine pod is evicted, or deleted by hand.
PodEvicted(p) ==
    /\ Fault
    /\ pods[p] # None /\ ~pods[p].deleting
    /\ DeletePod(p)
    /\ UNCHANGED <<console, svc, job, guests, cluster>>

JobFails ==
    /\ Fault
    /\ JobRuns
    /\ job' = [job EXCEPT !.st = "failed"]
    /\ UNCHANGED <<pods, console, svc, guests, cluster>>

\* The IP discovery controller writes Status.IP, which nothing here reads.
ipWrite ==
    /\ Fault
    /\ vm # None /\ vm.prepared
    /\ Overtake
    /\ UNCHANGED <<vm, api, caches, pc, local>>

-----------------------------------------------------------------------------
startStep ==
    \/ updateMachinePodCreate \/ updateMachinePodCreated
    \/ updateMachinePodStatus \/ updateMachinePodMany
    \/ updateNovncPod \/ updateNovncService \/ updateNovncEndpoint
    \/ deleteUnschedulablePod

migrateStep ==
    \/ migrateMachine \/ startMigrateTargetPod \/ strangeNumberOfPods
    \/ migrateRollbackJob \/ migrateRollbackPod \/ migrateRollbackState
    \/ waitForMigration \/ runMigrationJob
    \/ migrationCleanupStatus \/ migrationCleanupPod \/ migrationCleanupJob
    \/ migrationCleanupConsole

stopStep == stopPods \/ stopJob \/ stopConsole \/ stopStatus

terminateStep ==
    \/ setTerminating \/ terminatePods \/ terminateConsole \/ terminateService
    \/ removeFinalizer

machineWorker ==
    \/ process \/ prepareMachine \/ startStep \/ migrateStep \/ stopStep
    \/ terminateStep

userStep == instanceCreate \/ InstanceUpdate \/ InstanceDelete

podStep(p) == SchedulePod(p) \/ PodUnschedulable(p) \/ PodReady(p) \/ PodGone(p)

jobStep == JobPodCreated \/ GuestMoves \/ JobSucceeds \/ JobCollected

deliverStep == DeliverMachine \/ DeliverPods \/ DeliverJob \/ DeliverService

faultStep ==
    \/ apiError \/ apiErrorInStop \/ apiErrorInTeardown \/ Crash
    \/ (\E p \in PodName : PodEvicted(p)) \/ JobFails \/ ipWrite

Next == \/ machineWorker \/ userStep \/ (\E p \in PodName : podStep(p))
        \/ jobStep \/ deliverStep \/ faultStep

Spec == Init /\ [][Next]_vars

\* The worker is resynced every two minutes and requeued on errors, informers
\* deliver, and the cluster does its work; users and failures owe nothing.
Fairness ==
    /\ WF_vars(machineWorker)
    /\ WF_vars(DeliverMachine) /\ WF_vars(DeliverPods)
    /\ WF_vars(DeliverJob) /\ WF_vars(DeliverService)
    /\ \A p \in PodName : WF_vars(podStep(p))
    /\ WF_vars(jobStep)

FairSpec == Spec /\ Fairness

-----------------------------------------------------------------------------
(* Safety *)

UserSpec(v) == <<v.action, v.node, v.novnc>>

\* The worker works from a cached copy and writes the whole object back; it
\* never writes back a Spec the user has changed meanwhile, nor one of a
\* machine of the same name that is gone (updateMachineStatus).
UserSpecPreserved ==
    [][(pc' # pc /\ vm # None /\ vm' # None) => UserSpec(vm') = UserSpec(vm)]_vars

\* Once StateTerminating is written no sync, however old its view, creates a
\* pod, a console, a service or a job for the machine, or writes it another
\* state (process, setTerminating).
TerminatingIsFinal ==
    [][(vm # None /\ vm.state = "terminating") =>
          /\ \A p \in PodName : pods[p] = None => pods'[p] = None
          /\ console = None => console' = None
          /\ svc' => svc
          /\ job = None => job' = None
          /\ vm' = None \/ vm'.state = "terminating"]_vars

\* A machine that no longer exists has left no console pod and no service
\* (process: the finalizer goes when the deletions found nothing to delete).
GoneMeansNoConsole == vm = None => console = None /\ ~svc

\* ... and no machine pod; the pods are looked for in the cache only, so this
\* needs a cache that is up to date (deleteMachinePods).
GoneMeansNoPods == vm = None => pods = NoPods

\* When stop() reports StateStopped there is no machine pod, no console and no
\* migration job left: the four calls of stop() are not atomic.  The pods are
\* looked for in the cache, so this too needs one that is up to date.
StoppedMeansQuiet ==
    [][(vm # None /\ vm' # None /\ vm.state # "stopped" /\ vm'.state = "stopped")
          => pods = NoPods /\ console = None /\ job = None]_vars

\* At most one pod that is not terminating executes the guest: a second pod is
\* only ever created as the target of a migration (updateMachinePod,
\* startMigrateTargetPod).  The pods are counted in the cache: with one that
\* does not show the pod just created the next sync boots a second guest.
OneGuest == \A p, q \in guests \cap Alive : p = q

\* Of two alive pods the newer one listens for a migration, so that
\* runMigrationJob finds its migrate_port and moves the guest the right way; on
\* the same condition as OneGuest.
NewestIsTarget == \A p, q \in Alive : p \in pods[q].older => pods[q].mig

\* startMigrateTargetPod starts a second pod only if there is none yet.
TargetCreatedOnce ==
    [][(pc = "target" /\ \E p \in PodName : pods[p] = None /\ pods'[p] # None)
          => \E p \in PodName : Alive = {p}]_vars

\* migrationCleanup deletes the old pod only after the guest has left it.
CleanupAfterTransfer ==
    [][(pc = "clPod" /\ pods' # pods) => pod \notin guests]_vars

\* A canceled migration keeps the guest: migrateRollback does not delete the
\* pod it executes in.
RollbackKeepsGuest ==
    [][(pc = "rbPod" /\ pods' # pods) => peer \notin guests]_vars

-----------------------------------------------------------------------------
(* The inductive invariant behind UserSpecPreserved, TerminatingIsFinal and
   GoneMeansNoConsole, for any caches, failures and bounds. *)

\* A snapshot with which process() goes to start() or stop().
CanRun(v) == v # None /\ v.prepared /\ ~v.deleting

\* Of every copy of the machine, however old: only a prepared machine is kept
\* on deletion, and only setTerminating writes StateTerminating.
CopyOK(v) == v # None => /\ v.deleting => v.prepared
                         /\ v.state = "terminating" => v.deleting

CopiesOK == CopyOK(vm) /\ CopyOK(vmCache) /\ CopyOK(m)

\* A resourceVersion identifies the contents, and the worker's is never ahead
\* of its cache.
VersionsAgree == /\ cacheCur => vmCache = vm
                 /\ mCur => cacheCur /\ m = vm /\ vm # None

\* Where the sync is says what its snapshot was.
SyncMatchesCopy ==
    /\ pc # "idle" => m # None /\ m2 # None
    /\ pc = "prepare" => ~m.deleting
    /\ pc \in StartLabels => CanRun(m) /\ m.action = "start"
    /\ pc \in StopLabels => /\ CanRun(m) /\ CanRun(m2)
                            /\ UserSpec(m2) = UserSpec(m)
                            /\ m2.state # "terminating"
    /\ pc \in TeardownLabels \cup {"setTerm"} => m.deleting
    /\ pc \notin TeardownLabels => then # "tmFinal"

\* Nothing exists for, and no sync can start, a machine without finalizer.
NothingBeforePrepare ==
    (vm = None \/ ~vm.prepared) =>
        /\ console = None /\ ~svc
        /\ pc \notin StartLabels /\ ~CanRun(vmCache)

\* A terminating machine has been seen as deleted, by the cache and the sync.
TerminatingSeen ==
    (vm # None /\ vm.state = "terminating") =>
        /\ vmCache # None /\ vmCache.deleting
        /\ pc # "idle" => m.deleting

\* What the teardown has found missing stays missing until the finalizer goes.
TeardownFindings ==
    /\ pc = "tmSvc" /\ then = "tmFinal" => console = None
    /\ pc = "tmFinal" => console = None /\ ~svc

\* The parts together: what the proofs carry from step to step (process,
\* updateMachineStatus, removeFinalizer).
IndInv == /\ CopiesOK /\ VersionsAgree /\ SyncMatchesCopy
          /\ NothingBeforePrepare /\ TerminatingSeen /\ TeardownFindings

(* Liveness, for a Spec the user leaves alone from some point on. *)

Wants(action) == vm # None /\ ~vm.deleting /\ vm.action = action

\* A machine asked to stop ends up stopped, with nothing left of it but its
\* service (stop).
StopCompletes ==
    <>[]Wants("stop") => <>[](/\ vm # None /\ vm.state = "stopped"
                              /\ pods = NoPods /\ console = None /\ job = None)

\* A deleted machine is eventually gone (process, removeFinalizer).
DeleteCompletes == (vm # None /\ vm.deleting) ~> (vm = None)

\* A machine asked to start ends up running, with one pod that executes the
\* guest (start).
StartCompletes ==
    <>[]Wants("start") => <>[](/\ vm # None /\ vm.state = "running"
                               /\ \E p \in PodName : Alive = {p} /\ p \in guests)

\* A machine asked to run on a node ends up running there, as the comment on
\* VirtualMachineSpec.NodeName has it (start, migrateMachine).  It need not: a
\* migration that is canceled and asked for again while migrateRollback is at
\* work leaves two alive pods and a state other than migrating, with which
\* updateMachinePod does nothing any more.
NodeHonoured ==
    \A n \in Node :
        <>[](Wants("start") /\ vm.node = n) =>
            <>[](/\ vm # None /\ vm.state = "running" /\ vm.snode = n
                 /\ \E p \in PodName : Alive = {p} /\ p \in guests
                                       /\ pods[p].node = n)

\* A running machine whose console is wanted ends up with a console pod that
\* serves its current pod (updateNovncPod).
ConsoleFollowsPod ==
    <>[](Wants("start") /\ vm.novnc) => <>[](console \in Alive /\ svc)

=============================================================================
