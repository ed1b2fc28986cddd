------------------------- MODULE MachinePodsProofs -------------------------
(***************************************************************************)
(* The pods of a machine and where its guest executes, for any number of   *)
(* nodes, pods, requests and failures, and for caches that trail.          *)
(*                                                                         *)
(* The controller counts the machine's pods in its cache, and a count that *)
(* is out of date creates a pod too many.  What is proved is that nothing  *)
(* else can: the theorems assume of a behaviour only that a pod is created *)
(* on a count that is right (CountsRight), that an empty list is read when *)
(* there is no pod (ListsRight); all other decisions, the creation of jobs *)
(* among them, are made from caches that may be of any age.                *)
(*                                                                         *)
(* The argument: the pods of a machine are ordered by age (Ages); all but  *)
(* the oldest that is not terminating were created as migration targets    *)
(* (Lineage); a migration job moves the guest from the alive pod there was *)
(* to its target (JobOK, NotYetMoved), so a pod that boots the guest       *)
(* itself finds no other pod executing it (GuestsOK).  A job may be made   *)
(* from an old list; what it shows is old, but of the same line (Trailing).*)
(* Pods are created by start() alone, so what a stop or a teardown has     *)
(* found empty stays empty while its sync lasts (Emptied).                 *)
(***************************************************************************)
EXTENDS MachineControllerProofs

USE DEF api, cluster

\* A pod is created only when the list shows the alive pods there are
\* (updateMachinePod, startMigrateTargetPod).
CreatesOnCount ==
    (\E p \in PodName : pods[p] = None /\ pods'[p] # None) => AliveView = Alive
CountsRight == [][CreatesOnCount]_vars

\* A stop or a teardown finds the list empty only when there is no pod
\* (deleteMachinePods).
ReadsOnList ==
    (pc \in {"stPods", "tmPods"} /\ pc' \in {"stJob", "tmConsole"} /\ ~ListsPods)
        => pods = NoPods
ListsRight == [][ReadsOnList]_vars

Exists(p) == pods[p] # None
Live(p) == Exists(p) /\ ~pods[p].deleting

\* The pods as the worker sees them.
Listed == PodView.pods

\* Pods are totally ordered by their creation.
Ages(ps) ==
    /\ \A p, q \in PodName : ps[q] # None /\ p \in ps[q].older
                                => ps[p] # None /\ p # q /\ q \notin ps[p].older
    /\ \A p, q \in PodName : ps[p] # None /\ ps[q] # None /\ p # q
                                => p \in ps[q].older \/ q \in ps[p].older
    /\ \A p, q, r \in PodName :
          ps[r] # None /\ q \in ps[r].older /\ p \in ps[q].older => p \in ps[r].older

\* A pod is created when there is no alive pod, or, as the target of a
\* migration, when there is one.
Lineage(ps) ==
    /\ \A p, q \in PodName :
          ps[q] # None /\ ps[p] # None /\ ~ps[p].deleting /\ p \in ps[q].older => ps[q].mig
    /\ \A p, q, r \in PodName :
          /\ ps[p] # None /\ ~ps[p].deleting /\ ps[q] # None /\ ~ps[q].deleting
          /\ ps[r] # None /\ p \in ps[r].older /\ q \in ps[r].older
          => p = q

\* A pod that executes the guest exists, and what was alive before it has been
\* the source of a migration.
GuestsOK ==
    /\ \A q \in guests : Exists(q)
    /\ \A q \in guests, p \in PodName : Live(p) /\ p \in pods[q].older => pods[p].ready

\* The target of the job still exists if the job names it, and what is alive
\* besides it is the job's source, or came later.
JobOK ==
    job # None => \A q \in PodName : q = job.dst =>
        /\ Exists(q)
        /\ \A p \in PodName :
              Live(p) /\ p # q => \/ p = job.src /\ pods[p].ready
                                  \/ q \in pods[p].older

\* Nothing has come after the target of the job and executes the guest.
NotYetMoved ==
    job # None => \A q, x \in PodName :
        (q = job.dst /\ Live(q) /\ Exists(x) /\ q \in pods[x].older) => x \notin guests

\* A listed pod is what it was; what is not listed came after all that is, and
\* has been given neither a job nor, as a target, the guest.
Trailing ==
    /\ \A q \in PodName : (Listed[q] # None /\ Exists(q)) =>
          /\ pods[q].older \subseteq Listed[q].older
          /\ \A p \in PodName : p \in Listed[q].older /\ Exists(p) => p \in pods[q].older
          /\ Listed[q].ready => pods[q].ready
          /\ Listed[q].deleting => pods[q].deleting
    /\ \A q, r \in PodName : (Listed[q] # None /\ Exists(q) /\ Exists(r) /\ Listed[r] = None)
          => q \in pods[r].older
    /\ job # None => \A q \in PodName : q = job.dst => Listed[q] # None
    /\ \A q \in guests : pods[q].mig => Listed[q] # None

PodsInv == /\ Ages(pods) /\ Lineage(pods) /\ Ages(Listed) /\ Lineage(Listed) /\ Trailing
           /\ GuestsOK /\ JobOK /\ NotYetMoved /\ OneGuest

\* No pods of a machine that is gone or not prepared, nor of one whose teardown
\* or stop has found none.
Emptied ==
    /\ vm = None \/ ~vm.prepared => pods = NoPods
    /\ pc \in {"tmConsole", "tmSvc"} /\ then = "tmFinal" => pods = NoPods
    /\ pc = "tmFinal" => pods = NoPods
    /\ pc \in {"stJob", "stConsole", "stState"} /\ m2.state = "stopped" => pods = NoPods
    /\ pc \in {"stConsole", "stState"} /\ m2.state = "stopped" => job = None
    /\ pc = "stState" /\ m2.state = "stopped" => console = None

-----------------------------------------------------------------------------
(* What a step does to pods, guests and the job. *)

\* A pod is as it was but for its node, its readiness and its termination.
Edited(p) ==
    \/ pods[p] = None /\ pods'[p] = None
    \/ /\ pods[p] # None /\ pods'[p] # None
       /\ pods'[p].older = pods[p].older /\ pods'[p].mig = pods[p].mig
       /\ pods[p].deleting => pods'[p].deleting
       /\ pods[p].ready => pods'[p].ready

PodsKept == \A p \in PodName : Edited(p)

JobKept == \/ job' = None
           \/ job # None /\ job' # None /\ job'.src = job.src /\ job'.dst = job.dst

Created(x, migrate) ==
    /\ pc = (IF migrate THEN "target" ELSE "start")
    /\ m \in Machine /\ pods[x] = None /\ Listed[x] = None
    /\ pods' = [pods EXCEPT ![x] = createMachinePod(migrate)]
    /\ guests' = guests /\ job' = job
    /\ IF migrate THEN \E p \in PodName : AliveView = {p} ELSE AliveView = {}

\* The edits of a pod by deletions, the scheduler and the kubelet are such.
LEMMA EditsKeep ==
    ASSUME NEW q \in Pod, NEW k,
           \/ k = [q EXCEPT !.deleting = TRUE]
           \/ k = [q EXCEPT !.ready = TRUE]
           \/ k = [q EXCEPT !.unsched = TRUE]
           \/ \E n \in Node : k = [q EXCEPT !.node = n, !.unsched = FALSE]
    PROVE  /\ k # None /\ k.older = q.older /\ k.mig = q.mig
           /\ q.deleting => k.deleting
           /\ q.ready => k.ready
<1>1. k \in Pod BY PodEdits
<1>2. k # None BY <1>1, SentinelAssumption
<1>3. QED BY <1>2 DEF Pod

\* Deleting a pod by name marks it and no other (DeletePod).
LEMMA DeleteKeeps ==
    ASSUME TypeOK, NEW x, DeletePod(x)
    PROVE  PodsKept
<1>1. CASE x \notin PodName \/ pods[x] = None
  BY <1>1 DEF DeletePod, PodsKept, Edited, TypeOK
<1>2. CASE x \in PodName /\ pods[x] # None
  <2>1. pods[x] \in Pod BY <1>2 DEF TypeOK
  <2>2. pods' = [pods EXCEPT ![x] = [pods[x] EXCEPT !.deleting = TRUE]]
    BY <1>2 DEF DeletePod
  <2>3. \A p \in PodName : p # x => pods'[p] = pods[p] BY <2>2 DEF TypeOK
  <2>4. pods'[x] = [pods[x] EXCEPT !.deleting = TRUE] BY <1>2, <2>2 DEF TypeOK
  <2>5. Edited(x) BY <1>2, <2>1, <2>4, EditsKeep DEF Edited
  <2>6. QED BY <2>3, <2>5 DEF PodsKept, Edited
<1>3. QED BY <1>1, <1>2

\* DeleteCollection marks every pod, and leaves the job its two pods
\* (deleteMachinePods).
LEMMA DeleteAllKeeps ==
    ASSUME TypeOK, deleteMachinePods
    PROVE  PodsKept /\ JobKept
<1>1. ASSUME NEW p \in PodName PROVE Edited(p)
  <2>1. CASE pods[p] = None BY <2>1 DEF deleteMachinePods, Edited
  <2>2. CASE pods[p] # None
    <3>1. pods[p] \in Pod BY <2>2 DEF TypeOK
    <3>2. pods'[p] = [pods[p] EXCEPT !.deleting = TRUE] BY <2>2 DEF deleteMachinePods
    <3>3. QED BY <2>2, <3>1, <3>2, EditsKeep DEF Edited
  <2>3. QED BY <2>1, <2>2
<1>2. JobKept BY JobEdits DEF deleteMachinePods, JobKept, TypeOK, Job
<1>3. QED BY <1>1, <1>2 DEF PodsKept

\* A job that is being deleted keeps its two pods (deleteMigrationJob).
LEMMA DeleteJobKeeps ==
    ASSUME TypeOK, deleteMigrationJob
    PROVE  JobKept
BY JobEdits DEF deleteMigrationJob, JobKept, TypeOK, Job

\* The guest is booted by a pod that becomes ready and is no migration target.
Booted(x) ==
    /\ PodsKept /\ JobKept /\ Live(x) /\ ~pods[x].ready /\ ~pods[x].mig
    /\ guests' = guests \cup {x}

\* What the worker, the cluster and failures do to pods, guests and the job:
\* nothing that matters, a new pod, a guest that boots, a pod that is gone, a
\* guest that moves, or a new job.
LEMMA PodsSteps ==
    ASSUME TypeOK, IndInv, [Next]_vars
    PROVE  \/ PodsKept /\ JobKept /\ guests' = guests
           \/ \E x \in PodName, b \in BOOLEAN : Created(x, b)
           \/ \E x \in PodName : Booted(x) \/ PodGone(x)
           \/ GuestMoves
           \/ runMigrationJob
<1> DEFINE Quiet == PodsKept /\ JobKept /\ guests' = guests
<1>1. ASSUME UNCHANGED pods PROVE PodsKept BY <1>1 DEF PodsKept, Edited
<1>2. ASSUME UNCHANGED job PROVE JobKept BY <1>2 DEF JobKept
<1>3. ASSUME UNCHANGED <<pods, job, guests>> PROVE Quiet BY <1>1, <1>2, <1>3
<1>4. \A x \in PodName : Fresh(x) => pods[x] = None /\ Listed[x] = None
  BY DEF Fresh, Listed, PodView, Snapshot
<1>5. CASE updateMachinePodCreate
  <2>1. m \in Machine BY <1>5 DEF updateMachinePodCreate, IndInv, SyncMatchesCopy, TypeOK
  <2>2. QED BY <1>4, <1>5, <2>1 DEF updateMachinePodCreate, Created
<1>6. CASE startMigrateTargetPod
  <2>1. m \in Machine BY <1>6 DEF startMigrateTargetPod, IndInv, SyncMatchesCopy, TypeOK
  <2>2. QED BY <1>4, <1>6, <2>1 DEF startMigrateTargetPod, Created
<1>7. CASE deleteUnschedulablePod
  BY <1>2, <1>7, DeleteKeeps DEF deleteUnschedulablePod
<1>8. CASE migrateRollbackJob BY <1>1, <1>8, DeleteJobKeeps DEF migrateRollbackJob
<1>9. CASE migrateRollbackPod BY <1>2, <1>9, DeleteKeeps DEF migrateRollbackPod
<1>10. CASE migrationCleanupPod BY <1>2, <1>10, DeleteKeeps DEF migrationCleanupPod
<1>11. CASE migrationCleanupJob BY <1>1, <1>11, DeleteJobKeeps DEF migrationCleanupJob
<1>12. CASE stopPods BY <1>1, <1>2, <1>12, DeleteAllKeeps DEF stopPods
<1>13. CASE stopJob BY <1>1, <1>13, DeleteJobKeeps DEF stopJob
<1>14. CASE terminatePods BY <1>1, <1>2, <1>14, DeleteAllKeeps DEF terminatePods
<1>15. ASSUME NEW x \in PodName, SchedulePod(x) \/ PodUnschedulable(x) PROVE Quiet
  <2>1. pods[x] \in Pod BY <1>15 DEF SchedulePod, PodUnschedulable, Waiting, TypeOK
  <2>2. /\ \A p \in PodName : p # x => pods'[p] = pods[p]
        /\ \/ pods'[x] = [pods[x] EXCEPT !.unsched = TRUE]
           \/ \E n \in Node : pods'[x] = [pods[x] EXCEPT !.node = n, !.unsched = FALSE]
    BY <1>15 DEF SchedulePod, PodUnschedulable, TypeOK
  <2>3. Edited(x) BY <2>1, <2>2, EditsKeep, SentinelAssumption DEF Edited
  <2>4. PodsKept BY <2>2, <2>3 DEF PodsKept, Edited
  <2>5. QED BY <1>2, <1>15, <2>4 DEF SchedulePod, PodUnschedulable
<1>16. CASE JobPodCreated
  BY <1>1, <1>16, JobEdits DEF JobPodCreated, JobKept, TypeOK, Job
<1>17. CASE JobSucceeds
  BY <1>1, <1>17, JobEdits DEF JobSucceeds, JobRuns, JobKept, TypeOK, Job
<1>18. CASE JobCollected BY <1>1, <1>18 DEF JobCollected, JobKept
<1>19. ASSUME NEW x \in PodName, PodEvicted(x) PROVE Quiet
  BY <1>2, <1>19, DeleteKeeps DEF PodEvicted
<1>20. CASE JobFails BY <1>1, <1>20, JobEdits DEF JobFails, JobRuns, JobKept, TypeOK, Job
<1>21. CASE startStep
  BY <1>3, <1>5, <1>7, <1>21 DEF startStep, updateMachinePodCreated, updateMachinePodStatus,
     updateMachinePodMany, updateNovncPod, updateNovncService, updateNovncEndpoint
<1>22. CASE migrateStep
  BY <1>3, <1>6, <1>8, <1>9, <1>10, <1>11, <1>22 DEF migrateStep, migrateMachine,
     strangeNumberOfPods, migrateRollbackState, waitForMigration, migrationCleanupStatus,
     migrationCleanupConsole
<1>23. CASE stopStep \/ terminateStep
  BY <1>3, <1>12, <1>13, <1>14, <1>23 DEF stopStep, terminateStep, stopConsole, stopStatus,
     setTerminating, terminateConsole, terminateService, removeFinalizer
<1>24. CASE process \/ prepareMachine \/ userStep \/ deliverStep \/ UNCHANGED vars
  BY <1>3, <1>24 DEF process, prepareMachine, userStep, instanceCreate, InstanceUpdate,
     InstanceDelete, deliverStep, DeliverMachine, DeliverPods, DeliverJob, DeliverService, vars
<1>25. ASSUME NEW x \in PodName, podStep(x) PROVE Quiet \/ Booted(x) \/ PodGone(x)
  <2>1. CASE PodReady(x)
    <3>1. pods[x] \in Pod BY <2>1 DEF PodReady, TypeOK
    <3>2. /\ \A p \in PodName : p # x => pods'[p] = pods[p]
          /\ pods'[x] = [pods[x] EXCEPT !.ready = TRUE]
      BY <2>1 DEF PodReady, TypeOK
    <3>3. Edited(x) BY <3>1, <3>2, EditsKeep, SentinelAssumption DEF Edited
    <3>4. PodsKept BY <3>2, <3>3 DEF PodsKept, Edited
    <3>5. QED BY <1>2, <2>1, <3>4 DEF PodReady, Booted, Live, Exists
  <2>2. QED BY <1>15, <1>25, <2>1 DEF podStep
<1>26. CASE jobStep BY <1>16, <1>17, <1>18, <1>26 DEF jobStep
<1>27. CASE faultStep
  BY <1>3, <1>19, <1>20, <1>27 DEF faultStep, apiError, apiErrorInStop, apiErrorInTeardown,
     Crash, ipWrite
<1>28. QED
  BY <1>21, <1>22, <1>23, <1>24, <1>25, <1>26, <1>27 DEF Next, machineWorker

-----------------------------------------------------------------------------
(* Ages and lineage. *)

\* What a new pod is like (createMachinePod).
LEMMA CreatedFields ==
    ASSUME TypeOK, NEW x \in PodName, NEW b \in BOOLEAN, Created(x, b)
    PROVE  /\ pods'[x] # None /\ pods'[x].mig = b
           /\ ~pods'[x].deleting /\ ~pods'[x].ready
           /\ pods'[x].older = {q \in PodName : pods[q] # None}
           /\ \A p \in PodName : p # x => pods'[p] = pods[p]
           /\ pods[x] = None /\ Listed[x] = None
<1>1. createMachinePod(b) \in Pod BY CreatedPodType DEF Created
<1>2. createMachinePod(b) # None BY <1>1, SentinelAssumption
<1>3. pods'[x] = createMachinePod(b) /\ \A p \in PodName : p # x => pods'[p] = pods[p]
  BY DEF Created, TypeOK
<1>4. QED BY <1>2, <1>3 DEF createMachinePod, Created

\* What is left when a pod has gone: nobody refers to its name any more.
LEMMA GoneFields ==
    ASSUME TypeOK, NEW x \in PodName, PodGone(x)
    PROVE  /\ pods'[x] = None /\ pods[x] # None /\ pods[x].deleting
           /\ guests' = guests \ {x}
           /\ \A p \in PodName : p # x =>
                 \/ pods[p] = None /\ pods'[p] = None
                 \/ /\ pods[p] # None /\ pods'[p] # None
                    /\ pods'[p].older = pods[p].older \ {x}
                    /\ pods'[p].mig = pods[p].mig
                    /\ pods'[p].deleting = pods[p].deleting
                    /\ pods'[p].ready = pods[p].ready
           /\ job' # None => job # None
           /\ job' # None => \A q \in PodName : q = job'.dst => q = job.dst /\ q # x
           /\ job' # None => \A q \in PodName : q = job.src /\ q # x => q = job'.src
<1>1. ASSUME NEW p \in PodName, p # x, pods[p] # None
      PROVE  /\ pods'[p] # None /\ pods'[p].older = pods[p].older \ {x}
             /\ pods'[p].mig = pods[p].mig /\ pods'[p].deleting = pods[p].deleting
             /\ pods'[p].ready = pods[p].ready
  <2>1. pods[p] \in Pod BY <1>1 DEF TypeOK
  <2>2. pods'[p] = [pods[p] EXCEPT !.older = @ \ {x}] BY <1>1 DEF PodGone
  <2>3. pods'[p] \in Pod BY <2>1, <2>2 DEF Pod
  <2>4. pods'[p] # None BY <2>3, SentinelAssumption
  <2>5. QED BY <2>1, <2>2, <2>4 DEF Pod
<1>2. ASSUME job' # None
      PROVE  /\ job # None
             /\ \A q \in PodName : q = job'.dst => q = job.dst /\ q # x
             /\ \A q \in PodName : q = job.src /\ q # x => q = job'.src
  <2>1. job \in Job BY <1>2 DEF PodGone, TypeOK
  <2>2. /\ job'.src = IF job.src = x THEN Gone ELSE job.src
        /\ job'.dst = IF job.dst = x THEN Gone ELSE job.dst
    BY <1>2, <2>1 DEF PodGone, Job
  <2>3. job # None BY <2>1, SentinelAssumption
  <2>4. QED BY <2>2, <2>3, SentinelAssumption
<1>3. QED BY <1>1, <1>2 DEF PodGone

\* Pods whose ages are known are created last and go in any order.
LEMMA AgesStep ==
    ASSUME TypeOK, IndInv, Ages(pods), Lineage(pods), [Next]_vars, [CreatesOnCount]_vars
    PROVE  Ages(pods)' /\ Lineage(pods)'
<1>1. CASE PodsKept BY <1>1 DEF PodsKept, Edited, Ages, Lineage, Exists, Live
<1>2. ASSUME NEW x \in PodName, NEW b \in BOOLEAN, Created(x, b)
      PROVE  Ages(pods)' /\ Lineage(pods)'
  <2>1. Ages(pods)' BY <1>2, CreatedFields DEF Ages, Exists
  <2>2. Lineage(pods)'
    <3>1. \A p \in PodName : p # x /\ Live(p)' => p \in Alive
      BY <1>2, CreatedFields DEF Live, Exists, Alive, GetAlivePods
    <3>0. AliveView = Alive
      BY <1>2, CreatedFields DEF CreatesOnCount, vars
    <3>2. ~b => Alive = {} BY <1>2, <3>0 DEF Created
    <3>3. \A p, q \in Alive : p = q BY <1>2, <3>0 DEF Created
    <3>4. \A q \in PodName : pods'[q] # None => x \notin pods'[q].older
      BY <1>2, CreatedFields DEF Ages, Exists
    <3>5. \A p, q \in PodName : Exists(q)' /\ Live(p)' /\ p \in pods'[q].older => pods'[q].mig
      BY <1>2, <3>1, <3>2, <3>4, CreatedFields DEF Lineage, Live, Exists
    <3>6. \A p, q, r \in PodName :
             (Exists(r)' /\ Live(p)' /\ Live(q)' /\ p \in pods'[r].older /\ q \in pods'[r].older)
                => p = q
      BY <1>2, <3>1, <3>3, <3>4, CreatedFields DEF Lineage, Live, Exists
    <3>7. QED BY <3>5, <3>6 DEF Lineage, Live, Exists
  <2>3. QED BY <2>1, <2>2
<1>3. ASSUME NEW x \in PodName, PodGone(x) PROVE Ages(pods)' /\ Lineage(pods)'
  BY <1>3, GoneFields DEF Ages, Lineage, Exists, Live
<1>4. CASE UNCHANGED pods BY <1>4 DEF Ages, Lineage, Exists, Live
<1>5. QED
  BY <1>1, <1>2, <1>3, <1>4, PodsSteps DEF Booted, GuestMoves, runMigrationJob

-----------------------------------------------------------------------------
(* Guests and the job. *)

\* The list is left alone by a step, or shows the pods as they are after it
\* (DeliverPods, Crash).
LEMMA ListSteps ==
    ASSUME TypeOK, [Next]_vars
    PROVE  Listed' = Listed \/ Listed' = pods'
<1>1. CASE ~Lag BY <1>1 DEF Listed, PodView, Snapshot
<1>2. CASE Lag
  <2>1. Listed = podCache.pods /\ Listed' = podCache'.pods BY <1>2 DEF Listed, PodView
  <2>2. UNCHANGED podCache \/ DeliverPods \/ Crash
    <3> USE DEF caches
    <3>1. CASE process \/ prepareMachine \/ startStep
      BY <3>1 DEF process, prepareMachine, startStep, updateMachinePodCreate,
         updateMachinePodCreated, updateMachinePodStatus, updateMachinePodMany,
         updateNovncPod, updateNovncService, updateNovncEndpoint, deleteUnschedulablePod
    <3>2. CASE migrateStep
      BY <3>2 DEF migrateStep, migrateMachine, startMigrateTargetPod, strangeNumberOfPods,
         migrateRollbackJob, migrateRollbackPod, migrateRollbackState, waitForMigration,
         runMigrationJob, migrationCleanupStatus, migrationCleanupPod, migrationCleanupJob,
         migrationCleanupConsole
    <3>3. CASE stopStep \/ terminateStep
      BY <3>3 DEF stopStep, stopPods, stopJob, stopConsole, stopStatus, terminateStep,
         setTerminating, terminatePods, terminateConsole, terminateService, removeFinalizer
    <3>4. CASE userStep \/ (\E p \in PodName : podStep(p)) \/ jobStep
      BY <3>4 DEF userStep, instanceCreate, InstanceUpdate, InstanceDelete, podStep,
         SchedulePod, PodUnschedulable, PodReady, PodGone, jobStep, JobPodCreated, GuestMoves,
         JobSucceeds, JobCollected
    <3>5. CASE deliverStep \/ faultStep \/ UNCHANGED vars
      BY <3>5 DEF deliverStep, DeliverMachine, DeliverPods, DeliverJob, DeliverService,
         faultStep, apiError, apiErrorInStop, apiErrorInTeardown, PodEvicted, JobFails,
         ipWrite, vars
    <3>6. QED BY <3>1, <3>2, <3>3, <3>4, <3>5 DEF Next, machineWorker
  <2>3. CASE DeliverPods BY <2>1, <2>3 DEF DeliverPods, Snapshot
  <2>4. CASE Crash BY <1>2, <2>1, <2>4 DEF Crash, Snapshot
  <2>5. QED BY <2>1, <2>2, <2>3, <2>4
<1>3. QED BY <1>1, <1>2 DEF TypeOK

\* A job is made for the two pods that are listed alive, from the older to the
\* newer, and names those of them that still exist.
LEMMA NewJob ==
    ASSUME TypeOK, runMigrationJob, job' # job
    PROVE  \E p, q \in PodName :
              /\ \A y \in PodName : (Listed[y] # None /\ ~Listed[y].deleting) <=> y \in {p, q}
              /\ p \in Listed[q].older /\ Listed[p].ready
              /\ job' # None
              /\ \A y \in PodName : y = job'.dst => y = q /\ Exists(q)
              /\ Exists(p) => job'.src = p
<1>1. PICK p, q \in PodName :
        /\ OldNew(p, q) /\ BothReady(p, q)
        /\ job' = [src |-> Name(p), dst |-> Name(q), st |-> "active",
                   pod |-> FALSE, del |-> FALSE]
  BY DEF runMigrationJob
<1>2. /\ \A y \in PodName : (Listed[y] # None /\ ~Listed[y].deleting) <=> y \in {p, q}
      /\ p \in Listed[q].older /\ Listed[p].ready
  BY <1>1 DEF OldNew, BothReady, AliveView, GetAlivePods, Listed
<1>3. job'.src = Name(p) /\ job'.dst = Name(q) BY <1>1
<1>4. /\ \A y \in PodName : y = job'.dst => y = q /\ Exists(q)
      /\ Exists(p) => job'.src = p
  BY <1>3, SentinelAssumption DEF Name, Exists
<1>5. job' # None
  <2>1. job' \in Job BY <1>1 DEF Job, PodRef, Name
  <2>2. QED BY <2>1, SentinelAssumption
<1>6. QED BY <1>2, <1>4, <1>5

\* A guest moves from the source of the job to its target.
LEMMA MoveFields ==
    ASSUME TypeOK, GuestMoves
    PROVE  \E q \in PodName :
              /\ job # None /\ q = job.dst /\ Exists(q) /\ q \notin guests
              /\ job.src \in guests /\ guests' = (guests \ {job.src}) \cup {q}
              /\ pods' = pods /\ job' = job
BY DEF GuestMoves, Exists

\* A pod that boots or receives the guest is as GuestsOK says.
LEMMA GuestsStep ==
    ASSUME TypeOK, IndInv, PodsInv, [Next]_vars
    PROVE  GuestsOK'
<1> USE DEF PodsInv
<1>1. CASE PodsKept /\ JobKept /\ guests' = guests
  BY <1>1 DEF TypeOK, PodsKept, Edited, GuestsOK, Exists, Live
<1>2. ASSUME NEW x \in PodName, NEW b \in BOOLEAN, Created(x, b) PROVE GuestsOK'
  <2>1. guests' = guests /\ x \notin guests BY <1>2 DEF Created, GuestsOK, Exists
  <2>2. guests \subseteq PodName BY DEF TypeOK
  <2>3. \A q \in guests : x \notin pods[q].older BY <1>2, <2>2, CreatedFields DEF Ages, GuestsOK, Exists
  <2>4. QED BY <1>2, <2>1, <2>2, <2>3, CreatedFields DEF GuestsOK, Exists, Live
<1>3. ASSUME NEW x \in PodName, Booted(x) PROVE GuestsOK'
  BY <1>3 DEF TypeOK, Booted, PodsKept, Edited, GuestsOK, Lineage, Exists, Live
<1>4. ASSUME NEW x \in PodName, PodGone(x) PROVE GuestsOK'
  BY <1>4, GoneFields DEF TypeOK, GuestsOK, Exists, Live
<1>5. CASE GuestMoves
  <2>1. PICK q \in PodName :
           /\ job # None /\ q = job.dst /\ Exists(q) /\ q \notin guests
           /\ job.src \in guests /\ guests' = (guests \ {job.src}) \cup {q}
           /\ pods' = pods /\ job' = job
    BY <1>5, MoveFields
  <2>2. \A p \in PodName : Live(p) /\ p \in pods[q].older => pods[p].ready
    BY <2>1 DEF Ages, JobOK, Live, Exists
  <2>3. QED BY <2>1, <2>2 DEF GuestsOK, Exists, Live
<1>6. CASE runMigrationJob BY <1>6 DEF runMigrationJob, GuestsOK, Exists, Live
<1>7. QED BY <1>1, <1>2, <1>3, <1>4, <1>5, <1>6, PodsSteps

\* Neither pods that come and go nor a new job disturb JobOK.
LEMMA JobStep ==
    ASSUME TypeOK, IndInv, PodsInv, [Next]_vars
    PROVE  JobOK'
<1> USE DEF PodsInv
<1>1. CASE PodsKept /\ JobKept
  BY <1>1 DEF PodsKept, JobKept, Edited, JobOK, Exists, Live
<1>2. ASSUME NEW x \in PodName, NEW b \in BOOLEAN, Created(x, b) PROVE JobOK'
  BY ZenonT(40), <1>2, CreatedFields DEF Created, JobOK, Exists, Live
<1>3. ASSUME NEW x \in PodName, PodGone(x) PROVE JobOK'
  BY <1>3, GoneFields DEF JobOK, Exists, Live
<1>4. CASE GuestMoves BY <1>4, MoveFields DEF JobOK, Exists, Live
<1>5. CASE runMigrationJob
  <2>1. CASE job' = job BY <1>5, <2>1 DEF runMigrationJob, JobOK, Exists, Live
  <2>2. CASE job' # job
    <3>1. PICK p, q \in PodName :
             /\ \A y \in PodName : (Listed[y] # None /\ ~Listed[y].deleting) <=> y \in {p, q}
             /\ p \in Listed[q].older /\ Listed[p].ready
             /\ job' # None
             /\ \A y \in PodName : y = job'.dst => y = q /\ Exists(q)
             /\ Exists(p) => job'.src = p
      BY <1>5, <2>2, NewJob
    <3>2. pods' = pods BY <1>5 DEF runMigrationJob
    <3>3. ASSUME NEW r \in PodName, Live(r), r # q, Exists(q)
          PROVE  (r = job'.src /\ pods[r].ready) \/ q \in pods[r].older
      <4>1. CASE Listed[r] = None BY <3>1, <3>3, <4>1 DEF Trailing, Live
      <4>2. CASE Listed[r] # None
        <5>1. r = p BY <3>1, <3>3, <4>2 DEF Trailing, Live
        <5>2. QED BY <3>1, <3>3, <4>2, <5>1 DEF Trailing, Live
      <4>3. QED BY <4>1, <4>2
    <3>4. QED BY <3>1, <3>2, <3>3 DEF JobOK, Exists, Live
  <2>3. QED BY <2>1, <2>2
<1>6. QED BY <1>1, <1>2, <1>3, <1>4, <1>5, PodsSteps DEF Booted

\* No pod younger than the target executes the guest: it would have booted it
\* itself, and a pod that is younger than an alive one is itself a target.
LEMMA NotYetMovedStep ==
    ASSUME TypeOK, IndInv, PodsInv, [Next]_vars
    PROVE  NotYetMoved'
<1> USE DEF PodsInv
<1>1. CASE PodsKept /\ JobKept /\ guests' = guests
  BY <1>1 DEF PodsKept, JobKept, Edited, NotYetMoved, Exists, Live
<1>2. ASSUME NEW x \in PodName, NEW b \in BOOLEAN, Created(x, b) PROVE NotYetMoved'
  <2>1. guests' = guests /\ x \notin guests BY <1>2 DEF Created, GuestsOK, Exists
  <2>2. \A y \in PodName : Exists(y) => x \notin pods[y].older
    BY <1>2, CreatedFields DEF Ages, Exists
  <2>3. QED BY <1>2, <2>1, <2>2, CreatedFields DEF Created, NotYetMoved, Exists, Live
<1>3. ASSUME NEW x \in PodName, Booted(x) PROVE NotYetMoved'
  BY <1>3 DEF Booted, PodsKept, JobKept, Edited, NotYetMoved, Lineage, Exists, Live
<1>4. ASSUME NEW x \in PodName, PodGone(x) PROVE NotYetMoved'
  BY <1>4, GoneFields DEF NotYetMoved, Exists, Live
<1>5. CASE GuestMoves BY <1>5, MoveFields DEF NotYetMoved, Ages, Exists, Live
<1>6. CASE runMigrationJob
  <2>1. CASE job' = job BY <1>6, <2>1 DEF runMigrationJob, NotYetMoved, Exists, Live
  <2>2. CASE job' # job
    <3>1. PICK p, q \in PodName :
             /\ \A y \in PodName : (Listed[y] # None /\ ~Listed[y].deleting) <=> y \in {p, q}
             /\ p \in Listed[q].older /\ Listed[p].ready
             /\ job' # None
             /\ \A y \in PodName : y = job'.dst => y = q /\ Exists(q)
             /\ Exists(p) => job'.src = p
      BY <1>6, <2>2, NewJob
    <3>2. UNCHANGED <<pods, guests>> BY <1>6 DEF runMigrationJob
    \* A pod that was made after the two were alive is not listed, as there was
    \* one alive pod when it was made; so it has not been given the guest.
    <3>3. ASSUME NEW x \in PodName, Live(q), Exists(x), q \in pods[x].older, x \in guests
          PROVE  FALSE
      <4>1. pods[x].mig BY <3>3 DEF Lineage, Live, Exists
      <4>2. Listed[x] # None BY <3>3, <4>1 DEF Trailing
      <4>3. q \in Listed[x].older BY <3>3, <4>2 DEF Trailing
      <4>4. p \in Listed[x].older /\ p # q BY <3>1, <4>2, <4>3 DEF Ages
      <4>5. QED BY <3>1, <4>2, <4>3, <4>4 DEF Lineage
    <3>4. QED BY <3>1, <3>2, <3>3 DEF NotYetMoved, Exists, Live
  <2>3. QED BY <2>1, <2>2
<1>7. QED BY <1>1, <1>2, <1>3, <1>4, <1>5, <1>6, PodsSteps

\* A guest that boots is the only one, and a guest that moves leaves the one pod
\* that executed it.
LEMMA OneGuestStep ==
    ASSUME TypeOK, IndInv, PodsInv, [Next]_vars
    PROVE  OneGuest'
<1> USE DEF PodsInv
<1>1. \A p \in PodName : p \in Alive <=> Live(p)
  BY DEF Alive, GetAlivePods, Live, Exists
<1>2. \A p \in PodName : p \in Alive' <=> Live(p)'
  BY DEF Alive, GetAlivePods, Live, Exists
<1>3. guests \subseteq PodName /\ \A p, q \in guests : Live(p) /\ Live(q) => p = q
  BY <1>1 DEF TypeOK, OneGuest
<1>4. SUFFICES \A p, q \in guests' \cap PodName : Live(p)' /\ Live(q)' => p = q
  BY <1>2 DEF OneGuest, Alive, GetAlivePods
<1>5. ASSUME PodsKept PROVE \A p \in PodName : Live(p)' => Live(p)
  BY <1>5 DEF PodsKept, Edited, Live, Exists
<1>6. CASE PodsKept /\ guests' = guests BY <1>3, <1>5, <1>6
<1>7. ASSUME NEW x \in PodName, NEW b \in BOOLEAN, Created(x, b)
      PROVE  \A p, q \in guests' \cap PodName : Live(p)' /\ Live(q)' => p = q
  <2>1. guests' = guests /\ x \notin guests BY <1>7 DEF Created, GuestsOK, Exists
  <2>2. QED BY <1>3, <1>7, <2>1, CreatedFields DEF Live, Exists
<1>8. ASSUME NEW x \in PodName, Booted(x)
      PROVE  \A p, q \in guests' \cap PodName : Live(p)' /\ Live(q)' => p = q
  <2>1. Live(x) /\ ~pods[x].ready /\ ~pods[x].mig /\ guests' = guests \cup {x} BY <1>8 DEF Booted
  <2>2. \A q \in guests : Live(q) => q = x
    BY <1>3, <2>1 DEF Ages, Lineage, GuestsOK, Live, Exists
  <2>3. QED BY <1>5, <1>8, <2>1, <2>2 DEF Booted
<1>9. ASSUME NEW x \in PodName, PodGone(x)
      PROVE  \A p, q \in guests' \cap PodName : Live(p)' /\ Live(q)' => p = q
  BY <1>3, <1>9, GoneFields DEF Live, Exists
<1>10. CASE GuestMoves
  <2>1. PICK q \in PodName :
           /\ job # None /\ q = job.dst /\ Exists(q) /\ q \notin guests
           /\ job.src \in guests /\ guests' = (guests \ {job.src}) \cup {q}
           /\ pods' = pods /\ job' = job
    BY <1>10, MoveFields
  <2>2. Live(q) => \A x \in guests : Live(x) => x = job.src
    BY <1>3, <2>1 DEF JobOK, NotYetMoved, Live
  <2>3. \A p \in PodName : Live(p)' <=> Live(p) BY <2>1 DEF Live, Exists
  <2>4. QED BY <1>3, <2>1, <2>2, <2>3
<1>11. CASE runMigrationJob
  <2>1. pods' = pods /\ guests' = guests BY <1>11 DEF runMigrationJob
  <2>2. QED BY <1>3, <2>1 DEF Live, Exists
<1>12. QED BY <1>6, <1>7, <1>8, <1>9, <1>10, <1>11, PodsSteps

\* What is listed trails what there is, whether the step delivers or not.
LEMMA TrailingStep ==
    ASSUME TypeOK, IndInv, PodsInv, [Next]_vars
    PROVE  Trailing'
<1> USE DEF PodsInv
<1>1. CASE Listed' = pods'
  BY <1>1, GuestsStep, JobStep DEF Trailing, GuestsOK, JobOK, Exists
<1>2. CASE Listed' = Listed
  <2>1. CASE PodsKept /\ JobKept /\ guests' = guests
    <3>1. guests \subseteq PodName BY DEF TypeOK
    <3>2. QED BY <1>2, <2>1, <3>1 DEF PodsKept, JobKept, Edited, Trailing, GuestsOK, Exists
  <2>2. ASSUME NEW x \in PodName, NEW b \in BOOLEAN, Created(x, b) PROVE Trailing'
    <3>1. guests' = guests /\ x \notin guests /\ job' = job /\ guests \subseteq PodName
      BY <2>2 DEF Created, GuestsOK, Exists, TypeOK
    <3>2. \A q \in PodName : Listed[q] # None => x \notin Listed[q].older
      BY <2>2, CreatedFields DEF Ages
    <3>3. QED BY <1>2, <2>2, <3>1, <3>2, CreatedFields DEF Trailing, Exists
  <2>3. ASSUME NEW x \in PodName, Booted(x) PROVE Trailing'
    <3>1. guests \subseteq PodName BY DEF TypeOK
    <3>2. QED
      BY <1>2, <2>3, <3>1 DEF Booted, PodsKept, JobKept, Edited, Trailing, GuestsOK, Live, Exists
  <2>4. ASSUME NEW x \in PodName, PodGone(x) PROVE Trailing'
    <3>1. guests \subseteq PodName BY DEF TypeOK
    <3>2. QED BY <1>2, <2>4, <3>1, GoneFields DEF Trailing, GuestsOK, Exists
  <2>5. CASE GuestMoves BY <1>2, <2>5, MoveFields DEF Trailing, Exists
  <2>6. CASE runMigrationJob
    <3>1. UNCHANGED <<pods, guests>> BY <2>6 DEF runMigrationJob
    <3>2. CASE job' = job BY <1>2, <3>1, <3>2 DEF Trailing, Exists
    <3>3. CASE job' # job
      <4>1. \A q \in PodName : q = job'.dst => Listed[q] # None
        BY <2>6, <3>3, NewJob
      <4>2. QED BY <1>2, <3>1, <4>1 DEF Trailing, Exists
    <3>4. QED BY <3>2, <3>3
  <2>7. QED BY <2>1, <2>2, <2>3, <2>4, <2>5, <2>6, PodsSteps
<1>3. QED BY <1>1, <1>2, ListSteps

\* Before there is a pod all of this holds.
LEMMA InitPods == Init => PodsInv
<1> SUFFICES ASSUME Init PROVE PodsInv OBVIOUS
<1>1. pods = NoPods /\ Listed = NoPods
  BY DEF Init, Listed, PodView, Snapshot
<1>2. QED
  BY <1>1 DEF Init, PodsInv, NoPods, Ages, Lineage, Trailing, GuestsOK, JobOK, NotYetMoved,
     OneGuest, Exists, Live

\* As long as pods are created on counts that are right, the pods of a machine
\* are a line of migration targets, of which one at most executes the guest.
THEOREM PodsInvariance == Spec /\ CountsRight => [](TypeOK /\ IndInv /\ PodsInv)
<1>1. TypeOK /\ IndInv /\ PodsInv /\ [Next]_vars /\ [CreatesOnCount]_vars
        => (TypeOK /\ IndInv /\ PodsInv)'
  <2> SUFFICES ASSUME TypeOK, IndInv, PodsInv, [Next]_vars, [CreatesOnCount]_vars
               PROVE  (TypeOK /\ IndInv /\ PodsInv)'
    OBVIOUS
  <2>1. TypeOK' /\ IndInv' BY Inductive
  <2>2. Ages(pods)' /\ Lineage(pods)' BY AgesStep DEF PodsInv
  <2>3. Ages(Listed)' /\ Lineage(Listed)'
    BY <2>2, ListSteps DEF PodsInv, Ages, Lineage
  <2>4. Trailing' /\ GuestsOK' /\ JobOK' /\ NotYetMoved' /\ OneGuest'
    BY TrailingStep, GuestsStep, JobStep, NotYetMovedStep, OneGuestStep
  <2>5. QED BY <2>1, <2>2, <2>3, <2>4 DEF PodsInv
<1>2. QED BY <1>1, Initially, InitPods, PTL DEF Spec, CountsRight

\* Two pods that are not terminating execute the guest only after a pod was
\* created on a count that was out of date: migrations that are started,
\* canceled, failed or interrupted, and jobs made from old lists, never do it
\* (updateMachinePod, startMigrateTargetPod, runMigrationJob).
THEOREM GuestRunsOnce == Spec /\ CountsRight => []OneGuest
<1>1. PodsInv => OneGuest BY DEF PodsInv
<1>2. QED BY <1>1, PodsInvariance, PTL

\* Likewise, the newer of two alive pods is a migration target (updateMachinePod,
\* startMigrateTargetPod).
THEOREM NewerIsTarget == Spec /\ CountsRight => []NewestIsTarget
<1>1. PodsInv => NewestIsTarget
  BY DEF PodsInv, Lineage, NewestIsTarget, Alive, GetAlivePods
<1>2. QED BY <1>1, PodsInvariance, PTL

-----------------------------------------------------------------------------
(* What a machine that is gone or stopped has left behind. *)

\* Outside start() no pod, no console and no job is created.
LEMMA NothingCreated ==
    ASSUME TypeOK, IndInv, [Next]_vars, pc \notin StartLabels
    PROVE  /\ pods = NoPods => pods' = NoPods
           /\ console = None => console' = None
           /\ job = None => job' = None
<1>1. pods' \in [PodName -> Pod \cup {None}] BY Inductive DEF TypeOK
<1>2. ASSUME PodsKept, pods = NoPods PROVE pods' = NoPods
  <2>1. \A p \in PodName : pods'[p] = None BY <1>2 DEF PodsKept, Edited, NoPods
  <2>2. QED BY <1>1, <2>1 DEF NoPods
<1>3. ~runMigrationJob BY DEF runMigrationJob, StartLabels
<1>4. ASSUME NEW x \in PodName, PodGone(x) PROVE pods # NoPods /\ (job = None => job' = None)
  BY <1>4 DEF PodGone, NoPods
<1>5. (pods = NoPods => pods' = NoPods) /\ (job = None => job' = None)
  BY <1>2, <1>3, <1>4, PodsSteps DEF Created, StartLabels, Booted, JobKept, GuestMoves
<1>6. console = None => console' = None
  <2>1. CASE machineWorker
    <3>1. ~startStep /\ ~migrateStep
      BY DEF startStep, migrateStep, StartLabels, updateMachinePodCreate,
         updateMachinePodCreated, updateMachinePodStatus, updateMachinePodMany,
         updateNovncPod, updateNovncService, updateNovncEndpoint, deleteUnschedulablePod,
         migrateMachine, startMigrateTargetPod, strangeNumberOfPods, migrateRollbackJob,
         migrateRollbackPod, migrateRollbackState, waitForMigration, runMigrationJob,
         migrationCleanupStatus, migrationCleanupPod, migrationCleanupJob,
         migrationCleanupConsole
    <3>2. QED
      BY <2>1, <3>1 DEF machineWorker, process, prepareMachine, stopStep, stopPods, stopJob,
         stopConsole, stopStatus, deleteMachinePods, terminateStep, setTerminating,
         terminatePods, terminateConsole, terminateService, removeFinalizer
  <2>2. CASE \E p \in PodName : podStep(p)
    BY <2>2, SentinelAssumption DEF podStep, SchedulePod, PodUnschedulable, PodReady, PodGone
  <2>3. CASE userStep \/ jobStep \/ deliverStep \/ faultStep \/ UNCHANGED vars
    BY <2>3 DEF userStep, instanceCreate, InstanceUpdate, InstanceDelete, jobStep,
       JobPodCreated, GuestMoves, JobSucceeds, JobCollected, deliverStep, DeliverMachine,
       DeliverPods, DeliverJob, DeliverService, faultStep, apiError, apiErrorInStop,
       apiErrorInTeardown, Crash, PodEvicted, JobFails, ipWrite, vars
  <2>4. QED BY <2>1, <2>2, <2>3 DEF Next
<1>7. QED BY <1>5, <1>6

\* What a step may write to the machine: it stays prepared until the finalizer
\* is removed, and is stopped by the last step of stop() only.
MachineKept ==
    \/ vm = None \/ vm' = vm
    \/ vm' = None /\ (pc = "tmFinal" \/ ~vm.prepared)
    \/ /\ vm' # None
       /\ vm.prepared => vm'.prepared
       /\ vm'.state = "stopped" => vm.state = "stopped" \/ (pc = "stState" /\ vm' = m2)

\* A status write, accepted or refused, is such a step (updateMachineStatus).
LEMMA WriteKeeps ==
    ASSUME TypeOK, IndInv, NEW new \in Machine, updateMachineStatus(new),
           m.prepared => new.prepared,
           new.state = "stopped" => m.state = "stopped" \/ (pc = "stState" /\ new = m2)
    PROVE  MachineKept
<1>1. new # None BY SentinelAssumption
<1>2. QED BY <1>1 DEF updateMachineStatus, IndInv, VersionsAgree, MachineKept

\* Every step is.
LEMMA MachineSteps ==
    ASSUME TypeOK, IndInv, [Next]_vars
    PROVE  MachineKept
<1>a. pc # "idle" => m \in Machine /\ m2 \in Machine
  BY DEF TypeOK, IndInv, SyncMatchesCopy
<1>b. ASSUME vm' = vm PROVE MachineKept BY <1>b DEF MachineKept
<1>1. CASE prepareMachine
  <2>1. m \in Machine BY <1>a, <1>1 DEF prepareMachine
  <2>2. /\ [m EXCEPT !.prepared = TRUE] \in Machine
        /\ [m EXCEPT !.prepared = TRUE].prepared
        /\ [m EXCEPT !.prepared = TRUE].state = m.state
    BY ZenonT(40), <2>1, MachineEdits DEF Machine
  <2>3. QED BY <1>1, <2>2, WriteKeeps DEF prepareMachine
<1>2. ASSUME NEW s \in State \ {"stopped"}, pc # "idle",
             updateMachineStatus([m EXCEPT !.state = s])
      PROVE  MachineKept
  <2>1. m \in Machine BY <1>a, <1>2
  <2>2. /\ [m EXCEPT !.state = s] \in Machine
        /\ [m EXCEPT !.state = s].prepared = m.prepared
        /\ [m EXCEPT !.state = s].state = s
    BY <2>1, MachineEdits, StatusEdits DEF SameObject
  <2>3. QED BY <1>2, <2>2, WriteKeeps
<1>3. CASE updateMachinePodCreated \/ migrateMachine \/ migrateRollbackState \/ setTerminating
  BY <1>2, <1>3 DEF updateMachinePodCreated, migrateMachine, migrateRollbackState,
     setTerminating, UpdateThen, State
<1>4. ASSUME NEW q \in Pod, pc # "idle", updateMachineStatus(StatusWithPod(m, q))
      PROVE  MachineKept
  <2>1. m \in Machine BY <1>a, <1>4
  <2>2. StatusWithPod(m, q) \in Machine BY <2>1, StatusWithPodType
  <2>3. /\ StatusWithPod(m, q).prepared = m.prepared
        /\ StatusWithPod(m, q).state # "stopped"
    BY <2>1, StatusWithPodEdits DEF SameObject
  <2>4. QED BY <1>4, <2>2, <2>3, WriteKeeps
<1>5. CASE updateMachinePodStatus
  <2>1. PICK p \in PodName : /\ AliveView = {p}
                             /\ updateMachineStatus(StatusWithPod(m, PodView.pods[p]))
    BY <1>5 DEF updateMachinePodStatus, UpdateThen
  <2>2. PodView.pods[p] \in Pod BY <2>1, ViewTypes DEF AliveView, GetAlivePods
  <2>3. QED BY <1>4, <1>5, <2>1, <2>2 DEF updateMachinePodStatus
<1>6. CASE migrationCleanupStatus
  <2>1. PICK p, q \in PodName :
          /\ OldNew(p, q)
          /\ updateMachineStatus(StatusWithPod([m EXCEPT !.action = "start"],
                                               PodView.pods[q]))
    BY <1>6 DEF migrationCleanupStatus, UpdateThen
  <2>2. PodView.pods[q] \in Pod BY <2>1, ViewTypes DEF OldNew, AliveView, GetAlivePods
  <2>3. pc = "target" /\ m.action = "start" /\ m \in Machine
    BY <1>a, <1>6 DEF migrationCleanupStatus, IndInv, SyncMatchesCopy, StartLabels
  <2>4. [m EXCEPT !.action = "start"] = m BY <2>3, StatusEdits
  <2>5. QED BY <1>4, <2>1, <2>2, <2>3, <2>4
<1>7. CASE updateNovncEndpoint
  <2>1. m \in Machine BY <1>a, <1>7 DEF updateNovncEndpoint
  <2>2. PICK n \in MaybeNode : updateMachineStatus([m EXCEPT !.vnc = n])
    BY <1>7, <2>1, MachineFields DEF updateNovncEndpoint, MaybeNode
  <2>3. /\ [m EXCEPT !.vnc = n] \in Machine
        /\ [m EXCEPT !.vnc = n].prepared = m.prepared
        /\ [m EXCEPT !.vnc = n].state = m.state
    BY <2>1, MachineEdits, StatusEdits DEF SameObject
  <2>4. QED BY <2>2, <2>3, WriteKeeps
<1>8. CASE stopStatus
  <2>1. m2 \in Machine /\ m2.prepared
    BY <1>a, <1>8 DEF stopStatus, IndInv, SyncMatchesCopy, StopLabels, CanRun
  <2>2. QED BY <1>8, <2>1, WriteKeeps DEF stopStatus
<1>9. CASE removeFinalizer BY <1>9 DEF removeFinalizer, MachineKept
<1>10. CASE InstanceUpdate
  <2>1. vm \in Machine BY <1>10 DEF InstanceUpdate, TypeOK
  <2>2. PICK a \in Action, n \in NodeChoices, v \in BOOLEAN :
          vm' = [vm EXCEPT !.action = a, !.node = n, !.novnc = v]
    BY <1>10, ConstantsAssumption DEF InstanceUpdate
  <2>3. vm' \in Machine BY <2>1, <2>2, MachineEdits
  <2>4. vm' # None BY <2>3, SentinelAssumption
  <2>5. vm'.prepared = vm.prepared /\ vm'.state = vm.state BY <2>1, <2>2 DEF Machine
  <2>6. QED BY <2>4, <2>5 DEF MachineKept
<1>11. CASE InstanceDelete
  <2>1. vm \in Machine BY <1>11 DEF InstanceDelete, TypeOK
  <2>2. CASE vm.prepared
    <3>1. vm' = [vm EXCEPT !.deleting = TRUE] BY <1>11, <2>2 DEF InstanceDelete
    <3>2. vm' \in Machine BY <2>1, <3>1, MachineEdits
    <3>3. vm' # None BY <3>2, SentinelAssumption
    <3>4. vm'.prepared = vm.prepared /\ vm'.state = vm.state BY <2>1, <3>1 DEF Machine
    <3>5. QED BY <3>3, <3>4 DEF MachineKept
  <2>3. CASE ~vm.prepared BY <1>11, <2>3 DEF InstanceDelete, MachineKept
  <2>4. QED BY <2>2, <2>3
<1>12. CASE instanceCreate BY <1>12 DEF instanceCreate, MachineKept
<1>13. CASE \/ process \/ updateMachinePodCreate \/ updateMachinePodMany \/ updateNovncPod
            \/ updateNovncService \/ deleteUnschedulablePod \/ startMigrateTargetPod
            \/ strangeNumberOfPods \/ migrateRollbackJob \/ migrateRollbackPod
            \/ waitForMigration \/ runMigrationJob \/ migrationCleanupPod
            \/ migrationCleanupJob \/ migrationCleanupConsole \/ stopPods \/ stopJob
            \/ stopConsole \/ terminatePods \/ terminateConsole \/ terminateService
  BY <1>b, <1>13 DEF process, updateMachinePodCreate, updateMachinePodMany, updateNovncPod,
     updateNovncService, deleteUnschedulablePod, startMigrateTargetPod, strangeNumberOfPods,
     migrateRollbackJob, migrateRollbackPod, waitForMigration, runMigrationJob,
     migrationCleanupPod, migrationCleanupJob, migrationCleanupConsole, stopPods, stopJob,
     stopConsole, terminatePods, terminateConsole, terminateService
<1>14. CASE (\E p \in PodName : podStep(p)) \/ jobStep \/ deliverStep
  BY <1>b, <1>14 DEF podStep, SchedulePod, PodUnschedulable, PodReady, PodGone, jobStep,
     JobPodCreated, GuestMoves, JobSucceeds, JobCollected, deliverStep, DeliverMachine,
     DeliverPods, DeliverJob, DeliverService
<1>15. CASE faultStep \/ UNCHANGED vars
  BY <1>b, <1>15 DEF faultStep, apiError, apiErrorInStop, apiErrorInTeardown, Crash,
     PodEvicted, JobFails, ipWrite, vars
<1>16. QED
  BY <1>1, <1>3, <1>5, <1>6, <1>7, <1>8, <1>9, <1>10, <1>11, <1>12, <1>13, <1>14, <1>15
     DEF Next, machineWorker, startStep, migrateStep, stopStep, terminateStep, userStep

\* The labels at which a stop or a teardown has looked for pods.
Looked == {"stJob", "stConsole", "stState", "tmConsole", "tmSvc", "tmFinal"}

\* Only the calls of stop() and of the teardown lead to these labels.
LEMMA SyncSteps ==
    ASSUME TypeOK, IndInv, [Next]_vars
    PROVE  \/ UNCHANGED <<pc, m2, then>>
           \/ pc' \notin Looked
           \/ stopPods \/ stopJob \/ stopConsole
           \/ terminatePods \/ terminateConsole \/ terminateService
           \/ apiErrorInStop \/ apiErrorInTeardown
<1>a. pc \notin TeardownLabels => then \in {"idle", "delPod", "migrate", "target"}
  BY DEF TypeOK, IndInv, SyncMatchesCopy
<1> USE DEF Looked
<1>1. CASE startStep
  BY <1>a, <1>1 DEF startStep, updateMachinePodCreate, updateMachinePodCreated,
     updateMachinePodStatus, updateMachinePodMany, updateNovncPod, updateNovncService,
     updateNovncEndpoint, deleteUnschedulablePod, UpdateThen, Resume, Goto, EndSync, local,
     TeardownLabels
<1>2. CASE migrateStep
  BY <1>2 DEF migrateStep, migrateMachine, startMigrateTargetPod, strangeNumberOfPods,
     migrateRollbackJob, migrateRollbackPod, migrateRollbackState, waitForMigration,
     runMigrationJob, migrationCleanupStatus, migrationCleanupPod, migrationCleanupJob,
     migrationCleanupConsole, UpdateThen, Goto, EndSync
<1>3. CASE process \/ prepareMachine \/ stopStatus \/ setTerminating \/ removeFinalizer
  BY <1>3 DEF process, Dispatch, prepareMachine, stopStatus, setTerminating, removeFinalizer,
     EndSync
<1>4. CASE userStep \/ (\E p \in PodName : podStep(p)) \/ jobStep \/ deliverStep
  BY <1>4 DEF userStep, instanceCreate, InstanceUpdate, InstanceDelete, podStep, SchedulePod,
     PodUnschedulable, PodReady, PodGone, jobStep, JobPodCreated, GuestMoves, JobSucceeds,
     JobCollected, deliverStep, DeliverMachine, DeliverPods, DeliverJob, DeliverService, local
<1>5. CASE apiError
  BY <1>a, <1>5 DEF apiError, Resume, Goto, EndSync, TeardownLabels
<1>6. CASE Crash \/ (\E p \in PodName : PodEvicted(p)) \/ JobFails \/ ipWrite \/ UNCHANGED vars
  BY <1>6 DEF Crash, EndSync, PodEvicted, JobFails, ipWrite, local, vars
<1>7. QED
  BY <1>1, <1>2, <1>3, <1>4, <1>5, <1>6
     DEF Next, machineWorker, stopStep, terminateStep, faultStep

\* What a stop or a teardown has found stays so until it has been written: the
\* worker is in that sync, and nobody else creates pods.
LEMMA EmptiedStep ==
    ASSUME TypeOK, IndInv, Emptied, [Next]_vars, [ReadsOnList]_vars
    PROVE  Emptied'
<1>1. vm' = None \/ ~vm'.prepared => pods' = NoPods
  <2>1. vm = None \/ ~vm.prepared => pods = NoPods /\ pc \notin StartLabels
    BY DEF Emptied, IndInv, NothingBeforePrepare
  <2>2. pc = "tmFinal" => pods = NoPods /\ pc \notin StartLabels BY DEF Emptied, StartLabels
  <2>3. QED BY <2>1, <2>2, MachineSteps, NothingCreated DEF MachineKept
<1> DEFINE Found ==
      /\ pc \in {"tmConsole", "tmSvc"} /\ then = "tmFinal" => pods = NoPods
      /\ pc = "tmFinal" => pods = NoPods
      /\ pc \in {"stJob", "stConsole", "stState"} /\ m2.state = "stopped" => pods = NoPods
      /\ pc \in {"stConsole", "stState"} /\ m2.state = "stopped" => job = None
      /\ pc = "stState" /\ m2.state = "stopped" => console = None
<1>2. Found BY DEF Emptied
<1>3. SUFFICES Found' BY <1>1 DEF Emptied
<1>4. pc \in Looked => pc \notin StartLabels BY DEF Looked, StartLabels
<1>5. CASE UNCHANGED <<pc, m2, then>>
  <2>1. pc \notin Looked => Found' BY <1>5 DEF Looked
  <2>2. pc \in Looked => Found' BY <1>2, <1>4, <1>5, NothingCreated
  <2>3. QED BY <2>1, <2>2
<1>6. CASE pc' \notin Looked BY <1>6 DEF Looked
<1>7. CASE stopPods
  <2>1. m2 \in Machine BY <1>7 DEF stopPods, TypeOK, IndInv, SyncMatchesCopy
  <2>2. m2'.state = "stopped" => ~ListsPods BY <1>7, <2>1 DEF stopPods, Machine
  <2>3. ~ListsPods => pods = NoPods BY <1>7 DEF stopPods, ReadsOnList, vars
  <2>4. QED BY <1>7, <2>2, <2>3 DEF stopPods
<1>8. CASE stopJob
  <2>1. m2 \in Machine BY <1>8 DEF stopJob, TypeOK, IndInv, SyncMatchesCopy
  <2>2. m2'.state = "stopped" => job = None /\ m2.state = "stopped"
    BY <1>8, <2>1 DEF stopJob, Machine
  <2>3. QED BY <1>2, <1>8, <2>2 DEF stopJob, deleteMigrationJob
<1>9. CASE stopConsole
  <2>1. m2 \in Machine BY <1>9 DEF stopConsole, TypeOK, IndInv, SyncMatchesCopy
  <2>2. m2'.state = "stopped" => m2.state = "stopped" /\ console = None
    BY <1>9, <2>1 DEF stopConsole, Machine
  <2>3. QED BY <1>2, <1>9, <2>2 DEF stopConsole
<1>10. CASE terminatePods
  <2>1. ~ListsPods => pods = NoPods BY <1>10 DEF terminatePods, ReadsOnList, vars
  <2>2. QED BY <1>10, <2>1 DEF terminatePods
<1>11. CASE terminateConsole BY <1>2, <1>11 DEF terminateConsole
<1>12. CASE terminateService BY <1>2, <1>12 DEF terminateService, EndSync, Goto
<1>13. CASE apiErrorInStop
  <2>1. m2 \in Machine BY <1>13 DEF apiErrorInStop, TypeOK, IndInv, SyncMatchesCopy
  <2>2. m2'.state = "error" BY <1>13, <2>1 DEF apiErrorInStop, Machine
  <2>3. QED BY <1>13, <2>2 DEF apiErrorInStop
<1>14. CASE apiErrorInTeardown BY <1>14 DEF apiErrorInTeardown, EndSync
<1>15. QED
  BY <1>5, <1>6, <1>7, <1>8, <1>9, <1>10, <1>11, <1>12, <1>13, <1>14, SyncSteps

\* What was found gone is gone in every reachable state.
LEMMA EmptiedInvariance == Spec /\ ListsRight => [](TypeOK /\ IndInv /\ Emptied)
<1>1. Init => Emptied BY DEF Init, Emptied
<1>2. TypeOK /\ IndInv /\ Emptied /\ [Next]_vars /\ [ReadsOnList]_vars
        => (TypeOK /\ IndInv /\ Emptied)'
  BY Inductive, EmptiedStep
<1>3. QED BY <1>1, <1>2, Initially, PTL DEF Spec, ListsRight

\* A machine that is gone has left a pod, terminating or not, only if its
\* teardown was told by an out-of-date list that there was none; failures,
\* crashes and syncs under way never do it (deleteMachinePods, process).
THEOREM PodsGoWithMachine == Spec /\ ListsRight => []GoneMeansNoPods
<1>1. Emptied => GoneMeansNoPods BY DEF Emptied, GoneMeansNoPods
<1>2. QED BY <1>1, EmptiedInvariance, PTL

\* Likewise, StateStopped is written only when no pod, no console and no
\* migration job is left, although stop() looks for them in separate calls
\* (stop).
THEOREM StoppedIsQuiet == Spec /\ ListsRight => StoppedMeansQuiet
<1>1. TypeOK /\ IndInv /\ Emptied /\ [Next]_vars
        => [(vm # None /\ vm' # None /\ vm.state # "stopped" /\ vm'.state = "stopped")
              => pods = NoPods /\ console = None /\ job = None]_vars
  <2>1. SUFFICES ASSUME TypeOK, IndInv, Emptied, [Next]_vars,
                        vm # None, vm' # None, vm.state # "stopped", vm'.state = "stopped"
                 PROVE  pods = NoPods /\ console = None /\ job = None
    BY DEF vars
  <2>2. pc = "stState" /\ m2.state = "stopped" BY <2>1, MachineSteps DEF MachineKept
  <2>3. QED BY <2>1, <2>2 DEF Emptied
<1>2. QED BY <1>1, EmptiedInvariance, PTL DEF Spec, StoppedMeansQuiet

=============================================================================
