----------------------- MODULE MachineControllerProofs -----------------------
(***************************************************************************)
(* Proofs about MachineController, for every value of its constants: any   *)
(* number of nodes and pods, caches that trail or not, any bounds on       *)
(* requests and failures.                                                  *)
(*                                                                         *)
(* The argument: an Update is accepted only from a copy with the object's  *)
(* resourceVersion, so what the worker writes was computed from what the   *)
(* object is (VersionsAgree); a terminating machine has been seen deleted  *)
(* by the cache and by the sync (TerminatingSeen), so nothing is created   *)
(* for it any more; and what the teardown has found missing is still       *)
(* missing when the finalizer goes (TeardownFindings).                     *)
(***************************************************************************)
EXTENDS MachineController, TLAPS

USE DEF api, caches, local, cluster, bounds,
        Label, StartLabels, StopLabels, TeardownLabels

\* What the fields of a VirtualMachine range over.
LEMMA MachineFields ==
  ASSUME NEW v \in Machine
  PROVE  /\ v.prepared \in BOOLEAN /\ v.deleting \in BOOLEAN
         /\ v.novnc \in BOOLEAN
         /\ v.action \in Action /\ v.node \in NodeChoices \cup {None}
         /\ v.state \in State
         /\ v.snode \in MaybeNode /\ v.sip \in MaybeNode /\ v.vnc \in MaybeNode
         /\ v # None
  BY SentinelAssumption DEF Machine

\* The edits the code makes to copies of a VirtualMachine (DeepCopy, then
\* assignments to Status, Spec or the metadata) give a VirtualMachine.
LEMMA MachineEdits ==
  ASSUME NEW v \in Machine
  PROVE  /\ \A s \in State : [v EXCEPT !.state = s] \in Machine
         /\ \A s \in State, n \in MaybeNode :
               [v EXCEPT !.state = s, !.snode = n] \in Machine
         /\ \A n \in MaybeNode : [v EXCEPT !.vnc = n] \in Machine
         /\ [v EXCEPT !.prepared = TRUE] \in Machine
         /\ [v EXCEPT !.deleting = TRUE] \in Machine
         /\ [v EXCEPT !.action = "start"] \in Machine
         /\ \A a \in Action, n \in NodeChoices, b \in BOOLEAN :
               [v EXCEPT !.action = a, !.node = n, !.novnc = b] \in Machine
  BY DEF Machine, Action

\* updateMachineStatusWithPod fills in a well-formed status.
LEMMA StatusWithPodType ==
  ASSUME NEW v \in Machine, NEW p \in Pod
  PROVE  StatusWithPod(v, p) \in Machine
  BY ZenonT(40) DEF Machine, Pod, StatusWithPod, State, MaybeNode

\* The edits of a pod by the scheduler, the kubelet and deletions.
LEMMA PodEdits ==
  ASSUME NEW q \in Pod
  PROVE  /\ q # None
         /\ [q EXCEPT !.deleting = TRUE] \in Pod
         /\ [q EXCEPT !.ready = TRUE] \in Pod
         /\ [q EXCEPT !.unsched = TRUE] \in Pod
         /\ \A n \in Node : [q EXCEPT !.node = n, !.unsched = FALSE] \in Pod
         /\ \A p : [q EXCEPT !.older = @ \ {p}] \in Pod
  BY SentinelAssumption DEF Pod, MaybeNode

\* createMachinePod returns a pod, whether it is a migration target or not.
LEMMA CreatedPodType ==
  ASSUME m \in Machine, NEW b \in BOOLEAN
  PROVE  createMachinePod(b) \in Pod
  BY DEF createMachinePod, Pod, Machine, MaybeNode

\* The edits of the migration job by the Job controller and deletions.
LEMMA JobEdits ==
  ASSUME NEW j \in Job
  PROVE  /\ j # None
         /\ \A b \in BOOLEAN : [j EXCEPT !.pod = b] \in Job
         /\ [j EXCEPT !.del = TRUE] \in Job
         /\ \A t \in {"active", "succeeded", "failed"} :
               [j EXCEPT !.st = t] \in Job
         /\ \A x \in PodRef, y \in PodRef :
               [j EXCEPT !.src = x, !.dst = y] \in Job
         /\ j.src \in PodRef /\ j.dst \in PodRef
         /\ j.pod \in BOOLEAN /\ j.del \in BOOLEAN
  BY SentinelAssumption DEF Job

\* What a pod informer delivers is well formed.
LEMMA SnapshotType == TypeOK => Snapshot \in PodList
  BY JobEdits DEF TypeOK, Snapshot, PodList, Job

\* What the listers return is well formed, with caches that trail or not.
LEMMA ViewTypes ==
  ASSUME TypeOK
  PROVE  /\ PodView \in PodList
         /\ \A p \in PodName : PodView.pods[p] \in Pod \cup {None}
         /\ JobView \in Job \cup {None}
         /\ SvcView \in BOOLEAN
  <1>1. PodView \in PodList
    BY SnapshotType DEF PodView, TypeOK
  <1>2. \A p \in PodName : PodView.pods[p] \in Pod \cup {None}
    BY <1>1 DEF PodList
  <1>3. JobView \in Job \cup {None} /\ SvcView \in BOOLEAN
    BY DEF TypeOK, JobView, SvcView
  <1> QED BY <1>1, <1>2, <1>3

\* updateMachineStatus leaves a machine, or none, in the API.
LEMMA UpdateType ==
  ASSUME TypeOK, NEW new \in Machine, updateMachineStatus(new)
  PROVE  vm' \in Machine \cup {None} /\ cacheCur' \in BOOLEAN
  BY DEF TypeOK, updateMachineStatus

\* Deleting one machine pod keeps the pods well formed.
LEMMA DeletePodType ==
  ASSUME TypeOK, NEW p, DeletePod(p)
  PROVE  pods' \in [PodName -> Pod \cup {None}]
  BY PodEdits DEF TypeOK, DeletePod

\* deleteMachinePods keeps pods, console and job well formed.
LEMMA DeletePodsType ==
  ASSUME TypeOK, deleteMachinePods
  PROVE  /\ pods' \in [PodName -> Pod \cup {None}]
         /\ console' \in PodRef
         /\ job' \in Job \cup {None}
  BY PodEdits, JobEdits DEF TypeOK, deleteMachinePods, PodRef

\* deleteMigrationJob keeps the job well formed.
LEMMA DeleteJobType ==
  ASSUME TypeOK, deleteMigrationJob
  PROVE  job' \in Job \cup {None}
  BY JobEdits DEF TypeOK, deleteMigrationJob

\* A failure stays within its bound.
LEMMA FaultType ==
  ASSUME TypeOK, Fault
  PROVE  requests' \in 0..MaxRequests /\ faults' \in 0..MaxFaults
  BY ConstantsAssumption DEF TypeOK, Fault

\* A user's request stays within its bound.
LEMMA RequestType ==
  ASSUME TypeOK, Request
  PROVE  requests' \in 0..MaxRequests
  BY ConstantsAssumption DEF TypeOK, Request

\* Every step keeps TypeOK, given that a sync under way has a machine.
LEMMA TypeStep ==
  ASSUME TypeOK, pc # "idle" => m \in Machine /\ m2 \in Machine, Next
  PROVE  TypeOK'
  <1>1. CASE process
    BY <1>1, ViewTypes DEF TypeOK, process, Dispatch
  <1>2. CASE prepareMachine
    BY <1>2, MachineEdits, UpdateType DEF TypeOK, prepareMachine, EndSync
  <1>3. CASE updateMachinePodCreate
    BY ZenonT(40), <1>3, CreatedPodType DEF TypeOK, updateMachinePodCreate, AfterPod
  <1>4. CASE updateMachinePodCreated
    BY ZenonT(40), <1>4, MachineEdits, UpdateType
       DEF TypeOK, updateMachinePodCreated, UpdateThen, EndSync, Goto, State
  <1>5. CASE updateMachinePodStatus
    BY <1>5, ViewTypes, StatusWithPodType, UpdateType
       DEF TypeOK, updateMachinePodStatus, UpdateThen, EndSync, AfterPod,
           AliveView, GetAlivePods
  <1>6. CASE updateMachinePodMany
    <2>1. CASE m.state = "migrating"
      BY <1>6, <2>1 DEF TypeOK, updateMachinePodMany, Goto
    <2>2. CASE m.state # "migrating"
      BY <1>6, <2>2 DEF TypeOK, updateMachinePodMany, EndSync
    <2> QED BY <2>1, <2>2
  <1>7. CASE updateNovncPod
    BY <1>7 DEF TypeOK, updateNovncPod, Goto, Name, PodRef
  <1>8. CASE updateNovncService
    <2>1. svc' \in BOOLEAN
      BY <1>8 DEF updateNovncService
    <2>2. CASE pc' = "idle"
      BY <1>8, <2>1, <2>2
         DEF TypeOK, updateNovncService, EndSync, Goto, Resume
    <2>3. CASE pc' # "idle"
      BY <1>8, <2>1, <2>3
         DEF TypeOK, updateNovncService, EndSync, Goto, Resume
    <2> QED BY <2>2, <2>3
  <1>9. CASE updateNovncEndpoint
    BY ZenonT(40), <1>9, MachineEdits, MachineFields, UpdateType
       DEF TypeOK, updateNovncEndpoint, EndSync, Goto, MaybeNode
  <1>10. CASE deleteUnschedulablePod
    BY <1>10, DeletePodType DEF TypeOK, deleteUnschedulablePod, EndSync
  <1>11. CASE migrateMachine
    BY ZenonT(40), <1>11, MachineEdits, UpdateType
       DEF TypeOK, migrateMachine, UpdateThen, EndSync, State
  <1>12. CASE startMigrateTargetPod
    BY <1>12, CreatedPodType DEF TypeOK, startMigrateTargetPod, EndSync
  <1>13. CASE strangeNumberOfPods
    BY <1>13 DEF TypeOK, strangeNumberOfPods, EndSync
  <1>14. CASE migrateRollbackJob
    BY <1>14, DeleteJobType DEF TypeOK, migrateRollbackJob
  <1>15. CASE migrateRollbackPod
    BY <1>15, DeletePodType DEF TypeOK, migrateRollbackPod, Goto
  <1>16. CASE migrateRollbackState
    BY <1>16, MachineEdits, UpdateType
       DEF TypeOK, migrateRollbackState, EndSync, State
  <1>17. CASE waitForMigration
    BY <1>17 DEF TypeOK, waitForMigration, EndSync
  <1>18. CASE runMigrationJob
    <2>1. job' \in Job \cup {None}
      BY <1>18 DEF TypeOK, runMigrationJob, Name, Job, PodRef
    <2> QED BY <1>18, <2>1 DEF TypeOK, runMigrationJob, EndSync
  <1>19. CASE migrationCleanupStatus
    <2>1. PICK p \in PodName, q \in PodName :
            /\ OldNew(p, q)
            /\ UpdateThen(StatusWithPod([m EXCEPT !.action = "start"],
                                        PodView.pods[q]),
                   /\ pc' = "clPod" /\ pod' = p /\ peer' = q
                   /\ UNCHANGED <<m, m2, then>>)
      BY <1>19 DEF migrationCleanupStatus
    <2>2. PodView.pods[q] \in Pod
      BY <2>1, ViewTypes DEF OldNew, AliveView, GetAlivePods
    <2>3. m \in Machine
      BY <1>19 DEF migrationCleanupStatus
    <2>4. StatusWithPod([m EXCEPT !.action = "start"], PodView.pods[q])
            \in Machine
      BY <2>2, <2>3, MachineEdits, StatusWithPodType
    <2>5. vm' \in Machine \cup {None} /\ cacheCur' \in BOOLEAN
      BY <2>1, <2>4, UpdateType DEF UpdateThen
    <2>6. pc' \in Label /\ mCur' \in BOOLEAN /\ m' \in Machine \cup {None}
          /\ m2' \in Machine \cup {None} /\ pod' \in PodName \cup {None}
          /\ peer' \in PodName \cup {None}
          /\ then' \in {"idle", "delPod", "migrate", "target", "tmFinal"}
      BY <2>1 DEF TypeOK, UpdateThen, EndSync
    <2> QED BY <1>19, <2>5, <2>6 DEF TypeOK, migrationCleanupStatus
  <1>20. CASE migrationCleanupPod
    <2>1. pods' \in [PodName -> Pod \cup {None}]
      BY <1>20, DeletePodType DEF migrationCleanupPod
    <2>2. CASE pods[pod] = None
      BY <1>20, <2>1, <2>2 DEF TypeOK, migrationCleanupPod, EndSync
    <2>3. CASE pods[pod] # None
      BY <1>20, <2>1, <2>3 DEF TypeOK, migrationCleanupPod, Goto
    <2> QED BY <2>2, <2>3
  <1>21. CASE migrationCleanupJob
    <2>1. job' \in Job \cup {None}
      BY <1>21, DeleteJobType DEF migrationCleanupJob
    <2>2. CASE job = None
      BY <1>21, <2>1, <2>2 DEF TypeOK, migrationCleanupJob, EndSync
    <2>3. CASE job # None
      BY <1>21, <2>1, <2>3 DEF TypeOK, migrationCleanupJob, Goto
    <2> QED BY <2>2, <2>3
  <1>22. CASE migrationCleanupConsole
    BY <1>22 DEF TypeOK, migrationCleanupConsole, EndSync, PodRef
  <1>23. CASE stopPods
    <2>1. m2 \in Machine
      BY <1>23 DEF stopPods
    <2>2. m2' \in Machine
      BY ZenonT(40), <1>23, <2>1, MachineEdits DEF stopPods, State, MaybeNode
    <2>3. /\ pods' \in [PodName -> Pod \cup {None}]
          /\ console' \in PodRef
          /\ job' \in Job \cup {None}
      BY <1>23, DeletePodsType DEF TypeOK, stopPods
    <2> QED BY <1>23, <2>2, <2>3 DEF TypeOK, stopPods
  <1>24. CASE stopJob
    <2>1. m2 \in Machine
      BY <1>24 DEF stopJob
    <2>2. m2' \in Machine
      BY <1>24, <2>1, MachineEdits, MachineFields DEF stopJob, State
    <2>3. job' \in Job \cup {None}
      BY <1>24, DeleteJobType DEF stopJob
    <2> QED BY <1>24, <2>2, <2>3 DEF TypeOK, stopJob
  <1>25. CASE stopConsole
    <2>1. m2 \in Machine
      BY <1>25 DEF stopConsole
    <2>2. m2' \in Machine
      BY <1>25, <2>1, MachineEdits, MachineFields DEF stopConsole, State
    <2> QED BY <1>25, <2>2 DEF TypeOK, stopConsole, PodRef
  <1>26. CASE stopStatus
    BY <1>26, UpdateType DEF TypeOK, stopStatus, EndSync
  <1>27. CASE setTerminating
    BY <1>27, MachineEdits, UpdateType
       DEF TypeOK, setTerminating, EndSync, State
  <1>28. CASE terminatePods
    BY <1>28, DeletePodsType DEF TypeOK, terminatePods
  <1>29. CASE terminateConsole
    BY <1>29 DEF TypeOK, terminateConsole, PodRef
  <1>30. CASE terminateService
    BY <1>30 DEF TypeOK, terminateService, EndSync, Goto
  <1>31. CASE removeFinalizer
    BY <1>31 DEF TypeOK, removeFinalizer, EndSync
  <1>32. CASE JobPodCreated
    <2>1. job \in Job
      BY <1>32 DEF TypeOK, JobPodCreated
    <2>2. job' \in Job
      BY <1>32, <2>1, JobEdits DEF JobPodCreated
    <2> QED BY <1>32, <2>2 DEF TypeOK, JobPodCreated
  <1>33. CASE GuestMoves
    <2>1. guests' \subseteq PodName
      BY <1>33 DEF TypeOK, GuestMoves
    <2> QED BY <1>33, <2>1 DEF TypeOK, GuestMoves
  <1>34. CASE JobSucceeds
    <2>1. job \in Job
      BY <1>34 DEF TypeOK, JobSucceeds, JobRuns
    <2>2. job' \in Job
      BY <1>34, <2>1, JobEdits DEF JobSucceeds
    <2> QED BY <1>34, <2>2 DEF TypeOK, JobSucceeds
  <1>35. CASE JobCollected
    BY <1>35 DEF TypeOK, JobCollected
  <1>36. CASE DeliverMachine
    BY <1>36 DEF TypeOK, DeliverMachine
  <1>37. CASE DeliverPods
    BY <1>37, SnapshotType DEF TypeOK, DeliverPods
  <1>38. CASE DeliverJob
    BY <1>38 DEF TypeOK, DeliverJob
  <1>39. CASE DeliverService
    BY <1>39 DEF TypeOK, DeliverService
  <1>40. ASSUME NEW p \in PodName, SchedulePod(p) PROVE TypeOK'
    <2>1. pods[p] \in Pod
      BY <1>40 DEF TypeOK, SchedulePod, Waiting
    <2>2. PICK n \in Node :
            pods' = [pods EXCEPT ![p] = [@ EXCEPT !.node = n, !.unsched = FALSE]]
      BY <1>40 DEF SchedulePod
    <2>3. [pods[p] EXCEPT !.node = n, !.unsched = FALSE] \in Pod
      BY <2>1, PodEdits
    <2>4. pods' \in [PodName -> Pod \cup {None}]
      BY <2>2, <2>3 DEF TypeOK
    <2> QED BY <1>40, <2>4 DEF TypeOK, SchedulePod
  <1>41. ASSUME NEW p \in PodName, PodUnschedulable(p) PROVE TypeOK'
    <2>1. pods[p] \in Pod
      BY <1>41 DEF TypeOK, PodUnschedulable, Waiting
    <2>2. pods' \in [PodName -> Pod \cup {None}]
      BY <1>41, <2>1, PodEdits DEF TypeOK, PodUnschedulable, Waiting
    <2> QED BY <1>41, <2>2 DEF TypeOK, PodUnschedulable
  <1>42. ASSUME NEW p \in PodName, PodReady(p) PROVE TypeOK'
    <2>1. pods[p] \in Pod
      BY <1>42 DEF TypeOK, PodReady
    <2>2. pods' \in [PodName -> Pod \cup {None}]
      BY <1>42, <2>1, PodEdits DEF TypeOK, PodReady
    <2> QED BY <1>42, <2>2 DEF TypeOK, PodReady
  <1>43. ASSUME NEW p \in PodName, PodGone(p) PROVE TypeOK'
    <2>1. pods' \in [PodName -> Pod \cup {None}]
      BY <1>43, PodEdits DEF TypeOK, PodGone
    <2>2. console' \in PodRef
      BY <1>43 DEF TypeOK, PodGone, PodRef
    <2>3. job' \in Job \cup {None}
      <3>1. CASE job = None
        BY <1>43, <3>1 DEF PodGone
      <3>2. CASE job # None
        BY <1>43, <3>2, JobEdits DEF TypeOK, PodGone, PodRef
      <3> QED BY <3>1, <3>2
    <2> QED BY <1>43, <2>1, <2>2, <2>3 DEF TypeOK, PodGone
  <1>44. CASE instanceCreate
    <2> HIDE DEF Label
    <2>1. vm' \in Machine
      BY <1>44, ConstantsAssumption
         DEF instanceCreate, NewMachine, Machine, State, MaybeNode
    <2>2. requests' \in 0..MaxRequests
      BY <1>44, RequestType DEF instanceCreate
    <2> QED BY ZenonT(40), <1>44, <2>1, <2>2 DEF TypeOK, instanceCreate, Overtake
  <1>45. CASE InstanceUpdate
    <2> HIDE DEF Label
    <2>0. PICK a \in ActionChoices, n \in NodeChoices, v \in NovncChoices :
            vm' = [vm EXCEPT !.action = a, !.node = n, !.novnc = v]
      BY <1>45 DEF InstanceUpdate
    <2>1. vm' \in Machine
      <3>1. vm \in Machine
        BY <1>45 DEF TypeOK, InstanceUpdate
      <3>2. a \in Action /\ v \in BOOLEAN
        BY ConstantsAssumption
      <3> QED BY <2>0, <3>1, <3>2, MachineEdits
    <2>2. requests' \in 0..MaxRequests
      BY <1>45, RequestType DEF InstanceUpdate
    <2> QED BY ZenonT(40), <1>45, <2>1, <2>2 DEF TypeOK, InstanceUpdate, Overtake
  <1>46. CASE InstanceDelete
    <2> HIDE DEF Label
    <2>1. vm' \in Machine \cup {None}
      BY <1>46, MachineEdits DEF TypeOK, InstanceDelete
    <2>2. requests' \in 0..MaxRequests
      BY <1>46, RequestType DEF InstanceDelete
    <2> QED BY ZenonT(40), <1>46, <2>1, <2>2 DEF TypeOK, InstanceDelete, Overtake
  <1>47. CASE apiError
    <2>1. requests' \in 0..MaxRequests /\ faults' \in 0..MaxFaults
      BY <1>47, FaultType DEF apiError
    <2>2. CASE EndSync
      BY <1>47, <2>1, <2>2 DEF TypeOK, apiError, EndSync
    <2>3. CASE pc' \in Label /\ UNCHANGED local /\ UNCHANGED mCur
      BY <1>47, <2>1, <2>3 DEF TypeOK, apiError
    <2>4. EndSync \/ (pc' \in Label /\ UNCHANGED local /\ UNCHANGED mCur)
      BY <1>47 DEF TypeOK, apiError, Goto, Resume
    <2> QED BY <2>2, <2>3, <2>4
  <1>48. CASE apiErrorInStop
    <2>1. requests' \in 0..MaxRequests /\ faults' \in 0..MaxFaults
      BY <1>48, FaultType DEF apiErrorInStop
    <2>2. m2 \in Machine
      BY <1>48 DEF apiErrorInStop
    <2>3. m2' \in Machine
      BY <1>48, <2>2, MachineEdits DEF apiErrorInStop, State
    <2> QED BY <1>48, <2>1, <2>3 DEF TypeOK, apiErrorInStop
  <1>49. CASE apiErrorInTeardown
    <2>1. requests' \in 0..MaxRequests /\ faults' \in 0..MaxFaults
      BY <1>49, FaultType DEF apiErrorInTeardown
    <2> QED BY ZenonT(40), <1>49, <2>1 DEF TypeOK, apiErrorInTeardown, EndSync
  <1>50. CASE Crash
    <2>1. requests' \in 0..MaxRequests /\ faults' \in 0..MaxFaults
      BY <1>50, FaultType DEF Crash
    <2>2. /\ podCache' \in PodList /\ jobCache' \in Job \cup {None}
          /\ svcCache' \in BOOLEAN
      BY <1>50, SnapshotType DEF TypeOK, Crash
    <2> QED BY <1>50, <2>1, <2>2 DEF TypeOK, Crash, EndSync
  <1>51. CASE JobFails
    <2>1. requests' \in 0..MaxRequests /\ faults' \in 0..MaxFaults
      BY <1>51, FaultType DEF JobFails
    <2>2. job \in Job
      BY <1>51 DEF TypeOK, JobFails, JobRuns
    <2>3. job' \in Job
      BY <1>51, <2>2, JobEdits DEF JobFails
    <2> QED BY <1>51, <2>1, <2>3 DEF TypeOK, JobFails
  <1>52. CASE ipWrite
    <2> HIDE DEF Label
    <2>1. requests' \in 0..MaxRequests /\ faults' \in 0..MaxFaults
      BY <1>52, FaultType DEF ipWrite
    <2> QED BY ZenonT(40), <1>52, <2>1 DEF TypeOK, ipWrite, Overtake
  <1>53. ASSUME NEW p \in PodName, PodEvicted(p) PROVE TypeOK'
    <2>1. requests' \in 0..MaxRequests /\ faults' \in 0..MaxFaults
      BY <1>53, FaultType DEF PodEvicted
    <2>2. pods' \in [PodName -> Pod \cup {None}]
      BY <1>53, DeletePodType DEF PodEvicted
    <2> QED BY <1>53, <2>1, <2>2 DEF TypeOK, PodEvicted
  <1> QED
    BY <1>1, <1>2, <1>3, <1>4, <1>5, <1>6, <1>7, <1>8, <1>9, <1>10, <1>11,
       <1>12, <1>13, <1>14, <1>15, <1>16, <1>17, <1>18, <1>19, <1>20, <1>21,
       <1>22, <1>23, <1>24, <1>25, <1>26, <1>27, <1>28, <1>29, <1>30, <1>31,
       <1>32, <1>33, <1>34, <1>35, <1>36, <1>37, <1>38, <1>39, <1>40, <1>41,
       <1>42, <1>43, <1>44, <1>45, <1>46, <1>47, <1>48, <1>49, <1>50, <1>51,
       <1>52, <1>53
       DEF Next, machineWorker, startStep, migrateStep, stopStep,
           terminateStep, userStep, podStep, jobStep, deliverStep, faultStep

\* The conjuncts of IndInv are expanded wherever IndInv is.
USE DEF CopiesOK, CopyOK, VersionsAgree, SyncMatchesCopy,
        NothingBeforePrepare, TerminatingSeen, TeardownFindings, CanRun

\* w differs from v in its Status only.
SameObject(v, w) == /\ w.prepared = v.prepared /\ w.deleting = v.deleting
                    /\ UserSpec(w) = UserSpec(v)

\* Assignments to Status change neither the Spec nor the metadata.
LEMMA StatusEdits ==
  ASSUME NEW v \in Machine
  PROVE  /\ \A s \in State : /\ SameObject(v, [v EXCEPT !.state = s])
                             /\ [v EXCEPT !.state = s].state = s
         /\ \A s \in State, n \in MaybeNode :
               /\ SameObject(v, [v EXCEPT !.state = s, !.snode = n])
               /\ [v EXCEPT !.state = s, !.snode = n].state = s
         /\ \A n \in MaybeNode : /\ SameObject(v, [v EXCEPT !.vnc = n])
                                 /\ [v EXCEPT !.vnc = n].state = v.state
         /\ v.action = "start" => [v EXCEPT !.action = "start"] = v
  BY DEF Machine, SameObject, UserSpec

\* updateMachineStatusWithPod writes Status only, and never StateTerminating.
LEMMA StatusWithPodEdits ==
  ASSUME NEW v \in Machine, NEW p \in Pod
  PROVE  /\ SameObject(v, StatusWithPod(v, p))
         /\ StatusWithPod(v, p).state \in {"stopping", "running", "pending"}
  BY DEF Machine, SameObject, UserSpec, StatusWithPod

\* A status write that ends the sync keeps the invariant, be it accepted or
\* refused: setTerminating, migrateRollbackState, and failed writes of start().
LEMMA WriteEnd ==
  ASSUME TypeOK, IndInv, pc # "idle",
         NEW new \in Machine, SameObject(m, new),
         new.state = "terminating" => m.deleting,
         updateMachineStatus(new), EndSync, UNCHANGED <<api, caches>>
  PROVE  IndInv'
  BY SentinelAssumption DEF SameObject, updateMachineStatus, EndSync, IndInv

\* A status write after which start() goes on keeps the invariant.
LEMMA WriteGo ==
  ASSUME TypeOK, IndInv, pc \in StartLabels, pc' \in StartLabels,
         NEW new \in Machine, SameObject(m, new), new.state # "terminating",
         updateMachineStatus(new), mCur' = (mCur /\ new = m),
         m' = m \/ m' = new, m2' = m2, then' # "tmFinal",
         UNCHANGED <<api, caches>>
  PROVE  IndInv'
  <1>1. /\ m \in Machine /\ CanRun(m) /\ m.action = "start"
        /\ new # None /\ m.state # "terminating"
    BY SentinelAssumption DEF TypeOK, IndInv
  <1>2. CanRun(m') /\ m'.action = "start" /\ m'.state # "terminating"
    BY <1>1 DEF SameObject, UserSpec
  <1>3. CASE vm' = vm
    BY <1>1, <1>2, <1>3 DEF updateMachineStatus, IndInv
  <1>4. CASE vm' = new /\ mCur /\ new # m
    BY <1>1, <1>2, <1>4 DEF updateMachineStatus, SameObject, IndInv
  <1> QED BY <1>3, <1>4 DEF updateMachineStatus

\* A step of stop() that only collects its result in machine2 keeps it.
LEMMA StopGo ==
  ASSUME TypeOK, IndInv, pc \in StopLabels, pc' \in StopLabels,
         m2 \in Machine, m2' \in Machine, SameObject(m2, m2'),
         m2'.state # "terminating",
         UNCHANGED <<vm, cacheCur, vmCache, m, mCur, then, svc>>,
         console' = None \/ console' = console
  PROVE  IndInv'
  BY MachineFields DEF SameObject, IndInv

\* A step of the cluster or of an informer that changes neither the machine nor
\* the sync, and brings no console back, keeps the invariant.
LEMMA SyncUntouched ==
  ASSUME IndInv, svc' = svc, console = None => console' = None,
         UNCHANGED <<vm, cacheCur, vmCache, pc, m, m2, mCur, then>>
  PROVE  IndInv'
  BY DEF IndInv

\* Every step keeps the inductive invariant.
LEMMA IndStep ==
  ASSUME TypeOK, IndInv, Next
  PROVE  IndInv'
  <1> pc # "idle" => m \in Machine /\ m2 \in Machine
    BY DEF TypeOK, IndInv
  <1>1. CASE process
    BY <1>1, SentinelAssumption DEF process, Dispatch, TypeOK, Machine, IndInv
  <1>2. CASE prepareMachine
    BY <1>2, SentinelAssumption
       DEF prepareMachine, EndSync, updateMachineStatus, TypeOK, Machine,
           IndInv
  <1>3. CASE updateMachinePodCreate
    BY <1>3, SentinelAssumption
       DEF updateMachinePodCreate, AfterPod, TypeOK, Machine, IndInv
  <1>4. CASE updateMachinePodCreated
    <2> DEFINE new == [m EXCEPT !.state = "pending"]
    <2>1. m \in Machine /\ pc \in StartLabels
      BY <1>4 DEF updateMachinePodCreated
    <2>2. new \in Machine /\ SameObject(m, new) /\ new.state = "pending"
      BY <2>1, MachineEdits, StatusEdits DEF State
    <2>3. CASE Accepted(new)
      <3>1. /\ updateMachineStatus(new) /\ mCur' = (mCur /\ new = m)
            /\ pc' = "console" /\ UNCHANGED local /\ UNCHANGED <<api, caches>>
        BY <1>4, <2>3 DEF updateMachinePodCreated, UpdateThen, Goto
      <3>2. then' # "tmFinal" /\ pc' \in StartLabels
        BY <2>1, <3>1 DEF IndInv
      <3> QED BY <2>1, <2>2, <3>1, <3>2, WriteGo
    <2>4. CASE ~Accepted(new)
      <3>1. updateMachineStatus(new) /\ EndSync /\ UNCHANGED <<api, caches>>
        BY <1>4, <2>4 DEF updateMachinePodCreated, UpdateThen
      <3> QED BY <1>4, <2>2, <3>1, WriteEnd DEF updateMachinePodCreated
    <2> QED BY <2>3, <2>4
  <1>5. CASE updateMachinePodStatus
    <2>1. PICK p \in PodName :
            /\ AliveView = {p}
            /\ UpdateThen(StatusWithPod(m, PodView.pods[p]),
                   /\ pc' = "console" /\ pod' = p
                   /\ then' = AfterPod(m, PodView.pods[p])
                   /\ UNCHANGED <<m, m2, peer>>)
      BY <1>5 DEF updateMachinePodStatus
    <2> DEFINE new == StatusWithPod(m, PodView.pods[p])
    <2>2. m \in Machine /\ pc \in StartLabels /\ PodView.pods[p] \in Pod
      BY <1>5, <2>1, ViewTypes
         DEF updateMachinePodStatus, AliveView, GetAlivePods
    <2>3. new \in Machine /\ SameObject(m, new) /\ new.state # "terminating"
      BY <2>2, StatusWithPodType, StatusWithPodEdits
    <2>4. updateMachineStatus(new) /\ UNCHANGED <<api, caches>>
      BY <1>5, <2>1 DEF updateMachinePodStatus, UpdateThen
    <2>5. CASE Accepted(new)
      <3>1. /\ mCur' = (mCur /\ new = m) /\ m' = m /\ m2' = m2
            /\ pc' = "console" /\ then' = AfterPod(m, PodView.pods[p])
        BY <2>1, <2>5 DEF UpdateThen
      <3>2. then' # "tmFinal" /\ pc' \in StartLabels
        BY <3>1 DEF AfterPod
      <3> QED BY <2>2, <2>3, <2>4, <3>1, <3>2, WriteGo
    <2>6. CASE ~Accepted(new)
      <3>1. EndSync
        BY <2>1, <2>6 DEF UpdateThen
      <3> QED BY <1>5, <2>3, <2>4, <3>1, WriteEnd DEF updateMachinePodStatus
    <2> QED BY <2>5, <2>6
  <1>6. CASE updateMachinePodMany
    BY <1>6, SentinelAssumption
       DEF updateMachinePodMany, EndSync, Goto, TypeOK, Machine, IndInv
  <1>7. CASE updateNovncPod
    BY <1>7, SentinelAssumption
       DEF updateNovncPod, Goto, TypeOK, Machine, IndInv
  <1>8. CASE updateNovncService
    BY <1>8, SentinelAssumption
       DEF updateNovncService, EndSync, Goto, Resume, TypeOK, Machine, IndInv
  <1>9. CASE updateNovncEndpoint
    <2> DEFINE addr == IF ~m.novnc THEN None
                       ELSE IF m.sip = None THEN m.vnc ELSE m.sip
               new == [m EXCEPT !.vnc = addr]
    <2>1. m \in Machine /\ pc \in StartLabels
      BY <1>9 DEF updateNovncEndpoint
    <2>2. new \in Machine /\ SameObject(m, new) /\ new.state = m.state
      <3>1. addr \in MaybeNode
        BY <2>1, MachineFields DEF MaybeNode
      <3> HIDE DEF addr
      <3> QED BY <2>1, <3>1, MachineEdits, StatusEdits
    <2>3. m.state # "terminating" /\ ~m.deleting /\ then # "tmFinal"
      BY <2>1 DEF IndInv
    <2>4. updateMachineStatus(new) /\ UNCHANGED <<api, caches>>
      BY <1>9 DEF updateNovncEndpoint
    <2>5. CASE then = "idle"
      <3>1. EndSync
        BY <1>9, <2>5 DEF updateNovncEndpoint
      <3> QED BY <1>9, <2>2, <2>3, <2>4, <3>1, WriteEnd
                 DEF updateNovncEndpoint
    <2>6. CASE then # "idle"
      <3>1. /\ mCur' = (mCur /\ new = m) /\ m' = m /\ m2' = m2
            /\ pc' = then /\ then' = then
        BY <1>9, <2>6 DEF updateNovncEndpoint, Goto
      <3>2. then' # "tmFinal" /\ pc' \in StartLabels
        BY <2>3, <2>6, <3>1 DEF TypeOK
      <3> QED BY <2>1, <2>2, <2>3, <2>4, <3>1, <3>2, WriteGo
    <2> QED BY <2>5, <2>6
  <1>10. CASE deleteUnschedulablePod
    BY <1>10, SentinelAssumption
       DEF deleteUnschedulablePod, EndSync, TypeOK, Machine, IndInv
  <1>11. CASE migrateMachine
    <2> DEFINE new == [m EXCEPT !.state = "migrating"]
    <2>1. m \in Machine /\ pc \in StartLabels
      BY <1>11 DEF migrateMachine
    <2>2. new \in Machine /\ SameObject(m, new) /\ new.state = "migrating"
      BY <2>1, MachineEdits, StatusEdits DEF State
    <2>3. updateMachineStatus(new) /\ UNCHANGED <<api, caches>>
      BY <1>11 DEF migrateMachine, UpdateThen
    <2>4. CASE Accepted(new)
      <3>1. /\ mCur' = (mCur /\ new = m) /\ m' = new /\ m2' = m2
            /\ pc' = "target" /\ then' = then
        BY <1>11, <2>4 DEF migrateMachine, UpdateThen
      <3>2. then' # "tmFinal" /\ pc' \in StartLabels
        BY <2>1, <3>1 DEF IndInv
      <3> QED BY <2>1, <2>2, <2>3, <3>1, <3>2, WriteGo
    <2>5. CASE ~Accepted(new)
      <3>1. EndSync
        BY <1>11, <2>5 DEF migrateMachine, UpdateThen
      <3> QED BY <1>11, <2>2, <2>3, <3>1, WriteEnd DEF migrateMachine
    <2> QED BY <2>4, <2>5
  <1>12. CASE startMigrateTargetPod
    BY <1>12, SentinelAssumption
       DEF startMigrateTargetPod, EndSync, TypeOK, Machine, IndInv
  <1>13. CASE strangeNumberOfPods
    BY <1>13, SentinelAssumption
       DEF strangeNumberOfPods, EndSync, TypeOK, Machine, IndInv
  <1>14. CASE migrateRollbackJob
    BY <1>14, SentinelAssumption
       DEF migrateRollbackJob, TypeOK, Machine, IndInv
  <1>15. CASE migrateRollbackPod
    BY <1>15, SentinelAssumption
       DEF migrateRollbackPod, Goto, TypeOK, Machine, IndInv
  <1>16. CASE migrateRollbackState
    <2> DEFINE new == [m EXCEPT !.state = "running"]
    <2>1. m \in Machine /\ pc # "idle"
      BY <1>16 DEF migrateRollbackState
    <2>2. new \in Machine /\ SameObject(m, new) /\ new.state = "running"
      BY <2>1, MachineEdits, StatusEdits DEF State
    <2>3. updateMachineStatus(new) /\ EndSync /\ UNCHANGED <<api, caches>>
      BY <1>16 DEF migrateRollbackState
    <2> QED BY <2>1, <2>2, <2>3, WriteEnd
  <1>17. CASE waitForMigration
    BY <1>17, SentinelAssumption
       DEF waitForMigration, EndSync, TypeOK, Machine, IndInv
  <1>18. CASE runMigrationJob
    BY <1>18, SentinelAssumption
       DEF runMigrationJob, EndSync, TypeOK, Machine, IndInv
  <1>19. CASE migrationCleanupStatus
    <2>1. PICK p \in PodName, q \in PodName :
            /\ OldNew(p, q)
            /\ UpdateThen(StatusWithPod([m EXCEPT !.action = "start"],
                                        PodView.pods[q]),
                   /\ pc' = "clPod" /\ pod' = p /\ peer' = q
                   /\ UNCHANGED <<m, m2, then>>)
      BY <1>19 DEF migrationCleanupStatus
    <2> DEFINE new == StatusWithPod([m EXCEPT !.action = "start"],
                                    PodView.pods[q])
    <2>2. m \in Machine /\ pc \in StartLabels /\ PodView.pods[q] \in Pod
      BY <1>19, <2>1, ViewTypes
         DEF migrationCleanupStatus, OldNew, AliveView, GetAlivePods
    <2>3. [m EXCEPT !.action = "start"] = m
      BY <2>2, StatusEdits DEF IndInv
    <2>4. new \in Machine /\ SameObject(m, new) /\ new.state # "terminating"
      BY <2>2, <2>3, StatusWithPodType, StatusWithPodEdits
    <2>5. updateMachineStatus(new) /\ UNCHANGED <<api, caches>>
      BY <1>19, <2>1 DEF migrationCleanupStatus, UpdateThen
    <2>6. CASE Accepted(new)
      <3>1. /\ mCur' = (mCur /\ new = m) /\ m' = m /\ m2' = m2
            /\ pc' = "clPod" /\ then' = then
        BY <2>1, <2>6 DEF UpdateThen
      <3>2. then' # "tmFinal" /\ pc' \in StartLabels
        BY <2>2, <3>1 DEF IndInv
      <3> QED BY <2>2, <2>4, <2>5, <3>1, <3>2, WriteGo
    <2>7. CASE ~Accepted(new)
      <3>1. EndSync
        BY <2>1, <2>7 DEF UpdateThen
      <3> QED BY <1>19, <2>4, <2>5, <3>1, WriteEnd DEF migrationCleanupStatus
    <2> QED BY <2>6, <2>7
  <1>20. CASE migrationCleanupPod
    BY <1>20, SentinelAssumption
       DEF migrationCleanupPod, EndSync, Goto, TypeOK, Machine, IndInv
  <1>21. CASE migrationCleanupJob
    BY <1>21, SentinelAssumption
       DEF migrationCleanupJob, EndSync, Goto, TypeOK, Machine, IndInv
  <1>22. CASE migrationCleanupConsole
    BY <1>22, SentinelAssumption
       DEF migrationCleanupConsole, EndSync, TypeOK, Machine, IndInv
  <1>23. CASE stopPods
    <2>1. m2 \in Machine /\ m2.state # "terminating" /\ pc \in StopLabels
      BY <1>23 DEF stopPods, IndInv
    <2>2. m2' \in Machine /\ SameObject(m2, m2') /\ m2'.state # "terminating"
      <3>1. CASE ListsPods
        <4>1. m2' = [m2 EXCEPT !.state = "stopping"]
          BY <1>23, <3>1 DEF stopPods
        <4> QED BY <2>1, <4>1, MachineEdits, StatusEdits DEF State
      <3>2. CASE ~ListsPods
        <4>1. m2' = [m2 EXCEPT !.state = "stopped", !.snode = None]
          BY <1>23, <3>2 DEF stopPods
        <4> QED BY ZenonT(40), <2>1, <4>1, MachineEdits, StatusEdits DEF State, MaybeNode
      <3> QED BY <3>1, <3>2
    <2>3. /\ pc' \in StopLabels
          /\ UNCHANGED <<vm, cacheCur, vmCache, m, mCur, then, svc>>
          /\ console' = None \/ console' = console
      BY <1>23 DEF stopPods, deleteMachinePods
    <2> QED BY <2>1, <2>2, <2>3, StopGo
  <1>24. CASE stopJob
    <2>1. m2 \in Machine /\ m2.state # "terminating" /\ pc \in StopLabels
      BY <1>24 DEF stopJob, IndInv
    <2>2. m2' \in Machine /\ SameObject(m2, m2') /\ m2'.state # "terminating"
      BY ZenonT(40), <1>24, <2>1, MachineEdits, MachineFields, StatusEdits
         DEF stopJob, State, MaybeNode
    <2>3. /\ pc' \in StopLabels
          /\ UNCHANGED <<vm, cacheCur, vmCache, m, mCur, then, svc>>
          /\ console' = None \/ console' = console
      BY <1>24 DEF stopJob
    <2> QED BY <2>1, <2>2, <2>3, StopGo
  <1>25. CASE stopConsole
    <2>1. m2 \in Machine /\ m2.state # "terminating" /\ pc \in StopLabels
      BY <1>25 DEF stopConsole, IndInv
    <2>2. m2' \in Machine /\ SameObject(m2, m2') /\ m2'.state # "terminating"
      BY ZenonT(40), <1>25, <2>1, MachineEdits, MachineFields, StatusEdits
         DEF stopConsole, State, MaybeNode
    <2>3. /\ pc' \in StopLabels
          /\ UNCHANGED <<vm, cacheCur, vmCache, m, mCur, then, svc>>
          /\ console' = None \/ console' = console
      BY <1>25 DEF stopConsole
    <2> QED BY <2>1, <2>2, <2>3, StopGo
  <1>26. CASE stopStatus
    BY <1>26, SentinelAssumption
       DEF stopStatus, EndSync, updateMachineStatus, TypeOK, Machine, IndInv
  <1>27. CASE setTerminating
    <2> DEFINE new == [m EXCEPT !.state = "terminating"]
    <2>1. m \in Machine /\ pc # "idle"
      BY <1>27 DEF setTerminating
    <2>2. new \in Machine /\ SameObject(m, new) /\ new.state = "terminating"
      BY <2>1, MachineEdits, StatusEdits DEF State
    <2>3. updateMachineStatus(new) /\ EndSync /\ UNCHANGED <<api, caches>>
      BY <1>27 DEF setTerminating
    <2>4. m.deleting
      BY <1>27 DEF setTerminating, IndInv
    <2> QED BY <2>1, <2>2, <2>3, <2>4, WriteEnd
  <1>28. CASE terminatePods
    BY <1>28, SentinelAssumption
       DEF terminatePods, deleteMachinePods, TypeOK, Machine, IndInv
  <1>29. CASE terminateConsole
    BY <1>29, SentinelAssumption DEF terminateConsole, TypeOK, Machine, IndInv
  <1>30. CASE terminateService
    <2>1. CASE svc \/ then # "tmFinal"
      BY <1>30, <2>1 DEF terminateService, EndSync, IndInv
    <2>2. CASE ~svc /\ then = "tmFinal"
      BY <1>30, <2>2 DEF terminateService, Goto, IndInv
    <2> QED BY <2>1, <2>2
  <1>31. CASE removeFinalizer
    BY <1>31, SentinelAssumption
       DEF removeFinalizer, EndSync, TypeOK, Machine, IndInv
  <1>32. CASE instanceCreate
    BY <1>32, SentinelAssumption
       DEF instanceCreate, Overtake, NewMachine, TypeOK, Machine, IndInv
  <1>33. CASE InstanceUpdate
    <2>1. PICK a \in ActionChoices, n \in NodeChoices, v \in NovncChoices :
            vm' = [vm EXCEPT !.action = a, !.node = n, !.novnc = v]
      BY <1>33 DEF InstanceUpdate
    <2>2. vm \in Machine
      BY <1>33 DEF TypeOK, InstanceUpdate
    <2>3. /\ vm' # None /\ vm'.prepared = vm.prepared
          /\ vm'.deleting = vm.deleting /\ vm'.state = vm.state
      <3>1. a \in Action /\ v \in BOOLEAN
        BY ConstantsAssumption
      <3>2. vm' # None
        BY <2>1, <2>2, <3>1, MachineEdits, MachineFields
      <3> QED BY <2>1, <2>2, <3>2 DEF Machine
    <2> QED
      BY <1>33, <2>2, <2>3 DEF InstanceUpdate, Overtake, IndInv
  <1>34. CASE InstanceDelete
    <2>1. vm \in Machine
      BY <1>34 DEF TypeOK, InstanceDelete
    <2>2. CASE vm.prepared
      <3>1. /\ vm' # None /\ vm'.prepared /\ vm'.deleting
            /\ vm'.state = vm.state
        BY ZenonT(40), <1>34, <2>1, <2>2, MachineEdits, MachineFields
           DEF InstanceDelete, Machine
      <3> QED
        BY <1>34, <2>1, <2>2, <3>1 DEF InstanceDelete, Overtake, IndInv
    <2>3. CASE ~vm.prepared
      BY <1>34, <2>1, <2>3 DEF InstanceDelete, Overtake, IndInv
    <2> QED BY <2>2, <2>3
  <1>38. CASE DeliverMachine
    BY <1>38, SentinelAssumption DEF DeliverMachine, TypeOK, Machine, IndInv
  <1>39. CASE apiError
    BY <1>39, SentinelAssumption
       DEF apiError, EndSync, Goto, Resume, AbortLabels, TypeOK, Machine,
           IndInv
  <1>40. CASE apiErrorInStop
    <2>1. m2 \in Machine /\ m2.state # "terminating" /\ pc \in StopLabels
      BY <1>40 DEF apiErrorInStop, IndInv
    <2>2. m2' \in Machine /\ SameObject(m2, m2') /\ m2'.state # "terminating"
      BY <1>40, <2>1, MachineEdits, MachineFields, StatusEdits
         DEF apiErrorInStop, State, MaybeNode
    <2>3. /\ pc' \in StopLabels
          /\ UNCHANGED <<vm, cacheCur, vmCache, m, mCur, then, svc>>
          /\ console' = None \/ console' = console
      BY <1>40 DEF apiErrorInStop
    <2> QED BY <2>1, <2>2, <2>3, StopGo
  <1>41. CASE apiErrorInTeardown
    BY <1>41, SentinelAssumption
       DEF apiErrorInTeardown, EndSync, TypeOK, Machine, IndInv
  <1>42. CASE Crash
    BY <1>42, SentinelAssumption DEF Crash, EndSync, TypeOK, Machine, IndInv
  <1>43. CASE ipWrite
    BY <1>43, SentinelAssumption
       DEF ipWrite, Overtake, TypeOK, Machine, IndInv
  <1>35. CASE \E p \in PodName : podStep(p) \/ PodEvicted(p)
    <2>1. PICK p \in PodName : podStep(p) \/ PodEvicted(p)
      BY <1>35
    <2>2. /\ UNCHANGED <<vm, cacheCur, vmCache, pc, m, m2, mCur, then, svc>>
          /\ console = None => console' = None
      BY <2>1, SentinelAssumption
         DEF podStep, SchedulePod, PodUnschedulable, PodReady, PodGone,
             PodEvicted
    <2> QED BY <2>2, SyncUntouched
  <1>36. CASE jobStep \/ JobFails
    BY <1>36, SyncUntouched
       DEF jobStep, JobPodCreated, GuestMoves, JobSucceeds, JobCollected,
           JobFails
  <1>37. CASE DeliverPods \/ DeliverJob \/ DeliverService
    BY <1>37, SyncUntouched DEF DeliverPods, DeliverJob, DeliverService
  <1> QED
    BY <1>1, <1>2, <1>3, <1>4, <1>5, <1>6, <1>7, <1>8, <1>9, <1>10, <1>11,
       <1>12, <1>13, <1>14, <1>15, <1>16, <1>17, <1>18, <1>19, <1>20, <1>21,
       <1>22, <1>23, <1>24, <1>25, <1>26, <1>27, <1>28, <1>29, <1>30, <1>31,
       <1>32, <1>33, <1>34, <1>35, <1>36, <1>37, <1>38, <1>39, <1>40, <1>41,
       <1>42, <1>43
       DEF Next, machineWorker, startStep, migrateStep, stopStep,
           terminateStep, userStep, podStep, jobStep, deliverStep, faultStep

\* A step of the worker leaves the user's Spec as it was: an accepted Update was
\* computed from the current object, and the edits are to Status or finalizers.
LEMMA SpecStep ==
  ASSUME TypeOK, IndInv, Next, pc' # pc, vm # None, vm' # None
  PROVE  UserSpec(vm') = UserSpec(vm)
  <1>a. pc # "idle" => m \in Machine /\ m2 \in Machine
    BY DEF TypeOK, IndInv
  <1>b. mCur => m = vm
    BY DEF IndInv
  <1>1. CASE prepareMachine
    BY <1>a, <1>b, <1>1
       DEF prepareMachine, updateMachineStatus, Machine, UserSpec
  <1>2. CASE updateMachinePodCreated
    BY <1>a, <1>b, <1>2
       DEF updateMachinePodCreated, UpdateThen, updateMachineStatus, Machine,
           UserSpec
  <1>3. CASE updateMachinePodStatus
    BY <1>a, <1>b, <1>3
       DEF updateMachinePodStatus, UpdateThen, updateMachineStatus,
           StatusWithPod, Machine, UserSpec
  <1>4. CASE updateNovncEndpoint
    BY <1>a, <1>b, <1>4
       DEF updateNovncEndpoint, updateMachineStatus, Machine, UserSpec
  <1>5. CASE migrateMachine
    BY <1>a, <1>b, <1>5
       DEF migrateMachine, UpdateThen, updateMachineStatus, Machine, UserSpec
  <1>6. CASE migrateRollbackState
    BY <1>a, <1>b, <1>6
       DEF migrateRollbackState, updateMachineStatus, Machine, UserSpec
  <1>7. CASE setTerminating
    BY <1>a, <1>b, <1>7
       DEF setTerminating, updateMachineStatus, Machine, UserSpec
  <1>8. CASE removeFinalizer
    BY <1>a, <1>b, <1>8 DEF removeFinalizer, Machine, UserSpec
  <1>9. CASE migrationCleanupStatus
    <2>1. m \in Machine /\ m.action = "start"
      BY <1>a, <1>9 DEF migrationCleanupStatus, IndInv
    <2> QED
      BY <1>b, <1>9, <2>1
         DEF migrationCleanupStatus, UpdateThen, updateMachineStatus,
             StatusWithPod, Machine, UserSpec
  <1>10. CASE stopStatus
    <2>1. UserSpec(m2) = UserSpec(m)
      BY <1>10 DEF stopStatus, IndInv
    <2> QED BY <1>b, <1>10, <2>1 DEF stopStatus, updateMachineStatus
  <1>w. CASE process \/ updateMachinePodCreate \/ updateMachinePodMany \/
            updateNovncPod \/ updateNovncService \/ deleteUnschedulablePod \/
            startMigrateTargetPod \/ strangeNumberOfPods \/ migrateRollbackJob
            \/ migrateRollbackPod \/ waitForMigration \/ runMigrationJob \/
            migrationCleanupPod \/ migrationCleanupJob \/
            migrationCleanupConsole \/ stopPods \/ stopJob \/ stopConsole \/
            terminatePods \/ terminateConsole \/ terminateService
    BY <1>w
       DEF process, updateMachinePodCreate, updateMachinePodMany,
           updateNovncPod, updateNovncService, deleteUnschedulablePod,
           startMigrateTargetPod, strangeNumberOfPods, migrateRollbackJob,
           migrateRollbackPod, waitForMigration, runMigrationJob,
           migrationCleanupPod, migrationCleanupJob, migrationCleanupConsole,
           stopPods, stopJob, stopConsole, terminatePods, terminateConsole,
           terminateService
  <1>f. CASE faultStep
    BY <1>f
       DEF faultStep, apiError, apiErrorInStop, apiErrorInTeardown, Crash,
           PodEvicted, JobFails, ipWrite
  <1>u. CASE userStep
    BY <1>u DEF userStep, instanceCreate, InstanceUpdate, InstanceDelete
  <1>e. CASE (\E p \in PodName : podStep(p)) \/ jobStep \/ deliverStep
    BY <1>e
       DEF podStep, SchedulePod, PodUnschedulable, PodReady, PodGone, jobStep,
           JobPodCreated, GuestMoves, JobSucceeds, JobCollected, deliverStep,
           DeliverMachine, DeliverPods, DeliverJob, DeliverService
  <1> QED
    BY <1>1, <1>2, <1>3, <1>4, <1>5, <1>6, <1>7, <1>8, <1>9, <1>10, <1>w,
       <1>f, <1>u, <1>e
       DEF Next, machineWorker, startStep, migrateStep, stopStep,
           terminateStep

\* From StateTerminating on no step creates a pod, a console, a service or a job,
\* and none writes another state: no sync of a start() or stop() is under way, and
\* none can begin, because every copy it could use has the DeletionTimestamp.
LEMMA FinalStep ==
  ASSUME TypeOK, IndInv, Next, vm # None, vm.state = "terminating"
  PROVE  /\ \A p \in PodName : pods[p] = None => pods'[p] = None
         /\ console = None => console' = None
         /\ svc' => svc
         /\ job = None => job' = None
         /\ vm' = None \/ vm'.state = "terminating"
  <1> DEFINE Goal == /\ \A p \in PodName : pods[p] = None => pods'[p] = None
                     /\ console = None => console' = None
                     /\ svc' => svc
                     /\ job = None => job' = None
                     /\ vm' = None \/ vm'.state = "terminating"
  <1>a. /\ pc \notin StartLabels \cup StopLabels \cup {"prepare"}
        /\ vm.deleting
    BY DEF TypeOK, IndInv
  <1>b. CASE startStep \/ migrateStep \/ stopStep \/ prepareMachine
    BY <1>a, <1>b
       DEF prepareMachine, startStep, migrateStep, stopStep,
           updateMachinePodCreate, updateMachinePodCreated,
           updateMachinePodStatus, updateMachinePodMany, updateNovncPod,
           updateNovncService, updateNovncEndpoint, deleteUnschedulablePod,
           migrateMachine, startMigrateTargetPod, strangeNumberOfPods,
           migrateRollbackJob, migrateRollbackPod, migrateRollbackState,
           waitForMigration, runMigrationJob, migrationCleanupStatus,
           migrationCleanupPod, migrationCleanupJob, migrationCleanupConsole,
           stopPods, stopJob, stopConsole, stopStatus
  <1>c. CASE process
    BY <1>c DEF process
  <1>d. CASE setTerminating
    BY <1>d DEF setTerminating, updateMachineStatus, TypeOK, IndInv, Machine
  <1>e. CASE terminatePods \/ terminateConsole \/ terminateService \/
            removeFinalizer
    BY <1>e
       DEF terminatePods, terminateConsole, terminateService, removeFinalizer,
           deleteMachinePods, TypeOK
  <1>f. CASE userStep
    <2>1. CASE InstanceUpdate
      BY <2>1 DEF InstanceUpdate, TypeOK, Machine
    <2> QED
      BY <1>a, <1>f, <2>1 DEF userStep, instanceCreate, InstanceDelete
  <1>g. CASE \E p \in PodName : podStep(p)
    <2>1. PICK p \in PodName : podStep(p)
      BY <1>g
    <2>2. pods[p] # None
      BY <2>1
         DEF podStep, SchedulePod, PodUnschedulable, PodReady, PodGone,
             Waiting
    <2>3. \A q \in PodName : pods[q] = None => pods'[q] = None
      <3>1. CASE SchedulePod(p)
        BY <2>2, <3>1 DEF SchedulePod, TypeOK
      <3>2. CASE PodUnschedulable(p)
        BY <2>2, <3>2 DEF PodUnschedulable, TypeOK
      <3>3. CASE PodReady(p)
        BY <2>2, <3>3 DEF PodReady, TypeOK
      <3>4. CASE PodGone(p)
        BY <3>4 DEF PodGone, TypeOK
      <3> QED BY <2>1, <3>1, <3>2, <3>3, <3>4 DEF podStep
    <2>4. /\ console = None => console' = None
          /\ svc' = svc /\ (job = None => job' = None) /\ vm' = vm
      BY <2>1, SentinelAssumption
         DEF podStep, SchedulePod, PodUnschedulable, PodReady, PodGone
    <2> QED BY <2>3, <2>4
  <1>h. CASE jobStep \/ deliverStep
    BY <1>h
       DEF jobStep, JobPodCreated, GuestMoves, JobRuns, JobSucceeds,
           JobCollected, deliverStep, DeliverMachine, DeliverPods, DeliverJob,
           DeliverService
  <1>i. CASE faultStep
    <2>1. CASE apiError \/ apiErrorInStop \/ apiErrorInTeardown \/ Crash \/
              ipWrite
      <3>1. UNCHANGED <<pods, console, svc, job, vm>>
        BY <2>1
           DEF apiError, apiErrorInStop, apiErrorInTeardown, Crash, ipWrite
      <3> QED BY <3>1
    <2>2. CASE JobFails
      BY <2>2 DEF JobFails, JobRuns
    <2>3. CASE \E p \in PodName : PodEvicted(p)
      <3>1. PICK p \in PodName : PodEvicted(p)
        BY <2>3
      <3>2. \A q \in PodName : pods[q] = None => pods'[q] = None
        BY <3>1 DEF PodEvicted, DeletePod, TypeOK
      <3>3. UNCHANGED <<console, svc, job, vm>>
        BY <3>1 DEF PodEvicted
      <3> QED BY <3>2, <3>3
    <2> QED BY <1>i, <2>1, <2>2, <2>3 DEF faultStep
  <1> QED
    BY <1>b, <1>c, <1>d, <1>e, <1>f, <1>g, <1>h, <1>i
       DEF Next, machineWorker, terminateStep

\* Before the first VirtualMachine is created the invariant holds.
LEMMA Initially == Init => TypeOK /\ IndInv
  <1> SUFFICES ASSUME Init PROVE TypeOK /\ IndInv
    OBVIOUS
  <1>1. NoPods \in [PodName -> Pod \cup {None}]
    BY DEF NoPods
  <1>2. requests \in 0..MaxRequests /\ faults \in 0..MaxFaults
    BY ConstantsAssumption DEF Init
  <1>3. TypeOK
    BY <1>1, <1>2 DEF Init, TypeOK, PodList, PodRef
  <1>4. IndInv
    BY DEF Init, IndInv
  <1> QED BY <1>3, <1>4

\* The invariant is inductive.
LEMMA Inductive == TypeOK /\ IndInv /\ [Next]_vars => TypeOK' /\ IndInv'
  <1> SUFFICES ASSUME TypeOK, IndInv, [Next]_vars PROVE TypeOK' /\ IndInv'
    OBVIOUS
  <1>1. CASE Next
    <2>1. pc # "idle" => m \in Machine /\ m2 \in Machine
      BY DEF TypeOK, IndInv
    <2> QED BY <1>1, <2>1, TypeStep, IndStep
  <1>2. CASE UNCHANGED vars
    <2>1. TypeOK'
      BY <1>2 DEF vars, TypeOK
    <2>2. IndInv'
      BY <1>2 DEF vars, UserSpec, IndInv
    <2> QED BY <2>1, <2>2
  <1> QED BY <1>1, <1>2

\* Whatever the caches show, calls fail, crashes interrupt and users do, every
\* reachable state of the controller satisfies the inductive invariant.
THEOREM Invariance == Spec => [](TypeOK /\ IndInv)
  BY Initially, Inductive, PTL DEF Spec

\* Every reachable state is well formed (the fields the worker reads of m exist
\* wherever it reads them).
THEOREM TypeCorrect == Spec => []TypeOK
  BY Invariance, PTL

\* A machine whose finalizer is gone has no console pod and no service left
\* (process, deleteConsolePod, deleteConsoleService, removeFinalizer), even with
\* caches that trail the API, failing calls and controller crashes.
THEOREM ConsoleGoesWithMachine == Spec => []GoneMeansNoConsole
  <1>1. IndInv => GoneMeansNoConsole
    BY DEF IndInv, GoneMeansNoConsole
  <1> QED BY <1>1, Invariance, PTL

\* The worker's whole-object Updates from cached copies never undo a change the
\* user has made to Spec (updateMachineStatus and the finalizer updates).
THEOREM WorkerKeepsUserSpec == Spec => UserSpecPreserved
  <1>1. TypeOK /\ IndInv /\ [Next]_vars
          => [(pc' # pc /\ vm # None /\ vm' # None)
                => UserSpec(vm') = UserSpec(vm)]_vars
    BY SpecStep DEF vars
  <1> QED BY <1>1, Invariance, PTL DEF Spec, UserSpecPreserved

\* A terminating machine gets no new pod, console, service or job, and no other
\* state, from a sync that still works with an older copy (process).
THEOREM TerminatingStaysFinal == Spec => TerminatingIsFinal
  <1>1. TypeOK /\ IndInv /\ [Next]_vars
          => [(vm # None /\ vm.state = "terminating") =>
                /\ \A p \in PodName : pods[p] = None => pods'[p] = None
                /\ console = None => console' = None
                /\ svc' => svc
                /\ job = None => job' = None
                /\ vm' = None \/ vm'.state = "terminating"]_vars
    BY FinalStep
  <1> QED BY <1>1, Invariance, PTL DEF Spec, TerminatingIsFinal

=============================================================================
