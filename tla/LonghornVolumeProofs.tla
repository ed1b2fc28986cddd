------------------------ MODULE LonghornVolumeProofs ------------------------
(***************************************************************************)
(* A machine that is gone has left no storage, and the pods of a machine   *)
(* never run on the disk of another of its name, for any installations,    *)
(* bounds and failures, with trailing caches or without.                   *)
(***************************************************************************)
EXTENDS LonghornVolume, TLAPS

Creating == {"createVolume", "pv", "pvc", "start"}
TearingDown == {"volume", "deleteVolume", "deletePv", "deletePvc", "finalizer"}

\* What has the version of the object is equal to it; a sync whose copy is
\* current works from a cache that is.
VersionsAgree == /\ cacheCur => vmCache = vm
                 /\ mCur => cacheCur /\ m = vm
                 /\ (m = None) = (pc = "idle")

\* A copy without a deletionTimestamp is of the machine that exists: the worker
\* that takes the finalizer off has seen the deletion, and so has its cache.
SameMachine(copy) ==
    (copy # None /\ ~copy.deleting) => vm # None /\ vm.id = copy.id

\* A sync goes on with what it was begun for (process).
SyncMatchesCopy == /\ pc \in Creating => ~m.deleting
                   /\ pc \in TearingDown => m.deleting

\* Settings that name an installation: they were in force at some time, from
\* when on all other installations count as elsewhere.
PointsAway(s) == s.endpoint \in Endpoint => Endpoint \ {s.endpoint} \subseteq elsewhere

ClientWasSet == /\ PointsAway(settings) /\ PointsAway(settingCache)
                /\ lh # None => PointsAway(lh)
                /\ \A e \in Endpoint : vols[e] # 0 => Endpoint \ {e} \subseteq elsewhere

NoVolume == \A e \in Endpoint : vols[e] # 0 => e \in elsewhere

\* What a teardown has found gone, or has deleted, stays so until its end.
TeardownFindings ==
    /\ pc \in {"deletePv", "deletePvc", "finalizer"} => NoVolume
    /\ pc \in {"deletePvc", "finalizer"} => pv # "present"
    /\ pc = "finalizer" => pvc # "present"

\* Machines are numbered as they are created, so a new one finds no pod that
\* was made for it; it may find those of a predecessor.
Numbered ==
    /\ vm # None => vm.id <= machines
    /\ \A p \in 1..MaxPods : pods[p] # None => pods[p].owner <= machines

\* A volume is that of the machine there is, and so is the disk of its pods.
Owned ==
    ~Moved => /\ \A e \in Endpoint : vols[e] # 0 => vm # None /\ vols[e] = vm.id
              /\ OwnDisk

Safe == /\ TypeOK /\ VersionsAgree /\ SameMachine(vmCache) /\ SameMachine(m)
        /\ SyncMatchesCopy /\ ClientWasSet /\ TeardownFindings /\ Numbered /\ Owned
        /\ GoneLeavesNoStorage

-----------------------------------------------------------------------------
(* Who writes what. *)

\* Every variable is written by a few actions only (machineWorker, settingWorker,
\* users and Kubernetes).
LEMMA Writers ==
    ASSUME [Next]_vars
    PROVE  /\ \/ UNCHANGED <<vm, vmCache, cacheCur, m, mCur, pc>>
              \/ createLonghornVolume \/ CreateVolume \/ createPersistentVolume
              \/ createPersistentVolumeClaim \/ start \/ setTerminating \/ teardown
              \/ deleteLonghornVolume \/ DeleteVolume \/ deletePersistentVolume
              \/ deletePersistentVolumeClaim \/ removeFinalizer \/ nilClientPanics
              \/ MachineCreate \/ MachineUpdate \/ DeliverMachine \/ apiError \/ Crash
           /\ UNCHANGED vols \/ CreateVolume \/ DeleteVolume
           /\ \/ UNCHANGED <<pv, pvc, claimCache>>
              \/ createPersistentVolume \/ createPersistentVolumeClaim
              \/ deletePersistentVolume \/ deletePersistentVolumeClaim
              \/ nilClientPanics \/ Crash \/ Collected \/ DeliverClaims
           /\ \/ UNCHANGED pods \/ start \/ stop \/ teardown
              \/ \E p \in 1..MaxPods : podStep(p)
           /\ UNCHANGED podCache \/ nilClientPanics \/ Crash \/ DeliverPods
           /\ UNCHANGED machines \/ MachineCreate
           /\ \/ UNCHANGED <<settings, settingCache, lh, elsewhere>>
              \/ initializeSettings \/ startWorkers \/ updateLonghornClient
              \/ DeliverSettings \/ SettingSet \/ nilClientPanics \/ Crash
<1> USE DEF Next, machineWorker, run, users, cluster, informers, podStep, vars, storage,
      podVars, process, config, machineVars, local, bounds, EndSync, Go, Begin, Restart, Overtake,
      createLonghornVolume, CreateVolume, createPersistentVolume,
      createPersistentVolumeClaim, start, stop, setTerminating, teardown,
      deleteLonghornVolume, DeleteVolume, deletePersistentVolume,
      deletePersistentVolumeClaim, removeFinalizer, nilClientPanics,
      initializeSettings, startWorkers, updateLonghornClient, DeliverSettings,
      MachineCreate, MachineUpdate, SettingSet, ImageChanges, ImageProvisioned,
      PodAttaches, PodGone, Collected, DeliverMachine, DeliverPods, DeliverClaims, apiError,
      Crash
<1> QED OBVIOUS

-----------------------------------------------------------------------------
(* Types. *)

MachineTypes == /\ vm \in Machine \cup {None} /\ vmCache \in Machine \cup {None}
                /\ m \in Machine \cup {None}
FlagTypes == /\ cacheCur \in BOOLEAN /\ mCur \in BOOLEAN /\ imageReady \in BOOLEAN
             /\ podsFound \in BOOLEAN /\ pc \in Label /\ up \in BOOLEAN
             /\ changed \in BOOLEAN /\ toInit \subseteq Field
             /\ elsewhere \subseteq Endpoint
ClaimTypes == pv \in Claim /\ pvc \in Claim /\ claimCache \in [pv: BOOLEAN, pvc: BOOLEAN]
VolumeTypes == vols \in [Endpoint -> 0..MaxMachines]
PodTypes == pods \in [1..MaxPods -> Pod \cup {None}] /\ podCache \in PodList
SettingTypes == settings \in Settings /\ settingCache \in Settings
ClientTypes == lh \in [endpoint: MaybeEndpoint, key: Key] \cup {None}
BoundTypes == /\ machines \in 0..MaxMachines /\ requests \in 0..MaxRequests
              /\ faults \in 0..MaxFaults

\* TypeOK, taken apart by the groups of variables that are written together.
LEMMA TypeParts ==
    TypeOK <=> /\ MachineTypes /\ FlagTypes /\ ClaimTypes /\ VolumeTypes /\ PodTypes
               /\ SettingTypes /\ ClientTypes /\ BoundTypes
BY DEF TypeOK, MachineTypes, FlagTypes, ClaimTypes, VolumeTypes, PodTypes, SettingTypes,
       ClientTypes, BoundTypes

\* A change of one field leaves a machine a machine, and not None.
LEMMA MachineFields ==
    ASSUME NEW v \in Machine, NEW b \in BOOLEAN, NEW a \in {"start", "stop"}
    PROVE  /\ [v EXCEPT !.terminating = b] \in Machine
           /\ [v EXCEPT !.deleting = b] \in Machine
           /\ [v EXCEPT !.action = a] \in Machine
           /\ None \notin Machine
BY LonghornConstants DEF Machine

\* The machine and its copies stay well formed (machineWorker, users).
LEMMA MachineTypesStep ==
    ASSUME TypeOK, VersionsAgree, [Next]_vars
    PROVE  MachineTypes'
<1> USE DEF TypeOK, MachineTypes
<1>1. CASE setTerminating
  <2>1. vm \in Machine BY <1>1 DEF setTerminating, Idle, VersionsAgree
  <2>2. vm' \in Machine BY <1>1, <2>1, MachineFields DEF setTerminating
  <2>3. QED BY <1>1, <2>2 DEF setTerminating, local
<1>2. CASE MachineCreate
  <2>1. vm' \in Machine
    BY <1>2, LonghornConstants DEF MachineCreate, Machine
  <2>2. QED BY <1>2, <2>1 DEF MachineCreate
<1>3. CASE MachineUpdate
  <2>1. vm \in Machine /\ vm.action \in {"start", "stop"}
    BY <1>3 DEF MachineUpdate, Machine
  <2>2. vm' \in Machine
    BY <1>3, <2>1, MachineFields DEF MachineUpdate
  <2>3. QED BY <1>3, <2>2 DEF MachineUpdate
<1>4. CASE UNCHANGED <<vm, vmCache, cacheCur, m, mCur, pc>>
  BY <1>4
<1>5. CASE \/ createLonghornVolume \/ CreateVolume \/ createPersistentVolume
           \/ createPersistentVolumeClaim \/ start \/ teardown
           \/ deleteLonghornVolume \/ DeleteVolume \/ deletePersistentVolume
           \/ deletePersistentVolumeClaim \/ removeFinalizer \/ nilClientPanics
           \/ DeliverMachine \/ apiError \/ Crash
  BY <1>5 DEF createLonghornVolume, CreateVolume, createPersistentVolume,
       createPersistentVolumeClaim, start, teardown, deleteLonghornVolume, DeleteVolume,
       deletePersistentVolume, deletePersistentVolumeClaim, removeFinalizer,
       nilClientPanics, DeliverMachine, apiError, Crash, Restart, EndSync, Go, Begin,
       machineVars, local
<1>6. QED BY <1>1, <1>2, <1>3, <1>4, <1>5, Writers

\* So do the flags and the place of the sync (process, run).
LEMMA FlagTypesStep ==
    ASSUME TypeOK, [Next]_vars
    PROVE  FlagTypes'
<1> USE DEF TypeOK, FlagTypes, Label, storage, podVars, process, config, machineVars, local, bounds,
      EndSync, Go, Begin, Restart, Overtake
<1>1. CASE createLonghornVolume BY <1>1 DEF createLonghornVolume
<1>2. CASE CreateVolume BY <1>2 DEF CreateVolume
<1>3. CASE createPersistentVolume BY <1>3 DEF createPersistentVolume
<1>4. CASE createPersistentVolumeClaim BY <1>4 DEF createPersistentVolumeClaim
<1>5. CASE start BY <1>5 DEF start
<1>6. CASE stop BY <1>6 DEF stop
<1>7. CASE setTerminating BY <1>7 DEF setTerminating
<1>8. CASE teardown BY <1>8 DEF teardown
<1>9. CASE deleteLonghornVolume BY <1>9 DEF deleteLonghornVolume
<1>10. CASE DeleteVolume BY <1>10 DEF DeleteVolume
<1>11. CASE deletePersistentVolume BY <1>11 DEF deletePersistentVolume
<1>12. CASE deletePersistentVolumeClaim BY <1>12 DEF deletePersistentVolumeClaim
<1>13. CASE removeFinalizer BY <1>13 DEF removeFinalizer
<1>14. CASE nilClientPanics BY <1>14 DEF nilClientPanics
<1>15. CASE initializeSettings BY <1>15 DEF initializeSettings
<1>16. CASE startWorkers BY <1>16 DEF startWorkers
<1>17. CASE updateLonghornClient BY <1>17 DEF updateLonghornClient
<1>18. CASE DeliverSettings BY <1>18 DEF DeliverSettings
<1>19. CASE MachineCreate BY <1>19 DEF MachineCreate
<1>20. CASE MachineUpdate BY <1>20 DEF MachineUpdate
<1>21. CASE SettingSet BY <1>21 DEF SettingSet
<1>22. CASE ImageChanges BY <1>22 DEF ImageChanges
<1>23. CASE ImageProvisioned BY <1>23 DEF ImageProvisioned
<1>24. CASE \E p \in 1..MaxPods : podStep(p) BY <1>24 DEF podStep, PodAttaches, PodGone
<1>25. CASE DeliverPods BY <1>25 DEF DeliverPods
<1>26. CASE Collected BY <1>26 DEF Collected
<1>27. CASE DeliverMachine BY <1>27 DEF DeliverMachine
<1>28. CASE DeliverClaims BY <1>28 DEF DeliverClaims
<1>29. CASE apiError BY <1>29 DEF apiError
<1>30. CASE Crash BY <1>30 DEF Crash
<1>31. CASE UNCHANGED vars BY <1>31 DEF vars
<1>32. QED
  BY <1>1, <1>2, <1>3, <1>4, <1>5, <1>6, <1>7, <1>8, <1>9, <1>10, <1>11, <1>12, <1>13,
     <1>14, <1>15, <1>16, <1>17, <1>18, <1>19, <1>20, <1>21, <1>22, <1>23, <1>24, <1>25,
     <1>26, <1>27, <1>28, <1>29, <1>30, <1>31
     DEF Next, machineWorker, run, users, cluster, informers

\* A pod that attaches its volume, or ends, stays well formed, and its own
\* (kubelet).
LEMMA PodStepTypes ==
    ASSUME TypeOK, NEW p \in 1..MaxPods, podStep(p)
    PROVE  /\ pods' \in [1..MaxPods -> Pod \cup {None}]
           /\ \A q \in 1..MaxPods : q # p => pods'[q] = pods[q]
           /\ \/ pods'[p] = None
              \/ /\ pods'[p].owner = pods[p].owner
                 /\ pods[p] # None
                 /\ \E e \in Endpoint : vols[e] # 0 /\ pods'[p].disk = vols[e]
<1> USE DEF TypeOK
<1>1. CASE PodAttaches(p)
  <2>1. PICK e \in Endpoint : vols[e] # 0 /\ pods' = [pods EXCEPT ![p].disk = vols[e]]
    BY <1>1 DEF PodAttaches
  <2>2. pods[p] \in Pod BY <1>1 DEF PodAttaches, Alive
  <2>3. vols[e] \in 0..MaxMachines OBVIOUS
  <2>4. pods' = [pods EXCEPT ![p] = [pods[p] EXCEPT !.disk = vols[e]]] BY <2>1
  <2>5. pods'[p] = [pods[p] EXCEPT !.disk = vols[e]] BY <2>4
  <2>6. [pods[p] EXCEPT !.disk = vols[e]] \in Pod BY <2>2, <2>3 DEF Pod
  <2>7. pods'[p].owner = pods[p].owner /\ pods'[p].disk = vols[e]
    BY <2>2, <2>5 DEF Pod
  <2>8. pods[p] # None BY <1>1 DEF PodAttaches, Alive
  <2>9. pods' \in [1..MaxPods -> Pod \cup {None}] BY <2>4, <2>6
  <2>10. \A q \in 1..MaxPods : q # p => pods'[q] = pods[q] BY <2>4
  <2>11. QED BY <2>1, <2>7, <2>8, <2>9, <2>10
<1>2. CASE PodGone(p)
  BY <1>2 DEF PodGone
<1>3. QED BY <1>1, <1>2 DEF podStep

\* So do volumes, storage objects and the pods (longhorn.go, kubelet).
LEMMA StorageTypesStep ==
    ASSUME TypeOK, [Next]_vars, pc \in Creating => m # None
    PROVE  ClaimTypes' /\ VolumeTypes' /\ PodTypes'
<1> USE DEF TypeOK
<1>1. ClaimTypes'
  <2> USE DEF ClaimTypes, Claim
  <2>1. CASE UNCHANGED <<pv, pvc, claimCache>> BY <2>1
  <2>2. CASE createPersistentVolume BY <2>2 DEF createPersistentVolume
  <2>3. CASE createPersistentVolumeClaim BY <2>3 DEF createPersistentVolumeClaim
  <2>4. CASE deletePersistentVolume BY <2>4 DEF deletePersistentVolume, Deleted
  <2>5. CASE deletePersistentVolumeClaim BY <2>5 DEF deletePersistentVolumeClaim, Deleted
  <2>6. CASE nilClientPanics \/ Crash
    <3>1. UNCHANGED <<pv, pvc>> /\ claimCache' = ClaimSnapshot
      BY <2>6 DEF nilClientPanics, Crash, Restart
    <3>2. ClaimSnapshot \in [pv: BOOLEAN, pvc: BOOLEAN] BY DEF ClaimSnapshot
    <3>3. QED BY <3>1, <3>2
  <2>7. CASE Collected BY <2>7 DEF Collected
  <2>8. CASE DeliverClaims BY <2>8 DEF DeliverClaims, ClaimSnapshot
  <2>9. QED BY <2>1, <2>2, <2>3, <2>4, <2>5, <2>6, <2>7, <2>8, Writers
<1>2. VolumeTypes'
  <2>1. CASE CreateVolume
    <3>1. m.id \in 0..MaxMachines
      BY <2>1, LonghornConstants DEF CreateVolume, Creating, Machine
    <3>2. QED BY <2>1, <3>1 DEF CreateVolume, VolumeTypes
  <2>2. CASE DeleteVolume
    BY <2>2, LonghornConstants DEF DeleteVolume, VolumeTypes
  <2>3. QED BY <2>1, <2>2, Writers DEF VolumeTypes
<1>3. pods' \in [1..MaxPods -> Pod \cup {None}]
  <2>1. CASE start
    <3>1. m.id \in 0..MaxMachines
      BY <2>1, LonghornConstants DEF start, Creating, Machine
    <3>2. [owner |-> m.id, disk |-> 0, deleting |-> FALSE] \in Pod
      BY <3>1, LonghornConstants DEF Pod
    <3>3. QED BY <2>1, <3>2 DEF start
  <2>2. CASE stop \/ teardown
    <3>1. Terminating \in Pod BY LonghornConstants DEF Pod, Terminating
    <3>2. QED BY <2>2, <3>1 DEF stop, teardown, deleteMachinePods
  <2>3. CASE \E p \in 1..MaxPods : podStep(p)
    BY <2>3, PodStepTypes
  <2>4. QED BY <2>1, <2>2, <2>3, Writers
<1>4. podCache' \in PodList
  BY Writers DEF nilClientPanics, Crash, Restart, DeliverPods, PodSnapshot, PodList
<1>5. QED BY <1>1, <1>2, <1>3, <1>4 DEF PodTypes

\* So do the settings and the client built from them (setting.go).
LEMMA ConfigTypesStep ==
    ASSUME TypeOK, [Next]_vars
    PROVE  SettingTypes' /\ ClientTypes'
<1> USE DEF TypeOK
<1>1. SettingTypes'
  <2>1. \A s \in Settings, f \in Field : s[f] \in (IF f = "key" THEN Key ELSE MaybeEndpoint) \cup {Unset}
    BY DEF Settings, Field
  <2>2. \A s \in Settings : \A e \in MaybeEndpoint \cup {Unset} : [s EXCEPT !["endpoint"] = e] \in Settings
    BY DEF Settings
  <2>3. \A s \in Settings : \A k \in Key \cup {Unset} : [s EXCEPT !["key"] = k] \in Settings
    BY DEF Settings
  <2>4. CASE initializeSettings
    <3>1. PICK f \in toInit : settings' = settings \/ settings' = [settings EXCEPT ![f] = Default[f]]
      BY <2>4 DEF initializeSettings
    <3>2. f \in Field BY DEF Field
    <3>3. Default["endpoint"] \in MaybeEndpoint /\ Default["key"] \in Key
      BY DEF Default, MaybeEndpoint, Key
    <3>4. settings' \in Settings BY <2>2, <2>3, <3>1, <3>2, <3>3 DEF Field
    <3>5. QED BY <2>4, <3>4 DEF initializeSettings, SettingTypes
  <2>5. CASE DeliverSettings
    <3>1. PICK f \in Field : settingCache' = [settingCache EXCEPT ![f] = settings[f]]
      BY <2>5 DEF DeliverSettings
    <3>2. settingCache' \in Settings BY <2>1, <2>2, <2>3, <3>1 DEF Field
    <3>3. QED BY <2>5, <3>2 DEF DeliverSettings, SettingTypes
  <2>6. CASE SettingSet
    <3>1. settings' \in Settings BY <2>2, <2>3, <2>6 DEF SettingSet
    <3>2. QED BY <2>6, <3>1 DEF SettingSet, SettingTypes
  <2>7. CASE startWorkers \/ updateLonghornClient
    BY <2>7 DEF startWorkers, updateLonghornClient, SettingTypes
  <2>8. CASE nilClientPanics \/ Crash
    BY <2>8 DEF nilClientPanics, Crash, Restart, SettingTypes
  <2>9. QED BY <2>4, <2>5, <2>6, <2>7, <2>8, Writers DEF SettingTypes
<1>2. ClientTypes'
  <2>1. Listed => settingCache \in [endpoint: MaybeEndpoint, key: Key]
    BY DEF Listed, Field, Settings
  <2>2. CASE startWorkers \/ updateLonghornClient
    BY <2>1, <2>2 DEF startWorkers, updateLonghornClient, ClientTypes
  <2>3. CASE nilClientPanics \/ Crash
    BY <2>3 DEF nilClientPanics, Crash, Restart, ClientTypes
  <2>4. CASE initializeSettings \/ DeliverSettings \/ SettingSet
    BY <2>4 DEF initializeSettings, DeliverSettings, SettingSet, process, ClientTypes
  <2>5. QED BY <2>2, <2>3, <2>4, Writers DEF ClientTypes
<1>3. QED BY <1>1, <1>2

\* Creations, requests and failures stay within their bounds.
LEMMA BoundTypesStep ==
    ASSUME TypeOK, [Next]_vars
    PROVE  BoundTypes'
<1> USE LonghornConstants DEF TypeOK, BoundTypes
<1>1. CASE UNCHANGED bounds BY <1>1 DEF bounds
<1>2. CASE MachineCreate BY <1>2 DEF MachineCreate
<1>3. CASE MachineUpdate BY <1>3 DEF MachineUpdate, Request
<1>4. CASE SettingSet BY <1>4 DEF SettingSet, Request
<1>5. CASE ImageChanges BY <1>5 DEF ImageChanges, Request
<1>6. CASE apiError BY <1>6 DEF apiError, Fault
<1>7. CASE Crash BY <1>7 DEF Crash, Fault
<1>8. QED
  BY <1>1, <1>2, <1>3, <1>4, <1>5, <1>6, <1>7
     DEF Next, machineWorker, run, users, cluster, informers, vars,
         createLonghornVolume, CreateVolume,
         createPersistentVolume, createPersistentVolumeClaim, start, stop, setTerminating,
         teardown, deleteLonghornVolume, DeleteVolume, deletePersistentVolume,
         deletePersistentVolumeClaim, removeFinalizer, nilClientPanics,
         initializeSettings, startWorkers, updateLonghornClient, DeliverSettings,
         ImageProvisioned, podStep, PodAttaches, PodGone, Collected, DeliverMachine,
         DeliverPods, DeliverClaims

\* Every step keeps TypeOK.
LEMMA TypeStep ==
    ASSUME Safe, [Next]_vars
    PROVE  TypeOK'
<1>1. TypeOK /\ VersionsAgree /\ (pc \in Creating => m # None)
  BY DEF Safe, VersionsAgree, Creating
<1>2. QED
  BY <1>1, TypeParts, MachineTypesStep, FlagTypesStep, StorageTypesStep, ConfigTypesStep,
     BoundTypesStep DEF TypeOK, MachineTypes, FlagTypes, ClaimTypes, VolumeTypes, PodTypes,
       SettingTypes, ClientTypes, BoundTypes

-----------------------------------------------------------------------------
(* Copies. *)

\* A machine that a step changes keeps its identity, and is there before and
\* after, unless the step creates it or takes its finalizer off.
LEMMA MachineStays ==
    ASSUME Safe, [Next]_vars, ~MachineCreate, ~removeFinalizer
    PROVE  /\ (vm = None) = (vm' = None)
           /\ vm # None => vm'.id = vm.id
<1>1. CASE setTerminating
  <2>1. vm \in Machine BY <1>1 DEF setTerminating, Idle, Safe, TypeOK, VersionsAgree
  <2>2. vm' = [vm EXCEPT !.terminating = TRUE] BY <1>1 DEF setTerminating
  <2>3. vm'.id = vm.id BY <2>1, <2>2 DEF Machine
  <2>4. QED BY <2>1, <2>2, <2>3, MachineFields
<1>2. CASE MachineUpdate
  <2>1. vm \in Machine /\ vm.action \in {"start", "stop"}
    BY <1>2 DEF MachineUpdate, Machine, Safe, TypeOK
  <2>2. vm' \in Machine BY <1>2, <2>1, MachineFields DEF MachineUpdate
  <2>3. vm'.id = vm.id BY <1>2, <2>1 DEF MachineUpdate, Machine
  <2>4. QED BY <2>1, <2>2, <2>3, MachineFields
<1>3. QED
  BY <1>1, <1>2, Writers
     DEF createLonghornVolume, CreateVolume, createPersistentVolume,
         createPersistentVolumeClaim, start, teardown, deleteLonghornVolume, DeleteVolume,
         deletePersistentVolume, deletePersistentVolumeClaim, nilClientPanics, apiError,
         Crash, Restart, DeliverMachine, machineVars

\* Versions tell copies from the object, whoever writes it.
LEMMA CopiesStep ==
    ASSUME Safe, [Next]_vars
    PROVE  /\ VersionsAgree' /\ SyncMatchesCopy'
           /\ SameMachine(vmCache)' /\ SameMachine(m)'
<1> USE DEF Safe, TypeOK, VersionsAgree, SameMachine, SyncMatchesCopy, Creating, TearingDown,
      machineVars, local, Idle, Begin, Go, EndSync, Restart, Overtake
<1>1. CASE MachineCreate BY <1>1 DEF MachineCreate
<1>2. CASE removeFinalizer BY <1>2 DEF removeFinalizer
<1>3. CASE ~MachineCreate /\ ~removeFinalizer
  <2>1. (vm = None) = (vm' = None) /\ (vm # None => vm'.id = vm.id)
    BY <1>3, MachineStays
  <2>2. CASE createLonghornVolume BY <2>1, <2>2 DEF createLonghornVolume
  <2>3. CASE CreateVolume BY <2>1, <2>3 DEF CreateVolume
  <2>4. CASE createPersistentVolume BY <2>1, <2>4 DEF createPersistentVolume
  <2>5. CASE createPersistentVolumeClaim BY <2>1, <2>5 DEF createPersistentVolumeClaim
  <2>6. CASE start BY <2>1, <2>6 DEF start
  <2>7. CASE setTerminating BY <2>1, <2>7 DEF setTerminating
  <2>8. CASE teardown BY <2>1, <2>8 DEF teardown
  <2>9. CASE deleteLonghornVolume BY <2>1, <2>9 DEF deleteLonghornVolume
  <2>10. CASE DeleteVolume BY <2>1, <2>10 DEF DeleteVolume
  <2>11. CASE deletePersistentVolume BY <2>1, <2>11 DEF deletePersistentVolume
  <2>12. CASE deletePersistentVolumeClaim BY <2>1, <2>12 DEF deletePersistentVolumeClaim
  <2>13. CASE nilClientPanics BY <2>1, <2>13 DEF nilClientPanics
  <2>14. CASE MachineUpdate BY <2>1, <2>14 DEF MachineUpdate
  <2>15. CASE DeliverMachine BY <2>1, <2>15 DEF DeliverMachine
  <2>16. CASE apiError BY <2>1, <2>16 DEF apiError
  <2>17. CASE Crash BY <2>1, <2>17 DEF Crash
  <2>18. CASE UNCHANGED <<vm, vmCache, cacheCur, m, mCur, pc>> BY <2>18
  <2>19. QED
    BY <2>2, <2>3, <2>4, <2>5, <2>6, <2>7, <2>8, <2>9, <2>10, <2>11, <2>12, <2>13,
       <2>14, <2>15, <2>16, <2>17, <2>18, <1>3, Writers
<1>4. QED BY <1>1, <1>2, <1>3

-----------------------------------------------------------------------------
(* The installations. *)

\* Settings, their copies and the client name installations that were set, and
\* volumes are made on those only (updateLonghornClient, CreateVolume).
LEMMA ClientStep ==
    ASSUME Safe, [Next]_vars
    PROVE  ClientWasSet'
<1> USE DEF Safe, TypeOK, ClientWasSet, PointsAway
<1>1. CASE UNCHANGED <<settings, settingCache, lh, elsewhere>>
  <2>1. CASE CreateVolume
    BY <1>1, <2>1 DEF CreateVolume, Answers
  <2>2. CASE DeleteVolume
    BY <1>1, <2>2 DEF DeleteVolume
  <2>3. QED BY <1>1, <2>1, <2>2, Writers
<1>2. CASE initializeSettings
  <2>1. settings'.endpoint = settings.endpoint \/ settings'.endpoint = None
    BY <1>2 DEF initializeSettings, Settings, Default, Field
  <2>2. QED BY <1>2, <2>1, LonghornConstants DEF initializeSettings, storage
<1>3. CASE startWorkers \/ updateLonghornClient
  BY <1>3 DEF startWorkers, updateLonghornClient, storage
<1>4. CASE DeliverSettings
  <2>1. \/ settingCache'.endpoint = settingCache.endpoint
        \/ settingCache'.endpoint = settings.endpoint
    BY <1>4 DEF DeliverSettings, Settings, Field
  <2>2. QED BY <1>4, <2>1 DEF DeliverSettings, storage, process
<1>5. CASE SettingSet
  <2>1. elsewhere \subseteq elsewhere' BY <1>5 DEF SettingSet
  <2>2. settings'.endpoint \in Endpoint => Endpoint \ {settings'.endpoint} \subseteq elsewhere'
    BY <1>5 DEF SettingSet
  <2>3. UNCHANGED <<settingCache, lh, vols>> BY <1>5 DEF SettingSet, storage, process
  <2>4. QED BY <2>1, <2>2, <2>3
<1>6. CASE nilClientPanics \/ Crash
  BY <1>6 DEF nilClientPanics, Crash, Restart
<1>7. QED BY <1>1, <1>2, <1>3, <1>4, <1>5, <1>6, Writers

\* An installation the settings were pointed away from stays so.
LEMMA ElsewhereGrows ==
    ASSUME Safe, [Next]_vars
    PROVE  /\ elsewhere \subseteq elsewhere'
           /\ Moved => Moved'
<1>1. elsewhere \subseteq elsewhere'
  BY Writers DEF initializeSettings, startWorkers, updateLonghornClient, DeliverSettings,
       SettingSet, nilClientPanics, Crash, Restart
<1>2. QED BY <1>1 DEF Moved

-----------------------------------------------------------------------------
(* What a teardown finds and leaves. *)

\* deleteLonghornVolume goes on only when the client's installation has no
\* volume of the name, and all others are elsewhere.
LEMMA FindingsStep ==
    ASSUME Safe, [Next]_vars
    PROVE  TeardownFindings'
<1> USE DEF Safe, TypeOK, TeardownFindings, NoVolume, Creating, TearingDown,
      storage, podVars, machineVars, local, config, Go, EndSync, Begin, Restart
<1>0. elsewhere \subseteq elsewhere' BY ElsewhereGrows
<1>1. CASE createLonghornVolume BY <1>0, <1>1 DEF createLonghornVolume, Idle
<1>2. CASE CreateVolume BY <1>0, <1>2 DEF CreateVolume
<1>3. CASE createPersistentVolume BY <1>0, <1>3 DEF createPersistentVolume
<1>4. CASE createPersistentVolumeClaim BY <1>0, <1>4 DEF createPersistentVolumeClaim
<1>5. CASE start BY <1>0, <1>5 DEF start
<1>6. CASE stop BY <1>0, <1>6 DEF stop
<1>7. CASE setTerminating BY <1>0, <1>7 DEF setTerminating
<1>8. CASE teardown BY <1>0, <1>8 DEF teardown, Idle
<1>9. CASE deleteLonghornVolume BY <1>0, <1>9 DEF deleteLonghornVolume, ClientWasSet, PointsAway, GetVolume, Answers, Volume
<1>10. CASE DeleteVolume BY <1>0, <1>10 DEF DeleteVolume, ClientWasSet, PointsAway, Answers, Volume
<1>11. CASE deletePersistentVolume BY <1>0, <1>11 DEF deletePersistentVolume, Deleted
<1>12. CASE deletePersistentVolumeClaim BY <1>0, <1>12 DEF deletePersistentVolumeClaim, Deleted
<1>13. CASE removeFinalizer BY <1>0, <1>13 DEF removeFinalizer
<1>14. CASE nilClientPanics BY <1>0, <1>14 DEF nilClientPanics
<1>15. CASE MachineCreate BY <1>0, <1>15 DEF MachineCreate, Overtake
<1>16. CASE MachineUpdate BY <1>0, <1>16 DEF MachineUpdate, Overtake
<1>17. CASE DeliverMachine BY <1>0, <1>17 DEF DeliverMachine
<1>18. CASE apiError BY <1>0, <1>18 DEF apiError
<1>19. CASE Crash BY <1>0, <1>19 DEF Crash
<1>20. CASE \E p \in 1..MaxPods : podStep(p)
  BY <1>0, <1>20 DEF podStep, PodAttaches, PodGone
<1>21. CASE DeliverPods BY <1>0, <1>21 DEF DeliverPods
<1>22. CASE Collected BY <1>0, <1>22 DEF Collected
<1>23. CASE DeliverClaims BY <1>0, <1>23 DEF DeliverClaims
<1>24. CASE UNCHANGED <<pc, vols, pv, pvc>> BY <1>0, <1>24
<1>25. QED
  BY <1>1, <1>2, <1>3, <1>4, <1>5, <1>6, <1>7, <1>8, <1>9, <1>10, <1>11, <1>12, <1>13,
     <1>14, <1>15, <1>16, <1>17, <1>18, <1>19, <1>20, <1>21, <1>22, <1>23, <1>24
     DEF Next, machineWorker, run, users, cluster, informers, vars, initializeSettings, startWorkers,
         updateLonghornClient, DeliverSettings, SettingSet, ImageChanges, ImageProvisioned

-----------------------------------------------------------------------------
(* What belongs to whom. *)

\* Storage is created for the machine that exists, by a sync of that machine,
\* and the machine goes only after its storage (process).
LEMMA GoneStep ==
    ASSUME Safe, [Next]_vars
    PROVE  GoneLeavesNoStorage'
<1> USE DEF Safe, TypeOK, GoneLeavesNoStorage
<1>0. elsewhere \subseteq elsewhere' BY ElsewhereGrows
<1>1. pc \in Creating => vm # None
  BY DEF VersionsAgree, SameMachine, SyncMatchesCopy, Creating
<1>2. CASE MachineCreate
  <2>1. vm' \in Machine BY <1>2, LonghornConstants DEF MachineCreate, Machine
  <2>2. vm' # None BY <2>1, LonghornConstants
  <2>3. QED BY <2>2
<1>3. CASE removeFinalizer
  BY <1>3 DEF removeFinalizer, TeardownFindings, NoVolume, TearingDown, storage, config,
       VersionsAgree
<1>4. CASE ~MachineCreate /\ ~removeFinalizer
  <2>1. SUFFICES ASSUME vm' = None
                 PROVE  GoneLeavesNoStorage'
    BY <2>1
  <2>2. vm = None BY <1>4, <2>1, MachineStays
  <2>3. pc \notin Creating BY <1>1, <2>2
  <2>4. \A e \in Endpoint : vols'[e] # 0 => e \in elsewhere'
    BY <1>0, <2>2, <2>3, Writers DEF CreateVolume, DeleteVolume, Creating
  <2>5. pv' # "present" /\ pvc' # "present"
    BY <2>2, <2>3, Writers
       DEF createPersistentVolume, createPersistentVolumeClaim, deletePersistentVolume,
           deletePersistentVolumeClaim, Deleted, nilClientPanics, Crash, Restart,
           Collected, DeliverClaims, Creating
  <2>6. QED BY <2>4, <2>5
<1>5. QED BY <1>2, <1>3, <1>4

\* A pod that a step leaves, or makes, belongs to the machine it belonged to, to
\* the one that exists, or, terminating, to nobody (updateMachinePod,
\* deleteMachinePods).
LEMMA PodChanges ==
    ASSUME Safe, [Next]_vars, NEW p \in 1..MaxPods, pods'[p] # None
    PROVE  \/ pods'[p] = pods[p]
           \/ pods'[p] = Terminating
           \/ /\ vm # None
              /\ pods'[p] = [owner |-> vm.id, disk |-> 0, deleting |-> FALSE]
           \/ /\ pods[p] # None /\ pods'[p].owner = pods[p].owner
              /\ \E e \in Endpoint : vols[e] # 0 /\ pods'[p].disk = vols[e]
<1>0. TypeOK BY DEF Safe
<1>1. CASE start
  <2>1. vm # None /\ vm.id = m.id
    BY <1>1 DEF start, Safe, VersionsAgree, SameMachine, SyncMatchesCopy, Creating
  <2>2. QED BY <1>0, <1>1, <2>1 DEF start, TypeOK
<1>2. CASE stop \/ teardown
  BY <1>2 DEF stop, teardown, deleteMachinePods
<1>3. CASE \E q \in 1..MaxPods : podStep(q)
  <2>1. PICK q \in 1..MaxPods : podStep(q) BY <1>3
  <2>2. CASE q = p BY <1>0, <2>1, <2>2, PodStepTypes
  <2>3. CASE q # p BY <1>0, <2>1, <2>3, PodStepTypes
  <2>4. QED BY <2>2, <2>3
<1>4. QED BY <1>1, <1>2, <1>3, Writers

\* No pod is for a machine that does not exist yet (MachineCreate, start).
LEMMA NumberedStep ==
    ASSUME Safe, [Next]_vars
    PROVE  Numbered'
<1> USE LonghornConstants DEF Safe, TypeOK, Numbered
<1>1. machines \in Nat /\ machines' \in Nat /\ machines <= machines'
  BY Writers DEF MachineCreate
<1>2. vm' # None => vm'.id <= machines'
  <2>1. CASE MachineCreate BY <2>1 DEF MachineCreate
  <2>2. CASE removeFinalizer
    <3>1. vm' = None \/ vm' = vm BY <2>2 DEF removeFinalizer
    <3>2. machines' = machines BY <2>2 DEF removeFinalizer, bounds
    <3>3. QED BY <3>1, <3>2
  <2>3. CASE ~MachineCreate /\ ~removeFinalizer
    <3>1. machines' = machines BY <2>3, Writers
    <3>2. QED BY <2>3, <3>1, MachineStays
  <2>4. QED BY <2>1, <2>2, <2>3
<1>3. ASSUME NEW p \in 1..MaxPods, pods'[p] # None
      PROVE  pods'[p].owner <= machines'
  <2>1. CASE pods'[p] = pods[p]
    <3>1. pods[p].owner \in Nat /\ pods[p].owner <= machines BY <1>3, <2>1 DEF Pod
    <3>2. QED BY <1>1, <2>1, <3>1
  <2>2. CASE pods'[p] = Terminating BY <1>1, <2>2 DEF Terminating
  <2>3. CASE vm # None /\ pods'[p] = [owner |-> vm.id, disk |-> 0, deleting |-> FALSE]
    <3>1. vm.id \in Nat /\ vm.id <= machines BY <2>3 DEF Machine
    <3>2. QED BY <1>1, <2>3, <3>1
  <2>4. CASE pods[p] # None /\ pods'[p].owner = pods[p].owner
    <3>1. pods[p].owner \in Nat /\ pods[p].owner <= machines BY <2>4 DEF Pod
    <3>2. QED BY <1>1, <2>4, <3>1
  <2>5. QED BY <1>3, <2>1, <2>2, <2>3, <2>4, PodChanges
<1>4. QED BY <1>2, <1>3

\* While no installation in use was replaced, every volume and every disk is
\* that of the machine: a new machine finds none (createLonghornVolume,
\* CreateVolume).
LEMMA OwnedStep ==
    ASSUME Safe, [Next]_vars
    PROVE  Owned'
<1>0. TypeOK BY DEF Safe
<1>1. SUFFICES ASSUME ~Moved'
      PROVE  /\ \A e \in Endpoint : vols'[e] # 0 => vm' # None /\ vols'[e] = vm'.id
             /\ OwnDisk'
  BY DEF Owned
<1>2. ~Moved BY <1>1, ElsewhereGrows
<1>3. /\ \A e \in Endpoint : vols[e] # 0 => vm # None /\ vols[e] = vm.id
      /\ OwnDisk
  BY <1>2 DEF Safe, Owned
\* With no machine there is no volume on any installation.
<1>4. vm' = None => \A e \in Endpoint : vols'[e] = 0
  BY <1>1, GoneStep, ClientStep DEF GoneLeavesNoStorage, ClientWasSet, Moved
<1>5. vm = None => \A e \in Endpoint : vols[e] = 0
  BY <1>2 DEF Safe, GoneLeavesNoStorage, ClientWasSet, Moved
<1>6. CASE MachineCreate
  <2>1. UNCHANGED <<vols, pods>> BY <1>6 DEF MachineCreate, storage, podVars
  <2>2. vm'.id = machines + 1 /\ vm = None BY <1>6 DEF MachineCreate
  <2>3. \A p \in 1..MaxPods : pods[p] # None => pods[p].owner # vm'.id
    <3> SUFFICES ASSUME NEW p \in 1..MaxPods, pods[p] # None
                 PROVE  pods[p].owner # vm'.id
      OBVIOUS
    <3>1. pods[p].owner \in Nat /\ pods[p].owner <= machines /\ machines \in Nat
      BY <1>0, LonghornConstants DEF TypeOK, Pod, Safe, Numbered
    <3>2. QED BY <2>2, <3>1
  <2>4. QED BY <1>5, <2>1, <2>2, <2>3 DEF OwnDisk, Alive
<1>7. CASE removeFinalizer
  <2>1. vm' = None \/ vm' = vm BY <1>7 DEF removeFinalizer
  <2>2. UNCHANGED <<vols, pods>> BY <1>7 DEF removeFinalizer, storage, podVars
  <2>3. QED BY <1>2, <1>3, <1>4, <2>1, <2>2 DEF OwnDisk, Alive
<1>8. CASE ~MachineCreate /\ ~removeFinalizer
  <2>1. (vm = None) = (vm' = None) /\ (vm # None => vm'.id = vm.id)
    BY <1>8, MachineStays
  <2>2. \A e \in Endpoint : vols'[e] # 0 => vm' # None /\ vols'[e] = vm'.id
    <3>1. CASE CreateVolume
      <4>1. vm # None /\ vm.id = m.id
        BY <3>1 DEF CreateVolume, Safe, VersionsAgree, SameMachine, SyncMatchesCopy, Creating
      <4>2. QED BY <1>0, <1>3, <2>1, <3>1, <4>1 DEF CreateVolume, TypeOK
    <3>2. CASE DeleteVolume BY <1>0, <1>3, <2>1, <3>2 DEF DeleteVolume, TypeOK
    <3>3. QED BY <1>3, <2>1, <3>1, <3>2, Writers
  <2>3. OwnDisk'
    <3> SUFFICES ASSUME NEW p \in 1..MaxPods, vm' # None, Alive(p)',
                        pods'[p].owner = vm'.id, pods'[p].disk # 0
                 PROVE  pods'[p].disk = vm'.id
      BY DEF OwnDisk
    <3>1. pods'[p] # None /\ ~pods'[p].deleting BY DEF Alive
    <3>2. CASE pods'[p] = pods[p]
      BY <1>2, <1>3, <2>1, <3>1, <3>2 DEF OwnDisk, Alive
    <3>3. CASE pods'[p] = Terminating BY <3>1, <3>3 DEF Terminating
    <3>4. CASE pods'[p] = [owner |-> vm.id, disk |-> 0, deleting |-> FALSE]
      BY <3>4
    <3>5. CASE \E e \in Endpoint : vols[e] # 0 /\ pods'[p].disk = vols[e]
      BY <1>3, <2>1, <3>5
    <3>6. QED BY <3>1, <3>2, <3>3, <3>4, <3>5, PodChanges
  <2>4. QED BY <2>2, <2>3
<1>9. QED BY <1>6, <1>7, <1>8

-----------------------------------------------------------------------------
(* Theorems. *)

\* The controller starts with nothing there but, perhaps, settings, and safe.
LEMMA InitSafe == Init => Safe
<1> SUFFICES ASSUME Init PROVE Safe OBVIOUS
<1> USE LonghornConstants
<1>1. settings \in Settings /\ elsewhere \subseteq Endpoint /\ PointsAway(settings)
  <2>1. CASE settings = NoSettings /\ elsewhere = {}
    BY <2>1 DEF NoSettings, Settings, PointsAway, MaybeEndpoint
  <2>2. ASSUME NEW e \in Installed, settings = [endpoint |-> e, key |-> GoodKey],
               elsewhere = Endpoint \ {e}
        PROVE  settings \in Settings /\ elsewhere \subseteq Endpoint /\ PointsAway(settings)
    BY <2>2 DEF Settings, PointsAway, MaybeEndpoint, Key
  <2>3. QED BY <2>1, <2>2 DEF Init
<1>2. TypeOK
  <2>1. MachineTypes /\ FlagTypes /\ ClaimTypes
    BY <1>1 DEF Init, MachineTypes, FlagTypes, ClaimTypes, Claim, Label
  <2>2. VolumeTypes /\ PodTypes /\ SettingTypes /\ ClientTypes /\ BoundTypes
    BY <1>1 DEF Init, VolumeTypes, PodTypes, NoPods, PodList, SettingTypes, ClientTypes,
         BoundTypes
  <2>3. QED BY <2>1, <2>2, TypeParts
<1>3. VersionsAgree /\ SameMachine(vmCache) /\ SameMachine(m) /\ SyncMatchesCopy
  BY DEF Init, VersionsAgree, SameMachine, SyncMatchesCopy, Creating, TearingDown
<1>4. vm = None /\ vols = [e \in Endpoint |-> 0] /\ pods = NoPods /\ lh = None
      /\ settingCache = settings /\ pc = "idle" /\ pv = "absent" /\ pvc = "absent"
  BY DEF Init
<1>5. ClientWasSet BY <1>1, <1>4 DEF ClientWasSet, PointsAway
<1>6. TeardownFindings /\ Numbered /\ Owned /\ GoneLeavesNoStorage
  BY <1>4 DEF TeardownFindings, NoVolume, TearingDown, Numbered, NoPods, Owned, OwnDisk,
       Alive, GoneLeavesNoStorage
<1>7. QED BY <1>2, <1>3, <1>5, <1>6 DEF Safe

\* Safe is inductive: it holds whatever users, Longhorn, Kubernetes and crashes
\* do between two calls of the worker.
THEOREM LonghornInvariance == Spec => []Safe
<1>1. Safe /\ [Next]_vars => Safe'
  BY TypeStep, CopiesStep, ClientStep, FindingsStep, NumberedStep, OwnedStep, GoneStep
     DEF Safe
<1>2. QED BY <1>1, InitSafe, PTL DEF Spec

\* Every reachable state is well formed (LonghornVolume).
THEOREM LonghornTypeCorrect == Spec => []TypeOK
<1>1. Safe => TypeOK BY DEF Safe
<1>2. QED BY <1>1, LonghornInvariance, PTL

\* A machine that is gone has left no storage behind (deleteLonghornVolume,
\* deletePersistentVolume and deletePersistentVolumeClaim before the finalizer
\* is removed).
THEOREM GoneIsClean == Spec => []GoneLeavesNoStorage
<1>1. Safe => GoneLeavesNoStorage BY DEF Safe
<1>2. QED BY <1>1, LonghornInvariance, PTL

\* The pods of a machine run on its own disk, whatever the pod lister has not
\* seen yet (createLonghornVolume, CreateVolume, updateMachinePod).
THEOREM DiskIsOwn == Spec => []OwnDisk
<1>1. Safe => OwnDisk BY DEF Safe, Owned, OwnDisk
<1>2. QED BY <1>1, LonghornInvariance, PTL

=============================================================================
