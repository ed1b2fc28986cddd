--------------------------- MODULE LonghornVolume ---------------------------
(***************************************************************************)
(* The storage of one machine name on Longhorn (longhorn.go,               *)
(* longhorn_client.go), and the settings its client is built from          *)
(* (setting.go): the volume, PersistentVolume and claim that process()     *)
(* creates before start() and deletes before it removes the finalizer.     *)
(*                                                                         *)
(* Pods are what MachineController says of them, reduced to their disk and *)
(* termination; the list they are counted in trails them.  The machine     *)
(* worker's syncs are cut at every Longhorn and storage call, since the    *)
(* setting worker replaces the client between any two.                     *)
(* MachineCreate stands for the creation and for prepareMachine.  The      *)
(* controller starts with initializeSettings and without a client; a sync  *)
(* that uses the client before there is one ends the process.              *)
(***************************************************************************)
EXTENDS Naturals

CONSTANTS
    Endpoint,     \* Longhorn installations
    Installed,    \* those that settings of an earlier controller may name
    None,         \* no object, no endpoint
    Unset,        \* the setting does not exist
    GoodKey,      \* the access and secret key every installation accepts
    BadKey,       \* keys that are refused
    Lag,          \* whether the caches of pods and storage objects may trail
    MaxMachines,  \* bound on machines created under the name
    MaxPods,      \* bound on pods at a time
    MaxRequests,  \* bound on other user requests and image state changes
    MaxFaults     \* bound on failures

MaybeEndpoint == Endpoint \cup {None}
Key == {GoodKey, BadKey}

\* The settings the client is built from: longhorn-endpoint, and the two keys.
Field == {"endpoint", "key"}
Settings == [endpoint: MaybeEndpoint \cup {Unset}, key: Key \cup {Unset}]

\* A machine: deleting, it has a deletionTimestamp; terminating, its state.
Machine == [id: 1..MaxMachines, action: {"start", "stop"}, deleting: BOOLEAN,
            terminating: BOOLEAN]

\* owner: the machine the pod was created for; disk: the machine whose volume
\* it has attached, 0 before.  Of a terminating pod only that it is there matters.
Pod == [owner: 0..MaxMachines, disk: 0..MaxMachines, deleting: BOOLEAN]
Terminating == [owner |-> 0, disk |-> 0, deleting |-> TRUE]

\* What the pod lister answers of the machine's pods: there is none, all are
\* terminating, one at least is alive.
PodList == {"none", "terminating", "alive"}

\* A PersistentVolume or claim; deleting: not yet gone from the API.
Claim == {"absent", "present", "deleting"}

ASSUME LonghornConstants ==
    /\ MaxMachines \in Nat /\ MaxPods \in Nat /\ MaxRequests \in Nat /\ MaxFaults \in Nat
    /\ Lag \in BOOLEAN /\ GoodKey # BadKey /\ Installed \subseteq Endpoint
    /\ None \notin Endpoint /\ Unset \notin MaybeEndpoint /\ Unset \notin Key
    /\ None \notin Machine /\ None \notin Pod

VARIABLES
    vm, vmCache,   \* the VirtualMachine, or None, and the informer's copy
    cacheCur,      \* whether that copy has the object's resourceVersion
    imageReady,    \* whether the machine's image is listed as ready
    vols,          \* by endpoint, the machine its volume was made for, or 0
    pv, pvc,       \* the PersistentVolume and the claim
    claimCache,    \* whether the informers' copies list the two
    pods,          \* the machine's pods
    podCache,      \* what the informer's copy lists of them
    settings, settingCache, \* the Setting objects, and the informer's copy
    changed,       \* whether the setting queue has a key
    toInit, up,    \* settings initializeSettings has yet to visit, and whether
                   \* the workers have been started
    lh,            \* ctrl.lhClient: what it was built from, None if nil
    elsewhere,     \* endpoints that, at some time, were not the one set while
                   \* another was
    pc, m, mCur,   \* the worker's next step, its machine, and whether current
    podsFound,     \* whether the teardown found something to delete
    machines, requests, faults

storage == <<vols, pv, pvc, claimCache>>
podVars == <<pods, podCache>>
process == <<toInit, up, lh>>
config == <<settings, settingCache, changed, process, elsewhere>>
machineVars == <<vm, vmCache, cacheCur, imageReady>>
local == <<m, mCur, podsFound>>
bounds == <<machines, requests, faults>>
vars == <<machineVars, storage, podVars, config, pc, local, bounds>>

Label == {"idle", "createVolume", "pv", "pvc", "start", "volume", "deleteVolume",
          "deletePv", "deletePvc", "finalizer"}

TypeOK ==
    /\ vm \in Machine \cup {None} /\ vmCache \in Machine \cup {None}
    /\ cacheCur \in BOOLEAN /\ mCur \in BOOLEAN /\ imageReady \in BOOLEAN
    /\ vols \in [Endpoint -> 0..MaxMachines] /\ pv \in Claim /\ pvc \in Claim
    /\ claimCache \in [pv: BOOLEAN, pvc: BOOLEAN]
    /\ pods \in [1..MaxPods -> Pod \cup {None}] /\ podCache \in PodList
    /\ settings \in Settings /\ settingCache \in Settings
    /\ toInit \subseteq Field /\ up \in BOOLEAN
    /\ lh \in [endpoint: MaybeEndpoint, key: Key] \cup {None}
    /\ changed \in BOOLEAN /\ elsewhere \subseteq Endpoint
    /\ pc \in Label /\ m \in Machine \cup {None} /\ podsFound \in BOOLEAN
    /\ machines \in 0..MaxMachines /\ requests \in 0..MaxRequests
    /\ faults \in 0..MaxFaults

NoPods == [p \in 1..MaxPods |-> None]
NoSettings == [endpoint |-> Unset, key |-> Unset]

\* The controller starts for the first time, or with settings that an earlier
\* one has left.
Init ==
    /\ vm = None /\ vmCache = None /\ cacheCur = TRUE /\ imageReady = TRUE
    /\ vols = [e \in Endpoint |-> 0] /\ pv = "absent" /\ pvc = "absent"
    /\ claimCache = [pv |-> FALSE, pvc |-> FALSE]
    /\ pods = NoPods /\ podCache = "none"
    /\ \/ settings = NoSettings /\ elsewhere = {}
       \/ \E e \in Installed : /\ settings = [endpoint |-> e, key |-> GoodKey]
                               /\ elsewhere = Endpoint \ {e}
    /\ settingCache = settings /\ changed = (settings # NoSettings)
    /\ toInit = Field /\ up = FALSE /\ lh = None
    /\ pc = "idle" /\ m = None /\ mCur = FALSE /\ podsFound = FALSE
    /\ machines = 0 /\ requests = 0 /\ faults = 0

-----------------------------------------------------------------------------
(* The Longhorn client, as of this moment. *)

\* The endpoint answers, and with something else than an error.
Answers == lh # None /\ lh.endpoint \in Endpoint /\ lh.key = GoodKey

Volume == vols[lh.endpoint]

\* (Mutant: an answer other than 200 is no volume, and no error.)
GetVolumeOrNil == IF Answers /\ Volume # 0 THEN "found" ELSE "nil"

\* GetVolume: the volume on 200, nil on 404, an error on any other answer.
GetVolume == IF ~Answers THEN "error" ELSE IF Volume # 0 THEN "found" ELSE "nil"

-----------------------------------------------------------------------------
(* Syncs. *)

Alive(p) == pods[p] # None /\ ~pods[p].deleting

PodSnapshot == IF \E p \in 1..MaxPods : Alive(p) THEN "alive"
               ELSE IF pods = NoPods THEN "none" ELSE "terminating"

PodView == IF Lag THEN podCache ELSE PodSnapshot
ClaimSnapshot == [pv |-> pv # "absent", pvc |-> pvc # "absent"]
ClaimView == IF Lag THEN claimCache ELSE ClaimSnapshot

EndSync == pc' = "idle" /\ m' = None /\ mCur' = FALSE /\ podsFound' = FALSE

Go(label) == pc' = label /\ UNCHANGED local

Begin(label, found) == /\ pc' = label /\ m' = vmCache /\ mCur' = cacheCur
                       /\ podsFound' = found

Idle == up /\ pc = "idle" /\ vmCache # None

-----------------------------------------------------------------------------
(* createLonghornVolume, then start(). *)

\* (Mutant: the claims are made with the volume, and only then.)
createVolumeAndClaims ==
    /\ Idle /\ ~vmCache.deleting /\ vmCache.action = "start"
    /\ imageReady /\ lh # None /\ GetVolume # "error"
    /\ Begin(IF GetVolume = "found" THEN "start" ELSE "createVolume", FALSE)
    /\ UNCHANGED <<machineVars, storage, podVars, config, bounds>>

\* The image has to be ready, whether or not the volume exists.
createLonghornVolume ==
    /\ Idle /\ ~vmCache.deleting /\ vmCache.action = "start"
    /\ imageReady /\ lh # None /\ GetVolume # "error"
    /\ Begin(IF GetVolume = "found" THEN "pv" ELSE "createVolume", FALSE)
    /\ UNCHANGED <<machineVars, storage, podVars, config, bounds>>

\* The client may be another one by now, and the volume exist there.
CreateVolume ==
    /\ pc = "createVolume"
    /\ IF Answers /\ Volume = 0
       THEN vols' = [vols EXCEPT ![lh.endpoint] = m.id] /\ Go("pv")
       ELSE UNCHANGED vols /\ EndSync
    /\ UNCHANGED <<machineVars, pv, pvc, claimCache, podVars, config, bounds>>

\* An object that is not listed is created, an error if it exists after all.
createPersistentVolume ==
    /\ pc = "pv"
    /\ \/ ClaimView.pv /\ UNCHANGED pv /\ Go("pvc")
       \/ ~ClaimView.pv /\ pv = "absent" /\ pv' = "present" /\ Go("pvc")
       \/ ~ClaimView.pv /\ pv # "absent" /\ UNCHANGED pv /\ EndSync
    /\ UNCHANGED <<machineVars, vols, pvc, claimCache, podVars, config, bounds>>

createPersistentVolumeClaim ==
    /\ pc = "pvc"
    /\ \/ ClaimView.pvc /\ UNCHANGED pvc /\ Go("start")
       \/ ~ClaimView.pvc /\ pvc = "absent" /\ pvc' = "present" /\ Go("start")
       \/ ~ClaimView.pvc /\ pvc # "absent" /\ UNCHANGED pvc /\ EndSync
    /\ UNCHANGED <<machineVars, vols, pv, claimCache, podVars, config, bounds>>

\* start() creates a machine pod, with the claim as its volume, when the list
\* has none that is alive, and beside one it does not show.
start ==
    /\ pc = "start"
    /\ \/ PodView = "alive" /\ UNCHANGED pods
       \/ /\ PodView # "alive"
          /\ \E p \in 1..MaxPods :
                /\ pods[p] = None /\ \A q \in 1..(p - 1) : pods[q] # None
                /\ pods' = [pods EXCEPT ![p] =
                              [owner |-> m.id, disk |-> 0, deleting |-> FALSE]]
    /\ EndSync
    /\ UNCHANGED <<machineVars, storage, podCache, config, bounds>>

\* deleteMachinePods: NotFound when the list is empty, else every pod there is
\* terminates, listed or not.
deleteMachinePods ==
    pods' = IF PodView = "none" THEN pods
            ELSE [p \in 1..MaxPods |-> IF pods[p] = None THEN None ELSE Terminating]

\* stop() leaves the storage alone.
stop ==
    /\ Idle /\ ~vmCache.deleting /\ vmCache.action = "stop"
    /\ deleteMachinePods
    /\ UNCHANGED <<machineVars, storage, podCache, config, pc, local, bounds>>

-----------------------------------------------------------------------------
(* The teardown of process(): deleteLonghornVolume between the deletion of
   the pods and the removal of the finalizer. *)

setTerminating ==
    /\ Idle /\ vmCache.deleting /\ ~vmCache.terminating
    /\ cacheCur /\ vm' = [vm EXCEPT !.terminating = TRUE] /\ cacheCur' = FALSE
    /\ UNCHANGED <<vmCache, imageReady, storage, podVars, config, pc, local, bounds>>

teardown ==
    /\ Idle /\ vmCache.deleting /\ vmCache.terminating
    /\ deleteMachinePods
    /\ Begin("volume", PodView # "none")
    /\ UNCHANGED <<machineVars, storage, podCache, config, bounds>>

\* (Mutant: a volume that is gone already is an error.)
deleteExistingVolume ==
    /\ pc = "volume" /\ lh # None
    /\ IF GetVolume = "found" THEN Go("deleteVolume") ELSE EndSync
    /\ UNCHANGED <<machineVars, storage, podVars, config, bounds>>

\* (Mutant: only the claims are deleted.)
deleteClaimsOnly ==
    /\ pc = "volume" /\ lh # None
    /\ IF GetVolume = "error" THEN EndSync ELSE Go("deletePv")
    /\ UNCHANGED <<machineVars, storage, podVars, config, bounds>>

deleteLonghornVolume ==
    /\ pc = "volume" /\ lh # None
    /\ \/ GetVolume = "error" /\ EndSync
       \/ GetVolume = "found" /\ Go("deleteVolume")
       \/ GetVolume = "nil" /\ Go("deletePv")
    /\ UNCHANGED <<machineVars, storage, podVars, config, bounds>>

\* Anything but 200, a volume that is gone included, is an error.
DeleteVolume ==
    /\ pc = "deleteVolume"
    /\ IF Answers /\ Volume # 0
       THEN vols' = [vols EXCEPT ![lh.endpoint] = 0] /\ Go("deletePv")
       ELSE UNCHANGED vols /\ EndSync
    /\ UNCHANGED <<machineVars, pv, pvc, claimCache, podVars, config, bounds>>

Deleted(c) == IF c = "absent" THEN "absent" ELSE "deleting"

deletePersistentVolume ==
    /\ pc = "deletePv" /\ pv' = Deleted(pv) /\ Go("deletePvc")
    /\ UNCHANGED <<machineVars, vols, pvc, claimCache, podVars, config, bounds>>

deletePersistentVolumeClaim ==
    /\ pc = "deletePvc" /\ pvc' = Deleted(pvc)
    /\ IF podsFound THEN EndSync ELSE Go("finalizer")
    /\ UNCHANGED <<machineVars, vols, pv, claimCache, podVars, config, bounds>>

removeFinalizer ==
    /\ pc = "finalizer"
    /\ IF mCur THEN vm' = None /\ cacheCur' = FALSE ELSE UNCHANGED <<vm, cacheCur>>
    /\ EndSync
    /\ UNCHANGED <<vmCache, imageReady, storage, podVars, config, bounds>>

\* The process starts again: no client, the caches read anew, and every setting
\* in the queue.
Restart ==
    /\ toInit' = Field /\ up' = FALSE /\ lh' = None /\ EndSync
    /\ vmCache' = vm /\ cacheCur' = TRUE
    /\ claimCache' = ClaimSnapshot /\ podCache' = PodSnapshot
    /\ settingCache' = settings /\ changed' = (settings # NoSettings)
    /\ UNCHANGED <<vm, imageReady, vols, pv, pvc, pods, settings, elsewhere>>

\* GetVolume on a nil client panics, in createLonghornVolume once the image is
\* found ready and in deleteLonghornVolume.
nilClientPanics ==
    /\ lh = None
    /\ \/ Idle /\ ~vmCache.deleting /\ vmCache.action = "start" /\ imageReady
       \/ pc = "volume"
    /\ Restart /\ UNCHANGED bounds

machineWorker ==
    \/ createLonghornVolume \/ CreateVolume \/ createPersistentVolume
    \/ createPersistentVolumeClaim \/ start \/ stop
    \/ setTerminating \/ teardown \/ deleteLonghornVolume \/ DeleteVolume
    \/ deletePersistentVolume \/ deletePersistentVolumeClaim \/ removeFinalizer
    \/ nilClientPanics

-----------------------------------------------------------------------------
(* Settings. *)

Default == [endpoint |-> None, key |-> BadKey]

\* initializeSettings, before the workers are started: a setting that is not
\* listed is created with its default, in any order, until a Create fails
\* because the setting exists after all.
initializeSettings ==
    /\ \E f \in toInit :
          \/ /\ settingCache[f] # Unset
             /\ toInit' = toInit \ {f} /\ UNCHANGED settings
          \/ /\ settingCache[f] = Unset /\ settings[f] = Unset
             /\ toInit' = toInit \ {f}
             /\ settings' = [settings EXCEPT ![f] = Default[f]]
          \/ /\ settingCache[f] = Unset /\ settings[f] # Unset
             /\ toInit' = {} /\ UNCHANGED settings
    /\ UNCHANGED <<machineVars, storage, podVars, settingCache, changed, up, lh, elsewhere,
                   pc, local, bounds>>

Listed == \A f \in Field : settingCache[f] # Unset

\* run() goes on to the client, whether or not the settings are all listed, and
\* starts the workers.
startWorkers ==
    /\ ~up /\ toInit = {} /\ up' = TRUE
    /\ lh' = IF Listed THEN settingCache ELSE lh
    /\ UNCHANGED <<machineVars, storage, podVars, settings, settingCache, changed, toInit,
                   elsewhere, pc, local, bounds>>

\* (Mutant: a setting that does not exist is read all the same.)
updateClientUnchecked ==
    /\ up /\ changed /\ changed' = FALSE /\ lh' = settingCache
    /\ UNCHANGED <<machineVars, storage, podVars, settings, settingCache, toInit, up, elsewhere,
                   pc, local, bounds>>

\* settingWorker: every key rebuilds the client from the settings listed; it is
\* an error, and the key stays, when one of them does not exist.
updateLonghornClient ==
    /\ up /\ changed /\ Listed /\ changed' = FALSE /\ lh' = settingCache
    /\ UNCHANGED <<machineVars, storage, podVars, settings, settingCache, toInit, up, elsewhere,
                   pc, local, bounds>>

\* (Mutant: only the addition of a setting is an event.)
DeliverAdditions ==
    /\ \E f \in Field :
          /\ settingCache[f] # settings[f]
          /\ settingCache' = [settingCache EXCEPT ![f] = settings[f]]
          /\ changed' = (changed \/ settingCache[f] = Unset)
    /\ UNCHANGED <<machineVars, storage, podVars, settings, process, elsewhere, pc, local, bounds>>

DeliverSettings ==
    /\ \E f \in Field :
          /\ settingCache[f] # settings[f]
          /\ settingCache' = [settingCache EXCEPT ![f] = settings[f]]
          /\ changed' = TRUE
    /\ UNCHANGED <<machineVars, storage, podVars, settings, process, elsewhere, pc, local, bounds>>

-----------------------------------------------------------------------------
(* Users, Kubernetes, informers and failures. *)

Request == requests < MaxRequests /\ requests' = requests + 1
Overtake == cacheCur' = FALSE /\ mCur' = FALSE

MachineCreate ==
    /\ vm = None /\ machines < MaxMachines /\ machines' = machines + 1
    /\ vm' = [id |-> machines + 1, action |-> "start", deleting |-> FALSE,
              terminating |-> FALSE]
    /\ Overtake
    /\ UNCHANGED <<vmCache, imageReady, storage, podVars, config, pc, m, podsFound,
                   requests, faults>>

MachineUpdate ==
    /\ Request /\ vm # None /\ Overtake
    /\ \/ vm' = [vm EXCEPT !.deleting = TRUE]
       \/ vm' = [vm EXCEPT !.action = IF @ = "start" THEN "stop" ELSE "start"]
    /\ UNCHANGED <<vmCache, imageReady, storage, podVars, config, pc, m, podsFound,
                   machines, faults>>

SettingSet ==
    /\ Request
    /\ \/ \E e \in MaybeEndpoint : settings' = [settings EXCEPT !.endpoint = e]
       \/ \E k \in Key : settings' = [settings EXCEPT !.key = k]
    /\ settings' # settings
    /\ elsewhere' = IF settings'.endpoint \in Endpoint
                    THEN elsewhere \cup (Endpoint \ {settings'.endpoint})
                    ELSE elsewhere
    /\ UNCHANGED <<machineVars, storage, podVars, settingCache, changed, process, pc, local,
                   machines, faults>>

\* A node that joins takes an image back to provision, until it is pulled there.
ImageChanges ==
    /\ Request /\ imageReady /\ imageReady' = FALSE
    /\ UNCHANGED <<vm, vmCache, cacheCur, storage, podVars, config, pc, local, machines,
                   faults>>

ImageProvisioned ==
    /\ ~imageReady /\ imageReady' = TRUE
    /\ UNCHANGED <<vm, vmCache, cacheCur, storage, podVars, config, pc, local, bounds>>

\* A pod is scheduled, its claim bound and the volume attached.
PodAttaches(p) ==
    /\ Alive(p) /\ pods[p].disk = 0
    /\ pv = "present" /\ pvc = "present"
    /\ \E e \in Endpoint : vols[e] # 0 /\ pods' = [pods EXCEPT ![p].disk = vols[e]]
    /\ UNCHANGED <<machineVars, storage, podCache, config, pc, local, bounds>>

PodGone(p) ==
    /\ pods[p] # None /\ pods[p].deleting /\ pods' = [pods EXCEPT ![p] = None]
    /\ UNCHANGED <<machineVars, storage, podCache, config, pc, local, bounds>>

\* What is deleted goes, at once or when Kubernetes finds it unused.
Collected ==
    /\ \/ pvc = "deleting" /\ pvc' = "absent" /\ UNCHANGED pv
       \/ pv = "deleting" /\ pv' = "absent" /\ UNCHANGED pvc
    /\ UNCHANGED <<machineVars, vols, claimCache, podVars, config, pc, local, bounds>>

DeliverMachine ==
    /\ ~cacheCur /\ vmCache' = vm /\ cacheCur' = TRUE
    /\ UNCHANGED <<vm, imageReady, storage, podVars, config, pc, local, bounds>>

DeliverPods ==
    /\ Lag /\ podCache # PodSnapshot /\ podCache' = PodSnapshot
    /\ UNCHANGED <<machineVars, storage, pods, config, pc, local, bounds>>

DeliverClaims ==
    /\ Lag /\ claimCache # ClaimSnapshot /\ claimCache' = ClaimSnapshot
    /\ UNCHANGED <<machineVars, vols, pv, pvc, podVars, config, pc, local, bounds>>

Fault == faults < MaxFaults /\ faults' = faults + 1

\* A call fails in the middle of a sync, or in initializeSettings.
apiError ==
    /\ Fault
    /\ \/ pc # "idle" /\ EndSync /\ UNCHANGED toInit
       \/ toInit # {} /\ toInit' = {} /\ UNCHANGED <<pc, local>>
    /\ UNCHANGED <<machineVars, storage, podVars, settings, settingCache, changed, up, lh,
                   elsewhere, machines, requests>>

Crash == Fault /\ Restart /\ UNCHANGED <<machines, requests>>

-----------------------------------------------------------------------------
users == MachineCreate \/ MachineUpdate \/ SettingSet \/ ImageChanges
podStep(p) == PodAttaches(p) \/ PodGone(p)
cluster == (\E p \in 1..MaxPods : podStep(p)) \/ Collected \/ ImageProvisioned
informers == DeliverMachine \/ DeliverPods \/ DeliverClaims \/ DeliverSettings
run == initializeSettings \/ startWorkers

Next == \/ machineWorker \/ run \/ updateLonghornClient
        \/ users \/ cluster \/ informers \/ apiError \/ Crash

\* Errors are retried and caches are resynced for as long as it takes; pods
\* attach and end, deletions complete, images are provisioned (MachineImage).
Fairness ==
    /\ WF_vars(machineWorker) /\ WF_vars(run) /\ WF_vars(updateLonghornClient)
    /\ WF_vars(cluster) /\ WF_vars(informers)

Spec == Init /\ [][Next]_vars
FairSpec == Spec /\ Fairness

-----------------------------------------------------------------------------
(* Properties. *)

\* A machine that is gone has left no claim and no PersistentVolume that is not
\* being deleted, and no volume, except on an installation the settings had
\* been pointed away from (deleteLonghornVolume before removeFinalizer).
GoneLeavesNoStorage ==
    vm = None => /\ pv # "present" /\ pvc # "present"
                 /\ \A e \in Endpoint : vols[e] # 0 => e \in elsewhere

\* The settings have been pointed away from every installation at some time.
Moved == Endpoint \subseteq elsewhere

\* The pods of a machine run on the volume made for it, never on one that a
\* machine of the same name has left behind (createLonghornVolume takes any
\* volume it finds); as long as no installation in use was replaced by another.
\* With a list that trails a machine can find a pod of its predecessor, which
\* is not among its own (OnlyOwnPods).
OwnDisk == \A p \in 1..MaxPods :
    (vm # None /\ Alive(p) /\ pods[p].owner = vm.id /\ pods[p].disk # 0 /\ ~Moved)
        => pods[p].disk = vm.id

\* No pod of an earlier machine of the name runs when a machine exists: its
\* teardown has waited for them (deleteMachinePods).
OnlyOwnPods == vm # None =>
    \A p \in 1..MaxPods : Alive(p) => pods[p].owner = vm.id

\* The client ends up built from the current settings once they all exist
\* (settingWorker), whatever initializeSettings has left undone.
ClientFollowsSettings ==
    <>[](\A f \in Field : settings[f] # Unset) => <>[](lh = settings)

Usable == settings.endpoint \in Endpoint /\ settings.key = GoodKey

\* A machine asked to start ends up with its volume, its claim and a pod that
\* has attached it, whatever state its storage was found in, unless it moved to
\* another installation or has found a pod of its predecessor (process).
StartedHasStorage ==
    <>[](/\ Usable /\ ~Moved /\ OnlyOwnPods
         /\ vm # None /\ ~vm.deleting /\ vm.action = "start")
        => <>[](/\ vm # None /\ pvc = "present"
                /\ \E p \in 1..MaxPods : Alive(p) /\ pods[p].disk = vm.id)

\* A deleted machine goes, with its storage, once Longhorn can be reached: none
\* stays deleted for ever (process).
DeletedIsGone ==
    <>[]Usable => []<>(vm = None \/ ~vm.deleting)

=============================================================================
