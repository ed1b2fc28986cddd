---------------------------- MODULE MachineImage ----------------------------
(***************************************************************************)
(* The machine image worker of the VirtualMachine controller               *)
(* (pkg/controller/vm/machine_image.go) working on one image name: the     *)
(* volume of a machine is snapshotted, backed up, published to a registry  *)
(* by a pod, and pulled onto every node by one pod per node.               *)
(*                                                                         *)
(* Every call to Longhorn or to the API server is a step of its own; the   *)
(* lister reads before a call are merged with it.  A sync that is one      *)
(* Update is one step: a write that fails changes nothing and is retried.  *)
(* As in MachineController a resourceVersion is two bits, cacheCur (the    *)
(* cached image is the API's) and mCur (the sync's copy is the API's).     *)
(***************************************************************************)
EXTENDS Naturals, FiniteSets

CONSTANTS
    Node,         \* nodes that are, or may become, part of the cluster
    Docker,       \* docker image references
    Existing,     \* the references the registry holds before RancherVM pushes
    Snapshot,     \* names of Longhorn snapshots
    None,         \* no object, the empty string
    Partial,      \* what a restore that failed leaves behind
    Baseless,     \* a backup restored without its base image
    Upstream,     \* what Existing references hold
    Invalid,      \* a setting that is not a number
    FromVM,       \* values of "Spec.FromVirtualMachine is set" users choose
    Sources,      \* kinds of the machine the image is taken from
    ParentSize,   \* SizeGiB of that machine's own image
    Based,        \* whether Longhorn labels its backups with a base image
    MinChoices,   \* values of the setting image-minimum-replicas
    InitNodes,    \* the nodes of the cluster at first
    Lag,          \* whether the pod cache may trail the API
    MaxImages,    \* bound on the images created under the name
    MaxRequests,  \* bound on other user requests and on node changes
    MaxFaults     \* bound on failures

\* MachineImageState; "unset" is the empty string of a new image.
State == {"unset", "snapshot", "backup", "publish", "provision", "ready"}
Content == Snapshot \cup {Partial, Baseless, Upstream, None}

\* A MachineImage: docker, size and fromVM are its Spec, the rest its Status.
Image == [docker: Docker, size: {0, ParentSize}, fromVM: BOOLEAN,
          snap: Snapshot \cup {None}, backup: Snapshot \cup {None}, base: BOOLEAN,
          published: BOOLEAN, state: State, nodes: SUBSET Node]

\* The pod publish-<image>; content: what the longhorn container restored for
\* the kaniko container to push, None while it waits.
PublishPod == [docker: Docker, backup: Snapshot, base: BOOLEAN,
               content: Content, st: {"running", "succeeded", "failed"}]
\* The pod pull-<image>-<node>; pending and running are the same to the worker.
PullPod == [docker: Docker, st: {"running", "succeeded", "failed"}]

ASSUME ImageConstants ==
    /\ Existing \subseteq Docker /\ FromVM \subseteq BOOLEAN /\ Based \in BOOLEAN
    /\ Lag \in BOOLEAN
    /\ Sources \subseteq {"longhorn", "plain", "missing"}
    /\ ParentSize \in Nat /\ MinChoices \subseteq Nat \cup {Invalid}
    /\ InitNodes \subseteq Node /\ IsFiniteSet(Node)
    /\ MaxImages \in Nat /\ MaxRequests \in Nat /\ MaxFaults \in Nat
    /\ Invalid \notin Nat /\ None \notin Image /\ None \notin PullPod
    /\ None \notin PublishPod
    /\ {None, Partial, Baseless, Upstream} \cap Snapshot = {}
    /\ None \notin {Partial, Baseless, Upstream}

VARIABLES
    img,       \* the MachineImage object, or None
    imgCache,  \* the informer's copy
    cacheCur,  \* whether that copy has the object's resourceVersion
    source,    \* the machine Spec.FromVirtualMachine names, as listed
    cluster,   \* the nodes listed
    minReady,  \* the setting image-minimum-replicas
    backups,   \* snapshots Longhorn lists a backup of
    pending,   \* snapshots Longhorn is backing up
    publish,   \* the publish pod, or None
    pull,      \* the pull pods by node
    podCache,  \* the pod informer's copy of the two
    registry,  \* what each docker reference holds
    held,      \* what each node holds of it
    pc,        \* the worker's next step
    m,         \* the image passed to processMachineImage
    mCur,      \* whether m has the object's resourceVersion
    got,       \* the snapshot or backup a call returned
    nodes,     \* the nodes provisionNodes lists,
    todo,      \* those it has yet to look at,
    nodesReady,\* and those it found the image on
    images, requests, faults

world == <<source, cluster, minReady>>
storage == <<backups, pending, registry, held>>
podVars == <<publish, pull, podCache>>
provisioning == <<nodes, todo, nodesReady>>
local == <<m, mCur, got, provisioning>>
bounds == <<images, requests, faults>>
vars == <<img, imgCache, cacheCur, world, storage, podVars, pc, local, bounds>>

Label == {"idle", "snapshotted", "createBackup", "getBackup", "recordBackup",
          "publishDeleted", "nodes"}

TypeOK ==
    /\ img \in Image \cup {None} /\ imgCache \in Image \cup {None}
    /\ cacheCur \in BOOLEAN /\ mCur \in BOOLEAN
    /\ source \in {"longhorn", "plain", "missing"} /\ cluster \subseteq Node
    /\ minReady \in MinChoices
    /\ backups \subseteq Snapshot /\ pending \subseteq Snapshot
    /\ publish \in PublishPod \cup {None}
    /\ pull \in [Node -> PullPod \cup {None}]
    /\ podCache \in [publish: PublishPod \cup {None},
                     pull: [Node -> PullPod \cup {None}]]
    /\ registry \in [Docker -> Content] /\ held \in [Node -> [Docker -> Content]]
    /\ pc \in Label /\ m \in Image \cup {None} /\ got \in Snapshot \cup {None}
    /\ nodes \subseteq Node /\ todo \subseteq Node /\ nodesReady \subseteq Node
    /\ images \in 0..MaxImages /\ requests \in 0..MaxRequests
    /\ faults \in 0..MaxFaults

Listed == [publish |-> publish, pull |-> pull]

\* What the pod lister returns.
PodView == IF Lag THEN podCache ELSE Listed

Init ==
    /\ img = None /\ imgCache = None /\ cacheCur = TRUE
    /\ source \in Sources /\ cluster = InitNodes /\ minReady \in MinChoices
    /\ backups = {} /\ pending = {}
    /\ publish = None /\ pull = [n \in Node |-> None]
    /\ podCache = Listed
    /\ registry = [d \in Docker |-> IF d \in Existing THEN Upstream ELSE None]
    /\ held = [n \in Node |-> [d \in Docker |-> None]]
    /\ pc = "idle" /\ m = None /\ mCur = FALSE /\ got = None
    /\ nodes = {} /\ todo = {} /\ nodesReady = {}
    /\ images = 0 /\ requests = 0 /\ faults = 0

-----------------------------------------------------------------------------
(* Syncs and writes. *)

\* The sync ends; an error puts the name back on the queue, where the resync of
\* the informers would find it too.
EndSync == /\ pc' = "idle" /\ m' = None /\ mCur' = FALSE
           /\ got' = None /\ nodes' = {} /\ todo' = {} /\ nodesReady' = {}

\* (Mutant: a write that does not compare resourceVersions.)
UpdateBlindly(i, current) ==
    IF img # None THEN img' = i /\ cacheCur' = (cacheCur /\ i = img)
                  ELSE UNCHANGED <<img, cacheCur>>

\* An Update of the whole object, accepted only with the current
\* resourceVersion; one that changes nothing keeps the resourceVersion.
Update(i, current) ==
    IF current THEN img' = i /\ cacheCur' = (cacheCur /\ i = img)
               ELSE UNCHANGED <<img, cacheCur>>

\* A sync that consists of one Update of the cached image.
UpdateSync(i) == /\ Update(i, cacheCur)
                 /\ UNCHANGED <<imgCache, world, storage, podVars, pc, local, bounds>>

\* The worker goes on with the cached image.
Proceed(label) == pc' = label /\ m' = imgCache /\ mCur' = cacheCur

-----------------------------------------------------------------------------
(* processMachineImage: what the cached image asks for next. *)

Idle == pc = "idle" /\ imgCache # None

\* An image of a machine: the machine is listed, on a Longhorn volume, and the
\* size of the image is known.
FromVolume == Idle /\ imgCache.fromVM /\ source = "longhorn" /\ imgCache.size # 0

WantsSnapshot == FromVolume /\ imgCache.snap = None
WantsBackup == FromVolume /\ imgCache.snap # None /\ imgCache.backup = None
\* (Mutant: the image is published without waiting for its backup.)
WantsPublishEarly == FromVolume /\ imgCache.snap # None /\ ~imgCache.published
WantsPublish == /\ FromVolume /\ imgCache.snap # None /\ imgCache.backup # None
                /\ ~imgCache.published
WantsNodes == /\ Idle /\ imgCache.published
              /\ imgCache.fromVM => /\ FromVolume
                                    /\ imgCache.snap # None /\ imgCache.backup # None

\* The size of the image is that of the image its machine was made of.
setMachineImageSize ==
    /\ Idle /\ imgCache.fromVM /\ source # "missing" /\ imgCache.size = 0
    /\ UpdateSync([imgCache EXCEPT !.size = ParentSize])

setMachineImageState ==
    /\ \E s \in {"snapshot", "backup", "publish"} :
          /\ \/ WantsSnapshot /\ s = "snapshot"
             \/ WantsBackup /\ s = "backup"
             \/ WantsPublish /\ s = "publish"
          /\ imgCache.state # s
          /\ UpdateSync([imgCache EXCEPT !.state = s])

\* An image that is not taken from a machine is in the registry already.
setMachineImagePublished ==
    /\ Idle /\ ~imgCache.fromVM /\ ~imgCache.published
    /\ UpdateSync([imgCache EXCEPT !.published = TRUE])

-----------------------------------------------------------------------------
(* Snapshot and backup. *)

\* Snapshots nothing refers to are not told apart, so a name of one of them
\* stands for the name Longhorn makes up.
InUse == backups \cup pending \cup {got}
            \cup {i.snap : i \in {img, imgCache, m} \ {None}}
            \cup {registry[d] : d \in Docker}

CreateSnapshot ==
    /\ WantsSnapshot /\ imgCache.state = "snapshot"
    /\ Proceed("snapshotted")
    /\ \E s \in Snapshot \ InUse : got' = s
    /\ UNCHANGED <<img, imgCache, cacheCur, world, storage, podVars,
                   provisioning, bounds>>

recordSnapshot ==
    /\ pc = "snapshotted"
    /\ Update([m EXCEPT !.snap = got], mCur)
    /\ EndSync
    /\ UNCHANGED <<imgCache, world, storage, podVars, bounds>>

\* GetBackup asks for the backups of the volume and takes the first of the
\* list, in whatever order Longhorn lists them: one of these.
GetBackup(snapshotName) == backups

getBackup ==
    /\ WantsBackup /\ imgCache.state = "backup"
    /\ LET found == GetBackup(imgCache.snap) IN
         \/ /\ found = {} /\ Proceed("createBackup") /\ got' = None
         \/ /\ Proceed("recordBackup") /\ got' \in found
    /\ UNCHANGED <<img, imgCache, cacheCur, world, storage, podVars,
                   provisioning, bounds>>

CreateBackup ==
    /\ pc = "createBackup"
    /\ pending' = pending \cup {m.snap} /\ pc' = "getBackup"
    /\ UNCHANGED <<img, imgCache, cacheCur, world, backups, registry, held,
                   podVars, local, bounds>>

\* Right after CreateBackup the backup is seldom listed; the image is queued
\* again.
getBackupAgain ==
    /\ pc = "getBackup"
    /\ LET found == GetBackup(m.snap) IN
         \/ found = {} /\ EndSync
         \/ /\ got' \in found /\ pc' = "recordBackup"
            /\ UNCHANGED <<m, mCur, provisioning>>
    /\ UNCHANGED <<img, imgCache, cacheCur, world, storage, podVars, bounds>>

\* The URL names the backup, a label its base image.
WithBackup(i, b) == [i EXCEPT !.backup = b, !.base = Based]

recordBackup ==
    /\ pc = "recordBackup"
    /\ Update(WithBackup(m, got), mCur)
    /\ EndSync
    /\ UNCHANGED <<imgCache, world, storage, podVars, bounds>>

-----------------------------------------------------------------------------
(* publishImage. *)

getPublishImagePod(i) ==
    [docker |-> i.docker, backup |-> i.backup, base |-> i.base,
     content |-> None, st |-> "running"]

\* No pod is listed: it is created, which fails if there is one after all.
createPublishPod ==
    /\ WantsPublish /\ imgCache.state = "publish" /\ PodView.publish = None
    /\ publish = None
    /\ publish' = getPublishImagePod(imgCache)
    /\ UNCHANGED <<img, imgCache, cacheCur, world, storage, pull, podCache, pc,
                   local, bounds>>

\* (Mutant: the exit code of the kaniko container is not looked at.)
Terminated(p) == p # None /\ p.st # "running"

Published(p) == p # None /\ p.st = "succeeded"

\* The kaniko container has exited with code 0: the pod is deleted, then the
\* image marked.  A kaniko container that failed is an error at every sync.
deletePublishPod ==
    /\ WantsPublish /\ imgCache.state = "publish" /\ Published(PodView.publish)
    /\ publish # None
    /\ publish' = None /\ Proceed("publishDeleted")
    /\ UNCHANGED <<img, imgCache, cacheCur, world, storage, pull, podCache, got,
                   provisioning, bounds>>

publishImage ==
    /\ pc = "publishDeleted"
    /\ Update([m EXCEPT !.published = TRUE], mCur)
    /\ EndSync
    /\ UNCHANGED <<imgCache, world, storage, podVars, bounds>>

-----------------------------------------------------------------------------
(* provisionNodes. *)

\* (Mutant: nodes are not looked at again once the image is ready.)
provisionMissingNodes ==
    /\ WantsNodes /\ imgCache.state # "ready"
    /\ Proceed("nodes") /\ nodes' = cluster /\ todo' = cluster /\ nodesReady' = {}
    /\ UNCHANGED <<img, imgCache, cacheCur, world, storage, podVars, got, bounds>>

provisionNodes ==
    /\ WantsNodes
    /\ Proceed("nodes") /\ nodes' = cluster /\ todo' = cluster /\ nodesReady' = {}
    /\ UNCHANGED <<img, imgCache, cacheCur, world, storage, podVars, got, bounds>>

Visited(n, ready) ==
    /\ todo' = todo \ {n}
    /\ nodesReady' = IF ready THEN nodesReady \cup {n} ELSE nodesReady
    /\ UNCHANGED <<pc, m, mCur, got, nodes>>

nodeContainsImage(n) == n \in m.nodes

DeletePull(n) == pull' = [pull EXCEPT ![n] = None]

\* The node is in Status.Nodes: its pull pod, if any, is deleted.
nodeHasImage(n) ==
    /\ nodeContainsImage(n) /\ DeletePull(n) /\ Visited(n, TRUE)

\* (Mutant: a pull pod that has not finished counts as well.)
PulledEarly(p) == p # None /\ p.st # "failed"

Pulled(p) == p # None /\ p.st = "succeeded"

\* The pull pod is listed: a finished one is deleted, an error if it is gone
\* from the API already; only a successful one makes the node ready.
nodeHasPod(n) ==
    LET p == PodView.pull[n] IN
    /\ ~nodeContainsImage(n) /\ p # None
    /\ \/ p.st = "running" /\ UNCHANGED pull /\ Visited(n, Pulled(p))
       \/ p.st # "running" /\ pull[n] = None /\ UNCHANGED pull /\ EndSync
       \/ p.st # "running" /\ pull[n] # None /\ DeletePull(n) /\ Visited(n, Pulled(p))

getPullImagePod == [docker |-> m.docker, st |-> "running"]

\* No pull pod is listed: one is created, an error if there is one after all.
nodeNeedsPod(n) ==
    /\ ~nodeContainsImage(n) /\ PodView.pull[n] = None
    /\ IF pull[n] = None
       THEN /\ pull' = [pull EXCEPT ![n] = getPullImagePod] /\ Visited(n, FALSE)
       ELSE UNCHANGED pull /\ EndSync

provisionNode ==
    /\ pc = "nodes"
    /\ \E n \in todo : nodeHasImage(n) \/ nodeHasPod(n) \/ nodeNeedsPod(n)
    /\ UNCHANGED <<img, imgCache, cacheCur, world, storage, publish, podCache, bounds>>

\* (Mutant: one node less will do.)
NearlyReady == Cardinality(nodesReady) + 1 >= minReady \/ nodesReady = nodes

\* Enough of the nodes listed hold the image, or all of them.
EnoughReady == Cardinality(nodesReady) >= minReady \/ nodesReady = nodes

\* The status is written at the end of every loop, changed or not; a setting
\* that is not a number is an error after the pods have been seen to.
updateNodesReady ==
    /\ pc = "nodes" /\ todo = {}
    /\ \/ minReady = Invalid /\ UNCHANGED <<img, cacheCur>>
       \/ /\ minReady # Invalid
          /\ Update([m EXCEPT !.state = IF EnoughReady THEN "ready" ELSE "provision",
                              !.nodes = nodesReady], mCur)
    /\ EndSync
    /\ UNCHANGED <<imgCache, world, storage, podVars, bounds>>

machineImageWorker ==
    \/ setMachineImageSize \/ setMachineImageState \/ setMachineImagePublished
    \/ CreateSnapshot \/ recordSnapshot
    \/ getBackup \/ CreateBackup \/ getBackupAgain \/ recordBackup
    \/ createPublishPod \/ deletePublishPod \/ publishImage
    \/ provisionNodes \/ provisionNode \/ updateNodesReady

-----------------------------------------------------------------------------
(* Users, nodes, Longhorn, kubelets, informers and failures. *)

\* A write by someone else: the cache, and a sync under way, fall behind.
Overtake == cacheCur' = FALSE /\ mCur' = FALSE

NewImage(d, f, z) ==
    [docker |-> d, size |-> z, fromVM |-> f, snap |-> None, backup |-> None,
     base |-> FALSE, published |-> FALSE, state |-> "unset", nodes |-> {}]

\* The docker reference of an image that is not taken from a machine exists.
MachineImageCreate ==
    /\ img = None /\ images < MaxImages
    /\ \E d \in Docker, f \in FromVM, z \in {0, ParentSize} :
          /\ f \/ d \in Existing
          /\ img' = NewImage(d, f, z)
    /\ images' = images + 1 /\ Overtake
    /\ UNCHANGED <<imgCache, world, storage, podVars, pc, m, got, provisioning,
                   requests, faults>>

Request == requests < MaxRequests /\ requests' = requests + 1

\* Nothing but the object goes: pods, backups and docker images stay.
MachineImageDelete ==
    /\ img # None /\ Request
    /\ img' = None /\ Overtake
    /\ UNCHANGED <<imgCache, world, storage, podVars, pc, m, got, provisioning,
                   images, faults>>

\* The settings, the source machine and the nodes change.
SettingSet ==
    /\ Request /\ \E v \in MinChoices \ {minReady} : minReady' = v
    /\ UNCHANGED <<img, imgCache, cacheCur, source, cluster, storage, podVars, pc,
                   local, images, faults>>

SourceDeleted ==
    /\ Request /\ source # "missing" /\ source' = "missing"
    /\ UNCHANGED <<img, imgCache, cacheCur, cluster, minReady, storage, podVars, pc,
                   local, images, faults>>

\* A node that leaves and returns has kept its disk.
NodeChanges ==
    /\ Request
    /\ \E n \in Node : cluster' = IF n \in cluster THEN cluster \ {n}
                                                   ELSE cluster \cup {n}
    /\ UNCHANGED <<img, imgCache, cacheCur, source, minReady, storage, podVars, pc,
                   local, images, faults>>

\* Another snapshot of the machine's volume is backed up, for another image or
\* by a user of Longhorn.
OtherBackup ==
    /\ Request /\ \E s \in Snapshot \ InUse : backups' = backups \cup {s}
    /\ UNCHANGED <<img, imgCache, cacheCur, world, pending, registry, held,
                   podVars, pc, local, images, faults>>

BackupDone ==
    /\ \E s \in pending : backups' = backups \cup {s} /\ pending' = pending \ {s}
    /\ UNCHANGED <<img, imgCache, cacheCur, world, registry, held, podVars, pc,
                   local, bounds>>

\* The longhorn container restores the backup, on the base image mounted by the
\* base-image container if it has one, and lets the kaniko container go on.
Restored ==
    /\ publish # None /\ publish.st = "running" /\ publish.content = None
    /\ publish' = [publish EXCEPT !.content =
                      IF publish.base = Based THEN publish.backup ELSE Baseless]
    /\ UNCHANGED <<img, imgCache, cacheCur, world, storage, pull, podCache, pc,
                   local, bounds>>

\* The kaniko container pushes what it finds and exits with code 0.
Pushed ==
    /\ publish # None /\ publish.st = "running" /\ publish.content # None
    /\ publish' = [publish EXCEPT !.st = "succeeded"]
    /\ registry' = [registry EXCEPT ![publish.docker] = publish.content]
    /\ UNCHANGED <<img, imgCache, cacheCur, world, backups, pending, held, pull,
                   podCache, pc, local, bounds>>

\* The kubelet of n pulls the image, if the registry has it, and runs the pod.
ImagePulled(n) ==
    /\ n \in cluster /\ pull[n] # None /\ pull[n].st = "running"
    /\ registry[pull[n].docker] # None
    /\ pull' = [pull EXCEPT ![n].st = "succeeded"]
    /\ held' = [held EXCEPT ![n][pull[n].docker] = registry[pull[n].docker]]
    /\ UNCHANGED <<img, imgCache, cacheCur, world, backups, pending, registry,
                   publish, podCache, pc, local, bounds>>

\* The pods of a node that is gone are collected.
PodCollected(n) ==
    /\ n \notin cluster /\ pull[n] # None /\ DeletePull(n)
    /\ UNCHANGED <<img, imgCache, cacheCur, world, storage, publish, podCache, pc,
                   local, bounds>>

DeliverImage ==
    /\ ~cacheCur /\ imgCache' = img /\ cacheCur' = TRUE
    /\ UNCHANGED <<img, world, storage, podVars, pc, local, bounds>>

DeliverPods ==
    /\ Lag /\ podCache # Listed /\ podCache' = Listed
    /\ UNCHANGED <<img, imgCache, cacheCur, world, storage, publish, pull, pc, local,
                   bounds>>

Fault == faults < MaxFaults /\ faults' = faults + 1

\* A call fails, or the controller stops, between two calls of a sync.
apiError ==
    /\ pc # "idle" /\ Fault /\ EndSync
    /\ UNCHANGED <<img, imgCache, cacheCur, world, storage, podVars, images, requests>>

\* Longhorn accepted the backup and does not make it.
BackupFails ==
    /\ Fault /\ \E s \in pending : pending' = pending \ {s}
    /\ UNCHANGED <<img, imgCache, cacheCur, world, backups, registry, held,
                   podVars, pc, local, images, requests>>

\* The restore fails and leaves part of a disk; the kaniko container is let go
\* on all the same.  Or one of the containers exits with an error.
PublishFails ==
    /\ publish # None /\ publish.st = "running" /\ Fault
    /\ \/ publish.content = None /\ publish' = [publish EXCEPT !.content = Partial]
       \/ publish' = [publish EXCEPT !.st = "failed"]
    /\ UNCHANGED <<img, imgCache, cacheCur, world, storage, pull, podCache, pc,
                   local, images, requests>>

PullFails ==
    /\ Fault
    /\ \E n \in Node : /\ pull[n] # None /\ pull[n].st = "running"
                       /\ pull' = [pull EXCEPT ![n].st = "failed"]
    /\ UNCHANGED <<img, imgCache, cacheCur, world, storage, publish, podCache, pc,
                   local, images, requests>>

-----------------------------------------------------------------------------
users == MachineImageCreate \/ MachineImageDelete \/ SettingSet \/ SourceDeleted
            \/ NodeChanges \/ OtherBackup
podsRun == Restored \/ Pushed \/ \E n \in Node : ImagePulled(n) \/ PodCollected(n)
failures == apiError \/ BackupFails \/ PublishFails \/ PullFails

Next == machineImageWorker \/ users \/ BackupDone \/ podsRun
            \/ DeliverImage \/ DeliverPods \/ failures

\* The worker's queue is fed by every event, by node additions and by the
\* informers' resync, so a sync that can go on does; Longhorn finishes backups
\* and pods finish, unless one of the bounded failures happens.
Fairness ==
    /\ WF_vars(machineImageWorker) /\ WF_vars(BackupDone)
    /\ WF_vars(Restored) /\ WF_vars(Pushed)
    /\ \A n \in Node : WF_vars(ImagePulled(n)) /\ WF_vars(PodCollected(n))
    /\ WF_vars(DeliverImage) /\ WF_vars(DeliverPods)

Spec == Init /\ [][Next]_vars
FairSpec == Spec /\ Fairness

-----------------------------------------------------------------------------
(* Properties. *)

\* What the registry holds for a published image is the backup its status
\* names, however often the publish pod had to run; the one exception is a
\* restore that failed, which publishImage cannot tell (the shell command
\* signals the kaniko container even then).
PublishedIsBackup ==
    (img # None /\ img.fromVM /\ img.published)
        => registry[img.docker] \in {img.backup, Partial}

\* Every node in Status.Nodes has pulled the image since it was published
\* (provisionNodes).
ListedNodesHoldImage ==
    img # None => \A n \in img.nodes :
                     /\ img.published
                     /\ held[n][img.docker] \in
                           (IF img.fromVM THEN {img.backup, Partial} ELSE {Upstream})

\* An image is ready only if it is present on a minimum number of nodes, or on
\* all nodes listed (provisionNodes; the setting image-minimum-replicas).
ReadyMeansPresent ==
    [][(img # None /\ img' # None /\ img.state # "ready" /\ img'.state = "ready")
          => LET present == {n \in Node : held[n][img.docker] # None} IN
             Cardinality(present) >= minReady \/ nodes \subseteq present]_vars

\* The backup of an image is a backup of its own snapshot (createBackup).
BackupOfSnapshot ==
    (img # None /\ img.backup # None) => img.backup = img.snap

\* A snapshot or backup, once recorded, is never replaced, although a sync with
\* a stale copy takes another snapshot (createSnapshot, createBackup).
RecordedOnce ==
    [][(img # None /\ img' # None) =>
          /\ img.snap # None => img'.snap = img.snap
          /\ img.backup # None => img'.backup = img.backup
          /\ img.published => img'.published]_vars

\* The image's machine and settings let it go on.
Workable == /\ img # None /\ minReady # Invalid
            /\ img.fromVM => source = "longhorn" /\ ParentSize # 0

PublishStuck == ~img.published /\ publish # None /\ publish.st = "failed"

\* An image becomes ready on every node of the cluster, nodes that join later
\* included, unless its publish pod has failed: that pod is never replaced
\* (processMachineImage, publishImage).
ImageSettles ==
    <>[]Workable => <>[](img # None /\ (\/ img.state = "ready" /\ img.nodes = cluster
                                       \/ PublishStuck))

=============================================================================
