------------------------- MODULE MachineImageProofs -------------------------
(***************************************************************************)
(* What an image has recorded is never replaced, for any constants; and a  *)
(* name that is used for one image only holds, in the registry and on the  *)
(* nodes listed, the backup that was recorded, for any nodes, snapshots,   *)
(* settings and failures.                                                  *)
(***************************************************************************)
EXTENDS MachineImage, FiniteSetTheorems, TLAPS

\* What has the version of the object is equal to it.
VersionsAgree == /\ cacheCur => imgCache = img
                 /\ mCur => m = img /\ pc # "idle"
                 /\ (m = None) = (pc = "idle")

\* A sync goes on with what its copy asked for (processMachineImage).
SyncMatchesCopy ==
    /\ pc = "snapshotted" => m.snap = None
    /\ pc \in {"createBackup", "getBackup", "recordBackup"} => m.fromVM /\ m.backup = None
    /\ pc \in {"getBackup", "createBackup"} => m.snap # None
    /\ pc = "nodes" => m.published

Recorded == TypeOK /\ VersionsAgree /\ SyncMatchesCopy

-----------------------------------------------------------------------------
(* One image under the name. *)

\* What the registry, and then the nodes, are to hold.
Good == IF img.fromVM THEN {img.backup, Partial} ELSE {Upstream}
Holds(n) == held[n][img.docker] \in Good

\* Before there is an image there is nothing of one.
Pristine ==
    images = 0 => /\ img = None /\ imgCache = None /\ m = None
                  /\ publish = None /\ podCache.publish = None
                  /\ \A n \in Node : pull[n] = None /\ podCache.pull[n] = None
                  /\ \A d \in Existing : registry[d] = Upstream

\* An earlier version of the image: what it has recorded, the image has.
Earlier(c) ==
    c # None => /\ c.docker = img.docker /\ c.fromVM = img.fromVM
                /\ c.backup # None => c.backup = img.backup /\ c.base = Based
                /\ c.published => img.published
                /\ c.nodes # {} => c.published
                /\ \A n \in c.nodes : Holds(n)

\* A publish pod is of the recorded backup, and has pushed nothing else but a
\* restore that failed.
PublishPodOK(p) ==
    p # None => /\ img.fromVM /\ p.docker = img.docker /\ p.backup = img.backup
                /\ p.base = Based /\ p.content \in {None, p.backup, Partial}
                /\ p.st = "succeeded" => registry[img.docker] \in Good

\* A pull pod was made after the image was published.
PullPodOK(n, p) ==
    p # None => /\ p.docker = img.docker /\ img.published
                /\ p.st = "succeeded" => Holds(n)

RegistryOK ==
    /\ img.published => registry[img.docker] \in Good
    /\ img.published /\ img.fromVM => img.backup # None
    /\ ~img.fromVM => registry[img.docker] = Upstream

\* What the sync under way has found.
SyncFindings ==
    /\ pc = "publishDeleted" => img.fromVM /\ m.backup # None /\ registry[img.docker] \in Good
    /\ pc = "nodes" => \A n \in nodesReady : Holds(n)

OneImage ==
    /\ Pristine
    /\ img # None => /\ Earlier(img) /\ Earlier(imgCache) /\ Earlier(m)
                     /\ PublishPodOK(publish) /\ PublishPodOK(podCache.publish)
                     /\ \A n \in Node : PullPodOK(n, pull[n]) /\ PullPodOK(n, podCache.pull[n])
                     /\ RegistryOK /\ SyncFindings

-----------------------------------------------------------------------------
(* Who writes what. *)

\* Every variable is written by a few actions only (processMachineImage, users,
\* Longhorn, kubelets and informers).
LEMMA Writers ==
    ASSUME [Next]_vars
    PROVE  /\ \/ UNCHANGED img
              \/ setMachineImageSize \/ setMachineImageState \/ setMachineImagePublished
              \/ recordSnapshot \/ recordBackup \/ publishImage \/ updateNodesReady
              \/ MachineImageCreate \/ MachineImageDelete
           /\ \/ UNCHANGED <<m, pc, nodesReady>>
              \/ CreateSnapshot \/ recordSnapshot \/ getBackup \/ CreateBackup
              \/ getBackupAgain \/ recordBackup \/ deletePublishPod \/ publishImage
              \/ provisionNodes \/ provisionNode \/ updateNodesReady \/ apiError
           /\ UNCHANGED imgCache \/ DeliverImage
           /\ \/ UNCHANGED publish \/ createPublishPod \/ deletePublishPod \/ Restored
              \/ Pushed \/ PublishFails
           /\ \/ UNCHANGED pull \/ provisionNode \/ PullFails
              \/ \E n \in Node : ImagePulled(n) \/ PodCollected(n)
           /\ UNCHANGED podCache \/ DeliverPods
           /\ UNCHANGED registry \/ Pushed
           /\ UNCHANGED held \/ \E n \in Node : ImagePulled(n)
           /\ UNCHANGED images \/ MachineImageCreate
<1> USE DEF Next, machineImageWorker, users, podsRun, failures, vars, world, storage,
      podVars, provisioning, local, bounds, EndSync, UpdateSync, Update, Proceed,
      setMachineImageSize, setMachineImageState, setMachineImagePublished, CreateSnapshot,
      recordSnapshot, getBackup, CreateBackup, getBackupAgain, recordBackup,
      createPublishPod, deletePublishPod, publishImage, provisionNodes, provisionNode,
      updateNodesReady, MachineImageCreate, MachineImageDelete, SettingSet, SourceDeleted,
      NodeChanges, OtherBackup, BackupDone, Restored, Pushed, ImagePulled, PodCollected,
      DeliverImage, DeliverPods, apiError, BackupFails, PublishFails, PullFails
<1> QED BY ZenonT(40)

-----------------------------------------------------------------------------
(* What an Update of the worker changes. *)

\* A worker's Update is accepted only of a copy that is the image as it is, so
\* it changes what the step is about and nothing else (Update).
LEMMA ImageWrites ==
    ASSUME Recorded, [Next]_vars, img' # img
    PROVE  \/ MachineImageCreate \/ MachineImageDelete
           \/ /\ img \in Image
              /\ \/ img' = [img EXCEPT !.size = ParentSize]
                 \/ \E s \in {"snapshot", "backup", "publish"} :
                       img' = [img EXCEPT !.state = s]
                 \/ ~img.fromVM /\ img' = [img EXCEPT !.published = TRUE]
                 \/ pc = "snapshotted" /\ img.snap = None /\ img' = [img EXCEPT !.snap = got]
                 \/ /\ pc = "recordBackup" /\ img.fromVM /\ img.backup = None
                    /\ img' = WithBackup(img, got)
                 \/ /\ pc = "publishDeleted" /\ m = img
                    /\ img' = [img EXCEPT !.published = TRUE]
                 \/ /\ pc = "nodes" /\ m = img /\ updateNodesReady /\ minReady # Invalid
                    /\ img' = [img EXCEPT
                                 !.state = IF EnoughReady THEN "ready" ELSE "provision",
                                 !.nodes = nodesReady]
<1> USE DEF Recorded, VersionsAgree, TypeOK
<1>1. CASE setMachineImageSize
  BY <1>1 DEF setMachineImageSize, UpdateSync, Update, Idle
<1>2. CASE setMachineImageState
  BY <1>2 DEF setMachineImageState, UpdateSync, Update, WantsSnapshot, WantsBackup,
       WantsPublish, FromVolume, Idle
<1>3. CASE setMachineImagePublished
  BY <1>3 DEF setMachineImagePublished, UpdateSync, Update, Idle
<1>4. CASE recordSnapshot
  BY <1>4 DEF recordSnapshot, Update, SyncMatchesCopy
<1>5. CASE recordBackup
  BY <1>5 DEF recordBackup, Update, SyncMatchesCopy
<1>6. CASE publishImage
  BY <1>6 DEF publishImage, Update
<1>7. CASE updateNodesReady
  BY <1>7 DEF updateNodesReady, Update
<1>8. QED BY <1>1, <1>2, <1>3, <1>4, <1>5, <1>6, <1>7, Writers

\* The fields of an image that is written: what is recorded stays.
LEMMA ImageFields ==
    ASSUME Recorded, [Next]_vars, img # None, img' # None
    PROVE  /\ img' \in Image /\ img \in Image
           /\ img'.docker = img.docker /\ img'.fromVM = img.fromVM
           /\ img.snap # None => img'.snap = img.snap
           /\ \/ img'.backup = img.backup /\ img'.base = img.base
              \/ /\ img.backup = None /\ img'.base = Based /\ img.fromVM
                 /\ pc = "recordBackup" /\ img'.published = img.published
           /\ img'.published # img.published =>
                 /\ img'.published /\ img'.backup = img.backup
                 /\ ~img.fromVM \/ (pc = "publishDeleted" /\ m = img)
           /\ \/ img'.nodes = img.nodes
              \/ pc = "nodes" /\ m = img /\ img'.nodes = nodesReady
           /\ img'.state = "ready" /\ img.state # "ready" =>
                 updateNodesReady /\ pc = "nodes" /\ m = img /\ minReady # Invalid /\ EnoughReady
<1>1. img \in Image BY DEF Recorded, TypeOK
<1>2. CASE img' = img BY <1>1, <1>2
<1>3. CASE img' # img
  <2>1. ~MachineImageCreate /\ ~MachineImageDelete
    BY DEF MachineImageCreate, MachineImageDelete
  <2>2. got \in Snapshot \cup {None} /\ nodesReady \subseteq Node /\ Based \in BOOLEAN
    BY ImageConstants DEF Recorded, TypeOK
  <2>3. CASE img' = [img EXCEPT !.size = ParentSize]
    BY <1>1, <2>3 DEF Image
  <2>4. CASE \E s \in {"snapshot", "backup", "publish"} : img' = [img EXCEPT !.state = s]
    BY <1>1, <2>4 DEF Image, State
  <2>5. CASE ~img.fromVM /\ img' = [img EXCEPT !.published = TRUE]
    BY <1>1, <2>5 DEF Image
  <2>6. CASE img.snap = None /\ img' = [img EXCEPT !.snap = got]
    BY <1>1, <2>2, <2>6 DEF Image
  <2>7. CASE /\ pc = "recordBackup" /\ img.fromVM /\ img.backup = None
             /\ img' = WithBackup(img, got)
    BY <1>1, <2>2, <2>7 DEF Image, WithBackup
  <2>8. CASE pc = "publishDeleted" /\ m = img /\ img' = [img EXCEPT !.published = TRUE]
    BY <1>1, <2>8 DEF Image
  <2>9. CASE /\ pc = "nodes" /\ m = img /\ updateNodesReady /\ minReady # Invalid
             /\ img' = [img EXCEPT
                          !.state = IF EnoughReady THEN "ready" ELSE "provision",
                          !.nodes = nodesReady]
    BY <1>1, <2>2, <2>9 DEF Image, State
  <2>10. QED BY <1>3, <2>1, <2>3, <2>4, <2>5, <2>6, <2>7, <2>8, <2>9, ImageWrites
<1>4. QED BY <1>2, <1>3

-----------------------------------------------------------------------------
(* Types. *)

ImageTypes == /\ img \in Image \cup {None} /\ imgCache \in Image \cup {None}
              /\ m \in Image \cup {None}
SyncTypes == /\ cacheCur \in BOOLEAN /\ mCur \in BOOLEAN /\ pc \in Label
             /\ source \in {"longhorn", "plain", "missing"} /\ cluster \subseteq Node
             /\ minReady \in MinChoices
             /\ backups \subseteq Snapshot /\ pending \subseteq Snapshot
             /\ got \in Snapshot \cup {None}
             /\ nodes \subseteq Node /\ todo \subseteq Node /\ nodesReady \subseteq Node
PodTypes == /\ publish \in PublishPod \cup {None}
            /\ pull \in [Node -> PullPod \cup {None}]
            /\ podCache \in [publish: PublishPod \cup {None},
                             pull: [Node -> PullPod \cup {None}]]
ContentTypes == registry \in [Docker -> Content] /\ held \in [Node -> [Docker -> Content]]
BoundTypes == /\ images \in 0..MaxImages /\ requests \in 0..MaxRequests
              /\ faults \in 0..MaxFaults

\* TypeOK, taken apart by the groups of variables that are written together.
LEMMA TypeParts ==
    TypeOK <=> ImageTypes /\ SyncTypes /\ PodTypes /\ ContentTypes /\ BoundTypes
BY DEF TypeOK, ImageTypes, SyncTypes, PodTypes, ContentTypes, BoundTypes

\* The image and its copies stay well formed (processMachineImage, users).
LEMMA ImageTypesStep ==
    ASSUME Recorded, [Next]_vars
    PROVE  ImageTypes'
<1> USE DEF Recorded, TypeOK
<1>1. img' \in Image \cup {None}
  <2>1. CASE MachineImageCreate
    <3>1. \A d \in Docker, f \in FromVM, z \in {0, ParentSize} : NewImage(d, f, z) \in Image
      BY ImageConstants DEF NewImage, Image, State
    <3>2. QED BY <2>1, <3>1 DEF MachineImageCreate
  <2>2. CASE MachineImageDelete BY <2>2 DEF MachineImageDelete
  <2>3. CASE img # None /\ img' # None BY <2>3, ImageFields
  <2>4. CASE ~MachineImageCreate /\ ~MachineImageDelete /\ img = None
    BY <2>4, ImageWrites, ImageConstants
  <2>5. QED BY <2>1, <2>2, <2>3, <2>4
<1>2. imgCache' \in Image \cup {None} BY Writers DEF DeliverImage
<1>3. m' \in Image \cup {None}
  BY Writers DEF CreateSnapshot, recordSnapshot, getBackup, CreateBackup, getBackupAgain,
       recordBackup, deletePublishPod, publishImage, provisionNodes, provisionNode,
       updateNodesReady, apiError, EndSync, Proceed, Visited, nodeHasImage, nodeHasPod,
       nodeNeedsPod, local
<1>4. QED BY <1>1, <1>2, <1>3 DEF ImageTypes

\* So does what the sync keeps: its place, backups and nodes found ready.
LEMMA SyncTypesStep ==
    ASSUME Recorded, [Next]_vars
    PROVE  SyncTypes'
<1> USE ImageConstants DEF Recorded, TypeOK, SyncTypes, Label, world, storage, podVars,
      provisioning, local, bounds, EndSync, Update, UpdateSync, Proceed, GetBackup, Visited,
      nodeHasImage, nodeHasPod, nodeNeedsPod, Overtake
<1>1. CASE setMachineImageSize BY <1>1 DEF setMachineImageSize
<1>2. CASE setMachineImageState BY <1>2 DEF setMachineImageState
<1>3. CASE setMachineImagePublished BY <1>3 DEF setMachineImagePublished
<1>4. CASE CreateSnapshot BY <1>4 DEF CreateSnapshot
<1>5. CASE recordSnapshot BY <1>5 DEF recordSnapshot
<1>6. CASE getBackup BY <1>6 DEF getBackup
<1>7. CASE CreateBackup
  <2>1. m.snap \in Snapshot
    BY <1>7 DEF CreateBackup, SyncMatchesCopy, VersionsAgree, Image
  <2>2. QED BY <1>7, <2>1 DEF CreateBackup
<1>8. CASE getBackupAgain BY <1>8 DEF getBackupAgain
<1>9. CASE recordBackup BY <1>9 DEF recordBackup
<1>10. CASE createPublishPod BY <1>10 DEF createPublishPod
<1>11. CASE deletePublishPod BY <1>11 DEF deletePublishPod
<1>12. CASE publishImage BY <1>12 DEF publishImage
<1>13. CASE provisionNodes BY <1>13 DEF provisionNodes
<1>14. CASE provisionNode BY <1>14 DEF provisionNode
<1>15. CASE updateNodesReady BY <1>15 DEF updateNodesReady
<1>16. CASE MachineImageCreate BY <1>16 DEF MachineImageCreate
<1>17. CASE MachineImageDelete BY <1>17 DEF MachineImageDelete
<1>18. CASE SettingSet BY <1>18 DEF SettingSet
<1>19. CASE SourceDeleted BY <1>19 DEF SourceDeleted
<1>20. CASE NodeChanges BY <1>20 DEF NodeChanges
<1>21. CASE OtherBackup BY <1>21 DEF OtherBackup
<1>22. CASE BackupDone BY <1>22 DEF BackupDone
<1>23. CASE Restored BY <1>23 DEF Restored
<1>24. CASE Pushed BY <1>24 DEF Pushed
<1>25. CASE DeliverImage BY <1>25 DEF DeliverImage
<1>26. CASE DeliverPods BY <1>26 DEF DeliverPods
<1>27. CASE apiError BY <1>27 DEF apiError
<1>28. CASE BackupFails BY <1>28 DEF BackupFails
<1>29. CASE PublishFails BY <1>29 DEF PublishFails
<1>30. CASE PullFails BY <1>30 DEF PullFails
<1>31. CASE \E n \in Node : ImagePulled(n) \/ PodCollected(n)
  BY <1>31 DEF ImagePulled, PodCollected
<1>32. CASE UNCHANGED vars BY <1>32 DEF vars
<1>33. QED
  BY <1>1, <1>2, <1>3, <1>4, <1>5, <1>6, <1>7, <1>8, <1>9, <1>10, <1>11, <1>12, <1>13,
     <1>14, <1>15, <1>16, <1>17, <1>18, <1>19, <1>20, <1>21, <1>22, <1>23, <1>24,
     <1>25, <1>26, <1>27, <1>28, <1>29, <1>30, <1>31, <1>32
     DEF Next, machineImageWorker, users, podsRun, failures

\* So do the publish pod, the pull pods and what the lister has of them.
LEMMA PodTypesStep ==
    ASSUME Recorded, [Next]_vars
    PROVE  PodTypes' /\ ContentTypes'
<1> USE DEF Recorded, TypeOK
<1>1. publish' \in PublishPod \cup {None}
  <2>1. CASE createPublishPod
    <3>1. imgCache \in Image /\ imgCache.backup \in Snapshot
      BY <2>1 DEF createPublishPod, WantsPublish, FromVolume, Idle, Image
    <3>2. getPublishImagePod(imgCache) \in PublishPod
      BY <3>1 DEF getPublishImagePod, PublishPod, Image, Content
    <3>3. QED BY <2>1, <3>2 DEF createPublishPod
  <2>2. CASE deletePublishPod BY <2>2 DEF deletePublishPod
  <2>3. CASE Restored \/ Pushed \/ PublishFails
    <3>1. publish \in PublishPod BY <2>3 DEF Restored, Pushed, PublishFails
    <3>2. publish.backup \in Content /\ Baseless \in Content /\ Partial \in Content
      BY <3>1 DEF PublishPod, Content
    <3>3. QED BY <2>3, <3>1, <3>2 DEF Restored, Pushed, PublishFails, PublishPod
  <2>4. QED BY <2>1, <2>2, <2>3, Writers
<1>2. pull' \in [Node -> PullPod \cup {None}]
  <2>1. CASE provisionNode
    <3>1. CASE getPullImagePod \in PullPod
      BY <2>1, <3>1 DEF provisionNode, nodeHasImage, nodeHasPod, nodeNeedsPod, DeletePull
    <3>2. m \in Image BY <2>1 DEF provisionNode, VersionsAgree
    <3>3. getPullImagePod \in PullPod BY <3>2 DEF getPullImagePod, PullPod, Image
    <3>4. QED BY <3>1, <3>3
  <2>2. ASSUME NEW n \in Node, ImagePulled(n)
        PROVE  pull' \in [Node -> PullPod \cup {None}]
    <3>1. pull[n] \in PullPod BY <2>2 DEF ImagePulled
    <3>2. [pull[n] EXCEPT !.st = "succeeded"] \in PullPod BY <3>1 DEF PullPod
    <3>3. QED BY <2>2, <3>2 DEF ImagePulled
  <2>3. CASE PullFails
    <3>1. PICK n \in Node : /\ pull[n] # None
                            /\ pull' = [pull EXCEPT ![n].st = "failed"]
      BY <2>3 DEF PullFails
    <3>2. [pull[n] EXCEPT !.st = "failed"] \in PullPod BY <3>1 DEF PullPod
    <3>3. QED BY <3>1, <3>2
  <2>4. ASSUME NEW n \in Node, PodCollected(n)
        PROVE  pull' \in [Node -> PullPod \cup {None}]
    BY <2>4 DEF PodCollected, DeletePull
  <2>5. QED BY <2>1, <2>2, <2>3, <2>4, Writers
<1>3. podCache' \in [publish: PublishPod \cup {None}, pull: [Node -> PullPod \cup {None}]]
  BY Writers DEF DeliverPods, Listed
<1>4. registry' \in [Docker -> Content]
  <2>1. CASE Pushed
    <3>1. publish \in PublishPod BY <2>1 DEF Pushed
    <3>2. publish.content \in Content BY <3>1 DEF PublishPod
    <3>3. QED BY <2>1, <3>2 DEF Pushed
  <2>2. QED BY <2>1, Writers
<1>5. held' \in [Node -> [Docker -> Content]]
  <2>1. ASSUME NEW n \in Node, ImagePulled(n)
        PROVE  held' \in [Node -> [Docker -> Content]]
    <3>1. pull[n] \in PullPod BY <2>1 DEF ImagePulled
    <3>2. pull[n].docker \in Docker BY <3>1 DEF PullPod
    <3>3. registry[pull[n].docker] \in Content BY <3>2
    <3>4. QED BY <2>1, <3>2, <3>3 DEF ImagePulled
  <2>2. QED BY <2>1, Writers
<1>6. QED BY <1>1, <1>2, <1>3, <1>4, <1>5 DEF PodTypes, ContentTypes

\* Images, requests and failures stay within their bounds.
LEMMA BoundTypesStep ==
    ASSUME TypeOK, [Next]_vars
    PROVE  BoundTypes'
<1> USE ImageConstants DEF TypeOK, BoundTypes, bounds
<1>1. CASE UNCHANGED bounds BY <1>1
<1>2. CASE MachineImageCreate BY <1>2 DEF MachineImageCreate
<1>3. CASE images' = images /\ faults' = faults /\ Request BY <1>3 DEF Request
<1>4. CASE images' = images /\ requests' = requests /\ Fault BY <1>4 DEF Fault
<1>5. QED
  BY <1>1, <1>2, <1>3, <1>4
     DEF Next, machineImageWorker, users, podsRun, failures, vars, UpdateSync,
         setMachineImageSize, setMachineImageState, setMachineImagePublished,
         CreateSnapshot, recordSnapshot, getBackup, CreateBackup, getBackupAgain,
         recordBackup, createPublishPod, deletePublishPod, publishImage, provisionNodes,
         provisionNode, updateNodesReady, MachineImageDelete, SettingSet, SourceDeleted,
         NodeChanges, OtherBackup, BackupDone, Restored, Pushed, ImagePulled, PodCollected,
         DeliverImage, DeliverPods, apiError, BackupFails, PublishFails, PullFails

\* Every step keeps TypeOK.
LEMMA TypeStep ==
    ASSUME Recorded, [Next]_vars
    PROVE  TypeOK'
<1>1. TypeOK BY DEF Recorded
<1>2. QED
  BY <1>1, TypeParts, ImageTypesStep, SyncTypesStep, PodTypesStep, BoundTypesStep
     DEF TypeOK, ImageTypes, SyncTypes, PodTypes, ContentTypes, BoundTypes

-----------------------------------------------------------------------------
(* Copies. *)

\* Copies that have the version of the image stay equal to it, and a sync goes on
\* with what it was begun for (processMachineImage).
LEMMA CopiesStep ==
    ASSUME Recorded, [Next]_vars
    PROVE  VersionsAgree' /\ SyncMatchesCopy'
<1> USE DEF Recorded, VersionsAgree, SyncMatchesCopy, local, UpdateSync, Update, EndSync,
      Proceed, Idle, FromVolume, WantsSnapshot, WantsBackup, WantsPublish, WantsNodes,
      Visited, nodeHasImage, nodeHasPod, nodeNeedsPod, Overtake
<1>1. CASE setMachineImageSize BY <1>1 DEF setMachineImageSize
<1>2. CASE setMachineImageState
  <2>1. PICK s \in {"snapshot", "backup", "publish"} :
           pc = "idle" /\ UpdateSync([imgCache EXCEPT !.state = s])
    BY <1>2 DEF setMachineImageState
  <2>2. QED BY <2>1
<1>3. CASE setMachineImagePublished BY <1>3 DEF setMachineImagePublished
<1>4. CASE CreateSnapshot BY <1>4 DEF CreateSnapshot
<1>5. CASE recordSnapshot BY <1>5 DEF recordSnapshot
<1>6. CASE getBackup BY <1>6 DEF getBackup
<1>7. CASE CreateBackup BY <1>7 DEF CreateBackup
<1>8. CASE getBackupAgain BY <1>8 DEF getBackupAgain
<1>9. CASE recordBackup BY <1>9 DEF recordBackup
<1>10. CASE deletePublishPod BY <1>10 DEF deletePublishPod
<1>11. CASE publishImage BY <1>11 DEF publishImage
<1>12. CASE provisionNodes BY <1>12 DEF provisionNodes
<1>13. CASE provisionNode BY <1>13 DEF provisionNode
<1>14. CASE updateNodesReady BY <1>14 DEF updateNodesReady
<1>15. CASE MachineImageCreate BY <1>15 DEF MachineImageCreate
<1>16. CASE MachineImageDelete BY <1>16 DEF MachineImageDelete
<1>17. CASE DeliverImage BY <1>17 DEF DeliverImage
<1>18. CASE apiError BY <1>18 DEF apiError
<1>19. CASE UNCHANGED <<img, imgCache, cacheCur, m, mCur, pc>> BY <1>19
<1>20. QED
  BY <1>1, <1>2, <1>3, <1>4, <1>5, <1>6, <1>7, <1>8, <1>9, <1>10, <1>11, <1>12, <1>13,
     <1>14, <1>15, <1>16, <1>17, <1>18, <1>19
     DEF Next, machineImageWorker, users, podsRun, failures, vars, createPublishPod,
         SettingSet, SourceDeleted, NodeChanges, OtherBackup, BackupDone, Restored, Pushed,
         ImagePulled, PodCollected, DeliverPods, BackupFails, PublishFails, PullFails

\* Before there is an image all copies agree.
LEMMA InitRecorded == Init => Recorded
<1> SUFFICES ASSUME Init PROVE Recorded OBVIOUS
<1> USE ImageConstants DEF Init
<1>1. ImageTypes /\ BoundTypes BY DEF ImageTypes, BoundTypes
<1>2. SyncTypes BY DEF SyncTypes, Label
<1>3. PodTypes BY DEF PodTypes, Listed
<1>4. ContentTypes BY DEF ContentTypes, Content
<1>5. VersionsAgree /\ SyncMatchesCopy BY DEF VersionsAgree, SyncMatchesCopy
<1>6. QED BY <1>1, <1>2, <1>3, <1>4, <1>5, TypeParts DEF Recorded

\* Copies agree with the image and syncs with their copies, in every state.
THEOREM RecordedInvariance == Spec => []Recorded
<1>1. Recorded /\ [Next]_vars => Recorded'
  BY TypeStep, CopiesStep DEF Recorded
<1>2. QED BY <1>1, InitRecorded, PTL DEF Spec

\* Every reachable state is well formed (MachineImage).
THEOREM ImageTypeCorrect == Spec => []TypeOK
<1>1. Recorded => TypeOK BY DEF Recorded
<1>2. QED BY <1>1, RecordedInvariance, PTL

\* A snapshot or a backup, once recorded, is never replaced, and an image once
\* published stays so, whatever a sync with a stale copy has done
\* (createSnapshot, createBackup, publishImage).
THEOREM RecordsStay == Spec => RecordedOnce
<1>1. Recorded /\ [Next]_vars =>
        [(img # None /\ img' # None) =>
            /\ img.snap # None => img'.snap = img.snap
            /\ img.backup # None => img'.backup = img.backup
            /\ img.published => img'.published]_vars
  BY ImageFields
<1>2. QED BY <1>1, RecordedInvariance, PTL DEF Spec, RecordedOnce

-----------------------------------------------------------------------------
(* A step between two versions of the one image. *)

\* There is an image before and after a step of the system.
Kept == /\ Recorded /\ OneImage /\ Recorded' /\ [Next]_vars
        /\ img # None /\ img' # None

\* An image keeps its name in the registry, its kind, and what it has recorded.
LEMMA KeptFields ==
    ASSUME Kept
    PROVE  /\ img \in Image /\ img' \in Image
           /\ img'.docker = img.docker /\ img.docker \in Docker /\ img'.fromVM = img.fromVM
           /\ img.published => img'.published
           /\ img.backup # None => img'.backup = img.backup /\ img'.base = img.base
           /\ img'.backup # img.backup => img'.base = Based /\ img.fromVM /\ img.backup = None
<1>1. img \in Image /\ img' \in Image BY ImageFields DEF Kept
<1>2. img.docker \in Docker BY <1>1 DEF Image
<1>3. QED BY <1>1, <1>2, ImageFields DEF Kept

\* What is good stays good once there is a backup, or if there is to be none.
LEMMA GoodStays ==
    ASSUME Kept, img.backup # None \/ ~img.fromVM
    PROVE  Good' = Good
BY KeptFields DEF Good

\* The publish pod pushes what is good, and nothing is pushed over an image
\* that is not taken from a machine.
LEMMA RegistryStays ==
    ASSUME Kept
    PROVE  /\ registry[img.docker] \in Good /\ (img.backup # None \/ ~img.fromVM)
                 => registry'[img'.docker] \in Good'
           /\ ~img.fromVM => registry' = registry
           /\ Pushed => registry'[img'.docker] \in Good'
<1>1. CASE Pushed
  <2>1. publish \in PublishPod /\ PublishPodOK(publish)
    BY <1>1 DEF Kept, OneImage, Pushed, Recorded, TypeOK
  <2>2. publish.backup \in Snapshot BY <2>1 DEF PublishPod
  <2>3. publish.backup # None BY <2>2, ImageConstants
  <2>4. img.backup # None /\ img.fromVM /\ publish.docker = img.docker
    BY <2>1, <2>3, ImageConstants DEF PublishPodOK
  <2>5. publish.content \in {img.backup, Partial}
    BY <1>1, <2>1, ImageConstants DEF PublishPodOK, Pushed
  <2>6. registry'[img'.docker] = publish.content
    BY <1>1, <2>4, KeptFields DEF Pushed, Kept, Recorded, TypeOK
  <2>7. QED BY <2>4, <2>5, <2>6, GoodStays DEF Good
<1>2. CASE registry' = registry /\ ~Pushed BY <1>2, GoodStays, KeptFields
<1>3. QED BY <1>1, <1>2, Writers DEF Kept

\* A node that holds a published image goes on holding it.
LEMMA HoldsStays ==
    ASSUME Kept, NEW n \in Node, Holds(n), img.published
    PROVE  Holds(n)'
<1>1. registry[img.docker] \in Good /\ (img.backup # None \/ ~img.fromVM)
  BY DEF Kept, OneImage, RegistryOK
<1>2. Good' = Good BY <1>1, GoodStays
<1>3. CASE held' = held BY <1>2, <1>3, KeptFields DEF Holds
<1>4. ASSUME NEW k \in Node, ImagePulled(k) PROVE Holds(n)'
  <2>1. held \in [Node -> [Docker -> Content]] BY DEF Kept, Recorded, TypeOK
  <2>2. held'[n][img.docker] \in {held[n][img.docker], registry[img.docker]}
    BY <1>4, <2>1, KeptFields DEF ImagePulled
  <2>3. QED BY <1>1, <1>2, <2>2, KeptFields DEF Holds
<1>5. QED BY <1>3, <1>4, Writers DEF Kept

\* An earlier version stays one.
LEMMA EarlierStays ==
    ASSUME Kept, NEW c \in Image \cup {None}, Earlier(c)
    PROVE  Earlier(c)'
<1>1. CASE c = None BY <1>1 DEF Earlier
<1>2. CASE c # None
  <2>1. c.nodes \subseteq Node BY <1>2 DEF Image
  <2>2. \A n \in c.nodes : Holds(n)' BY <1>2, <2>1, HoldsStays DEF Earlier
  <2>3. QED BY <1>2, <2>2, KeptFields DEF Earlier
<1>3. QED BY <1>1, <1>2

\* Copies, however old, stay earlier versions of the image.
LEMMA EarlierStep ==
    ASSUME Kept
    PROVE  Earlier(img)' /\ Earlier(imgCache)' /\ Earlier(m)'
<1>1. /\ img \in Image \cup {None} /\ imgCache \in Image \cup {None}
      /\ m \in Image \cup {None}
      /\ Earlier(img) /\ Earlier(imgCache) /\ Earlier(m)
  BY DEF Kept, Recorded, TypeOK, OneImage
<1>2. Earlier(img)'
  <2>1. nodesReady \subseteq Node BY DEF Kept, Recorded, TypeOK
  <2>2. CASE img'.nodes = img.nodes
    <3>1. img.nodes \subseteq Node BY KeptFields DEF Image
    <3>2. \A n \in img.nodes : Holds(n)'
      BY <1>1, <3>1, HoldsStays DEF Earlier, Kept
    <3>3. QED BY <1>1, <2>2, <3>2, KeptFields, ImageFields DEF Earlier, Kept
  <2>3. CASE pc = "nodes" /\ m = img /\ img'.nodes = nodesReady
    <3>1. img.published BY <2>3 DEF Kept, Recorded, SyncMatchesCopy
    <3>2. \A n \in nodesReady : Holds(n)'
      BY <2>1, <2>3, <3>1, HoldsStays DEF Kept, OneImage, SyncFindings
    <3>3. QED BY <1>1, <2>3, <3>1, <3>2, KeptFields, ImageFields DEF Earlier, Kept
  <2>4. QED BY <2>2, <2>3, ImageFields DEF Kept
<1>3. Earlier(imgCache)'
  <2>1. CASE imgCache' = imgCache
    <3>1. \A d \in Image \cup {None} : Earlier(d) => Earlier(d)' BY EarlierStays
    <3>2. QED BY <1>1, <2>1, <3>1 DEF Earlier, Holds, Good
  <2>2. CASE DeliverImage BY <1>2, <2>2 DEF DeliverImage, Earlier, Holds, Good
  <2>3. QED BY <2>1, <2>2, Writers DEF Kept
<1>4. Earlier(m)'
  <2>1. m' \in {m, imgCache, None}
    BY Writers DEF Kept, CreateSnapshot, recordSnapshot, getBackup, CreateBackup,
         getBackupAgain, recordBackup, deletePublishPod, publishImage, provisionNodes,
         provisionNode, updateNodesReady, apiError, EndSync, Proceed, Visited,
         nodeHasImage, nodeHasPod, nodeNeedsPod, local
  <2>2. \A d \in Image \cup {None} : Earlier(d) => Earlier(d)' BY EarlierStays
  <2>3. QED BY <1>1, <2>1, <2>2 DEF Earlier, Holds, Good
<1>5. QED BY <1>2, <1>3, <1>4

\* A publish pod stays one of the backup.
LEMMA PublishPodStays ==
    ASSUME Kept, NEW p \in PublishPod \cup {None}, PublishPodOK(p)
    PROVE  PublishPodOK(p)'
<1>1. CASE p = None BY <1>1 DEF PublishPodOK
<1>2. CASE p # None
  <2>1. p.backup \in Snapshot BY <1>2 DEF PublishPod
  <2>2. p.backup # None BY <2>1, ImageConstants
  <2>3. img.fromVM /\ img.backup # None /\ p.backup = img.backup
    BY <1>2, <2>2 DEF PublishPodOK
  <2>4. p.st = "succeeded" => registry'[img'.docker] \in Good'
    BY <1>2, <2>3, RegistryStays DEF PublishPodOK
  <2>5. QED BY <1>2, <2>3, <2>4, KeptFields DEF PublishPodOK
<1>3. QED BY <1>1, <1>2

\* A publish pod stays one of the recorded backup (createPublishPod).
LEMMA PublishPodStep ==
    ASSUME Kept
    PROVE  PublishPodOK(publish)' /\ PublishPodOK(podCache.publish)'
<1>1. /\ publish \in PublishPod \cup {None} /\ podCache.publish \in PublishPod \cup {None}
      /\ PublishPodOK(publish) /\ PublishPodOK(podCache.publish)
  BY DEF Kept, Recorded, TypeOK, OneImage
<1>2. \A p \in PublishPod \cup {None} : PublishPodOK(p) => PublishPodOK(p)'
  BY PublishPodStays
<1>3. PublishPodOK(podCache.publish)'
  <2>1. podCache'.publish \in {podCache.publish, publish}
    BY Writers DEF Kept, DeliverPods, Listed
  <2>2. QED BY <1>1, <1>2, <2>1 DEF PublishPodOK, Good
<1>4. PublishPodOK(publish)'
  <2>1. CASE publish' = publish BY <1>1, <1>2, <2>1 DEF PublishPodOK, Good
  <2>2. CASE deletePublishPod BY <2>2 DEF deletePublishPod, PublishPodOK
  <2>3. CASE createPublishPod
    <3>1. imgCache # None /\ imgCache.fromVM /\ imgCache.backup # None
      BY <2>3 DEF createPublishPod, WantsPublish, FromVolume, Idle
    <3>2. /\ img.fromVM /\ imgCache.backup = img.backup /\ imgCache.base = Based
          /\ imgCache.docker = img.docker
      BY <3>1 DEF Kept, OneImage, Earlier
    <3>3. img' = img BY <2>3 DEF createPublishPod
    <3>4. QED BY <2>3, <3>2, <3>3 DEF createPublishPod, getPublishImagePod, PublishPodOK
  <2>4. CASE Restored \/ Pushed \/ PublishFails
    <3>1. publish \in PublishPod /\ publish # None /\ img' = img
      BY <1>1, <2>4 DEF Restored, Pushed, PublishFails
    <3>2. /\ publish'.docker = publish.docker /\ publish'.backup = publish.backup
          /\ publish'.base = publish.base
          /\ publish'.content \in {publish.content, publish.backup, Partial}
          /\ publish'.st = "succeeded" => publish.st = "succeeded" \/ Pushed
      BY <1>1, <2>4, <3>1
         DEF Restored, Pushed, PublishFails, PublishPod, PublishPodOK
    <3>3. publish'.st = "succeeded" => registry'[img'.docker] \in Good'
      <4>1. publish.backup \in Snapshot BY <3>1 DEF PublishPod
      <4>2. publish.backup # None BY <4>1, ImageConstants
      <4>3. QED BY <1>1, <3>1, <3>2, <4>2, RegistryStays DEF PublishPodOK
    <3>4. QED BY <1>1, <3>1, <3>2, <3>3 DEF PublishPodOK
  <2>5. QED BY <2>1, <2>2, <2>3, <2>4, Writers DEF Kept
<1>5. QED BY <1>3, <1>4

\* A pull pod stays one of the published image.
LEMMA PullPodStays ==
    ASSUME Kept, NEW n \in Node, NEW p \in PullPod \cup {None}, PullPodOK(n, p)
    PROVE  PullPodOK(n, p)'
<1>1. CASE p = None BY <1>1 DEF PullPodOK
<1>2. CASE p # None BY <1>2, HoldsStays, KeptFields DEF PullPodOK
<1>3. QED BY <1>1, <1>2

\* A pull pod stays one of a published image (provisionNode).
LEMMA PullPodStep ==
    ASSUME Kept, NEW n \in Node
    PROVE  PullPodOK(n, pull[n])' /\ PullPodOK(n, podCache.pull[n])'
<1>1. /\ pull \in [Node -> PullPod \cup {None}] /\ podCache.pull[n] \in PullPod \cup {None}
      /\ PullPodOK(n, pull[n]) /\ PullPodOK(n, podCache.pull[n])
  BY DEF Kept, Recorded, TypeOK, OneImage
<1>2. \A p \in PullPod \cup {None} : PullPodOK(n, p) => PullPodOK(n, p)' BY PullPodStays
<1>3. PullPodOK(n, podCache.pull[n])'
  <2>1. podCache'.pull[n] \in {podCache.pull[n], pull[n]}
    BY Writers DEF Kept, DeliverPods, Listed
  <2>2. QED BY <1>1, <1>2, <2>1 DEF PullPodOK, Holds, Good
<1>4. PullPodOK(n, pull[n])'
  <2>1. CASE pull'[n] \in {pull[n], None}
    BY <1>1, <1>2, <2>1 DEF PullPodOK, Holds, Good
  <2>2. CASE provisionNode
    <3>1. pull'[n] \in {pull[n], None, getPullImagePod}
      BY <1>1, <2>2
         DEF provisionNode, nodeHasImage, nodeHasPod, nodeNeedsPod, DeletePull
    <3>2. m # None /\ m.published /\ img' = img
      BY <2>2 DEF provisionNode, Kept, Recorded, VersionsAgree, SyncMatchesCopy
    <3>3. m.docker = img.docker /\ img.published BY <3>2 DEF Kept, OneImage, Earlier
    <3>4. CASE pull'[n] = getPullImagePod
      BY <3>2, <3>3, <3>4 DEF getPullImagePod, PullPodOK
    <3>5. QED BY <2>1, <3>1, <3>4
  <2>3. CASE PullFails
    <3>1. CASE pull'[n] # pull[n]
      <4>1. img' = img /\ pull[n] # None /\ pull'[n] = [pull[n] EXCEPT !.st = "failed"]
        BY <1>1, <2>3, <3>1 DEF PullFails
      <4>2. pull'[n].docker = pull[n].docker /\ pull'[n].st = "failed"
        BY <1>1, <4>1 DEF PullPod
      <4>3. QED BY <1>1, <4>1, <4>2 DEF PullPodOK
    <3>2. QED BY <2>1, <3>1
  <2>4. ASSUME NEW k \in Node, ImagePulled(k) PROVE PullPodOK(n, pull[n])'
    <3>1. CASE k = n
      <4>1. img' = img /\ pull[n] # None /\ pull'[n] = [pull[n] EXCEPT !.st = "succeeded"]
        BY <1>1, <2>4, <3>1 DEF ImagePulled
      <4>2. pull'[n].docker = img.docker /\ img.published
        BY <1>1, <4>1 DEF PullPod, PullPodOK
      <4>3. registry[img.docker] \in Good BY <4>2 DEF Kept, OneImage, RegistryOK
      <4>4. held'[n][img.docker] = registry[img.docker]
        <5>1. held \in [Node -> [Docker -> Content]] BY DEF Kept, Recorded, TypeOK
        <5>2. pull[n].docker = img.docker BY <1>1, <4>1 DEF PullPodOK
        <5>3. QED BY <2>4, <3>1, <5>1, <5>2, KeptFields DEF ImagePulled
      <4>5. QED BY <4>1, <4>2, <4>3, <4>4 DEF PullPodOK, Holds, Good
    <3>2. CASE k # n BY <1>1, <2>1, <2>4, <3>2 DEF ImagePulled
    <3>3. QED BY <3>1, <3>2
  <2>5. ASSUME NEW k \in Node, PodCollected(k) PROVE PullPodOK(n, pull[n])'
    BY <1>1, <2>1, <2>5 DEF PodCollected, DeletePull
  <2>6. QED BY <2>1, <2>2, <2>3, <2>4, <2>5, Writers DEF Kept
<1>5. QED BY <1>3, <1>4

\* What is in the registry of a published image stays good (publishImage).
LEMMA RegistryStep ==
    ASSUME Kept
    PROVE  RegistryOK'
<1>1. RegistryOK /\ SyncFindings BY DEF Kept, OneImage
<1>2. CASE ~img.fromVM
  BY <1>1, <1>2, RegistryStays, KeptFields DEF RegistryOK, Good
<1>3. CASE img.fromVM /\ img.published
  BY <1>1, <1>3, RegistryStays, KeptFields DEF RegistryOK
<1>4. CASE img.fromVM /\ ~img.published /\ img'.published
  <2>1. pc = "publishDeleted" /\ m = img BY <1>4, ImageFields DEF Kept, Image
  <2>2. registry[img.docker] \in Good /\ img.backup # None
    BY <1>1, <2>1 DEF SyncFindings
  <2>3. QED BY <1>4, <2>2, RegistryStays, KeptFields DEF RegistryOK
<1>5. CASE img.fromVM /\ ~img'.published BY <1>5, KeptFields DEF RegistryOK
<1>6. QED BY <1>2, <1>3, <1>4, <1>5

\* What the sync under way has found stays so (deletePublishPod, provisionNodes).
LEMMA FindingsStep ==
    ASSUME Kept
    PROVE  SyncFindings'
<1>1. SyncFindings /\ Recorded /\ Earlier(m) /\ Earlier(imgCache) BY DEF Kept, OneImage
<1>2. ASSUME pc' = "publishDeleted"
      PROVE  img'.fromVM /\ m'.backup # None /\ registry'[img'.docker] \in Good'
  <2>1. CASE UNCHANGED <<m, pc>>
    <3>1. m # None /\ pc = "publishDeleted"
      BY <1>1, <1>2, <2>1 DEF Recorded, VersionsAgree
    <3>2. m.backup = img.backup BY <1>1, <3>1 DEF SyncFindings, Earlier
    <3>3. QED BY <1>1, <2>1, <3>1, <3>2, RegistryStays, KeptFields DEF SyncFindings
  <2>2. CASE deletePublishPod
    <3>1. /\ imgCache # None /\ imgCache.fromVM /\ imgCache.backup # None
          /\ m' = imgCache /\ img' = img /\ registry' = registry
          /\ PodView.publish # None /\ PodView.publish.st = "succeeded"
      BY <2>2 DEF deletePublishPod, WantsPublish, FromVolume, Idle, Published, Proceed,
           storage
    <3>2. PublishPodOK(PodView.publish)
      BY DEF Kept, OneImage, PodView, Listed
    <3>3. registry[img.docker] \in Good /\ img.fromVM BY <3>1, <3>2 DEF PublishPodOK
    <3>4. QED BY <3>1, <3>3 DEF Good
  <2>3. QED
    BY <1>2, <2>1, <2>2, Writers DEF Kept, CreateSnapshot, recordSnapshot, getBackup,
       CreateBackup, getBackupAgain, recordBackup, publishImage, provisionNodes,
       provisionNode, updateNodesReady, apiError, EndSync, Proceed, Visited,
       nodeHasImage, nodeHasPod, nodeNeedsPod
<1>3. ASSUME pc' = "nodes", NEW n \in nodesReady' PROVE Holds(n)'
  <2>1. nodesReady' \subseteq Node BY DEF Kept, Recorded, TypeOK
  <2>2. CASE pc = "nodes" /\ n \in nodesReady
    <3>1. m # None /\ m.published
      BY <1>1, <2>2 DEF Recorded, VersionsAgree, SyncMatchesCopy
    <3>2. img.published BY <1>1, <3>1 DEF Earlier
    <3>3. QED BY <1>1, <2>1, <2>2, <3>2, HoldsStays DEF SyncFindings
  <2>3. CASE provisionNode /\ n \notin nodesReady
    <3>1. img' = img /\ held' = held BY <2>3 DEF provisionNode, storage
    <3>2. m # None BY <1>1, <2>3 DEF provisionNode, Recorded, VersionsAgree
    <3>3. \/ n \in m.nodes
          \/ PodView.pull[n] # None /\ PodView.pull[n].st = "succeeded"
      BY <1>3, <2>3 DEF provisionNode, nodeHasImage, nodeHasPod, nodeNeedsPod, Visited,
           nodeContainsImage, EndSync, Pulled
    <3>4. PullPodOK(n, PodView.pull[n]) BY <1>3, <2>1 DEF Kept, OneImage, PodView, Listed
    <3>5. Holds(n) BY <1>1, <3>2, <3>3, <3>4 DEF Earlier, PullPodOK
    <3>6. QED BY <3>1, <3>5 DEF Holds, Good
  <2>4. QED
    BY <1>3, <2>2, <2>3, Writers DEF Kept, CreateSnapshot, recordSnapshot, getBackup,
       CreateBackup, getBackupAgain, recordBackup, deletePublishPod, publishImage,
       provisionNodes, provisionNode, updateNodesReady, apiError, EndSync, Proceed
<1>4. QED BY <1>2, <1>3 DEF SyncFindings

\* As long as the image exists, all of this is kept.
LEMMA KeptStep ==
    ASSUME Kept
    PROVE  OneImage'
<1>1. Pristine'
  <2>1. images # 0 BY DEF Kept, OneImage, Pristine
  <2>2. images' # 0 BY <2>1, Writers DEF Kept, MachineImageCreate
  <2>3. QED BY <2>2 DEF Pristine
<1>2. QED
  BY <1>1, EarlierStep, PublishPodStep, PullPodStep, RegistryStep, FindingsStep
     DEF OneImage

-----------------------------------------------------------------------------
(* The first image, and the time before and after it. *)

\* The first image of the name finds nothing of an earlier one (MachineImageCreate).
LEMMA CreatedStep ==
    ASSUME MaxImages = 1, Recorded, OneImage, MachineImageCreate
    PROVE  OneImage'
<1>1. images = 0 /\ images' = 1
  BY DEF MachineImageCreate, Recorded, TypeOK
<1>2. /\ imgCache' = None /\ m' = None /\ publish' = None /\ podCache'.publish = None
      /\ pc' = "idle" /\ registry' = registry
      /\ \A n \in Node : pull'[n] = None /\ podCache'.pull[n] = None
      /\ \A d \in Existing : registry[d] = Upstream
  BY <1>1
     DEF MachineImageCreate, OneImage, Pristine, Recorded, VersionsAgree, podVars, storage
<1>3. PICK d \in Docker, f \in FromVM, z \in {0, ParentSize} :
        (f \/ d \in Existing) /\ img' = NewImage(d, f, z)
  BY DEF MachineImageCreate
<1>4. /\ img'.docker = d /\ img'.fromVM = f /\ img'.backup = None /\ img'.nodes = {}
      /\ img'.published = FALSE
  BY <1>3 DEF NewImage
<1>5. Earlier(img)' BY <1>4 DEF Earlier
<1>6. RegistryOK' BY <1>2, <1>3, <1>4 DEF RegistryOK
<1>7. QED
  BY <1>1, <1>2, <1>5, <1>6
     DEF OneImage, Pristine, Earlier, PublishPodOK, PullPodOK, SyncFindings

\* Before the first image there is nothing, and after it none is created.
LEMMA AbsentStep ==
    ASSUME Recorded, Recorded', OneImage, [Next]_vars, img' = None
    PROVE  OneImage'
<1>1. SUFFICES ASSUME images' = 0 PROVE Pristine' BY DEF OneImage, Pristine
<1>2. images = 0 /\ ~MachineImageCreate
  BY <1>1, Writers DEF MachineImageCreate, Recorded, TypeOK
<1>3. /\ img = None /\ imgCache = None /\ m = None /\ pc = "idle"
      /\ publish = None /\ podCache.publish = None
      /\ \A n \in Node : pull[n] = None /\ podCache.pull[n] = None
      /\ \A d \in Existing : registry[d] = Upstream
  BY <1>2 DEF OneImage, Pristine, Recorded, VersionsAgree
<1>4. imgCache' = None BY <1>3, Writers DEF DeliverImage
<1>5. m' = None
  BY <1>3, Writers DEF CreateSnapshot, recordSnapshot, getBackup, CreateBackup,
     getBackupAgain, recordBackup, deletePublishPod, publishImage, provisionNodes,
     provisionNode, updateNodesReady, apiError, EndSync, WantsSnapshot, WantsBackup,
     WantsPublish, WantsNodes, FromVolume, Idle
<1>6. publish' = None
  BY <1>3, Writers DEF createPublishPod, deletePublishPod, WantsPublish, FromVolume, Idle,
     Restored, Pushed, PublishFails
<1>7. pull' = pull
  BY <1>3, Writers DEF provisionNode, PullFails, ImagePulled, PodCollected
<1>8. podCache'.publish = None /\ \A n \in Node : podCache'.pull[n] = None
  BY <1>3, Writers DEF DeliverPods, Listed
<1>9. registry' = registry BY <1>3, Writers DEF Pushed
<1>10. QED BY <1>3, <1>4, <1>5, <1>6, <1>7, <1>8, <1>9 DEF Pristine

\* Every step keeps the invariant of a name used once.
LEMMA OneImageStep ==
    ASSUME MaxImages = 1, Recorded, OneImage, [Next]_vars
    PROVE  OneImage'
<1>1. Recorded' BY TypeStep, CopiesStep DEF Recorded
<1>2. CASE img' = None BY <1>1, <1>2, AbsentStep
<1>3. CASE img # None /\ img' # None BY <1>1, <1>3, KeptStep DEF Kept
<1>4. CASE img = None /\ img' # None
  BY <1>4, ImageWrites, CreatedStep, ImageConstants DEF MachineImageDelete
<1>5. QED BY <1>2, <1>3, <1>4

\* It holds at the start.
LEMMA InitOneImage == Init => OneImage
BY ImageConstants DEF Init, OneImage, Pristine, Listed

\* With one image under the name, every copy is an earlier version of the
\* image, every pod is of it, and the registry and the nodes hold it.
THEOREM OneImageInvariance ==
    ASSUME MaxImages = 1
    PROVE  Spec => [](Recorded /\ OneImage)
<1>1. Recorded /\ OneImage /\ [Next]_vars => (Recorded /\ OneImage)'
  BY OneImageStep, TypeStep, CopiesStep DEF Recorded
<1>2. QED BY <1>1, InitRecorded, InitOneImage, PTL DEF Spec

\* The registry holds, for a published image, the backup its status names or a
\* restore that failed, on any number of nodes and snapshots and however often
\* the publish pod had to run (publishImage).
THEOREM PublishedIsTheBackup ==
    ASSUME MaxImages = 1
    PROVE  Spec => []PublishedIsBackup
<1>1. Recorded /\ OneImage => PublishedIsBackup
  BY DEF OneImage, RegistryOK, Good, PublishedIsBackup
<1>2. QED BY <1>1, OneImageInvariance, PTL

\* Every node in Status.Nodes has pulled the published image (provisionNodes).
THEOREM ListedNodesHoldTheImage ==
    ASSUME MaxImages = 1
    PROVE  Spec => []ListedNodesHoldImage
<1>1. Recorded /\ OneImage => ListedNodesHoldImage
  BY DEF OneImage, Earlier, Holds, Good, ListedNodesHoldImage
<1>2. QED BY <1>1, OneImageInvariance, PTL

\* An image becomes ready only when enough nodes, or all the nodes the sync
\* listed, hold it, whatever the setting (provisionNodes).
THEOREM ReadyImageIsPresent ==
    ASSUME MaxImages = 1
    PROVE  Spec => ReadyMeansPresent
<1> DEFINE Present == {n \in Node : held[n][img.docker] # None}
           Becomes == /\ img # None /\ img' # None
                      /\ img.state # "ready" /\ img'.state = "ready"
           Enough == Cardinality(Present) >= minReady \/ nodes \subseteq Present
<1>1. Recorded /\ OneImage /\ [Next]_vars => [Becomes => Enough]_vars
  <2>1. SUFFICES ASSUME Recorded, OneImage, [Next]_vars, Becomes PROVE Enough
    OBVIOUS
  <2>2. /\ pc = "nodes" /\ m = img /\ minReady # Invalid /\ EnoughReady
        /\ img \in Image
    BY <2>1, ImageFields
  <2>3. img.published /\ (img.fromVM => img.backup # None)
    BY <2>1, <2>2 DEF Recorded, SyncMatchesCopy, OneImage, RegistryOK
  <2>4. None \notin Good BY <2>3, ImageConstants DEF Good
  <2>5. nodesReady \subseteq Present
    BY <2>1, <2>2, <2>4 DEF Recorded, TypeOK, OneImage, SyncFindings, Holds
  <2>6. CASE nodesReady = nodes BY <2>5, <2>6
  <2>7. CASE Cardinality(nodesReady) >= minReady
    <3>1. IsFiniteSet(Present) BY ImageConstants, FS_Subset
    <3>2. /\ Cardinality(nodesReady) <= Cardinality(Present)
          /\ Cardinality(nodesReady) \in Nat /\ Cardinality(Present) \in Nat
      BY <2>5, <3>1, FS_Subset, FS_CardinalityType
    <3>3. minReady \in Nat BY <2>1, <2>2, ImageConstants DEF Recorded, TypeOK
    <3>4. QED BY <2>7, <3>2, <3>3
  <2>8. QED BY <2>2, <2>6, <2>7 DEF EnoughReady
<1>2. QED BY <1>1, OneImageInvariance, PTL DEF Spec, ReadyMeansPresent

=============================================================================
