# RancherVM in TLA+

RancherVM runs KVM virtual machines inside Kubernetes pods. A
`VirtualMachine` is a custom resource; a controller turns it into pods, a
console, volumes and migration jobs, and makes images of machines; a second
controller finds the guests' addresses; a REST server lets users create, change
and delete machines. This directory models all of them, checks the models with
TLC on small instances, and proves central invariants with TLAPS.

## 1. Inventory

All state that matters is in Kubernetes API objects. Every process reads them
through informer caches, which trail the API, and writes them with calls that
may fail; a write of a custom resource sends the whole object and is refused if
the object has changed since it was read (resourceVersion).

| Component | State | Operations | Source | Model |
|---|---|---|---|---|
| Machine worker | VirtualMachine (Spec, Status, finalizer), machine pods | `process`: prepare, start, stop, teardown | `pkg/controller/vm/machine.go`, `util.go` | `MachineController` |
| Live migration | target pod, job `<machine>-migrate` | target, job, cancel, cleanup | `migrate.go`, `pkg/qemu/job.go` | `MachineController` |
| noVNC console | pod and service `<machine>-novnc`, `Status.VncEndpoint` | update, delete | `novnc.go` | `MachineController` |
| Event routing | five work queues | pod, job and machine events enqueue the machine | `controller.go`, `pod.go`, `job.go` | a worker may run at any time; fairness |
| MachineImage controller | image state, snapshot, backup, publish pod, pull pod per node | snapshot, backup, publish, provision | `machine_image.go` | `MachineImage` |
| Longhorn volumes | volume, PersistentVolume, claim; the shared client | create before start, delete before the finalizer goes | `longhorn.go`, `longhorn_client.go` | `LonghornVolume` |
| Settings | Setting objects | initialize, rebuild the client | `setting.go` | `LonghornVolume`; `MachineImage` for the minimum of nodes |
| QEMU monitor client | QMP connection of the migration job | `Migrate`: issue, poll | `pkg/qemu` | `QemuMigrate`, contract `MigrationJob` |
| IP discovery | ARPTable, `Status.IP` | scan every five seconds, update machines | `pkg/controller/ip` | `IPController` |
| REST server | none (API objects) | create, update, action, delete, their variants for several machines; credentials, images, settings | `pkg/server` | `Server` |
| Event streams | watchers, websockets | notify, list, close | `pkg/server/stream.go`, `server.go` | `Stream` |
| Go client | none | one HTTP call each | `pkg/server/client` | the answers it accepts, in `Server` |
| Generated code | none of its own | clients, informers, listers, deep copies | `pkg/client`, `zz_generated.deepcopy.go` | copies that trail the API |

**How they interact.** Users and the IP controller write the VirtualMachine
while the worker works from an older copy of it. The scheduler and the kubelets
change the pods the worker counts. The Job controller runs the migration whose
result the worker reads from a cache. The setting worker replaces the Longhorn
client that the machine and image workers use. A machine starts only when its
image is ready, and an image can be taken from a machine's volume. Every writer
of an object competes with all the others through resourceVersions.

**What is hard.** A sync makes up to eight API calls one after the other and
can be overtaken, refused, failed or killed between any two; what it counted
may be out of date; several steps of a migration must all happen or none. The
complete list, each at its line, is under `hazards` in `PROJECT.json`.

**What makes each part correct.**

- machine worker: never undoes a user's change; one guest; nothing left behind
  by stop and delete; requests are completed;
- migration: one target; the guest is never deleted with the pod it runs in;
  the machine ends up where it was asked to run;
- console: serves the pod that runs, goes with the machine;
- images: the backup recorded is kept and is what is published; ready only when
  enough nodes hold the image; an image settles;
- storage: gone with its machine, never another machine's, complete in the end;
- migration job: succeeds only if the guest has moved, and ends;
- server: a success is true, a write changes only what was asked for, a repeated
  request succeeds;
- IP: an address is found, and no other writer's change is lost;
- streams: a subscriber sees the last state; no send on a closed channel.

## 2. Modules

| Module | Models | Runs with | Theorems |
|---|---|---|---|
| `MachineController` | machine worker, migration, console, one machine name | `MCMachine` | `MachineControllerProofs`, `MachinePodsProofs` |
| `LonghornVolume` | storage of one machine name, settings, the client | `MCLonghorn` | `LonghornVolumeProofs` |
| `MachineImage` | one image name from creation to every node | `MCImage` | `MachineImageProofs` |
| `QemuMigrate` | the migration job's program and QEMU's monitor | `MCQemu` | `QemuMigrateProofs` |
| `MigrationJob` | what the controller relies on of a migration job | as a property of `QemuMigrate` | `Implements` |
| `Server` | REST handlers and what clients take for success | `MCServer` | `ServerProofs` |
| `IPController` | ARP table and addresses | `MCIP` | `IPControllerProofs` |
| `Stream` | watchers and websockets | `MCStream` | `StreamProofs` |

An `MC` module adds the model values and the symmetry of its runs; the `.cfg`
files give the constants their values.

**How the modules fit.** Each models one component in full and the others by
what they do to it. `MachineController` has the migration job as
`MigrationJob` says it behaves (`GuestMoves` before `JobSucceeds`, possibly
after `JobFails`), and `QemuMigrate` is shown to implement `MigrationJob`, by
TLC and by proof: job and guest are mapped to themselves, everything else is
hidden. `LonghornVolume` cuts the syncs of a machine with a Longhorn volume at
the storage calls and reduces a pod to its owner and its disk; its image is
ready or not, which is what `MachineImage` shows of an image. The competing writers of a machine
are one action of `MachineController` (`ipWrite`), `Server` (`Write`) and
`IPController` (`OthersWrite`) each.

### MachineController

One machine *name*: the object can be deleted and created again.

| Variable | Code |
|---|---|
| `vm`, `vmCache`, `cacheCur` | the VirtualMachine, the informer's copy, and whether that copy has the object's resourceVersion |
| `pods`, `guests` | pods labelled role `vm`; the pods whose hypervisor executes the guest |
| `console`, `svc` | the pod and the service `<machine>-novnc`; a console remembers which machine pod it was made for (`makeNovncPod`) |
| `job` | the migration job, its pod, whether it is being deleted in the foreground |
| `podCache`, `jobCache`, `svcCache` | the other informers' copies |
| `pc`, `m`, `mCur`, `m2`, `pod`, `peer`, `then` | the sync under way: next call, `machine`, whether it still has the object's resourceVersion, `machine2` of `stop()`, the pods passed along, where `start()` goes on after the console |
| `requests`, `faults` | the bounds of the runs |

resourceVersions are compared and never computed with, so two bits stand for
them: any write sets `cacheCur` and `mCur` to FALSE (`Overtake`,
`updateMachineStatus`), a delivery sets `cacheCur`, the start of a sync copies it.

`process` takes the cached machine and dispatches as `process()` does; each API
call is then one action named after the function that makes it, in the order of
the code:

- start: `updateMachinePodCreate`, `updateMachinePodCreated`,
  `updateMachinePodStatus`, `updateMachinePodMany`, `updateNovncPod`,
  `updateNovncService`, `updateNovncEndpoint`, `deleteUnschedulablePod`;
- migration: `migrateMachine`, `startMigrateTargetPod`, `strangeNumberOfPods`,
  `migrateRollbackJob/Pod/State`, `waitForMigration`, `runMigrationJob`,
  `migrationCleanupStatus/Pod/Job/Console`;
- stop: `stopPods`, `stopJob`, `stopConsole`, `stopStatus`;
- teardown: `setTerminating`, `terminatePods`, `terminateConsole`,
  `terminateService`, `removeFinalizer`.

Users, cluster and informers are actions of their own. The failures are API
errors at any call (`apiError`, `apiErrorInStop`, `apiErrorInTeardown`, which
differ because the three paths treat an error differently), a crash or change
of leader, an eviction, a failed job, and an Update by the IP controller.

Abstracted:

- Contents of pods, names, images, keys, resources, addresses. A missing or
  unready machine image or credential ends a sync as an API error does.
- `Status.HostIP` appears together with `Spec.NodeName` of a pod.
- A pod that is ready stays ready until it is deleted; containers do not restart.
- Creation times are a strict order (`older`); in the API they are seconds.
- A cache jumps to the present when it is delivered; it does not show every
  state in between.
- One controller at a time: a lost lease is a crash.
- `Spec.Volume.Longhorn` is nil; `LonghornVolume` has the machines where it is not.

### LonghornVolume

`vm`, `vmCache`, `cacheCur`, `m`, `mCur` are as above; `vols` says, for each
Longhorn installation, for which machine of the name its volume was made; `pv`,
`pvc`, `claimCache` are the storage objects; `pods` are the machine's pods, each
with the machine of the name it was made for and the disk it has attached, and
`podCache` what the pod lister shows of them: none, only terminating ones, or one
that is alive, which is all that `updateMachinePod` and `deleteMachinePods` go
by. It trails: `start` may create a pod beside one it does not show, and
`teardown` and `stop` may answer NotFound while there is one. `settings`, `settingCache`, `toInit`, `up` and `lh` are
the settings, how far `run()` has come and what `ctrl.lhClient` was built from.

A start is `createLonghornVolume`, `CreateVolume`, `createPersistentVolume`,
`createPersistentVolumeClaim`, `start`; a teardown `setTerminating`, `teardown`,
`deleteLonghornVolume`, `DeleteVolume`, `deletePersistentVolume`,
`deletePersistentVolumeClaim`, `removeFinalizer`. The client is looked up anew
at every call, so `updateLonghornClient` may replace it in between. With no
client a sync panics and the process starts again (`nilClientPanics`,
`Restart`).

The controller starts without settings or with those an earlier one has left
(`Installed`).

Abstracted: the two keys are one, accepted or refused; a pod attaches when its
volume, PersistentVolume and claim are there; a terminating pod has neither owner
nor disk (`Terminating`); the slot of a pod that is gone is used again;
`MachineCreate` includes `prepareMachine`. Volume sizes and the insecure flag are left out.

### MachineImage

`img`, `imgCache`, `cacheCur`, `m`, `mCur` are the object, the copy and the
sync's copy; `backups` and `pending` are Longhorn's; `publish`, `pull`,
`podCache` the pods; `registry` and `held` what a docker reference holds in the
registry and on each node: the snapshot it was made of, so that the wrong
content can be told from the right one. A sync follows
`processMachineImage`: size, state, `CreateSnapshot`/`recordSnapshot`,
`getBackup`/`CreateBackup`/`getBackupAgain`/`recordBackup`,
`createPublishPod`/`deletePublishPod`/`publishImage`, and
`provisionNodes`/`provisionNode`/`updateNodesReady`.

Abstracted: the commands of the pods' containers are what they leave behind
(`Restored`, `Pushed`, `PublishFails`: a restore that fails is pushed all the
same); pending and running pods are the same; snapshots nothing refers to are
not told apart.

Behaviour the model has and no property forbids: a kaniko container that failed
is an error at every sync and never replaced (`PublishStuck`); deleting an image
leaves pods, backups and docker images; an image whose source machine is gone
is not provisioned on nodes that join; a parent image of size 0 and a minimum
that is not a number are errors for as long as they last; a stale copy takes
snapshots nobody records.

### QemuMigrate and MigrationJob

`job` and `attempts` are the Job, `pc` where its pod's program is, `cmds` and
`inbox` the two directions of the socket, `mig` and `guest` QEMU's. A read
returns everything written so far: `OneMessage` is what `parseReply` can parse,
anything else ends the pod with a panic (`parseReplyPanics`). A reply that
fills the buffer exactly is waited on (`Readable`, `readTimesOut`). A second
migrate command is refused while a migration is under way, and its reply is not
looked at by the program.

Abstracted: contents of messages other than the status; the progress figures,
which are only logged; one connection at a time, as QEMU serves one.

### Server

`api` and `view` are the machines and the lister's copy, with a version (`rv`)
and an identity (`uid`), `req` what each connection is doing: the request, the
name it is at and the copy it read. A request for several machines is a loop
(`Pass`) that ends with the first error (`Answer`). Calls may fail before or
after they were carried out (`CallFails`, `AnswerLost`). `Accepts` has the
answers the Go client takes for success.

A spec has three fields: the action; `cpus`, for the fields an update writes;
and `image`, for the machine image and the volume, which a create sets and
`overlayVMSpec` passes over. An update is "not modified" when what it writes is
there already, whatever it says of the image.

`Asked` limits which machines requests other than creations name; creations
can collide with `Existing` ones.

Abstracted: names are valid; bodies are JSON; requests that only
read are one action.

### IPController

`lease` and `arp` are the guests' addresses and the kernel's cache, `table`,
`tableView` the ARPTable, `vm`, `vmView` the machines, `tick` and `work` what
`updateARPTable` and `updateMachines` have read. Sets of current copies stand
for resourceVersions. One controller writes the table; two that share one are
not modelled.

### Stream

`watchers`, `closed` and `buf` are `s.watchers` and the channels, `conn` the
websockets: where the handler is, the list it sent last, whether the peer has
gone. A list is a version. Since `newRouter` defers the watchers' `Close` and
returns before the server accepts connections, the channels are closed by then;
the model has both, and the properties hold *because* they are closed: with
open channels a token would wake one of several streams (the mutant `KeepOpen`).
The price is that a handler without a rate limit lists without pause.

## 3. Runs

| Run | Instance | Shows |
|---|---|---|
| `lifecycle` | 2 nodes, 2 pods, console, start and delete, node n2 or any, **all caches trail**, 3 requests | `TypeOK`, `IndInv`, `UserSpecPreserved` |
| `migration` | 2 nodes, 3 pods, start/stop/delete, node n1 or n2, machine cache trails, 4 requests, 1 failure | `GoneMeansNoPods`, `OneGuest`, `NewestIsTarget`, `StoppedMeansQuiet` |
| `progress` | 1 node, 3 pods, console, start/stop/delete, fairness, 3 requests, 1 failure | `GoneMeansNoConsole`, `TerminatingIsFinal`, `StopCompletes`, `DeleteCompletes`, `StartCompletes` |
| `placement` | 2 nodes, 3 pods, fairness, node n1 or n2, 4 requests, no failure | a violation of `NodeHonoured`: see known deviations |
| `target_once` | 2 nodes, 3 pods, all caches trail, 2 requests | a violation of `TargetCreatedOnce`: see known deviations |
| `image` | 2 nodes (one joins or leaves), taken from a machine or already in the registry, an invalid setting, all caches trail, 1 failure | `TypeOK`, `PublishedIsBackup`, `ListedNodesHoldImage`, `RecordedOnce`, `ReadyMeansPresent` |
| `image_progress` | the same kind of image with an up-to-date pod cache, fairness | `ImageSettles` |
| `longhorn` | 2 machines of the name, 2 pods, 2 Longhorn installations, settings there from the start or not, all caches trail, 2 requests, 1 failure, fairness | `TypeOK`, `GoneLeavesNoStorage`, `OwnDisk`, `ClientFollowsSettings`, `StartedHasStorage`, `DeletedIsGone` |
| `qemu` | 3 pods of the job, 2 events, 2 failures, fairness | `TypeOK`, `ImplementsContract`, `JobEnds` |
| `server` | 2 connections, every kind of request, names 0 to 2, one other write, 1 failure, the lister trails, fairness | `TypeOK`, `AnswersAreTrue`, `OnlyAsked`, `RetrySucceeds` |
| `ip` | 2 machines, 2 addresses, 2 leases, 1 write of somebody else, fairness | `TypeOK`, `OthersKept`, `AddressIsFound` |
| `stream` | 1 resource, 2 websockets with and without a rate limit, 2 changes, 1 failure, fairness | `TypeOK`, `NoPanic`, `StreamsShowLatest`, `HandlersEnd` |

All but `ip` and `stream` have `CHECK_DEADLOCK FALSE`: users stop asking, and a
machine that is gone or settled, a job that has ended and a server without
requests need no further step. Runs that check only safety use the symmetry of
names; runs with temporal properties use none.

Why the bounds are enough:

- *machine*: three pods are the two of a migration and one that terminates;
  three requests create, change and delete, or create, delete and create again;
  four also turn a migration back and then stop or delete. One failure can fall
  on any call, and the properties concern what a single interruption leaves
  behind. Names of pods are used again once gone from API and caches, so their
  number does not bound how many pods are created.
- *storage*: two machines of one name are what is needed for the second to find
  what the first left; two pods, for one the list does not show beside another;
  two installations, for the client to be replaced between two calls of a sync;
  two requests delete a machine and change the settings, or delete both machines.
- *images*: two nodes, for one to hold the image while the other does not; three
  snapshots, for a sync with a stale copy to take another and for the wrong
  backup to be found.
- *job*: the third pod of the job meets a migration an earlier one started, and
  two failures cover one of the connection and one of the migration.
- *server*: a request for two machines can fail at the second; two connections
  race on one name, beside the controller's write.
- *IP*: two leases give a guest another address, so that the kernel has two lines
  for its MAC, or one guest an address beside another's; that a second guest takes
  over an address needs three, too many states for a run. *streams*: two handlers share one
  channel, and the second change can come while the first is being listed.

In `migration` the caches of pods, jobs and services are up to date (`Lag =
FALSE`): its properties do *not* hold with caches that trail, because the code
counts pods in the cache; what happens then is among the known deviations. The
properties that hold with every cache trailing are those of `lifecycle`, and
`GoneMeansNoConsole` and `TerminatingIsFinal`. Both kinds are proved below for
caches of any age, migrations and any number of failures; the former for
behaviours in which the one decision that goes wrong, a creation on a wrong
count or a deletion skipped on a list that misses a pod, is not taken.
`image_progress` has an up-to-date pod cache because a trailing one
can put off the write of the image's state again and again.

### Known deviations

Places where the code does not do what a comment says or a user would expect.
Two are runs; the others are properties of the modules that no run lists, because
they do not hold there, with the change of a `.cfg` that shows it.

| Property | Instance | What happens |
|---|---|---|
| `TargetCreatedOnce` | run `target_once` | the cache does not show the target yet: another one is created, then "strange number of machine pods" (`migrate.go:136`) |
| `RollbackKeepsGuest` | add to `migration.cfg` | NodeName is set back after the guest moved, before the job is seen to succeed: the pod with the guest is deleted (`migrate.go:39`) |
| `CleanupAfterTransfer` | add to `migration.cfg`, only `"start"`, `MaxRequests = 5`, `MaxFaults = 0` | the previous migration's job is still listed as succeeded: cleanup deletes the pod with the guest (`migrate.go:178`) |
| `ConsoleFollowsPod` | add to `progress.cfg` | after an eviction the console stays with the old pod (`novnc.go:41`) |
| `NodeHonoured` | run `placement` | a migration is cancelled and asked for again: the write after the rollback conflicts; the next sync writes `StateRunning`, as one pod is alive, and from the same copy, still migrating, creates another target; two alive pods of a running machine stay for ever (`machine.go:241`), although NodeName "is mutable at runtime and will trigger a live migration" (`types.go:35`) |
| `NodeHonoured` | `placement.cfg` with `NodeChoices = {None, n2}`, `MaxRequests = 3`, `MaxFaults = 1` | the same end after one failure: a crash or error between `StateRunning` and the deletion of the old pod (`migrate.go:91`), or an eviction during a migration |
| `OneGuest`, `NewestIsTarget` | add to `lifecycle.cfg` | the cache does not show the pod the last sync created: the next one creates another, and two guests boot from one disk (`machine.go:226`) |
| `GoneMeansNoPods` | add to `lifecycle.cfg` | the cache does not show the pod yet: the teardown takes it for gone and removes the finalizer; the pod stays (`machine.go:280`) |
| `OnlyOwnPods` | add to `longhorn.cfg` | the same with a Longhorn volume: the next machine of the name finds a pod of its predecessor, and with it the old disk, and takes it for its own (`machine.go:280`) |
| `StoppedMeansQuiet` | add to `lifecycle.cfg` with `ActionChoices = {"start", "stop"}` | `StateStopped` is written while a pod the cache does not show boots (`machine.go:173`) |
| `BackupOfSnapshot` | add to `image.cfg` | the backup found is another snapshot's: "FIXME sometimes picks wrong backup" (`machine_image.go:131`) |
| `ReadyMeansPresent` | `image.cfg` with `MaxImages = 2`, `Existing = {d1, d2}` | a new image of the same name takes the pull pod of the old one for its own (`machine_image.go:227`) |
| `EventsAreRead` | add to `qemu.cfg` | a monitor event read together with a reply ends the pod with a panic (`commands.go:74`); the job's retry hides it |
| `AddressIsAssigned` | add to `ip.cfg` | a machine without a guest keeps its last address, and of two lines for a MAC the one of an address given up may win for as long as the kernel keeps it (`ip_controller.go:176`); "IP address assigned to the virtual machine" (`types.go:96`) |
| `UpdateIsWhole` | add to `server.cfg` | an update that asks for another image or volume is answered 204 or 304, and changes neither (`instance.go:247`) |
| `ActionIsInForce` | add to `server.cfg` | an action that the lister's copy has already is acknowledged, though the object has another by now, or is gone (`instance.go:403`, and `instance.go:445`, "we behave idempotently") |

Also seen in the code, without a property:

- `reboot` is accepted (`validation.go:16`) and is an invalid action to the
  controller (`machine.go:76`), which does nothing.
- The test of the device in `ip_controller.go:167` is commented out: entries of
  every interface count.
- `InstanceUpdate` of the Go client sends a VirtualMachine where the server
  decodes an instance.
- A teardown does not delete a migration job, whose pod the Job controller
  creates again after each `DeleteCollection`; `DeleteCompletes` is checked
  without migrations.

### Fairness

Each `FairSpec` assumes weak fairness of what the program and the cluster do by
themselves, and nothing of users and failures.

- `MachineController`, `LonghornVolume`, `MachineImage`: the workers, the
  informers, the cluster's work on pods and jobs. Informers resync every 120
  seconds (`cmd/main.go:65`), each resync enqueues every object, a failed sync
  is requeued with a rate limit, and one goroutine takes each queue in turn; a
  process that panics is started again by its Deployment. The rest is what
  Kubernetes and Longhorn promise.
- `QemuMigrate`: the program, QEMU's answers, and that a migration under way
  ends: pages are sent faster than the guest dirties them.
- `Server`: handlers go on, the client that is patient asks again, the
  lister's informer delivers.
- `IPController`: the five-second ticker, the worker, the informers; the arp
  scanner that runs beside it pings the bridge's addresses
  (`deploy/ranchervm.yaml:204`), so the kernel learns those that answer. Nothing
  is assumed about lines of addresses given up: the scanner does not remove
  them, and Linux keeps them while its table is small. That they go in the end is
  the premise of `AddressIsFound`.
- `Stream`: handlers go on; strong fairness of each case of a `select`, since Go
  chooses among the ready ones at random.

### Mutants

Every property of a passing run has a mutant in `PROJECT.json`: a plausible
mistake in a mapped definition (its operator stands just before it, marked
`Mutant`) under which TLC finds the property violated.

## 4. Proofs

For every value of the constants (any nodes, pods, machines, images, addresses,
connections; any bounds), and with caches that trail or not unless a hypothesis
says otherwise:

| Module | Theorem | Statement | Hypothesis |
|---|---|---|---|
| `MachineControllerProofs` | `Invariance` | `Spec => [](TypeOK /\ IndInv)` | |
| | `TypeCorrect` | `Spec => []TypeOK` | |
| | `ConsoleGoesWithMachine` | `Spec => []GoneMeansNoConsole` | |
| | `WorkerKeepsUserSpec` | `Spec => UserSpecPreserved` | |
| | `TerminatingStaysFinal` | `Spec => TerminatingIsFinal` | |
| `MachinePodsProofs` | `PodsInvariance` | `Spec /\ CountsRight => [](TypeOK /\ IndInv /\ PodsInv)` | |
| | `GuestRunsOnce` | `Spec /\ CountsRight => []OneGuest` | |
| | `NewerIsTarget` | `Spec /\ CountsRight => []NewestIsTarget` | |
| | `PodsGoWithMachine` | `Spec /\ ListsRight => []GoneMeansNoPods` | |
| | `StoppedIsQuiet` | `Spec /\ ListsRight => StoppedMeansQuiet` | |
| `LonghornVolumeProofs` | `LonghornInvariance` | `Spec => []Safe` | |
| | `LonghornTypeCorrect` | `Spec => []TypeOK` | |
| | `GoneIsClean` | `Spec => []GoneLeavesNoStorage` | |
| | `DiskIsOwn` | `Spec => []OwnDisk` | |
| `MachineImageProofs` | `RecordedInvariance` | `Spec => []Recorded` | |
| | `ImageTypeCorrect` | `Spec => []TypeOK` | |
| | `RecordsStay` | `Spec => RecordedOnce` | |
| | `OneImageInvariance` | `Spec => [](Recorded /\ OneImage)` | `MaxImages = 1` |
| | `PublishedIsTheBackup` | `Spec => []PublishedIsBackup` | `MaxImages = 1` |
| | `ListedNodesHoldTheImage` | `Spec => []ListedNodesHoldImage` | `MaxImages = 1` |
| | `ReadyImageIsPresent` | `Spec => ReadyMeansPresent` | `MaxImages = 1` |
| `ServerProofs` | `CopiesAreKnown` | `Spec => []Inv` | |
| | `ServerTypeCorrect` | `Spec => []TypeOK` | |
| | `WritesOnlyAsked` | `Spec => OnlyAsked` | |
| | `SuccessIsTrue` | `Spec => AnswersAreTrue` | |
| `QemuMigrateProofs` | `TypeCorrect` | `Spec => []TypeOK` | |
| | `CompletedMoved` | `Spec => []CompletedIsMoved` | |
| | `Implements` | `Spec => ImplementsContract` | |
| `StreamProofs` | `StreamTypeCorrect` | `Spec => []TypeOK` | |
| | `NoSendOnClosed` | `Spec => []NoPanic` | |
| `IPControllerProofs` | `IPTypeCorrect` | `Spec => []TypeOK` | |
| | `OthersAreKept` | `Spec => OthersKept` | |

Assumptions: the named `ASSUME`s of the modules, which give the parameters
their types and say that `None` and `Gone` are not names or objects. TLC
evaluates them in every run.

`CountsRight` and `ListsRight` are conditions on behaviours, not on the
constants: caches may be of any age in both. `CountsRight` says that whenever a
pod is created the list shows the alive pods there are; `ListsRight`, that
whenever stop or teardown go on because the list is empty there is no pod. Each
is about one decision of the code (`machine.go:226` and `migrate.go:133`;
`machine.go:280`); with a list that is out of date at that moment the properties
fail (known deviations), and the theorems say that nothing else makes them fail:
not the copies of the machine, jobs taken from an old list, failures or crashes.
With `Lag = FALSE`, as in run `migration`, both always hold.

`MaxImages = 1`: a name is used for one image; a second image of a name takes
the pods of the first for its own, which is the deviation `ReadyMeansPresent`.
Nodes, snapshots, failures and syncs with stale copies are not bounded.

**The machine controller.** None of the three properties is inductive.
`UserSpecPreserved` needs that an accepted Update was computed from the object
as it is (`VersionsAgree`). `TerminatingIsFinal` needs that whoever could still
act for a terminating machine has seen its DeletionTimestamp: the cache and the
sync (`TerminatingSeen`), where the place of the sync says what its copy was
(`SyncMatchesCopy`). `GoneMeansNoConsole` needs that what the teardown found
missing stays missing until the finalizer goes (`TeardownFindings`), and that
nothing exists for, and no old sync or cache can start, a machine without a
finalizer (`NothingBeforePrepare`), also when the name is used again. `IndInv`
is the conjunction of these; TLC checks it in `lifecycle`.

**Pods and guests.** That one guest runs is a fact about orders. `OneGuest`
alone is not inductive: a pod about to boot must find no other guest, and a job
about to move the guest must move the only one. `PodsInv` says why. `Ages`: the
pods are totally ordered by creation, whichever of them go first. `Lineage`: a pod younger
than one that is alive was made as a migration target, and no pod is younger than
two alive ones, since a pod is made when none or, for a migration, exactly one is
alive. `GuestsOK`: what is alive and older than a pod with the guest is ready,
so it will not boot another. `JobOK`: besides the target of a job only its
source, or pods younger than the target, are alive; a job refers to pods that
exist. Since a job may be made from an old list, both `Ages` and `Lineage` are
also stated of the pods listed, and `Trailing` says what a list can still show
of the pods there are. `NotYetMoved`: nothing younger than an alive target executes the guest.
A pod that boots is no target, so by `Lineage` nothing alive is older than it,
and by `GuestsOK` nothing younger has the guest; a guest that moves leaves, by
`JobOK` and `NotYetMoved`, the one pod that had it. The invariants hold through
evictions, failed and collected jobs, and jobs that outlive their migration.

**Nothing left behind.** `GoneMeansNoPods` and `StoppedMeansQuiet` rest on
`Emptied`: pods, consoles and jobs are created by `start()` alone, the one
worker is in the teardown or the stop, and no `start()` can be under way for a
machine that is gone or not prepared (`NothingBeforePrepare` of `IndInv`); so
what an empty list has shown still holds when the finalizer goes or
`StateStopped` is written, several calls later. `MachineSteps` shows that no
other write stops a machine or takes its finalizer.

**Storage.** Two facts carry `Safe`. A copy without a DeletionTimestamp is of
the machine that exists (`SameMachine`): the sync that removed the finalizer of
the earlier one had seen its deletion, and so had the cache, which never goes
back. And a client, however old, was built from settings that were in force once
(`ClientWasSet`), so a volume in another installation than the current one means
that the settings were moved away from there. With them, what a teardown has
deleted stays deleted (`TeardownFindings`), and what volumes exist were made for
the machine that exists, and so are the disks of its own pods (`Owned`); machines
are numbered as they come (`Numbered`), so a pod its predecessor has left is told
from its own. None of it depends on the list of pods.

**Images.** `RecordedOnce` needs only `Recorded`: an accepted Update was
computed from the image as it is, and a sync records what its copy lacks. The
other three need `OneImage`: every copy is an earlier version of the image
(`Earlier`), every pod, listed or real, was made from such a copy
(`PublishPodOK`, `PullPodOK`), and so pushed or pulled what the image records
(`RegistryOK`); the nodes counted by the sync under way hold it (`SyncFindings`).

**The server.** `Inv` says that a copy, in the lister or in a handler, that has
the version of a machine is that machine (`KnownCopies`, because versions are
given once), and that a request has read what its kind reads
(`SoundRequests`). So an Update that is not refused changes what was asked for
and nothing else, and the answers a client takes for success follow a write, or
a comparison with the object itself, that made them true. What is answered after
a comparison with the lister's copy is left out, and so is the image an update
asks for: those answers can be false (known deviations).

**The migration job.** The contract lets a job succeed only when the guest is
at the target. The program never sees the guest: it sees the word "completed",
possibly of a migration an earlier pod started, possibly late. The invariant
`CompletedIsMoved` says that wherever that word is (in QEMU, in the socket, in
the program) the guest has moved. With it every step of the job, the program
and QEMU is a step of `MigrationJob` or leaves its variables alone.

**The streams.** `NoPanic` needs that a watcher an event can still reach is open
(`watchers` and `closed` are disjoint): `Close` takes the watcher off the list
and closes it in one critical section.

**The IP controller.** `OthersKept` needs that a copy marked current is equal to
the object (`WorkIsCurrent`), through informer, worker and update.

Every invariant and every action property that a passing run checks is a
theorem; those of `migration` in the conditional form above. The inductive invariants that no run lists (`PodsInv`, `Emptied`,
`Safe`, `Recorded`, `OneImage`, `Inv`) hold in the instances of the runs as
well; to check one, let the `MC` module extend the proof module.

Only model-checked: liveness (`StopCompletes`, `DeleteCompletes`,
`StartCompletes`, `ImageSettles`, `ClientFollowsSettings`,
`StartedHasStorage`, `DeletedIsGone`, `JobEnds`, `RetrySucceeds`,
`AddressIsFound`, `StreamsShowLatest`, `HandlersEnd`), which is out of the
prover's reach: it has no rules for fairness and `ENABLED`.

## 5. What is left

**Theorems** next in line: `VMLifecycle`, an abstract specification of what a
user sees of a machine (absent, stopped, running, terminating), which
`MachineController` would implement with up-to-date caches; the safety part of
`StopCompletes` (once stopped, and left alone, a machine stays so).

**Not modelled, and why:**

- Two leaders at a time. Leases are taken and lost in client-go; a lost lease
  is a crash in the model, while in the code the sync under way goes on for a
  moment. Conflicts protect the machine object against it, not the pods.
- Two IP controllers on one ARPTable. The table has the name of the device
  (`ip_controller.go:140`), and `deploy/ranchervm.yaml` runs one replica; several
  would share it, each writing what its own kernel knows.
- Generated code (`pkg/client`, `zz_generated.deepcopy.go`): no logic of its
  own; what it does is in the informers' copies of every module.
- Flags, signals and logging (`cmd`): no state beyond what starts the parts.
- The contents of pods, volumes and cloud-init data, names and their parsing:
  formatting, on which no property depends.
- The bodies the Go client sends and decodes; the answers it accepts are
  in `Server`.
