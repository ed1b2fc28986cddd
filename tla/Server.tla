------------------------------- MODULE Server -------------------------------
(***************************************************************************)
(* The REST server (pkg/server) and its Go client (pkg/server/client).     *)
(*                                                                         *)
(* Every connection has a handler of its own.  Handlers run concurrently   *)
(* with each other and with the controllers: they read the lister's copy   *)
(* of the objects, which lags behind the API, or the API itself, and write *)
(* whole objects, which the API refuses when the copy is not the latest.   *)
(* A request for several machines is a loop of such calls that ends with   *)
(* the first error.                                                        *)
(***************************************************************************)
EXTENDS Naturals, Sequences

CONSTANTS
    None,
    MaxName,      \* machines are numbered 0..MaxName: "vm", "vm-01", "vm-02" ...
    Existing,     \* machines that exist when the server starts
    Asked,        \* machines that requests other than creations name
    Conn,         \* connections
    Patient,      \* those whose user repeats a failed request for an action
    Kinds,        \* the requests that are made
    ActionChoices, CpuChoices, ImageChoices,   \* what requests ask for
    Lag,          \* whether the lister may lag behind the API
    MaxRequests, MaxWrites, MaxFaults   \* bounds: requests, controller writes, faults

Name == 0..MaxName

\* The other objects: a credential, 0, and a machine image, 1.
Other == {0, 1}

\* The number of CPUs stands for the fields an update writes, the image for
\* those it passes over: the machine image and the volume.
MachineSpec == [action: ActionChoices, cpus: CpuChoices, image: ImageChoices]

\* A machine: its identity (uid), its version and whether the controller has
\* put its finalizer on it; status stands for what the controllers write.
Machine == [uid: Nat, rv: Nat, spec: MachineSpec, status: Nat, fin: BOOLEAN, deleting: BOOLEAN]

ASSUME ServerConstants ==
    /\ MaxName \in Nat /\ Lag \in BOOLEAN /\ Patient \subseteq Conn /\ Existing \subseteq Name
    /\ Asked \subseteq Name /\ CpuChoices \cap (1..32) # {}
    /\ ActionChoices \cap {"start", "stop"} # {} /\ ImageChoices # {}
    /\ None \notin Machine /\ None \notin [rv: Nat, value: CpuChoices]
    /\ MaxRequests \in Nat /\ MaxWrites \in Nat /\ MaxFaults \in Nat
    /\ Kinds \subseteq {"create", "update", "delete", "action", "actions", "read",
                        "set", "add", "remove"}

VARIABLES
    api,       \* the machines
    last,      \* the last version given to each name
    view,      \* the lister's copy
    other,     \* credentials and images: whether they exist
    setting,   \* a setting: its version and value, None while it does not exist
    setView,   \* the lister's copy
    req,       \* what each connection is doing
    requests, writes, faults

machines == <<api, last>>
rest == <<other, setting>>
views == <<view, setView>>
bounds == <<requests, writes, faults>>
vars == <<machines, rest, views, req, bounds>>

\* A request: what it names and asks for, the next name, the copy read for it
\* and the answer, 0 while there is none.
Request == [kind: Kinds, names: Seq(Name \cup Other), want: MachineSpec, at: Nat,
            read: Machine \cup {None} \cup [rv: Nat, value: CpuChoices],
            code: {0, 200, 201, 204, 304, 400, 404, 409, 500}]

TypeOK ==
    /\ api \in [Name -> Machine \cup {None}] /\ view \in [Name -> Machine \cup {None}]
    /\ last \in [Name -> Nat] /\ \A n \in Name : api[n] # None => api[n].rv = last[n]
    /\ other \in [Other -> BOOLEAN]
    /\ setting \in [rv: Nat, value: CpuChoices] \cup {None}
    /\ setView \in [rv: Nat, value: CpuChoices] \cup {None}
    /\ \A c \in Conn : req[c] # None =>
          /\ req[c] \in Request
          /\ req[c].at \in 1..(Len(req[c].names) + 1)
    /\ requests \in 0..MaxRequests /\ writes \in 0..MaxWrites /\ faults \in 0..MaxFaults

\* What the lister returns.
Listed == IF Lag THEN view ELSE api
SettingListed == IF Lag THEN setView ELSE setting

-----------------------------------------------------------------------------
(* Requests and validation. *)

isValidCpus(i) == i.cpus >= 1 /\ i.cpus <= 32

isValidAction(a) == a \in {"start", "stop", "reboot"}

\* Instance.IsValid: names are valid, memory, image, keys and volume are not
\* told apart.
IsValid(i) == isValidCpus(i) /\ isValidAction(i.action)

\* Some machines exist when the server starts.
Init ==
    /\ last = [n \in Name |-> 1]
    /\ LET i == CHOOSE i \in MachineSpec : IsValid(i)
       IN api = [n \in Name |-> IF n \in Existing
                                THEN [uid |-> 1, rv |-> 1, spec |-> i, status |-> 0,
                                      fin |-> FALSE, deleting |-> FALSE]
                                ELSE None]
    /\ view = api
    /\ other = [o \in Other |-> FALSE] /\ setting = None /\ setView = None
    /\ req = [c \in Conn |-> None]
    /\ requests = 0 /\ writes = 0 /\ faults = 0

\* (Mutant: the numbers are one too high.)
CreatedFromTwo(k) == IF k = 1 THEN <<0>> ELSE [i \in 1..k |-> i + 1]

\* One machine has the name asked for, several have it with a number.
Created(k) == IF k = 1 THEN <<0>> ELSE [i \in 1..k |-> i]

Lists == {<<>>} \cup {<<m>> : m \in Asked} \cup {<<m, n>> : m, n \in Asked}

NamesFor(kind) ==
    IF kind = "create" THEN {Created(k) : k \in 1..MaxName}
    ELSE IF kind \in {"add", "remove"} THEN {<<o>> : o \in Other}
    ELSE IF kind \in {"actions", "delete"} THEN Lists
    ELSE {<<n>> : n \in Asked}

\* Only what the request carries varies.
WantsFor(kind) ==
    LET any == CHOOSE i \in MachineSpec : TRUE
    IN IF kind \in {"create", "update"} THEN MachineSpec
       ELSE IF kind = "set" THEN {[any EXCEPT !.cpus = v] : v \in CpuChoices}
       ELSE IF kind \in {"action", "actions"}
            THEN {[any EXCEPT !.action = a] : a \in ActionChoices}
            ELSE {any}

\* What the handlers refuse before they do anything; the action alone is in
\* the path of an action request.
Refused(kind, i) ==
    \/ kind \in {"create", "update"} /\ ~IsValid(i)
    \/ kind \in {"action", "actions"} /\ ~isValidAction(i.action)

\* The codes the Go client takes for success (InstanceCreate, InstanceStart,
\* InstanceStop, InstanceDelete, CredentialCreate ...); the web page takes the
\* same for the requests the client does not have.
Accepts(kind, code) ==
    \/ kind = "create" /\ code = 201
    \/ kind \in {"update", "action"} /\ code \in {204, 304}
    \/ kind \in {"delete", "actions", "remove"} /\ code = 204
    \/ kind = "add" /\ code \in {201, 204}
    \/ kind \in {"set", "read"} /\ code = 200

Retries(c) == c \in Patient /\ req[c].kind \in {"action", "actions"} /\ req[c].code \in {304, 500}
              /\ ~Accepts(req[c].kind, req[c].code)

Fresh(kind, names, i) ==
    [kind |-> kind, names |-> names, want |-> i, at |-> 1, read |-> None,
     code |-> IF Refused(kind, i) THEN 400
              ELSE IF names = <<>> THEN 204 ELSE 0]

\* newRouter's handler for a request; a connection makes one after the other.
Receive(c) ==
    /\ requests < MaxRequests /\ requests' = requests + 1
    /\ req[c] # None => req[c].code # 0 /\ ~Retries(c)
    /\ \E kind \in Kinds : \E names \in NamesFor(kind), i \in WantsFor(kind) :
          req' = [req EXCEPT ![c] = Fresh(kind, names, i)]
    /\ UNCHANGED <<machines, rest, views, writes, faults>>

\* A user repeats a request for an action that failed.
Retry(c) ==
    /\ req[c] # None /\ Retries(c)
    /\ req' = [req EXCEPT ![c] = Fresh(@.kind, @.names, @.want)]
    /\ UNCHANGED <<machines, rest, views, bounds>>

Busy(c, kinds) == req[c] # None /\ req[c].kind \in kinds /\ req[c].code = 0

\* The name the handler is at.
N(c) == req[c].names[req[c].at]

\* WriteHeader: the first code is the answer.
Answer(c, code) == req' = [req EXCEPT ![c] = [@ EXCEPT !.code = code, !.read = None]]

\* The loop goes on with the next name, and ends with the answer after the last.
Pass(c, code) ==
    req' = [req EXCEPT ![c] =
              [@ EXCEPT !.at = req[c].at + 1, !.read = None,
                        !.code = IF req[c].at = Len(req[c].names) THEN code ELSE 0]]

-----------------------------------------------------------------------------
(* The API. *)

\* The object is stored under a version of its own.
Store(n, m) ==
    /\ last' = [last EXCEPT ![n] = @ + 1]
    /\ api' = [api EXCEPT ![n] = [m EXCEPT !.rv = last[n] + 1]]

StoreNew(n, i) ==
    Store(n, [uid |-> last[n] + 1, rv |-> 0, spec |-> i, status |-> 0,
              fin |-> FALSE, deleting |-> FALSE])

\* Deleted at once, or once the controller has taken its finalizer off.
Remove(n) ==
    IF api[n].fin THEN Store(n, [api[n] EXCEPT !.deleting = TRUE])
    ELSE api' = [api EXCEPT ![n] = None] /\ last' = [last EXCEPT ![n] = @ + 1]

\* An Update is refused unless it is of the latest version.
Latest(n, m) == api[n] # None /\ api[n].rv = m.rv

\* A call fails before it has done anything.
CallFails(c) ==
    /\ faults < MaxFaults /\ faults' = faults + 1
    /\ Answer(c, 500)
    /\ UNCHANGED <<machines, rest, views, requests, writes>>

\* A call has been carried out, and its answer is lost.
AnswerLost(c) ==
    /\ faults < MaxFaults /\ faults' = faults + 1
    /\ Answer(c, 500)
    /\ UNCHANGED <<rest, views, requests, writes>>

Done == UNCHANGED <<rest, views, bounds>>
Untouched == UNCHANGED <<machines, rest, views, bounds>>

-----------------------------------------------------------------------------
(* Machines. *)

\* instanceCreateOne, and a round of instanceCreateMany.
InstanceCreate(c) ==
    /\ Busy(c, {"create"})
    /\ \/ /\ api[N(c)] = None /\ StoreNew(N(c), req[c].want)
          /\ Pass(c, 201) /\ Done
       \/ /\ api[N(c)] # None /\ Answer(c, 409) /\ Untouched
       \/ api[N(c)] = None /\ StoreNew(N(c), req[c].want) /\ AnswerLost(c)
       \/ CallFails(c)

\* InstanceDelete, and a round of InstanceDeleteMulti.
InstanceDelete(c) ==
    /\ Busy(c, {"delete"})
    /\ \/ api[N(c)] # None /\ Remove(N(c)) /\ Pass(c, 204) /\ Done
       \/ api[N(c)] = None /\ Answer(c, 404) /\ Untouched
       \/ api[N(c)] # None /\ Remove(N(c)) /\ AnswerLost(c)
       \/ CallFails(c)

Read(c, m) == req' = [req EXCEPT ![c].read = m]

\* overlayVMSpec of what an update asks for on a machine; the image stays.
overlayVMSpec(m, i) == [m EXCEPT !.spec = [@ EXCEPT !.action = i.action, !.cpus = i.cpus]]

\* InstanceUpdate reads the API; a copy that the update does not change
\* (updateVMSpec) is the end of it.
InstanceUpdate(c) ==
    /\ Busy(c, {"update"}) /\ req[c].read = None
    /\ \/ /\ api[N(c)] = None /\ Answer(c, 404) /\ Untouched
       \/ /\ api[N(c)] # None /\ overlayVMSpec(api[N(c)], req[c].want).spec = api[N(c)].spec
          /\ Answer(c, 304) /\ Untouched
       \/ /\ api[N(c)] # None /\ overlayVMSpec(api[N(c)], req[c].want).spec # api[N(c)].spec
          /\ Read(c, api[N(c)]) /\ Untouched
       \/ CallFails(c)

\* (Mutant: InstanceActionMulti answers like InstanceAction.)
SameActionEnds(c) == Answer(c, 304)

\* InstanceAction has nothing to do; InstanceActionMulti goes on.
SameAction(c) == IF req[c].kind = "action" THEN Answer(c, 304) ELSE Pass(c, 204)

\* InstanceAction, and a round of InstanceActionMulti, read the lister.
InstanceAction(c) ==
    /\ Busy(c, {"action", "actions"}) /\ req[c].read = None
    /\ \/ Listed[N(c)] = None /\ Answer(c, 404)
       \/ /\ Listed[N(c)] # None /\ Listed[N(c)].spec.action = req[c].want.action
          /\ SameAction(c)
       \/ /\ Listed[N(c)] # None /\ Listed[N(c)].spec.action # req[c].want.action
          /\ Read(c, Listed[N(c)])
    /\ Untouched

\* (Mutant: the copy is given the current version, so as to be accepted.)
ChangedForced(c) ==
    [req[c].read EXCEPT !.spec = IF req[c].kind = "update"
                                 THEN overlayVMSpec(req[c].read, req[c].want).spec
                                 ELSE [@ EXCEPT !.action = req[c].want.action],
                        !.rv = IF api[N(c)] = None THEN 0 ELSE api[N(c)].rv]

\* The copy that was read, with what the request changes of it.
Changed(c) ==
    IF req[c].kind = "update" THEN overlayVMSpec(req[c].read, req[c].want)
    ELSE [req[c].read EXCEPT !.spec.action = req[c].want.action]

\* (Mutant: InstanceActionMulti goes on after a conflict.)
UpdateOrSkip(c) ==
    /\ Busy(c, {"update", "action", "actions"}) /\ req[c].read # None
    /\ \/ /\ Latest(N(c), Changed(c)) /\ Store(N(c), Changed(c))
          /\ Pass(c, 204) /\ Done
       \/ /\ ~Latest(N(c), Changed(c)) /\ Pass(c, 204) /\ Untouched

\* The Update of the copy: a conflict is an error like any other.
UpdateMachine(c) ==
    /\ Busy(c, {"update", "action", "actions"}) /\ req[c].read # None
    /\ \/ /\ Latest(N(c), Changed(c)) /\ Store(N(c), Changed(c))
          /\ Pass(c, 204) /\ Done
       \/ /\ ~Latest(N(c), Changed(c)) /\ Answer(c, 500) /\ Untouched
       \/ Latest(N(c), Changed(c)) /\ Store(N(c), Changed(c)) /\ AnswerLost(c)
       \/ CallFails(c)

\* InstanceGet.
InstanceGet(c) ==
    /\ Busy(c, {"read"})
    /\ Answer(c, IF Listed[N(c)] = None THEN 404 ELSE 200) /\ Untouched

-----------------------------------------------------------------------------
(* Credentials, machine images and settings. *)

\* CredentialCreate, MachineImageCreate.
CreateOther(c) ==
    /\ Busy(c, {"add"})
    /\ \/ /\ ~other[N(c)] /\ other' = [other EXCEPT ![N(c)] = TRUE]
          /\ Answer(c, IF N(c) = 0 THEN 204 ELSE 201)
          /\ UNCHANGED <<machines, setting, views, bounds>>
       \/ other[N(c)] /\ Answer(c, 409) /\ Untouched
       \/ CallFails(c)

\* CredentialDelete, MachineImageDelete.
DeleteOther(c) ==
    /\ Busy(c, {"remove"})
    /\ \/ /\ other[N(c)] /\ other' = [other EXCEPT ![N(c)] = FALSE] /\ Answer(c, 204)
          /\ UNCHANGED <<machines, setting, views, bounds>>
       \/ ~other[N(c)] /\ Answer(c, 404) /\ Untouched
       \/ CallFails(c)

Missing == [rv |-> 0, value |-> CHOOSE v \in CpuChoices : TRUE]

\* SettingSet reads the lister; version 0 stands for "not found".
SettingGet(c) ==
    /\ Busy(c, {"set"}) /\ req[c].read = None
    /\ Read(c, IF SettingListed = None THEN Missing ELSE SettingListed) /\ Untouched

SettingWritten(c) ==
    /\ setting' = [rv |-> IF setting = None THEN 1 ELSE setting.rv + 1,
                   value |-> req[c].want.cpus]
    /\ UNCHANGED <<machines, other, views, bounds>>

SettingIsLatest(c) ==
    IF req[c].read.rv = 0 THEN setting = None
    ELSE setting # None /\ setting.rv = req[c].read.rv

\* It creates the setting or updates it: of the answers 500 and 200 to a
\* failed update, only the first is sent.
SettingSet(c) ==
    /\ Busy(c, {"set"}) /\ req[c].read # None
    /\ \/ SettingIsLatest(c) /\ SettingWritten(c) /\ Answer(c, 200)
       \/ ~SettingIsLatest(c) /\ Answer(c, 500) /\ Untouched
       \/ CallFails(c)

-----------------------------------------------------------------------------
(* The controllers and the informers. *)

Write == writes < MaxWrites /\ writes' = writes + 1
         /\ UNCHANGED <<rest, views, req, requests, faults>>

\* prepareMachine puts the finalizer on; the status is written again and again.
ControllerWrites ==
    /\ Write
    /\ \E n \in Name : /\ api[n] # None /\ ~api[n].deleting
                       /\ Store(n, [api[n] EXCEPT !.fin = TRUE, !.status = @ + 1])

\* removeFinalizer.
ControllerFinalizes ==
    \E n \in Name : /\ api[n] # None /\ api[n].deleting
                    /\ api' = [api EXCEPT ![n] = None] /\ last' = [last EXCEPT ![n] = @ + 1]
                    /\ UNCHANGED <<rest, views, req, bounds>>

\* The watches bring the listers up to date.
Deliver ==
    /\ Lag /\ (view # api \/ setView # setting)
    /\ view' = api /\ setView' = setting
    /\ UNCHANGED <<machines, rest, req, bounds>>

handler(c) == \/ InstanceCreate(c) \/ InstanceDelete(c) \/ InstanceUpdate(c)
              \/ InstanceAction(c) \/ UpdateMachine(c) \/ InstanceGet(c)
              \/ CreateOther(c) \/ DeleteOther(c) \/ SettingGet(c) \/ SettingSet(c)

Next == \/ \E c \in Conn : Receive(c) \/ Retry(c) \/ handler(c)
        \/ ControllerWrites \/ ControllerFinalizes \/ Deliver

\* Handlers run, failed actions are repeated and the watches deliver.
Fairness == /\ \A c \in Conn : WF_vars(handler(c)) /\ WF_vars(Retry(c))
            /\ WF_vars(Deliver)

Spec == Init /\ [][Next]_vars
FairSpec == Spec /\ Fairness

-----------------------------------------------------------------------------
(* Properties. *)

\* The step passes the name a handler is at, or accepts the request there.
Passes(c) ==
    /\ req[c] # None /\ req[c].code = 0 /\ req'[c] # None
    /\ \/ req'[c].at = req[c].at + 1
       \/ req'[c].code # 0 /\ Accepts(req[c].kind, req'[c].code)

\* What the request asks of that name has happened in the step, or was so: of an
\* update, the fields it carries over; of an action, when the handler had
\* something to do.
Fulfilled(c) ==
    CASE req[c].kind = "create" ->
           api[N(c)] = None /\ api'[N(c)] # None /\ api'[N(c)].spec = req[c].want
      [] req[c].kind = "update" ->
           /\ api'[N(c)] # None /\ api'[N(c)].spec.action = req[c].want.action
           /\ api'[N(c)].spec.cpus = req[c].want.cpus
      [] req[c].kind \in {"action", "actions"} /\ req[c].read # None ->
           api'[N(c)] # None /\ api'[N(c)].spec.action = req[c].want.action
      [] req[c].kind = "delete" ->
           api[N(c)] # None /\ (api'[N(c)] = None \/ api'[N(c)].deleting)
      [] req[c].kind = "set" -> setting' # None /\ setting'.value = req[c].want.cpus
      [] req[c].kind = "add" -> ~other[N(c)] /\ other'[N(c)]
      [] req[c].kind = "remove" -> other[N(c)] /\ ~other'[N(c)]
      [] OTHER -> TRUE

\* A success is true of every name: a create has created each machine itself,
\* with the spec asked for; a delete has deleted each; a setting, the fields an
\* update may change and an action that was written are in force when they are
\* acknowledged, whatever the other connections and the controllers did since
\* the handler read its copy (instanceCreateMany, InstanceUpdate,
\* InstanceDeleteMulti, InstanceActionMulti, SettingSet).  It says nothing of the
\* image an update asks for, which is acknowledged and dropped (UpdateIsWhole),
\* nor of an action the lister's copy has already (ActionIsInForce).
AnswersAreTrue == [][\A c \in Conn : Passes(c) => Fulfilled(c)]_vars

\* A write through the server changes what was asked for and nothing else of a
\* machine: not the status the controllers write, an update not the image and an
\* action request not the rest of the spec, although it writes the whole of a
\* copy that may be stale (InstanceAction, InstanceUpdate).
OnlyAsked ==
    [][\A c \in Conn, n \in Name :
          (/\ req'[c] # req[c] /\ api[n] # None /\ api'[n] # None
           /\ api'[n].uid = api[n].uid) =>
          /\ api'[n].status = api[n].status /\ api'[n].fin = api[n].fin
          /\ api'[n].spec.image = api[n].spec.image
          /\ req[c] # None /\ req[c].kind \in {"action", "actions"} =>
                api'[n].spec.cpus = api[n].spec.cpus]_vars

\* An update that is acknowledged is in force as a whole: the code fails it, an
\* update that asks for another image or volume changes neither (overlayVMSpec).
UpdateIsWhole ==
    [][\A c \in Conn : Passes(c) /\ req[c].kind = "update" =>
          api'[N(c)] # None /\ api'[N(c)].spec = req[c].want]_vars

\* An action that is acknowledged is in force: the code fails it, "not modified"
\* is answered for what the lister still shows (InstanceAction,
\* InstanceActionMulti).
ActionIsInForce ==
    [][\A c \in Conn : Passes(c) /\ req[c].kind \in {"action", "actions"} =>
          api'[N(c)] # None /\ api'[N(c)].spec.action = req[c].want.action]_vars

\* A request for an action that is repeated until it is accepted is accepted in
\* the end, or a machine is not there: what it has done already is no obstacle,
\* nor are conflicts with the controllers (InstanceActionMulti).
RetrySucceeds ==
    \A c \in Patient :
        (req[c] # None /\ req[c].kind \in {"action", "actions"}) ~>
        (req[c] # None /\ (Accepts(req[c].kind, req[c].code) \/ req[c].code \in {400, 404}))

=============================================================================
