---------------------------- MODULE ServerProofs ----------------------------
(***************************************************************************)
(* A copy of a machine, in the lister or in a handler, that has the        *)
(* machine's version is the machine.  From this: a write through the       *)
(* server changes what was asked for and nothing else, and a success is    *)
(* true, for any connections, machines and requests.                       *)
(***************************************************************************)
EXTENDS Server, SequenceTheorems, TLAPS

Setting == [rv: Nat, value: CpuChoices]
Code == {0, 200, 201, 204, 304, 400, 404, 409, 500}

\* A copy was current once; while its version is, it still is.
Known(n, k) == /\ k \in Machine /\ k.rv <= last[n]
               /\ api[n] # None /\ api[n].rv = k.rv => k = api[n]

\* A request in hand is at one of its names, and has read what its kind reads.
Sound(r) ==
    /\ r \in Request /\ r.at \in 1..(Len(r.names) + 1)
    /\ r.code = 0 => r.at \in 1..Len(r.names)
    /\ r.names \in Seq(IF r.kind \in {"add", "remove"} THEN Other ELSE Name)
    /\ r.read # None => r.read \in IF r.kind = "set" THEN Setting ELSE Machine

SoundRequests == /\ req \in [Conn -> Request \cup {None}]
                 /\ \A c \in Conn : req[c] # None => Sound(req[c])

\* The lister's copies, and those of the handlers between a read and a write.
KnownCopies ==
    /\ \A n \in Name : view[n] # None => Known(n, view[n])
    /\ \A c \in Conn : (Busy(c, {"update", "action", "actions"}) /\ req[c].read # None)
                           => Known(N(c), req[c].read)

Inv == TypeOK /\ SoundRequests /\ KnownCopies

-----------------------------------------------------------------------------
(* Requests. *)

\* What fills the fields a request does not use.
LEMMA AnyChoice ==
    /\ (CHOOSE i \in MachineSpec : TRUE) \in MachineSpec
    /\ (CHOOSE i \in MachineSpec : IsValid(i)) \in MachineSpec
    /\ (CHOOSE v \in CpuChoices : TRUE) \in CpuChoices
<1>1. PICK a \in ActionChoices, v \in CpuChoices : a \in {"start", "stop"} /\ v \in 1..32
  BY ServerConstants
<1>2. PICK g \in ImageChoices : TRUE BY ServerConstants
<1> DEFINE i == [action |-> a, cpus |-> v, image |-> g]
<1>3. i \in MachineSpec /\ IsValid(i)
  BY <1>1 DEF MachineSpec, IsValid, isValidCpus, isValidAction
<1> HIDE DEF i
<1>4. QED BY <1>1, <1>3

\* The names of a request: machines, or one of the other objects.
LEMMA NamesSound ==
    ASSUME NEW kind \in Kinds, NEW names \in NamesFor(kind)
    PROVE  names \in Seq(IF kind \in {"add", "remove"} THEN Other ELSE Name)
<1>1. CASE kind = "create"
  <2>1. PICK k \in 1..MaxName : names = Created(k) BY <1>1 DEF NamesFor
  <2>2. CASE k = 1 BY <1>1, <2>1, <2>2, ServerConstants DEF Created, Name
  <2>3. CASE k # 1
    <3>1. names \in [1..k -> Name] BY <2>1, <2>3, ServerConstants DEF Created, Name
    <3>2. k \in Nat BY <2>1, ServerConstants
    <3>3. names \in Seq(Name) BY <3>1, <3>2, SeqDef
    <3>4. QED BY <1>1, <3>3
  <2>4. QED BY <2>2, <2>3
<1>2. CASE kind \in {"add", "remove"} BY SMTT(30), <1>2 DEF NamesFor
<1>3. CASE kind \notin {"create", "add", "remove"}
  <2>1. names \in Lists \cup {<<n>> : n \in Asked} BY <1>3 DEF NamesFor
  <2>2. \A n \in Asked : n \in Name BY ServerConstants
  <2>3. names = <<>> \/ (\E n \in Name : names = <<n>>) \/ (\E l, n \in Name : names = <<l, n>>)
    BY <2>1, <2>2 DEF Lists
  <2>4. names \in Seq(Name)
    <3>1. CASE names = <<>> BY <3>1
    <3>2. CASE \E n \in Name : names = <<n>> BY <3>2
    <3>3. CASE \E l, n \in Name : names = <<l, n>> BY <3>3
    <3>4. QED BY <2>3, <3>1, <3>2, <3>3
  <2>5. QED BY <1>3, <2>4
<1>4. QED BY <1>1, <1>2, <1>3

\* What a request asks for is a spec.
LEMMA WantsTyped ==
    ASSUME NEW kind \in Kinds, NEW i \in WantsFor(kind)
    PROVE  i \in MachineSpec
<1> DEFINE any == CHOOSE j \in MachineSpec : TRUE
<1>1. any \in MachineSpec BY AnyChoice
<1> HIDE DEF any
<1>2. /\ \A v \in CpuChoices : [any EXCEPT !.cpus = v] \in MachineSpec
      /\ \A a \in ActionChoices : [any EXCEPT !.action = a] \in MachineSpec
  BY <1>1 DEF MachineSpec
<1>3. \/ i \in MachineSpec \/ i = any
      \/ \E v \in CpuChoices : i = [any EXCEPT !.cpus = v]
      \/ \E a \in ActionChoices : i = [any EXCEPT !.action = a]
  BY DEF WantsFor, any
<1>4. QED BY <1>1, <1>2, <1>3

\* A request that has just come in is sound.
LEMMA FreshSound ==
    ASSUME NEW kind \in Kinds, NEW i \in MachineSpec,
           NEW names \in Seq(IF kind \in {"add", "remove"} THEN Other ELSE Name)
    PROVE  Sound(Fresh(kind, names, i))
<1>1. names \in Seq(Name \cup Other) /\ Len(names) \in Nat
  <2>1. \A S, T : S \subseteq T => Seq(S) \subseteq Seq(T) OBVIOUS
  <2>2. QED BY <2>1
<1>2. names # <<>> => Len(names) >= 1 BY EmptySeq
<1>3. Fresh(kind, names, i) \in Request BY <1>1 DEF Fresh, Request
<1>4. QED BY <1>1, <1>2, <1>3 DEF Fresh, Sound

\* A request with an answer, its place or its copy changed is still one.
LEMMA RequestChanged ==
    ASSUME NEW r \in Request, NEW at \in Nat, NEW code \in Code,
           NEW k \in Machine \cup {None} \cup Setting
    PROVE  [r EXCEPT !.at = at, !.read = k, !.code = code] \in Request
<1> DEFINE Names == Seq(Name \cup Other)
           Reads == Machine \cup {None} \cup Setting
<1>1. Request = [kind: Kinds, names: Names, want: MachineSpec, at: Nat, read: Reads, code: Code]
  BY DEF Request, Setting, Code
<1>2. k \in Reads OBVIOUS
<1> HIDE DEF Names, Reads
<1>3. QED BY <1>1, <1>2

\* So is one that has been answered (Answer).
LEMMA AnswerSound ==
    ASSUME NEW r, Sound(r), NEW code \in Code \ {0}
    PROVE  Sound([r EXCEPT !.code = code, !.read = None])
<1> DEFINE q == [r EXCEPT !.code = code, !.read = None]
<1>1. r \in Request BY DEF Sound
<1>2. q = [r EXCEPT !.at = r.at, !.read = None, !.code = code] BY ZenonT(40), <1>1 DEF Request
<1>3. q \in Request
  <2>1. r.at \in Nat /\ None \in Machine \cup {None} \cup Setting BY <1>1 DEF Request
  <2>2. [r EXCEPT !.at = r.at, !.read = None, !.code = code] \in Request
    BY <1>1, <2>1, RequestChanged
  <2>3. QED BY <1>2, <2>2
<1>4. /\ q.code = code /\ q.read = None
      /\ q.names = r.names /\ q.at = r.at /\ q.kind = r.kind
  BY <1>1 DEF Request
<1> HIDE DEF q
<1>5. Sound(q) BY <1>3, <1>4 DEF Sound, Code
<1>6. QED BY <1>5 DEF q

\* So is one that goes on to its next name, or has done the last (Pass).
LEMMA PassSound ==
    ASSUME NEW r, Sound(r), r.code = 0, NEW code \in Code \ {0}
    PROVE  Sound([r EXCEPT !.at = @ + 1, !.read = None,
                           !.code = IF r.at = Len(r.names) THEN code ELSE 0])
<1> DEFINE Final == r.at = Len(r.names)
           q == [r EXCEPT !.at = @ + 1, !.read = None, !.code = IF Final THEN code ELSE 0]
<1>1. r \in Request BY DEF Sound
<1>2. r.at \in Nat /\ (IF Final THEN code ELSE 0) \in Code BY <1>1 DEF Request, Code
<1>3. q \in Request
  <2>1. r.at + 1 \in Nat /\ None \in Machine \cup {None} \cup Setting BY <1>2
  <2>2. QED BY <1>1, <1>2, <2>1, RequestChanged
<1>4. /\ q.code = (IF Final THEN code ELSE 0) /\ q.read = None
      /\ q.names = r.names /\ q.at = r.at + 1 /\ q.kind = r.kind
  BY <1>1 DEF Request
<1>5. Len(r.names) \in Nat BY <1>1, LenProperties DEF Request
<1> HIDE DEF q
<1>6. Sound(q) BY <1>3, <1>4, <1>5 DEF Sound
<1>7. QED BY <1>6 DEF q

\* So is one that has read what its kind reads (Read).
LEMMA ReadSound ==
    ASSUME NEW r, Sound(r), NEW k \in IF r.kind = "set" THEN Setting ELSE Machine
    PROVE  Sound([r EXCEPT !.read = k])
BY SMTT(30) DEF Sound, Request, Setting

\* A handler at work is at a name of its kind.
LEMMA AtName ==
    ASSUME NEW c \in Conn, SoundRequests, req[c] # None, req[c].code = 0
    PROVE  N(c) \in IF req[c].kind \in {"add", "remove"} THEN Other ELSE Name
BY DEF SoundRequests, Sound, N

-----------------------------------------------------------------------------
(* Who writes what. *)

\* Machines are written by three handlers and the controllers, the listers by
\* the watches, a request by its own handler.
LEMMA Writers ==
    ASSUME [Next]_vars
    PROVE  /\ \/ UNCHANGED machines \/ ControllerWrites \/ ControllerFinalizes
              \/ \E c \in Conn : InstanceCreate(c) \/ InstanceDelete(c) \/ UpdateMachine(c)
           /\ UNCHANGED views \/ Deliver
           /\ UNCHANGED req \/ \E c \in Conn : Receive(c) \/ Retry(c) \/ handler(c)
<1> USE DEF machines, rest, views, bounds, Untouched, Done, CallFails, AnswerLost
<1>1. UNCHANGED req \/ \E c \in Conn : Receive(c) \/ Retry(c) \/ handler(c)
  BY DEF Next, vars, ControllerWrites, ControllerFinalizes, Write, Deliver
<1>2. \A c \in Conn : handler(c) => UNCHANGED views
  BY DEF handler, InstanceCreate, InstanceDelete, InstanceUpdate, InstanceAction,
       UpdateMachine, InstanceGet, CreateOther, DeleteOther, SettingGet, SettingSet,
       SettingWritten
<1>3. UNCHANGED views \/ Deliver
  BY <1>2 DEF Next, vars, Receive, Retry, ControllerWrites, ControllerFinalizes, Write
<1>4. \A c \in Conn : handler(c) => \/ UNCHANGED machines
                                    \/ InstanceCreate(c) \/ InstanceDelete(c)
                                    \/ UpdateMachine(c)
  BY DEF handler, InstanceUpdate, InstanceAction, InstanceGet, CreateOther, DeleteOther,
       SettingGet, SettingSet, SettingWritten
<1>5. \/ UNCHANGED machines \/ ControllerWrites \/ ControllerFinalizes
      \/ \E c \in Conn : InstanceCreate(c) \/ InstanceDelete(c) \/ UpdateMachine(c)
  BY <1>4 DEF Next, vars, Receive, Retry, Deliver
<1>6. QED BY <1>1, <1>3, <1>5

\* A handler answers, goes on to the next name, or keeps a copy of what its
\* kind reads.
LEMMA Handled ==
    ASSUME Inv, NEW c \in Conn, handler(c)
    PROVE  /\ req[c] # None /\ req[c].code = 0
           /\ \/ \E code \in Code \ {0} : Answer(c, code) \/ Pass(c, code)
              \/ /\ req[c].kind = "set" /\ \E k \in Setting : Read(c, k)
              \/ /\ req[c].kind \in {"update", "action", "actions"}
                 /\ \E k : Known(N(c), k) /\ Read(c, k) /\ UNCHANGED machines
<1>1. CASE InstanceCreate(c)
  BY <1>1 DEF InstanceCreate, Busy, CallFails, AnswerLost, Code
<1>2. CASE InstanceDelete(c)
  BY <1>2 DEF InstanceDelete, Busy, CallFails, AnswerLost, Code
<1>3. CASE InstanceUpdate(c)
  <2>1. req[c] # None /\ req[c].code = 0 /\ req[c].kind = "update"
    BY <1>3 DEF InstanceUpdate, Busy
  <2>2. N(c) \in Name BY <2>1, AtName DEF Inv
  <2>3. api[N(c)] # None => Known(N(c), api[N(c)]) BY <2>2 DEF Inv, TypeOK, Known, Machine
  <2>4. QED BY <1>3, <2>1, <2>3 DEF InstanceUpdate, CallFails, Code, Untouched
<1>4. CASE InstanceAction(c)
  <2>1. req[c] # None /\ req[c].code = 0 /\ req[c].kind \in {"action", "actions"}
    BY <1>4 DEF InstanceAction, Busy
  <2>2. N(c) \in Name BY <2>1, AtName DEF Inv
  <2>3. Listed[N(c)] # None => Known(N(c), Listed[N(c)])
    BY <2>2 DEF Inv, TypeOK, KnownCopies, Known, Machine, Listed
  <2>4. QED BY <1>4, <2>1, <2>3 DEF InstanceAction, SameAction, Code, Untouched
<1>5. CASE UpdateMachine(c)
  BY <1>5 DEF UpdateMachine, Busy, CallFails, AnswerLost, Code
<1>6. CASE InstanceGet(c) BY <1>6 DEF InstanceGet, Busy, Code
<1>7. CASE CreateOther(c) BY <1>7 DEF CreateOther, Busy, CallFails, Code
<1>8. CASE DeleteOther(c) BY <1>8 DEF DeleteOther, Busy, CallFails, Code
<1>9. CASE SettingGet(c)
  <2>1. Missing \in Setting BY AnyChoice DEF Missing, Setting
  <2>2. SettingListed # None => SettingListed \in Setting
    BY DEF SettingListed, Inv, TypeOK, Setting
  <2>3. QED BY <1>9, <2>1, <2>2 DEF SettingGet, Busy
<1>10. CASE SettingSet(c) BY <1>10 DEF SettingSet, Busy, CallFails, Code
<1>11. QED
  BY <1>1, <1>2, <1>3, <1>4, <1>5, <1>6, <1>7, <1>8, <1>9, <1>10 DEF handler

\* A step of a connection replaces its request, and no other.
LEMMA OwnRequest ==
    ASSUME Inv, NEW c \in Conn, Receive(c) \/ Retry(c) \/ handler(c)
    PROVE  \E r : req' = [req EXCEPT ![c] = r] /\ Sound(r)
<1>1. req[c] # None => Sound(req[c]) BY DEF Inv, SoundRequests
<1>2. CASE Receive(c)
  <2>1. PICK kind \in Kinds : \E names \in NamesFor(kind), i \in WantsFor(kind) :
           req' = [req EXCEPT ![c] = Fresh(kind, names, i)]
    BY <1>2 DEF Receive
  <2>2. PICK names \in NamesFor(kind), i \in WantsFor(kind) :
           req' = [req EXCEPT ![c] = Fresh(kind, names, i)]
    BY <2>1
  <2>3. Sound(Fresh(kind, names, i)) BY NamesSound, WantsTyped, FreshSound
  <2>4. QED BY <2>2, <2>3
<1>3. CASE Retry(c)
  <2> DEFINE q == Fresh(req[c].kind, req[c].names, req[c].want)
  <2>1. Sound(req[c]) /\ req' = [req EXCEPT ![c] = q] BY <1>1, <1>3 DEF Retry
  <2>2. req[c].kind \in Kinds /\ req[c].want \in MachineSpec BY <2>1 DEF Sound, Request
  <2>3. req[c].names \in Seq(IF req[c].kind \in {"add", "remove"} THEN Other ELSE Name)
    BY <2>1 DEF Sound
  <2>4. Sound(q) BY <2>2, <2>3, FreshSound
  <2>5. QED BY <2>1, <2>4
<1>4. CASE handler(c)
  <2>1. Sound(req[c]) /\ req[c].code = 0 BY <1>1, <1>4, Handled
  <2>2. ASSUME NEW code \in Code \ {0}, Answer(c, code)
        PROVE  \E r : req' = [req EXCEPT ![c] = r] /\ Sound(r)
    <3>1. Sound([req[c] EXCEPT !.code = code, !.read = None]) BY <2>1, AnswerSound
    <3>2. QED BY <2>2, <3>1 DEF Answer
  <2>3. ASSUME NEW code \in Code \ {0}, Pass(c, code)
        PROVE  \E r : req' = [req EXCEPT ![c] = r] /\ Sound(r)
    <3> DEFINE q == [req[c] EXCEPT !.at = @ + 1, !.read = None,
                       !.code = IF req[c].at = Len(req[c].names) THEN code ELSE 0]
    <3>1. Sound(q) BY <2>1, PassSound
    <3>2. req' = [req EXCEPT ![c] = q] BY <2>3 DEF Pass
    <3> HIDE DEF q
    <3>3. QED BY <3>1, <3>2
  <2>4. ASSUME NEW k, Read(c, k), k \in IF req[c].kind = "set" THEN Setting ELSE Machine
        PROVE  \E r : req' = [req EXCEPT ![c] = r] /\ Sound(r)
    BY <2>1, <2>4, ReadSound DEF Read
  <2>5. QED BY <1>4, <2>2, <2>3, <2>4, Handled DEF Known
<1>5. QED BY <1>2, <1>3, <1>4

\* A request is changed by steps of its own connection only.
LEMMA OwnStep ==
    ASSUME Inv, [Next]_vars, NEW c \in Conn, req'[c] # req[c]
    PROVE  Receive(c) \/ Retry(c) \/ handler(c)
<1>1. PICK d \in Conn : Receive(d) \/ Retry(d) \/ handler(d) BY Writers
<1>2. PICK r : req' = [req EXCEPT ![d] = r] BY <1>1, OwnRequest
<1>3. QED BY <1>1, <1>2 DEF Inv, SoundRequests

\* Every step keeps the requests sound.
LEMMA RequestsStep ==
    ASSUME Inv, [Next]_vars
    PROVE  SoundRequests'
<1>1. SoundRequests BY DEF Inv
<1>2. CASE UNCHANGED req BY <1>1, <1>2 DEF SoundRequests
<1>3. ASSUME NEW c \in Conn, Receive(c) \/ Retry(c) \/ handler(c) PROVE SoundRequests'
  <2>1. PICK r : req' = [req EXCEPT ![c] = r] /\ Sound(r) BY <1>3, OwnRequest
  <2>2. r \in Request BY <2>1 DEF Sound
  <2>3. QED BY <1>1, <2>1, <2>2 DEF SoundRequests
<1>4. QED BY <1>2, <1>3, Writers

-----------------------------------------------------------------------------
(* Machines. *)

\* The machine of a name and its version are as they were, or it has a version
\* that no copy has.
Versioned(n) ==
    \/ api'[n] = api[n] /\ last'[n] = last[n]
    \/ /\ last'[n] = last[n] + 1
       /\ api'[n] # None => api'[n] \in Machine /\ api'[n].rv = last[n] + 1

MachinesStepped == /\ api' \in [Name -> Machine \cup {None}] /\ last' \in [Name -> Nat]
                   /\ \A n \in Name : Versioned(n)

\* Store, and the removal of a machine.
LEMMA StoreVersions ==
    ASSUME TypeOK, NEW n \in Name, NEW k \in Machine, Store(n, k)
    PROVE  /\ MachinesStepped
           /\ api'[n] = [k EXCEPT !.rv = last[n] + 1] /\ api'[n] \in Machine
           /\ \A o \in Name \ {n} : api'[o] = api[o]
<1>1. api \in [Name -> Machine \cup {None}] /\ last \in [Name -> Nat] BY DEF TypeOK
<1>2. [k EXCEPT !.rv = last[n] + 1] \in Machine /\ [k EXCEPT !.rv = last[n] + 1].rv = last[n] + 1
  BY <1>1 DEF Machine
<1>3. QED BY <1>1, <1>2 DEF Store, MachinesStepped, Versioned

\* Taking a machine away is a change of its version.
LEMMA RemovalVersions ==
    ASSUME TypeOK, NEW n \in Name,
           api' = [api EXCEPT ![n] = None], last' = [last EXCEPT ![n] = @ + 1]
    PROVE  MachinesStepped
BY DEF TypeOK, MachinesStepped, Versioned

\* Remove marks a machine with a finalizer and takes away another.
LEMMA RemoveEffect ==
    ASSUME TypeOK, NEW n \in Name, api[n] # None, Remove(n)
    PROVE  /\ MachinesStepped
           /\ \A o \in Name \ {n} : api'[o] = api[o]
           /\ \/ api'[n] = None
              \/ /\ api'[n] \in Machine /\ api'[n].deleting
                 /\ api'[n] = [api[n] EXCEPT !.deleting = TRUE, !.rv = last[n] + 1]
<1>1. api \in [Name -> Machine \cup {None}] /\ api[n] \in Machine BY DEF TypeOK
<1>2. CASE api[n].fin
  <2>1. [api[n] EXCEPT !.deleting = TRUE] \in Machine BY <1>1 DEF Machine
  <2>2. Store(n, [api[n] EXCEPT !.deleting = TRUE]) BY <1>2 DEF Remove
  <2>3. /\ MachinesStepped /\ api'[n] \in Machine
        /\ \A o \in Name \ {n} : api'[o] = api[o]
        /\ api'[n] = [[api[n] EXCEPT !.deleting = TRUE] EXCEPT !.rv = last[n] + 1]
    BY <2>1, <2>2, StoreVersions
  <2>4. QED BY <1>1, <2>3 DEF Machine
<1>3. CASE ~api[n].fin BY <1>1, <1>3, RemovalVersions DEF Remove
<1>4. QED BY <1>2, <1>3

\* A machine that is created has the spec asked for.
LEMMA CreateEffect ==
    ASSUME TypeOK, NEW n \in Name, NEW i \in MachineSpec, StoreNew(n, i)
    PROVE  /\ MachinesStepped
           /\ api'[n] \in Machine /\ api'[n].spec = i
           /\ \A o \in Name \ {n} : api'[o] = api[o]
<1> DEFINE k == [uid |-> last[n] + 1, rv |-> 0, spec |-> i, status |-> 0,
                 fin |-> FALSE, deleting |-> FALSE]
<1>1. last[n] \in Nat BY DEF TypeOK
<1>2. k \in Machine /\ k.spec = i BY <1>1 DEF Machine
<1>3. Store(n, k) BY DEF StoreNew
<1> HIDE DEF k
<1>4. /\ MachinesStepped /\ api'[n] = [k EXCEPT !.rv = last[n] + 1] /\ api'[n] \in Machine
      /\ \A o \in Name \ {n} : api'[o] = api[o]
  BY <1>2, <1>3, StoreVersions
<1>5. api'[n].spec = k.spec BY <1>2, <1>4 DEF Machine
<1>6. QED BY <1>2, <1>4, <1>5

\* An Update that is accepted is of the machine as it is: only the spec, and of
\* an action request only the action, changes (overlayVMSpec, Latest); the image
\* stays.
LEMMA UpdateEffect ==
    ASSUME Inv, NEW c \in Conn, Busy(c, {"update", "action", "actions"}),
           req[c].read # None, Latest(N(c), Changed(c)),
           Store(N(c), Changed(c))
    PROVE  /\ N(c) \in Name /\ api[N(c)] # None /\ MachinesStepped
           /\ api'[N(c)] \in Machine
           /\ api'[N(c)].uid = api[N(c)].uid /\ api'[N(c)].status = api[N(c)].status
           /\ api'[N(c)].fin = api[N(c)].fin
           /\ api'[N(c)].spec.action = req[c].want.action
           /\ api'[N(c)].spec.image = api[N(c)].spec.image
           /\ api'[N(c)].spec.cpus = IF req[c].kind = "update" THEN req[c].want.cpus
                                     ELSE api[N(c)].spec.cpus
           /\ \A o \in Name \ {N(c)} : api'[o] = api[o]
<1> DEFINE k == req[c].read
           w == Changed(c)
<1>1. N(c) \in Name /\ TypeOK BY AtName DEF Inv, Busy
<1>2. Known(N(c), k) BY DEF Inv, KnownCopies
<1>3. k \in Machine /\ req[c].want \in MachineSpec
  BY <1>2 DEF Known, Inv, SoundRequests, Sound, Request, Busy
<1>4. k.spec \in MachineSpec BY <1>3 DEF Machine
<1>5. /\ w \in Machine /\ w.uid = k.uid /\ w.rv = k.rv /\ w.status = k.status
      /\ w.fin = k.fin /\ w.spec.action = req[c].want.action /\ w.spec.image = k.spec.image
      /\ w.spec.cpus = IF req[c].kind = "update" THEN req[c].want.cpus ELSE k.spec.cpus
  <2>1. CASE req[c].kind = "update"
    <3> DEFINE u == [k.spec EXCEPT !.action = req[c].want.action, !.cpus = req[c].want.cpus]
    <3>1. /\ u \in MachineSpec /\ u.action = req[c].want.action /\ u.cpus = req[c].want.cpus
          /\ u.image = k.spec.image
      BY <1>3, <1>4 DEF MachineSpec
    <3>2. w = [k EXCEPT !.spec = u] BY <2>1 DEF Changed, overlayVMSpec
    <3> HIDE DEF u
    <3>3. w \in Machine /\ w.spec = u /\ w.uid = k.uid /\ w.rv = k.rv
          /\ w.status = k.status /\ w.fin = k.fin
      BY <1>3, <3>1, <3>2 DEF Machine
    <3>4. QED BY <2>1, <3>1, <3>3
  <2>2. CASE req[c].kind # "update"
    BY <1>3, <1>4, <2>2 DEF Changed, Machine, MachineSpec
  <2>3. QED BY <2>1, <2>2
<1> HIDE DEF w
<1>6. api[N(c)] # None /\ api[N(c)].rv = w.rv BY DEF Latest, w
<1>7. k = api[N(c)] BY <1>2, <1>5, <1>6 DEF Known
<1>8. Store(N(c), w) BY DEF w
<1>9. /\ MachinesStepped /\ api'[N(c)] = [w EXCEPT !.rv = last[N(c)] + 1]
      /\ api'[N(c)] \in Machine /\ \A o \in Name \ {N(c)} : api'[o] = api[o]
  BY <1>1, <1>5, <1>8, StoreVersions
<1>10. /\ api'[N(c)].uid = w.uid /\ api'[N(c)].status = w.status
       /\ api'[N(c)].fin = w.fin /\ api'[N(c)].spec = w.spec
  BY <1>5, <1>9 DEF Machine
<1>11. QED BY <1>1, <1>5, <1>6, <1>7, <1>9, <1>10

\* Every step leaves a machine alone or gives it a new version.
LEMMA MachinesStep ==
    ASSUME Inv, [Next]_vars
    PROVE  MachinesStepped
<1>1. TypeOK BY DEF Inv
<1>2. CASE UNCHANGED machines BY <1>1, <1>2 DEF machines, TypeOK, MachinesStepped, Versioned
<1>3. CASE ControllerWrites
  <2>1. PICK n \in Name : api[n] # None /\ Store(n, [api[n] EXCEPT !.fin = TRUE, !.status = @ + 1])
    BY <1>3 DEF ControllerWrites
  <2>2. [api[n] EXCEPT !.fin = TRUE, !.status = @ + 1] \in Machine
    <3>1. api[n] \in Machine BY <1>1, <2>1 DEF TypeOK
    <3>2. api[n].status + 1 \in Nat BY <3>1 DEF Machine
    <3>3. \A k \in Machine, v \in Nat : [k EXCEPT !.fin = TRUE, !.status = v] \in Machine
      BY DEF Machine
    <3>4. QED BY <3>1, <3>2, <3>3
  <2>3. QED BY <1>1, <2>1, <2>2, StoreVersions
<1>4. CASE ControllerFinalizes BY <1>1, <1>4, RemovalVersions DEF ControllerFinalizes
<1>5. ASSUME NEW c \in Conn, InstanceCreate(c), ~UNCHANGED machines PROVE MachinesStepped
  <2>1. req[c] # None /\ req[c].code = 0 /\ req[c].kind = "create"
        /\ StoreNew(N(c), req[c].want)
    BY <1>5 DEF InstanceCreate, Busy, Untouched, CallFails
  <2>2. N(c) \in Name BY <2>1, AtName DEF Inv
  <2>3. req[c].want \in MachineSpec BY <2>1 DEF Inv, SoundRequests, Sound, Request
  <2>4. QED BY <1>1, <2>1, <2>2, <2>3, CreateEffect
<1>6. ASSUME NEW c \in Conn, InstanceDelete(c), ~UNCHANGED machines PROVE MachinesStepped
  <2>1. req[c] # None /\ req[c].code = 0 /\ req[c].kind = "delete"
        /\ api[N(c)] # None /\ Remove(N(c))
    BY <1>6 DEF InstanceDelete, Busy, Untouched, CallFails
  <2>2. N(c) \in Name BY <2>1, AtName DEF Inv
  <2>3. QED BY <1>1, <2>1, <2>2, RemoveEffect
<1>7. ASSUME NEW c \in Conn, UpdateMachine(c), ~UNCHANGED machines PROVE MachinesStepped
  BY <1>7, UpdateEffect DEF UpdateMachine, Untouched, CallFails
<1>8. QED BY <1>2, <1>3, <1>4, <1>5, <1>6, <1>7, Writers

\* A copy that is known stays so, whoever writes.
LEMMA KnownStays ==
    ASSUME Inv, [Next]_vars, NEW n \in Name, NEW k, Known(n, k)
    PROVE  Known(n, k)'
<1>1. /\ last[n] \in Nat /\ last'[n] \in Nat /\ Versioned(n)
      /\ k \in Machine /\ k.rv \in Nat /\ k.rv <= last[n]
  BY MachinesStep DEF MachinesStepped, Inv, TypeOK, Known, Machine
<1>2. CASE api'[n] = api[n] /\ last'[n] = last[n] BY <1>2 DEF Known
<1>3. CASE last'[n] = last[n] + 1 /\ (api'[n] # None => api'[n].rv = last[n] + 1)
  BY <1>1, <1>3 DEF Known
<1>4. QED BY <1>1, <1>2, <1>3 DEF Versioned

\* Copies stay known: a version is never given twice.
LEMMA CopiesStep ==
    ASSUME Inv, [Next]_vars
    PROVE  KnownCopies'
<1>1. \A n \in Name : \A k : Known(n, k) => Known(n, k)' BY KnownStays
<1>2. ASSUME NEW n \in Name, view'[n] # None PROVE Known(n, view[n])'
  <2>1. CASE view' = view BY <1>1, <1>2, <2>1 DEF Inv, KnownCopies, Known
  <2>2. CASE view' = api
    <3>1. Known(n, api[n]) BY <1>2, <2>2 DEF Inv, TypeOK, Known, Machine
    <3>2. QED BY <1>1, <2>2, <3>1 DEF Known
  <2>3. QED BY <2>1, <2>2, Writers DEF views, Deliver
<1>3. ASSUME NEW c \in Conn, Busy(c, {"update", "action", "actions"})', req'[c].read # None
      PROVE  Known(N(c), req[c].read)'
  <2>1. CASE req'[c] = req[c]
    <3>1. Busy(c, {"update", "action", "actions"}) /\ req[c].read # None
      BY <1>3, <2>1 DEF Busy
    <3>2. N(c) \in Name BY <3>1, AtName DEF Inv, Busy
    <3>3. Known(N(c), req[c].read)  BY <3>1 DEF Inv, KnownCopies
    <3>4. QED BY <1>1, <2>1, <3>2, <3>3 DEF Known, N
  <2>2. CASE req'[c] # req[c]
    <3>1. Receive(c) \/ Retry(c) \/ handler(c) BY <2>2, OwnStep
    <3>2. \A kind, names, i : Fresh(kind, names, i).read = None BY DEF Fresh
    <3>3. ~Receive(c) /\ ~Retry(c)
      BY <1>3, <3>2 DEF Receive, Retry, Inv, SoundRequests
    <3>4. req[c] # None /\ req[c] \in Request /\ req \in [Conn -> Request \cup {None}]
      BY <3>1, <3>3, Handled DEF Inv, SoundRequests
    <3>5. \A code : ~Answer(c, code) /\ ~Pass(c, code)
      <4>1. \A code : [req[c] EXCEPT !.code = code, !.read = None].read = None
        BY <3>4 DEF Request
      <4>2. ASSUME NEW code PROVE ~Answer(c, code)
        <5>1. Answer(c, code) => req'[c] = [req[c] EXCEPT !.code = code, !.read = None]
          BY <3>4 DEF Answer
        <5>2. QED BY <1>3, <4>1, <5>1
      <4>3. ASSUME NEW code PROVE ~Pass(c, code)
        <5>1. Pass(c, code) =>
                req'[c] = [req[c] EXCEPT !.at = req[c].at + 1, !.read = None,
                             !.code = IF req[c].at = Len(req[c].names) THEN code ELSE 0]
          BY <3>4 DEF Pass
        <5>2. [req[c] EXCEPT !.at = req[c].at + 1, !.read = None,
                 !.code = IF req[c].at = Len(req[c].names) THEN code ELSE 0].read = None
          BY <3>4 DEF Request
        <5>3. QED BY <1>3, <5>1, <5>2
      <4>4. QED BY <4>2, <4>3
    <3>6. PICK k : Read(c, k) /\ (req[c].kind = "set" \/ Known(N(c), k))
      BY <3>1, <3>3, <3>5, Handled
    <3>7. /\ req'[c].read = k /\ req'[c].kind = req[c].kind /\ req'[c].names = req[c].names
          /\ req'[c].at = req[c].at
      BY <3>4, <3>6 DEF Read, Request
    <3>8. req[c].kind # "set" /\ req[c].kind \notin {"add", "remove"} BY <1>3, <3>7 DEF Busy
    <3>9. N(c) \in Name BY <3>1, <3>3, <3>8, AtName, Handled DEF Inv
    <3>10. Known(N(c), k)' BY <1>1, <3>6, <3>7, <3>8, <3>9 DEF Known, N
    <3>11. QED BY <3>7, <3>10 DEF Known, N
  <2>3. QED BY <2>1, <2>2
<1>4. QED BY <1>2, <1>3 DEF KnownCopies

-----------------------------------------------------------------------------
(* The invariant. *)

\* The other objects and the setting have their own handlers (CreateOther,
\* DeleteOther, SettingSet).
LEMMA RestWriters ==
    ASSUME [Next]_vars
    PROVE  /\ other' = other \/ \E c \in Conn : CreateOther(c) \/ DeleteOther(c)
           /\ setting' = setting \/ \E c \in Conn : SettingSet(c)
<1>1. CASE UNCHANGED rest BY <1>1 DEF rest
<1>2. ASSUME NEW c \in Conn, Receive(c) \/ Retry(c) PROVE UNCHANGED rest
  BY <1>2 DEF Receive, Retry
<1>3. ASSUME NEW c \in Conn, InstanceCreate(c) \/ InstanceDelete(c) PROVE UNCHANGED rest
  BY <1>3 DEF InstanceCreate, InstanceDelete, Untouched, Done, CallFails, AnswerLost
<1>4. ASSUME NEW c \in Conn, InstanceUpdate(c) \/ InstanceAction(c) PROVE UNCHANGED rest
  BY <1>4 DEF InstanceUpdate, InstanceAction, Untouched, Done, CallFails, AnswerLost
<1>5. ASSUME NEW c \in Conn, UpdateMachine(c) \/ InstanceGet(c) \/ SettingGet(c)
      PROVE  UNCHANGED rest
  BY <1>5 DEF UpdateMachine, InstanceGet, SettingGet, Untouched, Done, CallFails, AnswerLost
<1>6. CASE ControllerWrites \/ ControllerFinalizes \/ Deliver \/ UNCHANGED vars
  <2>1. UNCHANGED rest BY <1>6 DEF ControllerWrites, ControllerFinalizes, Write, Deliver, vars
  <2>2. QED BY <1>1, <2>1
<1>7. ASSUME NEW c \in Conn, CreateOther(c) \/ DeleteOther(c) PROVE UNCHANGED setting
  BY <1>7 DEF CreateOther, DeleteOther, CallFails, Untouched, rest
<1>8. ASSUME NEW c \in Conn, SettingSet(c) PROVE UNCHANGED other
  BY <1>8 DEF SettingSet, SettingWritten, CallFails, Untouched, rest
<1>9. QED BY <1>1, <1>2, <1>3, <1>4, <1>5, <1>6, <1>7, <1>8 DEF Next, handler

\* Every step keeps TypeOK.
LEMMA TypeStep ==
    ASSUME Inv, [Next]_vars
    PROVE  TypeOK'
<1>1. TypeOK BY DEF Inv
<1>2. /\ api' \in [Name -> Machine \cup {None}] /\ last' \in [Name -> Nat]
      /\ \A n \in Name : api'[n] # None => api'[n].rv = last'[n]
  BY <1>1, MachinesStep DEF MachinesStepped, Versioned, TypeOK
<1>3. view' \in [Name -> Machine \cup {None}] BY <1>1, Writers DEF TypeOK, views, Deliver
<1>4. \A c \in Conn : req'[c] # None => req'[c] \in Request /\ req'[c].at \in 1..(Len(req'[c].names) + 1)
  BY RequestsStep DEF SoundRequests, Sound
<1>5. other' \in [Other -> BOOLEAN]
  <2>1. CASE other' = other BY <1>1, <2>1 DEF TypeOK
  <2>2. ASSUME NEW c \in Conn, CreateOther(c) \/ DeleteOther(c)
        PROVE  other' \in [Other -> BOOLEAN]
    BY <1>1, <2>2 DEF TypeOK, CreateOther, DeleteOther, CallFails, Untouched, rest
  <2>3. QED BY <2>1, <2>2, RestWriters
<1>6. setting' \in Setting \cup {None}
  <2>1. CASE setting' = setting BY <1>1, <2>1 DEF TypeOK, Setting
  <2>2. ASSUME NEW c \in Conn, Busy(c, {"set"}), SettingWritten(c)
        PROVE  setting' \in Setting
    <3>1. req[c].want \in MachineSpec
      BY <2>2 DEF Busy, Inv, SoundRequests, Sound, Request
    <3>2. setting # None => setting.rv \in Nat BY <1>1 DEF TypeOK, Setting
    <3>3. QED BY <2>2, <3>1, <3>2 DEF SettingWritten, Setting, MachineSpec
  <2>3. ASSUME NEW c \in Conn, SettingSet(c) PROVE setting' \in Setting \cup {None}
    BY <2>1, <2>2, <2>3 DEF SettingSet, CallFails, Untouched, rest
  <2>4. QED BY <2>1, <2>3, RestWriters
<1>7. setView' \in Setting \cup {None}
  BY <1>1, Writers DEF TypeOK, Setting, views, Deliver
<1>8. requests' \in 0..MaxRequests /\ writes' \in 0..MaxWrites /\ faults' \in 0..MaxFaults
  <2> USE DEF bounds, Untouched, Done, CallFails, AnswerLost
  <2>1. ASSUME NEW c \in Conn, handler(c)
        PROVE  /\ requests' = requests /\ writes' = writes
               /\ faults' = faults \/ (faults < MaxFaults /\ faults' = faults + 1)
    BY <2>1 DEF handler, InstanceCreate, InstanceDelete, InstanceUpdate, InstanceAction,
         UpdateMachine, InstanceGet, SettingGet, SettingSet, SettingWritten, CreateOther,
         DeleteOther
  <2>2. /\ requests' = requests \/ (requests < MaxRequests /\ requests' = requests + 1)
        /\ writes' = writes \/ (writes < MaxWrites /\ writes' = writes + 1)
        /\ faults' = faults \/ (faults < MaxFaults /\ faults' = faults + 1)
    <3>1. CASE \E c \in Conn : handler(c) BY <2>1, <3>1
    <3>2. CASE \E c \in Conn : Receive(c) \/ Retry(c) BY <3>2 DEF Receive, Retry
    <3>3. CASE ControllerWrites \/ ControllerFinalizes \/ Deliver \/ UNCHANGED vars
      BY <3>3 DEF ControllerWrites, ControllerFinalizes, Write, Deliver, vars
    <3>4. QED BY <3>1, <3>2, <3>3 DEF Next
  <2>3. QED BY <1>1, <2>2, ServerConstants DEF TypeOK
<1>9. QED BY <1>2, <1>3, <1>4, <1>5, <1>6, <1>7, <1>8 DEF TypeOK, Setting

\* At the start the lister has the machines as they are and nothing is asked.
LEMMA InitInv == Init => Inv
<1> SUFFICES ASSUME Init PROVE Inv OBVIOUS
<1> DEFINE i == CHOOSE i \in MachineSpec : IsValid(i)
           k == [uid |-> 1, rv |-> 1, spec |-> i, status |-> 0,
                 fin |-> FALSE, deleting |-> FALSE]
<1>1. k \in Machine /\ k.rv = 1 BY AnyChoice DEF Machine
<1>2. api = [n \in Name |-> IF n \in Existing THEN k ELSE None] BY DEF Init
<1> HIDE DEF k
<1>3. /\ api \in [Name -> Machine \cup {None}] /\ view = api /\ last \in [Name -> Nat]
      /\ \A n \in Name : last[n] = 1 /\ (api[n] # None => api[n] = k)
  BY <1>1, <1>2 DEF Init
<1>4. req \in [Conn -> Request \cup {None}] /\ \A c \in Conn : req[c] = None BY DEF Init
<1>5. TypeOK BY <1>1, <1>3, <1>4, ServerConstants DEF Init, TypeOK
<1>6. SoundRequests BY <1>4 DEF SoundRequests
<1>7. KnownCopies BY <1>1, <1>3, <1>4 DEF KnownCopies, Known, Busy
<1>8. QED BY <1>5, <1>6, <1>7 DEF Inv

\* Every copy, however stale, is told from the machine by its version.
THEOREM CopiesAreKnown == Spec => []Inv
<1>1. Inv /\ [Next]_vars => Inv' BY TypeStep, RequestsStep, CopiesStep DEF Inv
<1>2. QED BY <1>1, InitInv, PTL DEF Spec

\* Every reachable state is well formed (Server).
THEOREM ServerTypeCorrect == Spec => []TypeOK
<1>1. Inv => TypeOK BY DEF Inv
<1>2. QED BY <1>1, CopiesAreKnown, PTL

-----------------------------------------------------------------------------
(* What a handler does to machines. *)

\* Besides leaving them alone, a handler creates a machine, deletes one, or
\* writes the spec of one as it is.
LEMMA HandlerWrites ==
    ASSUME Inv, NEW c \in Conn, handler(c)
    PROVE  \/ UNCHANGED machines
           \/ /\ N(c) \in Name /\ \A o \in Name \ {N(c)} : api'[o] = api[o]
              /\ \/ /\ req[c].kind = "create" /\ api[N(c)] = None
                 \/ /\ req[c].kind = "delete" /\ api[N(c)] \in Machine
                    /\ \/ api'[N(c)] = None
                       \/ api'[N(c)] = [api[N(c)] EXCEPT !.deleting = TRUE,
                                                         !.rv = last[N(c)] + 1]
                 \/ /\ req[c].kind \in {"update", "action", "actions"}
                    /\ api'[N(c)].status = api[N(c)].status
                    /\ api'[N(c)].fin = api[N(c)].fin
                    /\ api'[N(c)].spec.image = api[N(c)].spec.image
                    /\ req[c].kind # "update" => api'[N(c)].spec.cpus = api[N(c)].spec.cpus
<1>1. TypeOK BY DEF Inv
<1>2. req[c] # None /\ req[c].code = 0 /\ req[c].want \in MachineSpec
  BY Handled DEF Inv, SoundRequests, Sound, Request
<1>3. N(c) \in IF req[c].kind \in {"add", "remove"} THEN Other ELSE Name
  BY <1>2, AtName DEF Inv
<1>4. CASE InstanceCreate(c) /\ ~UNCHANGED machines
  <2>1. req[c].kind = "create" /\ api[N(c)] = None /\ StoreNew(N(c), req[c].want)
    BY <1>4 DEF InstanceCreate, Busy, Untouched, CallFails
  <2>2. QED BY <1>1, <1>2, <1>3, <2>1, CreateEffect
<1>5. CASE InstanceDelete(c) /\ ~UNCHANGED machines
  <2>1. req[c].kind = "delete" /\ api[N(c)] # None /\ Remove(N(c))
    BY <1>5 DEF InstanceDelete, Busy, Untouched, CallFails
  <2>2. N(c) \in Name /\ api[N(c)] \in Machine BY <1>1, <1>3, <2>1 DEF TypeOK
  <2>3. QED BY <1>1, <2>1, <2>2, RemoveEffect
<1>6. CASE UpdateMachine(c) /\ ~UNCHANGED machines
  <2>1. /\ Busy(c, {"update", "action", "actions"}) /\ req[c].read # None
        /\ Latest(N(c), Changed(c)) /\ Store(N(c), Changed(c))
    BY <1>6 DEF UpdateMachine, Untouched, CallFails
  <2>2. QED BY <2>1, UpdateEffect DEF Busy
<1>7. \/ UNCHANGED machines \/ InstanceCreate(c) \/ InstanceDelete(c) \/ UpdateMachine(c)
  BY DEF handler, InstanceUpdate, InstanceAction, InstanceGet, CreateOther, DeleteOther,
       SettingGet, SettingSet, SettingWritten, Untouched, CallFails, machines
<1>8. QED BY <1>4, <1>5, <1>6, <1>7

\* The server's writes leave alone what the controllers write, an update the
\* image and an action request the rest of the spec, on any number of connections and machines and
\* however stale the copy (InstanceAction, InstanceUpdate).
THEOREM WritesOnlyAsked == Spec => OnlyAsked
<1> DEFINE Asks(c, n) ==
             (/\ req'[c] # req[c] /\ api[n] # None /\ api'[n] # None
              /\ api'[n].uid = api[n].uid) =>
             /\ api'[n].status = api[n].status /\ api'[n].fin = api[n].fin
             /\ api'[n].spec.image = api[n].spec.image
             /\ req[c] # None /\ req[c].kind \in {"action", "actions"} =>
                   api'[n].spec.cpus = api[n].spec.cpus
<1>1. ASSUME Inv, [Next]_vars, NEW c \in Conn, NEW n \in Name PROVE Asks(c, n)
  <2>1. CASE req'[c] = req[c] BY <2>1
  <2>2. CASE api'[n] = api[n] BY <2>2
  <2>3. CASE req'[c] # req[c] /\ api'[n] # api[n]
    <3>1. handler(c) BY <1>1, <2>3, OwnStep DEF Receive, Retry, machines
    <3>2. n = N(c) BY <1>1, <2>3, <3>1, HandlerWrites DEF machines
    <3>3. CASE req[c].kind = "delete" /\ api'[n] # None
      <4>1. /\ api[n] \in Machine
            /\ api'[n] = [api[n] EXCEPT !.deleting = TRUE, !.rv = last[n] + 1]
        BY <1>1, <2>3, <3>1, <3>2, <3>3, HandlerWrites DEF machines
      <4>2. /\ api'[n].status = api[n].status /\ api'[n].fin = api[n].fin
            /\ api'[n].spec = api[n].spec
        BY <4>1 DEF Machine
      <4>3. QED BY <3>3, <4>2
    <3>4. CASE req[c].kind # "delete" /\ api[n] # None
      BY <1>1, <2>3, <3>1, <3>2, <3>4, HandlerWrites DEF machines
    <3>5. QED BY <3>3, <3>4
  <2>4. QED BY <2>1, <2>2, <2>3
<1>2. Inv /\ [Next]_vars => [\A c \in Conn, n \in Name : Asks(c, n)]_vars
  BY <1>1
<1>3. QED BY <1>2, CopiesAreKnown, PTL DEF Spec, OnlyAsked

-----------------------------------------------------------------------------
(* What a success means. *)

\* Only its own handler passes a name.
LEMMA PassedByHandler ==
    ASSUME Inv, [Next]_vars, NEW c \in Conn, Passes(c)
    PROVE  handler(c)
<1>1. req[c] # None /\ req[c].code = 0 BY DEF Passes
<1>2. req[c].at \in Nat BY <1>1 DEF Inv, SoundRequests, Sound, Request
<1>3. req'[c] # req[c] BY <1>1, <1>2 DEF Passes
<1>4. QED BY <1>1, <1>3, OwnStep DEF Receive, Retry, Retries

\* An answer that is not a success passes no name.
LEMMA AnswerPasses ==
    ASSUME Inv, NEW c \in Conn, NEW code, Answer(c, code), Passes(c)
    PROVE  Accepts(req[c].kind, code)
<1>1. req[c] # None /\ req[c] \in Request /\ req \in [Conn -> Request \cup {None}]
  BY DEF Passes, Inv, SoundRequests, Sound
<1>2. req'[c] = [req[c] EXCEPT !.code = code, !.read = None] BY <1>1 DEF Answer
<1>3. req'[c].at = req[c].at /\ req'[c].code = code /\ req[c].at \in Nat
  BY <1>1, <1>2 DEF Request
<1>4. QED BY <1>3 DEF Passes

\* A read is not yet an answer.
LEMMA ReadPassesNot ==
    ASSUME Inv, NEW c \in Conn, NEW k, Read(c, k), req[c] # None
    PROVE  ~Passes(c)
<1>1. req[c] \in Request /\ req \in [Conn -> Request \cup {None}]
  BY DEF Inv, SoundRequests, Sound
<1>2. req'[c] = [req[c] EXCEPT !.read = k] BY <1>1 DEF Read
<1>3. req'[c].at = req[c].at /\ req'[c].code = req[c].code /\ req[c].at \in Nat
  BY <1>1, <1>2 DEF Request
<1>4. QED BY <1>3 DEF Passes

\* A handler answers a failed call with 500, which no client takes for success.
LEMMA FailureAccepted ==
    ASSUME Inv, NEW c \in Conn, CallFails(c) \/ AnswerLost(c) \/ Answer(c, 500)
    PROVE  ~Passes(c)
<1>1. Answer(c, 500) BY DEF CallFails, AnswerLost
<1>2. ~Accepts(req[c].kind, 500) BY DEF Accepts
<1>3. QED BY <1>1, <1>2, AnswerPasses

\* A success is true of every name when it is given, for any connections and
\* requests and however stale the lister: of an update, the fields it may change;
\* of an action, when one had to be written (instanceCreateMany, InstanceUpdate, InstanceDeleteMulti,
\* SettingSet).
THEOREM SuccessIsTrue == Spec => AnswersAreTrue
<1>1. ASSUME Inv, [Next]_vars, NEW c \in Conn, Passes(c) PROVE Fulfilled(c)
  <2>1. handler(c) /\ TypeOK BY <1>1, PassedByHandler DEF Inv
  <2>2. req[c] # None /\ req[c].code = 0 /\ req[c].want \in MachineSpec
    BY <1>1, <2>1, Handled DEF Inv, SoundRequests, Sound, Request
  <2>3. N(c) \in IF req[c].kind \in {"add", "remove"} THEN Other ELSE Name
    BY <1>1, <2>2, AtName DEF Inv
  <2>4. ~CallFails(c) /\ ~AnswerLost(c) /\ ~Answer(c, 500) BY <1>1, FailureAccepted
  <2>5. None \notin Machine /\ None \notin Setting BY ServerConstants DEF Setting
  <2>6. CASE req[c].kind = "create"
    <3>1. InstanceCreate(c) BY <2>1, <2>6 DEF handler, InstanceCreate, InstanceDelete,
            InstanceUpdate, InstanceAction, UpdateMachine, InstanceGet, CreateOther,
            DeleteOther, SettingGet, SettingSet, Busy
    <3>2. ~Answer(c, 409) BY <1>1, <2>6, AnswerPasses DEF Accepts
    <3>3. api[N(c)] = None /\ StoreNew(N(c), req[c].want)
      BY <2>4, <3>1, <3>2 DEF InstanceCreate
    <3>4. api'[N(c)] \in Machine /\ api'[N(c)].spec = req[c].want
      BY <2>1, <2>2, <2>3, <2>6, <3>3, CreateEffect
    <3>5. QED BY <2>5, <2>6, <3>3, <3>4 DEF Fulfilled
  <2>7. CASE req[c].kind = "update"
    <3>1. InstanceUpdate(c) \/ UpdateMachine(c)
      BY <2>1, <2>7 DEF handler, InstanceCreate, InstanceDelete, InstanceAction,
         InstanceGet, CreateOther, DeleteOther, SettingGet, SettingSet, Busy
    <3>2. CASE InstanceUpdate(c)
      <4>1. ~Answer(c, 404) BY <1>1, <2>7, AnswerPasses DEF Accepts
      <4>2. \A k : ~Read(c, k) BY <1>1, <2>2, ReadPassesNot
      <4>3. /\ api[N(c)] # None /\ api' = api
            /\ overlayVMSpec(api[N(c)], req[c].want).spec = api[N(c)].spec
        BY <2>4, <3>2, <4>1, <4>2 DEF InstanceUpdate, Untouched, machines
      <4>4. api[N(c)] \in Machine BY <2>1, <2>3, <2>7, <4>3 DEF TypeOK
      <4>5. overlayVMSpec(api[N(c)], req[c].want).spec =
               [api[N(c)].spec EXCEPT !.action = req[c].want.action, !.cpus = req[c].want.cpus]
        BY <4>4 DEF overlayVMSpec, Machine
      <4>6. api[N(c)].spec \in MachineSpec BY <4>4 DEF Machine
      <4>7. /\ api[N(c)].spec.action = req[c].want.action
            /\ api[N(c)].spec.cpus = req[c].want.cpus
        BY <4>3, <4>5, <4>6 DEF MachineSpec
      <4>8. QED BY <2>7, <4>3, <4>7 DEF Fulfilled
    <3>3. CASE UpdateMachine(c)
      <4>1. /\ Busy(c, {"update", "action", "actions"}) /\ req[c].read # None
            /\ Latest(N(c), Changed(c)) /\ Store(N(c), Changed(c))
        BY <2>4, <3>3 DEF UpdateMachine
      <4>2. /\ api'[N(c)] \in Machine /\ api'[N(c)].spec.action = req[c].want.action
            /\ api'[N(c)].spec.cpus = req[c].want.cpus
        BY <1>1, <2>7, <4>1, UpdateEffect
      <4>3. QED BY <2>5, <2>7, <4>2 DEF Fulfilled
    <3>4. QED BY <3>1, <3>2, <3>3
  <2>8. CASE req[c].kind = "delete"
    <3>1. InstanceDelete(c) BY <2>1, <2>8 DEF handler, InstanceCreate, InstanceDelete,
            InstanceUpdate, InstanceAction, UpdateMachine, InstanceGet, CreateOther,
            DeleteOther, SettingGet, SettingSet, Busy
    <3>2. ~Answer(c, 404) BY <1>1, <2>8, AnswerPasses DEF Accepts
    <3>3. api[N(c)] # None /\ Remove(N(c)) BY <2>4, <3>1, <3>2 DEF InstanceDelete
    <3>4. api'[N(c)] = None \/ api'[N(c)].deleting
      BY <2>1, <2>3, <2>8, <3>3, RemoveEffect
    <3>5. QED BY <2>8, <3>3, <3>4 DEF Fulfilled
  <2>9. CASE req[c].kind = "set"
    <3>1. SettingGet(c) \/ SettingSet(c)
      BY <2>1, <2>9 DEF handler, InstanceCreate, InstanceDelete, InstanceUpdate,
         InstanceAction, UpdateMachine, InstanceGet, CreateOther, DeleteOther, Busy
    <3>2. ~SettingGet(c) BY <1>1, <2>2, ReadPassesNot DEF SettingGet
    <3>3. SettingWritten(c) BY <2>4, <3>1, <3>2 DEF SettingSet
    <3>4. setting # None => setting.rv \in Nat BY <2>1 DEF TypeOK
    <3>5. setting' \in Setting /\ setting'.value = req[c].want.cpus
      BY <2>2, <3>3, <3>4 DEF SettingWritten, Setting, MachineSpec
    <3>6. QED BY <2>5, <2>9, <3>5 DEF Fulfilled
  <2>10. CASE req[c].kind = "add"
    <3>1. CreateOther(c) BY <2>1, <2>10 DEF handler, InstanceCreate, InstanceDelete,
            InstanceUpdate, InstanceAction, UpdateMachine, InstanceGet, CreateOther,
            DeleteOther, SettingGet, SettingSet, Busy
    <3>2. ~Answer(c, 409) BY <1>1, <2>10, AnswerPasses DEF Accepts
    <3>3. ~other[N(c)] /\ other' = [other EXCEPT ![N(c)] = TRUE]
      BY <2>4, <3>1, <3>2 DEF CreateOther
    <3>4. ~other[N(c)] /\ other'[N(c)] BY <2>1, <2>3, <2>10, <3>3 DEF TypeOK
    <3>5. QED BY <2>10, <3>4 DEF Fulfilled
  <2>11. CASE req[c].kind = "remove"
    <3>1. DeleteOther(c) BY <2>1, <2>11 DEF handler, InstanceCreate, InstanceDelete,
            InstanceUpdate, InstanceAction, UpdateMachine, InstanceGet, CreateOther,
            DeleteOther, SettingGet, SettingSet, Busy
    <3>2. ~Answer(c, 404) BY <1>1, <2>11, AnswerPasses DEF Accepts
    <3>3. other[N(c)] /\ other' = [other EXCEPT ![N(c)] = FALSE]
      BY <2>4, <3>1, <3>2 DEF DeleteOther
    <3>4. other[N(c)] /\ ~other'[N(c)] BY <2>1, <2>3, <2>11, <3>3 DEF TypeOK
    <3>5. QED BY <2>11, <3>4 DEF Fulfilled
  <2>12. CASE req[c].kind \in {"action", "actions"} /\ req[c].read # None
    <3>1. UpdateMachine(c)
      BY <2>1, <2>12 DEF handler, InstanceCreate, InstanceDelete, InstanceUpdate,
         InstanceAction, InstanceGet, CreateOther, DeleteOther, SettingGet, SettingSet, Busy
    <3>2. /\ Busy(c, {"update", "action", "actions"}) /\ req[c].read # None
          /\ Latest(N(c), Changed(c)) /\ Store(N(c), Changed(c))
      BY <2>4, <3>1 DEF UpdateMachine
    <3>3. api'[N(c)] \in Machine /\ api'[N(c)].spec.action = req[c].want.action
      BY <1>1, <3>2, UpdateEffect
    <3>4. QED BY <2>5, <2>12, <3>3 DEF Fulfilled
  <2>13. CASE /\ req[c].kind \notin {"create", "update", "delete", "set", "add", "remove"}
              /\ ~(req[c].kind \in {"action", "actions"} /\ req[c].read # None)
    BY <2>13 DEF Fulfilled
  <2>14. QED BY <2>6, <2>7, <2>8, <2>9, <2>10, <2>11, <2>12, <2>13
<1>2. Inv /\ [Next]_vars => [\A c \in Conn : Passes(c) => Fulfilled(c)]_vars BY <1>1
<1>3. QED BY <1>2, CopiesAreKnown, PTL DEF Spec, AnswersAreTrue

=============================================================================
