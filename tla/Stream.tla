------------------------------- MODULE Stream -------------------------------
(***************************************************************************)
(* The event streams of the REST server (pkg/server/server.go, stream.go): *)
(* informer events are turned into tokens in the buffered channels of the  *)
(* watchers, and the handler of every websocket lists and sends the        *)
(* resource again when it receives one.                                    *)
(*                                                                         *)
(* newRouter closes the watchers it has made when it returns, so by the    *)
(* time the first connection is accepted the channels are closed and a     *)
(* receive from them never blocks.                                         *)
(***************************************************************************)
EXTENDS Integers, FiniteSets

CONSTANTS
    Resource, Conn,
    Periods,      \* periods asked for, in seconds: 0 for none or one not understood
    MaxChanges,   \* bound on changes of a resource
    MaxFaults     \* bound on writes that fail

ASSUME StreamConstants ==
    /\ Periods \subseteq Int /\ MaxChanges \in Nat /\ MaxFaults \in Nat

\* The length of eventChan.
Buffer == 2

VARIABLES
    list,       \* what listing a resource returns, as a version
    created,    \* resources whose watcher newRouter has made
    deferred,   \* those whose Close is deferred to its return
    watchers,   \* those in s.watchers
    closed,     \* those whose channel is closed
    buf,        \* tokens in each channel
    panicked,   \* whether the process has panicked
    conn,       \* the websockets and their handlers
    changes, faults

server == <<created, deferred, watchers, closed>>
vars == <<list, server, buf, panicked, conn, changes, faults>>

\* A websocket: the resource, where its handler is, the list sent last (-1 for
\* none) and the one to be sent, whether there is a rate limit, whether the peer
\* has closed it and whether the reader has noticed (done).
Conns == [res: Resource, at: {"off", "list", "write", "tick", "select", "ended"},
          shown: -1..MaxChanges, resp: 0..MaxChanges, limit: BOOLEAN,
          gone: BOOLEAN, done: BOOLEAN]

TypeOK ==
    /\ list \in [Resource -> 0..MaxChanges]
    /\ created \subseteq Resource /\ deferred \subseteq created
    /\ watchers \subseteq created /\ closed \subseteq created
    /\ buf \in [Resource -> 0..Buffer] /\ panicked \in BOOLEAN
    /\ conn \in [Conn -> Conns]
    /\ changes \in 0..MaxChanges /\ faults \in 0..MaxFaults

Init ==
    /\ list = [r \in Resource |-> 0]
    /\ created = {} /\ deferred = {} /\ watchers = {} /\ closed = {}
    /\ buf = [r \in Resource |-> 0] /\ panicked = FALSE
    /\ conn \in [Conn -> {x \in Conns : x.at = "off" /\ x.shown = -1 /\ x.resp = 0
                                          /\ ~x.limit /\ ~x.gone /\ ~x.done}]
    /\ changes = 0 /\ faults = 0

-----------------------------------------------------------------------------
(* Watchers. *)

\* newRouter: one watcher for each resource, its Close deferred ...
NewWatcher(r) ==
    /\ r \notin created
    /\ created' = created \cup {r} /\ watchers' = watchers \cup {r}
    /\ deferred' = deferred \cup {r}
    /\ UNCHANGED <<list, closed, buf, panicked, conn, changes, faults>>

\* (Mutant: the watcher stays registered.)
CloseOnly(r) == closed' = closed \cup {r} /\ UNCHANGED watchers

\* (Mutant: the watchers stay open for as long as the server.)
KeepOpen(r) == UNCHANGED <<closed, watchers>>

\* Watcher.Close, which holds the lock throughout.
Close(r) == closed' = closed \cup {r} /\ watchers' = watchers \ {r}

\* ... which runs when it returns.
newRouterReturns(r) ==
    /\ created = Resource /\ r \in deferred /\ deferred' = deferred \ {r}
    /\ Close(r)
    /\ UNCHANGED <<list, created, buf, panicked, conn, changes, faults>>

\* (Mutant: a token is sent whether or not there is room.)
SentAlways(r) == buf' = [buf EXCEPT ![r] = @ + 1]

\* A token is sent unless the channel is full; on a closed channel, that panics.
Sent(r) == buf' = IF r \in watchers /\ r \notin closed /\ buf[r] < Buffer
                  THEN [buf EXCEPT ![r] = @ + 1] ELSE buf

\* notifyWatchersFunc, for an event of the informer of r.
notifyWatchers(r) ==
    /\ Sent(r) /\ panicked' = (panicked \/ (r \in watchers /\ r \in closed))
    /\ UNCHANGED <<server, conn, faults>>

Change(r) ==
    /\ changes < MaxChanges /\ changes' = changes + 1
    /\ list' = [list EXCEPT ![r] = @ + 1] /\ notifyWatchers(r)

\* A resync: an event and nothing has changed.
Resync(r) == notifyWatchers(r) /\ UNCHANGED <<list, changes>>

-----------------------------------------------------------------------------
(* Handlers. *)

\* getPeriod: no less than 0 and no more than 30 seconds.
getPeriod(p) == IF p < 0 THEN 0 ELSE IF p > 30 THEN 30 ELSE p

Goes(c, x) == /\ conn' = [conn EXCEPT ![c] = x]
              /\ UNCHANGED <<list, server, panicked, changes>>

\* Run serves after newRouter has returned; Upgrade of a connection, and the
\* reader is started.
Open(c) ==
    /\ created = Resource /\ deferred = {} /\ conn[c].at = "off"
    /\ \E p \in Periods :
          Goes(c, [conn[c] EXCEPT !.at = "list", !.limit = getPeriod(p) > 0])
    /\ UNCHANGED <<buf, faults>>

\* The reader reads until the connection is closed.
ReaderEnds(c) ==
    /\ conn[c].gone /\ ~conn[c].done /\ conn[c].at \notin {"off", "ended"}
    /\ Goes(c, [conn[c] EXCEPT !.done = TRUE]) /\ UNCHANGED <<buf, faults>>

\* Where the loop goes on: at the ticker, if there is one.
Again(x) == [x EXCEPT !.at = IF x.limit THEN "tick" ELSE "select"]

\* writeList lists; a list equal to the one sent is not sent again.
WriteList(c) ==
    LET new == list[conn[c].res]
    IN /\ conn[c].at = "list"
       /\ Goes(c, IF conn[c].shown = new THEN Again(conn[c])
                  ELSE [conn[c] EXCEPT !.at = "write", !.resp = new])
       /\ UNCHANGED <<buf, faults>>

\* WriteJSON: to a peer that has gone it may still succeed.
WriteJSON(c) ==
    /\ conn[c].at = "write"
    /\ Goes(c, Again([conn[c] EXCEPT !.shown = conn[c].resp])) /\ UNCHANGED <<buf, faults>>

\* The write fails, or takes more than ten seconds: the handler ends, and leaves
\* the connection open.
WriteFails(c) ==
    /\ conn[c].at = "write"
    /\ IF conn[c].gone THEN UNCHANGED faults ELSE faults < MaxFaults /\ faults' = faults + 1
    /\ Goes(c, [conn[c] EXCEPT !.at = "ended"]) /\ UNCHANGED buf

RateLimit(c) ==
    /\ conn[c].at = "tick"
    /\ Goes(c, [conn[c] EXCEPT !.at = "select"]) /\ UNCHANGED <<buf, faults>>

\* (Mutant: the select has no case for done.)
NeverDone(c) == FALSE /\ UNCHANGED vars

\* The cases of the select, of which a ready one is chosen at random: done ...
CaseDone(c) ==
    /\ conn[c].at = "select" /\ conn[c].done
    /\ Goes(c, [conn[c] EXCEPT !.at = "ended"]) /\ UNCHANGED <<buf, faults>>

\* ... a token, or a closed channel ...
CaseEvent(c) ==
    LET r == conn[c].res
    IN /\ conn[c].at = "select" /\ (buf[r] > 0 \/ r \in closed)
       /\ buf' = IF buf[r] > 0 THEN [buf EXCEPT ![r] = @ - 1] ELSE buf
       /\ Goes(c, [conn[c] EXCEPT !.at = "list"]) /\ UNCHANGED faults

\* ... the ping, once a minute, which ends the handler when the peer has gone.
CaseKeepAlive(c) ==
    /\ conn[c].at = "select"
    /\ \/ Goes(c, Again(conn[c]))
       \/ conn[c].gone /\ Goes(c, [conn[c] EXCEPT !.at = "ended"])
    /\ UNCHANGED <<buf, faults>>

\* The browser goes away.
PeerCloses(c) ==
    /\ conn[c].at \notin {"off", "ended"} /\ ~conn[c].gone
    /\ Goes(c, [conn[c] EXCEPT !.gone = TRUE]) /\ UNCHANGED <<buf, faults>>

handler(c) == \/ WriteList(c) \/ WriteJSON(c) \/ WriteFails(c) \/ RateLimit(c)
              \/ CaseDone(c) \/ CaseEvent(c)

Next == \/ \E r \in Resource : NewWatcher(r) \/ newRouterReturns(r) \/ Change(r) \/ Resync(r)
        \/ \E c \in Conn : Open(c) \/ ReaderEnds(c) \/ handler(c) \/ CaseKeepAlive(c)
                            \/ PeerCloses(c)

\* Handlers and readers run; the select is random, so a case that is ready time
\* and again is chosen in the end.
Fairness == \A c \in Conn : /\ WF_vars(handler(c)) /\ WF_vars(ReaderEnds(c))
                            /\ SF_vars(CaseDone(c)) /\ SF_vars(CaseEvent(c))

Spec == Init /\ [][Next]_vars
FairSpec == Spec /\ Fairness

-----------------------------------------------------------------------------
(* Properties. *)

\* No event is sent on a channel that has been closed, whatever the order of the
\* informers' events and newRouter's return (notifyWatchersFunc, Close).
NoPanic == ~panicked

Streams(c) == conn[c].at \notin {"off", "ended"}

\* Every open stream shows the latest list in the end, however many streams of
\* the same resource share the watcher (NewStreamHandlerFunc, writeList).
StreamsShowLatest ==
    <>[](\A c \in Conn : Streams(c) => conn[c].shown = list[conn[c].res])

\* A handler ends after its peer has gone (NewStreamHandlerFunc, done).
HandlersEnd == \A c \in Conn : (Streams(c) /\ conn[c].gone) ~> ~Streams(c)

=============================================================================
