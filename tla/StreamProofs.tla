----------------------------- MODULE StreamProofs ---------------------------
(***************************************************************************)
(* The watchers' channels are never sent to once they are closed, for any  *)
(* resources, connections and bounds.                                      *)
(***************************************************************************)
EXTENDS Stream, TLAPS

\* The strengthening: a channel that is closed has left s.watchers, which Close
\* does under the same lock (Watcher.Close), and panicked is still FALSE; a list
\* has changed no more often than all of them together.
Safe == /\ TypeOK /\ watchers \cap closed = {} /\ ~panicked
        /\ \A r \in Resource : list[r] <= changes

\* A handler's step leaves the watchers and the channels' owners alone.
LEMMA GoesSafe ==
    ASSUME Safe, NEW c \in Conn, NEW x \in Conns, Goes(c, x),
           buf' \in [Resource -> 0..Buffer], faults' \in 0..MaxFaults
    PROVE  Safe'
<1>1. conn' \in [Conn -> Conns]
  BY DEF Goes, Safe, TypeOK
<1>2. QED BY <1>1 DEF Goes, Safe, TypeOK, server

\* The resumption of the loop is a state of a handler (NewStreamHandlerFunc).
LEMMA AgainType ==
    ASSUME NEW x \in Conns
    PROVE  Again(x) \in Conns
BY DEF Again, Conns

\* An event is a token in a channel that is open, or nothing
\* (notifyWatchersFunc).
LEMMA NotifySafe ==
    ASSUME Safe, NEW r \in Resource, notifyWatchers(r),
           list' \in [Resource -> 0..MaxChanges], changes' \in 0..MaxChanges,
           \A q \in Resource : list'[q] <= changes'
    PROVE  Safe'
<1>1. buf' \in [Resource -> 0..Buffer]
  BY DEF notifyWatchers, Sent, Safe, TypeOK, Buffer
<1>2. ~panicked'
  BY Zenon DEF notifyWatchers, Safe
<1>3. QED
  BY <1>1, <1>2 DEF notifyWatchers, Safe, TypeOK, server

\* Every step keeps the invariant: newRouter's own steps, events, and handlers.
LEMMA NextSafe ==
    ASSUME Safe, [Next]_vars
    PROVE  Safe'
<1> USE StreamConstants
<1>1. ASSUME NEW r \in Resource, NewWatcher(r) PROVE Safe'
  BY <1>1 DEF NewWatcher, Safe, TypeOK
<1>2. ASSUME NEW r \in Resource, newRouterReturns(r) PROVE Safe'
  BY <1>2 DEF newRouterReturns, Close, Safe, TypeOK
<1>3. ASSUME NEW r \in Resource, Change(r) PROVE Safe'
  <2>1. /\ list' \in [Resource -> 0..MaxChanges] /\ changes' \in 0..MaxChanges
        /\ \A q \in Resource : list'[q] <= changes'
    BY <1>3 DEF Change, Safe, TypeOK
  <2>2. QED BY <1>3, <2>1, NotifySafe DEF Change
<1>4. ASSUME NEW r \in Resource, Resync(r) PROVE Safe'
  BY <1>4, NotifySafe DEF Resync, Safe, TypeOK
<1>5. ASSUME NEW c \in Conn, Open(c) \/ ReaderEnds(c) \/ handler(c) \/ CaseKeepAlive(c)
                              \/ PeerCloses(c)
      PROVE Safe'
  <2>0. conn[c] \in Conns /\ buf \in [Resource -> 0..Buffer] /\ faults \in 0..MaxFaults
    BY DEF Safe, TypeOK
  <2>1. CASE Open(c)
    <3>1. PICK p \in Periods :
            Goes(c, [conn[c] EXCEPT !.at = "list", !.limit = getPeriod(p) > 0])
      BY <2>1 DEF Open
    <3>2. [conn[c] EXCEPT !.at = "list", !.limit = getPeriod(p) > 0] \in Conns
      <4> DEFINE limited == getPeriod(p) > 0
      <4>1. limited \in BOOLEAN BY DEF getPeriod
      <4> HIDE DEF limited
      <4>2. [conn[c] EXCEPT !.at = "list", !.limit = limited] \in Conns
        BY <2>0, <4>1 DEF Conns
      <4>3. QED BY <4>2 DEF limited
    <3>3. QED BY <2>0, <2>1, <3>1, <3>2, GoesSafe DEF Open
  <2>2. CASE ReaderEnds(c)
    <3>1. [conn[c] EXCEPT !.done = TRUE] \in Conns BY <2>0 DEF Conns
    <3>2. QED BY <2>0, <2>2, <3>1, GoesSafe DEF ReaderEnds
  <2>3. CASE WriteList(c)
    <3> DEFINE new == list[conn[c].res]
    <3>1. new \in 0..MaxChanges BY <2>0 DEF Safe, TypeOK, Conns
    <3>2. [conn[c] EXCEPT !.at = "write", !.resp = new] \in Conns
      BY <2>0, <3>1 DEF Conns
    <3>3. Again(conn[c]) \in Conns BY <2>0, AgainType
    <3>4. QED BY <2>0, <2>3, <3>2, <3>3, GoesSafe DEF WriteList
  <2>4. CASE WriteJSON(c)
    <3>1. [conn[c] EXCEPT !.shown = conn[c].resp] \in Conns BY <2>0 DEF Conns
    <3>2. QED BY <2>0, <2>4, <3>1, AgainType, GoesSafe DEF WriteJSON
  <2>5. CASE WriteFails(c)
    <3>1. [conn[c] EXCEPT !.at = "ended"] \in Conns BY <2>0 DEF Conns
    <3>2. faults' \in 0..MaxFaults BY <2>0, <2>5 DEF WriteFails
    <3>3. QED BY <2>0, <2>5, <3>1, <3>2, GoesSafe DEF WriteFails
  <2>6. CASE RateLimit(c)
    <3>1. [conn[c] EXCEPT !.at = "select"] \in Conns BY <2>0 DEF Conns
    <3>2. QED BY <2>0, <2>6, <3>1, GoesSafe DEF RateLimit
  <2>7. CASE CaseDone(c)
    <3>1. [conn[c] EXCEPT !.at = "ended"] \in Conns BY <2>0 DEF Conns
    <3>2. QED BY <2>0, <2>7, <3>1, GoesSafe DEF CaseDone
  <2>8. CASE CaseEvent(c)
    <3>1. [conn[c] EXCEPT !.at = "list"] \in Conns BY <2>0 DEF Conns
    <3>2. conn[c].res \in Resource BY <2>0 DEF Conns
    <3>3. buf' \in [Resource -> 0..Buffer] BY <2>0, <2>8, <3>2 DEF CaseEvent, Buffer
    <3>4. QED BY <2>0, <2>8, <3>1, <3>3, GoesSafe DEF CaseEvent
  <2>9. CASE CaseKeepAlive(c)
    <3>1. [conn[c] EXCEPT !.at = "ended"] \in Conns BY <2>0 DEF Conns
    <3>2. Again(conn[c]) \in Conns BY <2>0, AgainType
    <3>3. QED BY <2>0, <2>9, <3>1, <3>2, GoesSafe DEF CaseKeepAlive
  <2>10. CASE PeerCloses(c)
    <3>1. [conn[c] EXCEPT !.gone = TRUE] \in Conns BY <2>0 DEF Conns
    <3>2. QED BY <2>0, <2>10, <3>1, GoesSafe DEF PeerCloses
  <2>11. QED
    BY <1>5, <2>1, <2>2, <2>3, <2>4, <2>5, <2>6, <2>7, <2>8, <2>9, <2>10 DEF handler
<1>6. CASE UNCHANGED vars
  BY <1>6 DEF vars, server, Safe, TypeOK
<1>7. QED BY <1>1, <1>2, <1>3, <1>4, <1>5, <1>6 DEF Next

\* Before newRouter runs there is nothing that could be closed.
LEMMA InitSafe == Init => Safe
<1> SUFFICES ASSUME Init PROVE Safe
  OBVIOUS
<1>1. conn \in [Conn -> Conns]
  BY DEF Init
<1>2. /\ list \in [Resource -> 0..MaxChanges] /\ buf \in [Resource -> 0..Buffer]
      /\ changes \in 0..MaxChanges /\ faults \in 0..MaxFaults
  <2>1. 0 \in 0..MaxChanges /\ 0 \in 0..MaxFaults /\ 0 \in 0..Buffer
    BY StreamConstants DEF Buffer
  <2>2. QED BY <2>1, Zenon DEF Init
<1>3. /\ ~panicked /\ panicked \in BOOLEAN
      /\ created \subseteq Resource /\ deferred \subseteq created
      /\ watchers \subseteq created /\ closed \subseteq created
      /\ watchers \cap closed = {}
  BY Zenon DEF Init
<1>4. \A r \in Resource : list[r] <= changes
  BY StreamConstants DEF Init
<1>5. QED BY <1>1, <1>2, <1>3, <1>4 DEF Safe, TypeOK

\* The state of the server and of its streams keeps its type; a channel never
\* holds more than its two tokens (NewWatcher, notifyWatchersFunc).
THEOREM StreamTypeCorrect == Spec => []TypeOK
<1>1. Safe => TypeOK BY DEF Safe
<1>2. QED BY <1>1, InitSafe, NextSafe, PTL DEF Spec

\* No event of an informer is sent on a closed channel, however the events and
\* the deferred Closes of newRouter interleave (notifyWatchersFunc, Close).
THEOREM NoSendOnClosed == Spec => []NoPanic
<1>1. Safe => NoPanic BY DEF Safe, NoPanic
<1>2. QED BY <1>1, InitSafe, NextSafe, PTL DEF Spec

=============================================================================
