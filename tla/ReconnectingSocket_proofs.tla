---------------------- MODULE ReconnectingSocket_proofs ----------------------
(***************************************************************************)
(* Proofs about ReconnectingSocket, for any number of platform sockets,    *)
(* retries, missed pongs, messages, calls and faults.                      *)
(***************************************************************************)
EXTENDS ReconnectingSocket, TLAPS

USE DEF platform, attempts, retrying, heartbeat, messages, session, bounds

\* TypeOK and SocketInv are inductive together: the counter of missed pongs
\* is bounded because a socket that missed too many is closing.
IInv == TypeOK /\ SocketInv

\* A retry timer is set or it is not.
LEMMA RetryTimerType ==
  ASSUME timer \in BOOLEAN, scheduleConnectionRetryIfNeeded
  PROVE  timer' \in BOOLEAN
<1>1. CASE closedByUser
  BY <1>1, Zenon DEF scheduleConnectionRetryIfNeeded
<1>2. CASE ~closedByUser
  <2>1. timer' = (retries + 1 <= MaxRetries)
    BY <1>2, Zenon DEF scheduleConnectionRetryIfNeeded
  <2>2. (retries + 1 <= MaxRetries) \in BOOLEAN
    OBVIOUS
  <2> QED BY <2>1, <2>2, Zenon
<1> QED BY <1>1, <1>2

\* The new Websocket object satisfies the invariant.
LEMMA SocketInitOK == Init => IInv
<1> SUFFICES ASSUME Init PROVE IInv
  OBVIOUS
<1>1. PlatformTypes
  BY Zenon DEF Init, PlatformTypes
<1>2. StateTypes
  BY Zenon DEF Init, StateTypes
<1>3. CounterTypes
  BY SocketAssumption DEF Init, CounterTypes
<1>4. MessageTypes
  BY SocketAssumption DEF Init, MessageTypes
<1>5. SocketInv
  BY SocketAssumption
  DEF Init, SocketInv, OneAttempt, NoOrphan, ClosedStaysClosed,
      HeartbeatHasItsSocket, CurrentIs
<1> QED BY <1>1, <1>2, <1>3, <1>4, <1>5 DEF IInv, TypeOK

\* An attempt whose url has resolved creates the only socket with listeners.
LEMMA ResolvedOK ==
  ASSUME IInv, NEW s \in Socket, Resolved(s) PROVE IInv'
<1>1. PlatformTypes'
  BY DEF IInv, TypeOK, PlatformTypes, Resolved
<1>2. StateTypes'
  BY Zenon DEF IInv, TypeOK, StateTypes, Resolved
<1>3. CounterTypes'
  BY SocketAssumption DEF IInv, TypeOK, CounterTypes, Resolved
<1>4. MessageTypes'
  BY DEF IInv, TypeOK, MessageTypes, Resolved
<1>5. SocketInv'
  BY SocketAssumption
  DEF IInv, TypeOK, PlatformTypes, StateTypes, CounterTypes, SocketInv,
      OneAttempt, NoOrphan, ClosedStaysClosed, HeartbeatHasItsSocket,
      CurrentIs, Resolved
<1> QED BY <1>1, <1>2, <1>3, <1>4, <1>5 DEF IInv, TypeOK

\* An attempt that fails, or that close() overtook, leaves nothing behind.
LEMMA ResolveEndsOK ==
  ASSUME IInv, ResolvedTooLate \/ ResolveFails PROVE IInv'
<1>1. PlatformTypes'
  BY DEF IInv, TypeOK, PlatformTypes, ResolvedTooLate, ResolveFails
<1>2. StateTypes'
  BY Zenon DEF IInv, TypeOK, StateTypes, ResolvedTooLate, ResolveFails
<1>3. CounterTypes'
  BY SocketAssumption
  DEF IInv, TypeOK, CounterTypes, ResolvedTooLate, ResolveFails, Fault
<1>4. MessageTypes'
  BY DEF IInv, TypeOK, MessageTypes, ResolvedTooLate, ResolveFails
<1>5. SocketInv'
  BY SocketAssumption
  DEF IInv, TypeOK, PlatformTypes, StateTypes, CounterTypes, SocketInv,
      OneAttempt, NoOrphan, ClosedStaysClosed, HeartbeatHasItsSocket,
      CurrentIs, ResolvedTooLate, ResolveFails
<1> QED BY <1>1, <1>2, <1>3, <1>4, <1>5 DEF IInv, TypeOK

\* The retry timer finds no attempt under way, and takes the listeners off
\* the closed socket before it starts one.
LEMMA RetryFiresOK ==
  ASSUME IInv, RetryFires PROVE IInv'
<1>1. PlatformTypes'
  BY DEF IInv, TypeOK, PlatformTypes, RetryFires, clearWebsocket, CurrentIs
<1>2. StateTypes'
  BY Zenon DEF IInv, TypeOK, StateTypes, RetryFires, tryConnect
<1>3. CounterTypes'
  BY SocketAssumption DEF IInv, TypeOK, CounterTypes, RetryFires, tryConnect
<1>4. MessageTypes'
  BY DEF IInv, TypeOK, MessageTypes, RetryFires
<1>5. SocketInv'
  BY SocketAssumption
  DEF IInv, TypeOK, PlatformTypes, StateTypes, CounterTypes, SocketInv,
      OneAttempt, NoOrphan, ClosedStaysClosed, HeartbeatHasItsSocket,
      CurrentIs, RetryFires, clearWebsocket, tryConnect
<1> QED BY <1>1, <1>2, <1>3, <1>4, <1>5 DEF IInv, TypeOK

\* Only the current socket has the listener that makes the websocket open, and
\* an abandoned attempt closes instead.
LEMMA SocketOpensOK ==
  ASSUME IInv, NEW s \in Socket, SocketOpens(s) PROVE IInv'
<1>1. PlatformTypes'
  BY DEF IInv, TypeOK, PlatformTypes, SocketOpens, HandleOpen, startHeartbeat
<1>2. StateTypes'
  BY Zenon
  DEF IInv, TypeOK, StateTypes, SocketOpens, HandleOpen, startHeartbeat
<1>3. CounterTypes'
  BY SocketAssumption
  DEF IInv, TypeOK, CounterTypes, SocketOpens, HandleOpen, startHeartbeat
<1>4. MessageTypes'
  <2>1. wire \o buffer \in Seq(1..MaxSends) /\ <<>> \in Seq(1..MaxSends)
    BY DEF IInv, TypeOK, MessageTypes
  <2> QED BY <2>1, Zenon DEF IInv, TypeOK, MessageTypes, SocketOpens, HandleOpen
<1>5. SocketInv'
  BY SocketAssumption
  DEF IInv, TypeOK, PlatformTypes, StateTypes, CounterTypes, SocketInv,
      OneAttempt, NoOrphan, ClosedStaysClosed, HeartbeatHasItsSocket,
      CurrentIs, SocketOpens, HandleOpen, startHeartbeat
<1> QED BY <1>1, <1>2, <1>3, <1>4, <1>5 DEF IInv, TypeOK

\* An error leaves the socket closing.
LEMMA SocketErrorsOK ==
  ASSUME IInv, NEW s \in Socket, SocketErrors(s) PROVE IInv'
<1>1. PlatformTypes'
  BY DEF IInv, TypeOK, PlatformTypes, SocketErrors
<1>2. StateTypes'
  BY Zenon
  DEF IInv, TypeOK, StateTypes, SocketErrors
<1>3. CounterTypes'
  BY SocketAssumption
  DEF IInv, TypeOK, CounterTypes, SocketErrors, Fault
<1>4. MessageTypes'
  BY SocketAssumption
  DEF IInv, TypeOK, MessageTypes, SocketErrors
<1>5. SocketInv'
  BY SocketAssumption
  DEF IInv, TypeOK, PlatformTypes, StateTypes, CounterTypes, SocketInv,
      OneAttempt, NoOrphan, ClosedStaysClosed, HeartbeatHasItsSocket,
      CurrentIs, SocketErrors, Fault
<1> QED BY <1>1, <1>2, <1>3, <1>4, <1>5 DEF IInv, TypeOK

\* The close of the current socket stops its heartbeat before a retry is
\* scheduled; any other close changes nothing.
LEMMA SocketClosesOK ==
  ASSUME IInv, NEW s \in Socket, SocketCloses(s) PROVE IInv'
<1>1. PlatformTypes'
  BY DEF IInv, TypeOK, PlatformTypes, SocketCloses, HandleClose, stopHeartbeat,
         scheduleConnectionRetryIfNeeded
<1>2. StateTypes'
  BY RetryTimerType, Zenon
  DEF IInv, TypeOK, StateTypes, SocketCloses, HandleClose, stopHeartbeat
<1>3. CounterTypes'
  BY SocketAssumption
  DEF IInv, TypeOK, CounterTypes, SocketCloses, HandleClose, stopHeartbeat,
      scheduleConnectionRetryIfNeeded, Fault
<1>4. MessageTypes'
  BY SocketAssumption
  DEF IInv, TypeOK, MessageTypes, SocketCloses
<1>5. SocketInv'
  BY SocketAssumption
  DEF IInv, TypeOK, PlatformTypes, StateTypes, CounterTypes, SocketInv,
      OneAttempt, NoOrphan, ClosedStaysClosed, HeartbeatHasItsSocket,
      CurrentIs, SocketCloses, HandleClose, stopHeartbeat,
      scheduleConnectionRetryIfNeeded, Fault
<1> QED BY <1>1, <1>2, <1>3, <1>4, <1>5 DEF IInv, TypeOK

\* The initial sync starts the heartbeat of an open socket.
LEMMA InitialSyncOK ==
  ASSUME IInv, InitialSync PROVE IInv'
<1>1. PlatformTypes'
  BY DEF IInv, TypeOK, PlatformTypes, InitialSync, startHeartbeat, CurrentIs
<1>2. StateTypes'
  BY Zenon
  DEF IInv, TypeOK, StateTypes, InitialSync, startHeartbeat
<1>3. CounterTypes'
  BY SocketAssumption
  DEF IInv, TypeOK, CounterTypes, InitialSync, startHeartbeat
<1>4. MessageTypes'
  BY SocketAssumption
  DEF IInv, TypeOK, MessageTypes, InitialSync
<1>5. SocketInv'
  BY SocketAssumption
  DEF IInv, TypeOK, PlatformTypes, StateTypes, CounterTypes, SocketInv,
      OneAttempt, NoOrphan, ClosedStaysClosed, HeartbeatHasItsSocket,
      CurrentIs, InitialSync, startHeartbeat
<1> QED BY <1>1, <1>2, <1>3, <1>4, <1>5 DEF IInv, TypeOK

\* A ping or a pong.
LEMMA PingPongOK ==
  ASSUME IInv, Ping \/ Pong PROVE IInv'
<1>1. PlatformTypes'
  BY DEF IInv, TypeOK, PlatformTypes, Ping, Pong
<1>2. StateTypes'
  BY Zenon
  DEF IInv, TypeOK, StateTypes, Ping, Pong
<1>3. CounterTypes'
  BY SocketAssumption
  DEF IInv, TypeOK, CounterTypes, Ping, Pong
<1>4. MessageTypes'
  BY SocketAssumption
  DEF IInv, TypeOK, MessageTypes, Ping, Pong
<1>5. SocketInv'
  BY SocketAssumption
  DEF IInv, TypeOK, PlatformTypes, StateTypes, CounterTypes, SocketInv,
      OneAttempt, NoOrphan, ClosedStaysClosed, HeartbeatHasItsSocket,
      CurrentIs, Ping, Pong
<1> QED BY <1>1, <1>2, <1>3, <1>4, <1>5 DEF IInv, TypeOK

\* A ping that finds the socket closing schedules a retry for it.
LEMMA PingFindsClosingOK ==
  ASSUME IInv, PingFindsClosing PROVE IInv'
<1>1. PlatformTypes'
  BY DEF IInv, TypeOK, PlatformTypes, PingFindsClosing, HandleClose,
         stopHeartbeat, scheduleConnectionRetryIfNeeded
<1>2. StateTypes'
  BY RetryTimerType, Zenon
  DEF IInv, TypeOK, StateTypes, PingFindsClosing, HandleClose, stopHeartbeat
<1>3. CounterTypes'
  BY SocketAssumption
  DEF IInv, TypeOK, CounterTypes, PingFindsClosing, HandleClose,
      stopHeartbeat, scheduleConnectionRetryIfNeeded
<1>4. MessageTypes'
  BY SocketAssumption
  DEF IInv, TypeOK, MessageTypes, PingFindsClosing
<1>5. SocketInv'
  BY SocketAssumption
  DEF IInv, TypeOK, PlatformTypes, StateTypes, CounterTypes, SocketInv,
      OneAttempt, NoOrphan, ClosedStaysClosed, HeartbeatHasItsSocket,
      CurrentIs, PingFindsClosing, HandleClose, stopHeartbeat,
      scheduleConnectionRetryIfNeeded
<1> QED BY <1>1, <1>2, <1>3, <1>4, <1>5 DEF IInv, TypeOK

\* A missing pong is counted, and one too many closes the socket.
LEMMA PongMissingOK ==
  ASSUME IInv, PongMissing PROVE IInv'
<1>1. PlatformTypes'
  BY DEF IInv, TypeOK, PlatformTypes, PongMissing, CloseCurrent, CurrentIs
<1>2. StateTypes'
  BY Zenon
  DEF IInv, TypeOK, StateTypes, PongMissing
<1>3. CounterTypes'
  BY SocketAssumption
  DEF IInv, TypeOK, CounterTypes, PongMissing, SocketInv, Fault
<1>4. MessageTypes'
  BY SocketAssumption
  DEF IInv, TypeOK, MessageTypes, PongMissing
<1>5. SocketInv'
  BY SocketAssumption
  DEF IInv, TypeOK, PlatformTypes, StateTypes, CounterTypes, SocketInv,
      OneAttempt, NoOrphan, ClosedStaysClosed, HeartbeatHasItsSocket,
      CurrentIs, PongMissing, CloseCurrent, Fault
<1> QED BY <1>1, <1>2, <1>3, <1>4, <1>5 DEF IInv, TypeOK

\* A message is buffered unless the socket is open, and then the buffer is
\* empty.
LEMMA sendOK ==
  ASSUME IInv, send PROVE IInv'
<1>1. PlatformTypes'
  BY DEF IInv, TypeOK, PlatformTypes, send
<1>2. StateTypes'
  BY Zenon
  DEF IInv, TypeOK, StateTypes, send
<1>3. CounterTypes'
  BY SocketAssumption
  DEF IInv, TypeOK, CounterTypes, send
<1>4. MessageTypes'
  <2>1. sent' \in 1..MaxSends
    BY SocketAssumption DEF IInv, TypeOK, MessageTypes, send
  <2>2. /\ Append(wire, sent') \in Seq(1..MaxSends)
        /\ Append(buffer, sent') \in Seq(1..MaxSends)
    BY <2>1 DEF IInv, TypeOK, MessageTypes
  <2>3. sent' \in 0..MaxSends
    BY <2>1
  <2> QED BY <2>2, <2>3, Zenon DEF IInv, TypeOK, MessageTypes, send
<1>5. SocketInv'
  BY SocketAssumption
  DEF IInv, TypeOK, PlatformTypes, StateTypes, CounterTypes, SocketInv,
      OneAttempt, NoOrphan, ClosedStaysClosed, HeartbeatHasItsSocket,
      CurrentIs, send
<1> QED BY <1>1, <1>2, <1>3, <1>4, <1>5 DEF IInv, TypeOK

\* close() leaves no timer, no heartbeat and a closing socket.
LEMMA closeOK ==
  ASSUME IInv, close PROVE IInv'
<1>1. PlatformTypes'
  BY DEF IInv, TypeOK, PlatformTypes, close, CloseCurrent, CurrentIs,
         stopHeartbeat
<1>2. StateTypes'
  BY Zenon
  DEF IInv, TypeOK, StateTypes, close, stopHeartbeat
<1>3. CounterTypes'
  BY SocketAssumption
  DEF IInv, TypeOK, CounterTypes, close, stopHeartbeat, Call
<1>4. MessageTypes'
  BY SocketAssumption
  DEF IInv, TypeOK, MessageTypes, close
<1>5. SocketInv'
  BY SocketAssumption
  DEF IInv, TypeOK, PlatformTypes, StateTypes, CounterTypes, SocketInv,
      OneAttempt, NoOrphan, ClosedStaysClosed, HeartbeatHasItsSocket,
      CurrentIs, close, CloseCurrent, stopHeartbeat, Call
<1> QED BY <1>1, <1>2, <1>3, <1>4, <1>5 DEF IInv, TypeOK

\* reconnect(), called or because of a signal, replaces the socket when no
\* attempt is pending.
LEMMA reconnectOK ==
  ASSUME IInv, reconnect \/ reconnectIfDisconnected PROVE IInv'
<1>1. PlatformTypes'
  BY DEF IInv, TypeOK, PlatformTypes, reconnect, reconnectIfDisconnected,
         ReplaceSocket, clearWebsocket, tryConnect, stopHeartbeat, CurrentIs
<1>2. StateTypes'
  BY Zenon
  DEF IInv, TypeOK, StateTypes, reconnect, reconnectIfDisconnected,
      ReplaceSocket, clearWebsocket, tryConnect, stopHeartbeat
<1>3. CounterTypes'
  BY SocketAssumption
  DEF IInv, TypeOK, CounterTypes, reconnect, reconnectIfDisconnected,
      ReplaceSocket, clearWebsocket, tryConnect, stopHeartbeat, Call
<1>4. MessageTypes'
  BY SocketAssumption
  DEF IInv, TypeOK, MessageTypes, reconnect, reconnectIfDisconnected
<1>5. SocketInv'
  BY SocketAssumption
  DEF IInv, TypeOK, PlatformTypes, StateTypes, CounterTypes, SocketInv,
      OneAttempt, NoOrphan, ClosedStaysClosed, HeartbeatHasItsSocket,
      CurrentIs, reconnect, reconnectIfDisconnected, ReplaceSocket,
      clearWebsocket, tryConnect, stopHeartbeat, Call
<1> QED BY <1>1, <1>2, <1>3, <1>4, <1>5 DEF IInv, TypeOK

\* reconnect() adopts the pending attempt.
LEMMA reconnectAdoptsOK ==
  ASSUME IInv, reconnectAdopts PROVE IInv'
<1>1. PlatformTypes'
  BY DEF IInv, TypeOK, PlatformTypes, reconnectAdopts
<1>2. StateTypes'
  BY Zenon
  DEF IInv, TypeOK, StateTypes, reconnectAdopts
<1>3. CounterTypes'
  BY SocketAssumption
  DEF IInv, TypeOK, CounterTypes, reconnectAdopts, Call
<1>4. MessageTypes'
  BY SocketAssumption
  DEF IInv, TypeOK, MessageTypes, reconnectAdopts
<1>5. SocketInv'
  BY SocketAssumption
  DEF IInv, TypeOK, PlatformTypes, StateTypes, CounterTypes, SocketInv,
      OneAttempt, NoOrphan, ClosedStaysClosed, HeartbeatHasItsSocket,
      CurrentIs, reconnectAdopts, Call
<1> QED BY <1>1, <1>2, <1>3, <1>4, <1>5 DEF IInv, TypeOK

\* Every step keeps the invariant.
LEMMA SocketNextOK == IInv /\ [Next]_vars => IInv'
<1> SUFFICES ASSUME IInv, [Next]_vars PROVE IInv'
  OBVIOUS
<1>1. CASE Next
  BY <1>1, ResolvedOK, ResolveEndsOK, RetryFiresOK, SocketOpensOK,
     SocketErrorsOK, SocketClosesOK, InitialSyncOK, PingPongOK,
     PingFindsClosingOK, PongMissingOK, sendOK, closeOK, reconnectOK,
     reconnectAdoptsOK, Zenon
  DEF Next
<1>2. CASE UNCHANGED vars
  BY <1>2
  DEF vars, IInv, TypeOK, PlatformTypes, StateTypes, CounterTypes,
      MessageTypes, SocketInv, OneAttempt, NoOrphan, ClosedStaysClosed,
      HeartbeatHasItsSocket, CurrentIs
<1> QED BY <1>1, <1>2

\* Types and the inductive invariant hold in every reachable state, whatever
\* timers, closes, reconnects, signals and platform events interleave.
THEOREM SocketInvariant == Spec => [](TypeOK /\ SocketInv)
<1>1. Init => IInv
  BY SocketInitOK
<1>2. IInv /\ [Next]_vars => IInv'
  BY SocketNextOK
<1>3. IInv => TypeOK /\ SocketInv
  BY DEF IInv
<1> QED BY <1>1, <1>2, <1>3, PTL DEF Spec

\* No connection attempt ever runs beside another one or beside a retry timer
\* (websocket.ts: tryConnect, reconnect, scheduleConnectionRetryIfNeeded).
THEOREM AttemptsNeverCompete == Spec => []OneAttempt
<1>1. TypeOK /\ SocketInv => OneAttempt
  BY DEF SocketInv
<1> QED BY <1>1, SocketInvariant, PTL

\* No platform socket is ever orphaned (websocket.ts: clearWebsocket).
THEOREM NoSocketOrphaned == Spec => []NoOrphan
<1>1. TypeOK /\ SocketInv => NoOrphan
  BY DEF SocketInv
<1> QED BY <1>1, SocketInvariant, PTL

\* What has been handed over, followed by what waits, is every message in the
\* order of send(): the inductive step.
LEMMA InOrderStep == IInv /\ InOrder /\ [Next]_vars => InOrder'
<1> SUFFICES ASSUME IInv, InOrder, [Next]_vars PROVE InOrder'
  OBVIOUS
<1>0. /\ sent \in Nat /\ wire \in Seq(1..MaxSends)
      /\ buffer \in Seq(1..MaxSends)
  BY SocketAssumption DEF IInv, TypeOK, MessageTypes
<1>1. ASSUME UNCHANGED messages PROVE InOrder'
  BY <1>1 DEF InOrder
<1>2. ASSUME wire' = wire \o buffer, buffer' = <<>>, sent' = sent
      PROVE InOrder'
  <2>1. (wire \o buffer) \o <<>> = wire \o buffer
    BY <1>0
  <2> QED BY <1>2, <2>1 DEF InOrder
<1>3. ASSUME NEW s \in Socket, SocketOpens(s) PROVE InOrder'
  BY <1>1, <1>2, <1>3, Zenon DEF SocketOpens, HandleOpen
<1>4. ASSUME send PROVE InOrder'
  <2> DEFINE m == sent + 1
  <2>1. [i \in 1..m |-> i] = Append([i \in 1..sent |-> i], m)
    BY <1>0
  <2>2. CASE CurrentIs({"open"})
    <3>1. buffer = <<>> /\ wire' = Append(wire, m) /\ buffer' = <<>> /\ sent' = m
      BY <1>4, <2>2 DEF IInv, SocketInv, send
    <3>2. wire \o <<>> = wire /\ Append(wire, m) \o <<>> = Append(wire, m)
      BY <1>0
    <3> QED BY <2>1, <3>1, <3>2 DEF InOrder
  <2>3. CASE ~CurrentIs({"open"})
    <3>1. wire' = wire /\ buffer' = Append(buffer, m) /\ sent' = m
      BY <1>4, <2>3 DEF send
    <3>2. wire \o Append(buffer, m) = Append(wire \o buffer, m)
      BY <1>0
    <3> QED BY <2>1, <3>1, <3>2 DEF InOrder
  <2> QED BY <2>2, <2>3
<1> QED
  BY <1>1, <1>3, <1>4, Zenon
  DEF Next, vars, Resolved, ResolvedTooLate, ResolveFails, RetryFires,
      SocketErrors, SocketCloses, InitialSync, Ping, PingFindsClosing, Pong,
      PongMissing, close, reconnect, reconnectAdopts, reconnectIfDisconnected

\* Messages are handed to the platform once and in the order of send()
\* (websocket.ts: send, sendBufferedData).
THEOREM MessagesInOrder == Spec => []InOrder
<1>1. Init => InOrder
  <2> SUFFICES ASSUME Init PROVE InOrder
    OBVIOUS
  <2>1. <<>> \o <<>> = [i \in 1..0 |-> i]
    OBVIOUS
  <2> QED BY <2>1 DEF Init, InOrder
<1>2. (TypeOK /\ SocketInv) /\ InOrder /\ [Next]_vars => InOrder'
  BY InOrderStep DEF IInv
<1> QED BY <1>1, <1>2, SocketInvariant, PTL DEF Spec

\* A close that is not the user's schedules a retry or gives up.
LEMMA ScheduledOrGaveUp ==
  ASSUME retries \in Nat, ~closedByUser, scheduleConnectionRetryIfNeeded
  PROVE  timer' \/ GaveUp'
<1>1. /\ retries' = retries + 1
      /\ timer' = (retries + 1 <= MaxRetries)
  BY Zenon DEF scheduleConnectionRetryIfNeeded
<1>2. CASE retries + 1 <= MaxRetries
  BY <1>1, <1>2, Zenon
<1>3. CASE ~(retries + 1 <= MaxRetries)
  <2>1. retries + 1 > MaxRetries
    BY <1>3, SocketAssumption
  <2> QED BY <1>1, <2>1, Zenon DEF GaveUp
<1> QED BY <1>2, <1>3

\* A websocket whose url always resolves never stops trying before close() or
\* the last retry (websocket.ts: scheduleConnectionRetryIfNeeded, reconnect):
\* the inductive step.
LEMMA KeepsTryingStep ==
  ASSUME IInv, KeepsTrying, ~ResolverMayFail, [Next]_vars PROVE KeepsTrying'
<1> USE SocketAssumption DEF KeepsTrying, GaveUp, CurrentIs
<1>0. /\ pending \in Nat /\ retries \in Nat
      /\ connectPending => pending = 1
      /\ wired \subseteq {current} /\ wired \subseteq Socket
  BY DEF IInv, TypeOK, CounterTypes, PlatformTypes, SocketInv, OneAttempt, NoOrphan
<1>1. ASSUME NEW s \in Socket, Resolved(s) PROVE KeepsTrying'
  BY <1>1 DEF Resolved, IInv, TypeOK, PlatformTypes
<1>2. ASSUME ResolvedTooLate \/ ResolveFails PROVE KeepsTrying'
  BY <1>2 DEF ResolvedTooLate, ResolveFails
<1>3. ASSUME RetryFires \/ reconnect \/ reconnectIfDisconnected
      PROVE KeepsTrying'
  BY <1>0, <1>3
  DEF RetryFires, reconnect, reconnectIfDisconnected, ReplaceSocket, tryConnect
<1>4. ASSUME NEW s \in Socket, SocketOpens(s) PROVE KeepsTrying'
  BY <1>0, <1>4
  DEF SocketOpens, HandleOpen, IInv, TypeOK, PlatformTypes, SocketInv
<1>5. ASSUME NEW s \in Socket, SocketErrors(s) PROVE KeepsTrying'
  BY <1>5 DEF SocketErrors, IInv, TypeOK, PlatformTypes
<1>6. ASSUME NEW s \in Socket, SocketCloses(s) PROVE KeepsTrying'
  <2>1. CASE s \in wired /\ ~closedByUser
    BY <1>0, <1>6, <2>1, ScheduledOrGaveUp, Zenon DEF SocketCloses, HandleClose
  <2>2. CASE closedByUser
    BY <1>6, <2>2 DEF SocketCloses
  <2>3. CASE s \notin wired
    BY <1>6, <2>3 DEF SocketCloses, IInv, TypeOK, PlatformTypes
  <2> QED BY <2>1, <2>2, <2>3
<1>7. ASSUME InitialSync \/ Ping \/ Pong \/ send PROVE KeepsTrying'
  BY <1>7 DEF InitialSync, Ping, Pong, send
<1>8. ASSUME PingFindsClosing PROVE KeepsTrying'
  BY <1>0, <1>8, ScheduledOrGaveUp, Zenon DEF PingFindsClosing, HandleClose
<1>9. ASSUME PongMissing PROVE KeepsTrying'
  BY <1>9 DEF PongMissing, CloseCurrent, IInv, TypeOK, PlatformTypes
<1>10. ASSUME close PROVE KeepsTrying'
  BY <1>10 DEF close
<1>11. ASSUME reconnectAdopts PROVE KeepsTrying'
  BY <1>0, <1>11 DEF reconnectAdopts
<1>12. ASSUME UNCHANGED vars PROVE KeepsTrying'
  BY <1>12 DEF vars
<1> QED
  BY <1>1, <1>2, <1>3, <1>4, <1>5, <1>6, <1>7, <1>8, <1>9, <1>10, <1>11, <1>12,
     Zenon
  DEF Next

\* When the url resolver never throws, the websocket never stops trying before
\* close() or the last retry.
THEOREM NeverStopsTrying == ~ResolverMayFail /\ Spec => []KeepsTrying
<1> SUFFICES ASSUME ~ResolverMayFail PROVE Spec => []KeepsTrying
  OBVIOUS
<1>1. Init => KeepsTrying
  BY DEF Init, KeepsTrying
<1>2. (TypeOK /\ SocketInv) /\ KeepsTrying /\ [Next]_vars => KeepsTrying'
  BY KeepsTryingStep DEF IInv
<1> QED BY <1>1, <1>2, SocketInvariant, PTL DEF Spec

\* close() is final until reconnect() (websocket.ts: close, tryConnect).
THEOREM CloseIsFinal == Spec => []ClosedStaysClosed
<1>1. TypeOK /\ SocketInv => ClosedStaysClosed
  BY DEF SocketInv
<1> QED BY <1>1, SocketInvariant, PTL

\* A heartbeat beats for the current socket (websocket.ts: startHeartbeat,
\* handleHeartbeatTimeout): its timeout never closes a later one.
THEOREM HeartbeatKeepsToItsSocket == Spec => []HeartbeatHasItsSocket
<1>1. TypeOK /\ SocketInv => HeartbeatHasItsSocket
  BY DEF SocketInv
<1> QED BY <1>1, SocketInvariant, PTL

\* Type correctness; missed pongs stay within their limit and at most one is over.
THEOREM SocketTypeCorrect == Spec => []TypeOK
BY SocketInvariant, PTL

=============================================================================
