------------------------- MODULE ReconnectingSocket -------------------------
(***************************************************************************)
(* The client's websocket: Websocket                                       *)
(* (packages/collaboration/src/websocket/core/websocket.ts) as             *)
(* createSyncSocket() configures it, and the calls SyncServiceSource makes *)
(* on it (sync-service/source.ts).                                         *)
(*                                                                         *)
(* One Websocket object outlives the platform sockets it creates.  Its     *)
(* code runs on one thread, so every event, timer and method is one        *)
(* action; only tryConnect() is cut in two, by the await of the url.  A    *)
(* platform socket is a name that is used again once it is closed and      *)
(* replaced; ready is its readyState, wired the sockets that have the      *)
(* object's four listeners, doomed those with the listener that            *)
(* clearWebsocket() leaves on an attempt it abandons.                      *)
(*                                                                         *)
(* Delays are not modelled: a timer that is set may fire at any moment,    *)
(* except that the heartbeat's timeout is shorter than its interval.       *)
(***************************************************************************)
EXTENDS Naturals, Sequences

CONSTANTS
    Socket,           \* platform sockets that exist at a time
    MaxRetries,       \* retry.maxRetries
    MaxMissed,        \* heartbeat.maxMissedHeartbeats
    ResolverMayFail,  \* the url resolver may throw (a token fetch)
    MaxSends,         \* a bound on the messages sent
    MaxCalls,         \* a bound on the calls of close() and reconnect()
    MaxFaults,        \* a bound on failed connections and failed resolves
    None              \* no platform socket yet

ASSUME SocketAssumption ==
    /\ MaxRetries \in Nat
    /\ MaxMissed \in Nat
    /\ ResolverMayFail \in BOOLEAN
    /\ MaxSends \in Nat
    /\ MaxCalls \in Nat
    /\ MaxFaults \in Nat
    /\ None \notin Socket

VARIABLES
    ready, wired, doomed,
    current,         \* _underlyingWebsocket
    pending,         \* the tryConnect() calls that await their url
    connectPending,
    timer,           \* retryTimeout is set and has not fired
    retries,         \* backoff.retries
    closedByUser,
    state,           \* connectionState
    beating,         \* heartbeatInterval is set
    beatsFor,        \* history: the socket current when it was set
    awaitingPong,    \* heartbeatTimeout is set and has not fired
    missed,          \* missedHeartbeats
    synced,          \* SyncServiceSource.initialSyncReceived
    sent,            \* history: messages given to send(), numbered from 1
    buffer,          \* the messages that wait in the ArrayQueue
    wire,            \* history: the messages handed to platform sockets
    calls, faults

platform  == <<ready, wired, doomed, current>>
attempts  == <<pending, connectPending>>
retrying  == <<timer, retries>>
heartbeat == <<beating, beatsFor, awaitingPong, missed>>
messages  == <<sent, buffer, wire>>
session   == <<synced>>
bounds    == <<calls, faults>>
vars      == <<platform, attempts, retrying, closedByUser, state, heartbeat,
               messages, session, bounds>>

PlatformTypes ==
    /\ ready \in [Socket -> {"connecting", "open", "closing", "closed"}]
    /\ wired \in SUBSET Socket
    /\ doomed \in SUBSET Socket
    /\ current \in Socket \cup {None}
    /\ beatsFor \in Socket \cup {None}

StateTypes ==
    /\ connectPending \in BOOLEAN
    /\ timer \in BOOLEAN
    /\ closedByUser \in BOOLEAN
    /\ beating \in BOOLEAN
    /\ awaitingPong \in BOOLEAN
    /\ synced \in BOOLEAN
    /\ state \in {"Connecting", "Open", "Closing", "Closed", "Reconnecting"}

CounterTypes ==
    /\ pending \in Nat
    /\ retries \in Nat
    /\ missed \in 0..MaxMissed + 1
    /\ calls \in 0..MaxCalls
    /\ faults \in 0..MaxFaults

MessageTypes ==
    /\ sent \in 0..MaxSends
    /\ buffer \in Seq(1..MaxSends)
    /\ wire \in Seq(1..MaxSends)

\* The type of every variable.
TypeOK == PlatformTypes /\ StateTypes /\ CounterTypes /\ MessageTypes

Init ==
    /\ ready = [s \in Socket |-> "closed"]
    /\ wired = {}
    /\ doomed = {}
    /\ current = None
    /\ pending = 1
    /\ connectPending = TRUE
    /\ timer = FALSE
    /\ retries = 0
    /\ closedByUser = FALSE
    /\ state = "Connecting"
    /\ beating = FALSE
    /\ beatsFor = None
    /\ awaitingPong = FALSE
    /\ missed = 0
    /\ synced = FALSE
    /\ sent = 0
    /\ buffer = <<>>
    /\ wire = <<>>
    /\ calls = 0
    /\ faults = 0

-----------------------------------------------------------------------------
(* Methods that several actions call. *)

CurrentIs(S) == current # None /\ ready[current] \in S

GaveUp == retries > MaxRetries

Fault == faults < MaxFaults /\ faults' = faults + 1

Call == calls < MaxCalls /\ calls' = calls + 1

\* The platform's close() of the current socket: its close event comes later.
CloseCurrent ==
    ready' = IF CurrentIs({"connecting", "open"})
             THEN [ready EXCEPT ![current] = "closing"]
             ELSE ready

clearWebsocket_lingering ==
    /\ wired' = wired \ {current}
    /\ ready' = IF CurrentIs({"open"})
                THEN [ready EXCEPT ![current] = "closing"]
                ELSE ready
    /\ UNCHANGED <<current, doomed>>

clearWebsocket ==
    /\ wired' = wired \ {current}
    /\ doomed' = IF CurrentIs({"connecting"}) THEN doomed \cup {current}
                                              ELSE doomed
    /\ ready' = IF CurrentIs({"open"})
                THEN [ready EXCEPT ![current] = "closing"]
                ELSE ready
    /\ UNCHANGED current

tryConnect == pending' = pending + 1 /\ connectPending' = TRUE

stopHeartbeat ==
    /\ beating' = FALSE
    /\ awaitingPong' = FALSE
    /\ missed' = 0
    /\ UNCHANGED beatsFor

\* Called only where connectionState is Open.
startHeartbeat ==
    /\ beating' = TRUE
    /\ beatsFor' = current
    /\ awaitingPong' = FALSE
    /\ missed' = 0

scheduleConnectionRetryIfNeeded_short ==
    IF closedByUser
    THEN UNCHANGED retrying
    ELSE retries' = retries + 1 /\ timer' = (retries + 1 < MaxRetries)

scheduleConnectionRetryIfNeeded ==
    IF closedByUser
    THEN UNCHANGED retrying
    ELSE retries' = retries + 1 /\ timer' = (retries + 1 <= MaxRetries)

\* handleEvent(Close)
HandleClose ==
    /\ stopHeartbeat
    /\ state' = "Closed"
    /\ scheduleConnectionRetryIfNeeded

\* handleEvent(Open), with SyncServiceSource.onReconnect among its listeners
HandleOpen_unflushed ==
    /\ state' = "Open"
    /\ retries' = 0
    /\ startHeartbeat
    /\ UNCHANGED <<wire, buffer>>

HandleOpen ==
    /\ state' = "Open"
    /\ retries' = 0
    /\ startHeartbeat
    /\ wire' = wire \o buffer
    /\ buffer' = <<>>

-----------------------------------------------------------------------------
(* Connecting *)

\* tryConnect() after the await: a platform socket is created and wired.
Resolved(s) ==
    /\ pending > 0
    /\ ~closedByUser
    /\ s # current /\ ready[s] = "closed" /\ s \notin wired
    /\ ready' = [ready EXCEPT ![s] = "connecting"]
    /\ wired' = wired \cup {s}
    /\ current' = s
    /\ pending' = pending - 1
    /\ connectPending' = FALSE
    /\ UNCHANGED <<doomed, retrying, closedByUser, state, heartbeat, messages,
                   session, bounds>>

\* The user closed the websocket while the url was resolving.
ResolvedTooLate_connects ==
    /\ pending > 0
    /\ closedByUser
    /\ \E s \in Socket :
          /\ s # current /\ ready[s] = "closed" /\ s \notin wired
          /\ ready' = [ready EXCEPT ![s] = "connecting"]
          /\ wired' = wired \cup {s}
          /\ current' = s
    /\ pending' = pending - 1
    /\ connectPending' = FALSE
    /\ UNCHANGED <<doomed, retrying, closedByUser, state, heartbeat, messages,
                   session, bounds>>

ResolvedTooLate ==
    /\ pending > 0
    /\ closedByUser
    /\ pending' = pending - 1
    /\ connectPending' = FALSE
    /\ UNCHANGED <<platform, retrying, closedByUser, state, heartbeat, messages,
                   session, bounds>>

\* The resolver throws: finally runs, nothing else does.
ResolveFails ==
    /\ pending > 0
    /\ ResolverMayFail
    /\ Fault
    /\ pending' = pending - 1
    /\ connectPending' = FALSE
    /\ UNCHANGED <<platform, retrying, closedByUser, state, heartbeat, messages,
                   session, calls>>

\* The retry timer: handleEvent(retry).
RetryFires ==
    /\ timer
    /\ timer' = FALSE
    /\ state' = "Reconnecting"
    /\ clearWebsocket
    /\ tryConnect
    /\ UNCHANGED <<retries, closedByUser, heartbeat, messages, session, bounds>>

-----------------------------------------------------------------------------
(* Events of the platform sockets *)

\* An abandoned attempt has only the listener that closes it.
SocketOpens(s) ==
    /\ ready[s] = "connecting"
    /\ doomed' = doomed \ {s}
    /\ ready' = [ready EXCEPT ![s] = IF s \in doomed THEN "closing" ELSE "open"]
    /\ IF s \in wired
       THEN HandleOpen
       ELSE UNCHANGED <<state, retries, heartbeat, wire, buffer>>
    /\ UNCHANGED <<wired, current, attempts, timer, closedByUser, sent, synced,
                   bounds>>

\* A failing socket reports the error before its close; a closing one may too.
SocketErrors(s) ==
    /\ ready[s] # "closed"
    /\ IF ready[s] = "closing" THEN UNCHANGED faults ELSE Fault
    /\ ready' = [ready EXCEPT ![s] = "closing"]
    /\ state' = IF s \in wired THEN "Closing" ELSE state
    /\ UNCHANGED <<wired, doomed, current, attempts, retrying, closedByUser,
                   heartbeat, messages, session, calls>>

\* The end of a closing socket, or a close by the server or the network.
SocketCloses(s) ==
    /\ ready[s] # "closed"
    /\ IF ready[s] = "closing" THEN UNCHANGED faults ELSE Fault
    /\ ready' = [ready EXCEPT ![s] = "closed"]
    /\ doomed' = doomed \ {s}
    /\ IF s \in wired THEN HandleClose
                      ELSE UNCHANGED <<heartbeat, state, retrying>>
    /\ UNCHANGED <<wired, current, attempts, closedByUser, messages, session,
                   calls>>

\* The first initial sync: SyncServiceSource starts the heartbeat.
InitialSync ==
    /\ CurrentIs({"open"}) /\ current \in wired
    /\ ~synced
    /\ synced' = TRUE
    /\ startHeartbeat
    /\ UNCHANGED <<platform, attempts, retrying, closedByUser, state, messages,
                   bounds>>

-----------------------------------------------------------------------------
(* The heartbeat *)

\* The interval: sendHeartbeat().
Ping ==
    /\ beating /\ state = "Open" /\ ~closedByUser
    /\ ~awaitingPong
    /\ ~CurrentIs({"closing", "closed"})
    /\ awaitingPong' = TRUE
    /\ UNCHANGED <<platform, attempts, retrying, closedByUser, state, beating,
                   beatsFor, missed, messages, session, bounds>>

\* sendHeartbeat() on a socket that is closing does the work of its close.
PingFindsClosing ==
    /\ beating /\ state = "Open" /\ ~closedByUser
    /\ ~awaitingPong
    /\ CurrentIs({"closing", "closed"})
    /\ HandleClose
    /\ UNCHANGED <<platform, attempts, closedByUser, messages, session, bounds>>

\* A pong, in time or late.
Pong ==
    /\ CurrentIs({"open"}) /\ current \in wired
    /\ awaitingPong \/ missed > 0
    /\ awaitingPong' = FALSE
    /\ missed' = 0
    /\ UNCHANGED <<platform, attempts, retrying, closedByUser, state, beating,
                   beatsFor, messages, session, bounds>>

\* handleHeartbeatTimeout()
PongMissing_lenient ==
    /\ awaitingPong
    /\ awaitingPong' = FALSE
    /\ missed' = missed + 1
    /\ IF missed > MaxMissed
       THEN CloseCurrent /\ Fault
       ELSE UNCHANGED <<ready, faults>>
    /\ UNCHANGED <<wired, doomed, current, attempts, retrying, closedByUser,
                   state, beating, beatsFor, messages, session, calls>>

PongMissing ==
    /\ awaitingPong
    /\ awaitingPong' = FALSE
    /\ missed' = missed + 1
    /\ IF missed + 1 > MaxMissed
       THEN CloseCurrent /\ Fault
       ELSE UNCHANGED <<ready, faults>>
    /\ UNCHANGED <<wired, doomed, current, attempts, retrying, closedByUser,
                   state, beating, beatsFor, messages, session, calls>>

-----------------------------------------------------------------------------
(* Methods of the user *)

send ==
    /\ ~closedByUser
    /\ sent < MaxSends
    /\ sent' = sent + 1
    /\ IF CurrentIs({"open"})
       THEN wire' = Append(wire, sent') /\ UNCHANGED buffer
       ELSE buffer' = Append(buffer, sent') /\ UNCHANGED wire
    /\ UNCHANGED <<platform, attempts, retrying, closedByUser, state, heartbeat,
                   session, bounds>>

close ==
    /\ Call
    /\ timer' = FALSE
    /\ closedByUser' = TRUE
    /\ CloseCurrent
    /\ stopHeartbeat
    /\ UNCHANGED <<wired, doomed, current, attempts, retries, state, messages,
                   session, faults>>

\* reconnect() below its pending check
ReplaceSocket_beating ==
    /\ timer' = FALSE
    /\ clearWebsocket
    /\ state' = "Reconnecting"
    /\ tryConnect
    /\ UNCHANGED heartbeat

ReplaceSocket_timerLeft ==
    /\ stopHeartbeat
    /\ clearWebsocket
    /\ state' = "Reconnecting"
    /\ tryConnect
    /\ UNCHANGED timer

ReplaceSocket ==
    /\ timer' = FALSE
    /\ stopHeartbeat
    /\ clearWebsocket
    /\ state' = "Reconnecting"
    /\ tryConnect

reconnect ==
    /\ Call
    /\ closedByUser' = FALSE
    /\ ~connectPending
    /\ ReplaceSocket
    /\ UNCHANGED <<retries, messages, session, faults>>

\* reconnect() while a connect is pending: it is adopted.
reconnectAdopts_anew ==
    /\ Call
    /\ closedByUser' = FALSE
    /\ connectPending
    /\ ReplaceSocket
    /\ UNCHANGED <<retries, messages, session, faults>>

reconnectAdopts ==
    /\ Call
    /\ closedByUser' = FALSE
    /\ connectPending
    /\ UNCHANGED <<platform, attempts, retrying, state, heartbeat, messages,
                   session, faults>>

\* Signals: the browser is online again, the tab is visible again.
reconnectIfDisconnected ==
    /\ ~connectPending
    /\ ~closedByUser
    /\ ~CurrentIs({"open", "connecting"})
    /\ ReplaceSocket
    /\ UNCHANGED <<retries, closedByUser, messages, session, bounds>>

-----------------------------------------------------------------------------

Next ==
    \/ \E s \in Socket : Resolved(s)
    \/ ResolvedTooLate
    \/ ResolveFails
    \/ RetryFires
    \/ \E s \in Socket : SocketOpens(s)
    \/ \E s \in Socket : SocketErrors(s)
    \/ \E s \in Socket : SocketCloses(s)
    \/ InitialSync
    \/ Ping
    \/ PingFindsClosing
    \/ Pong
    \/ PongMissing
    \/ send
    \/ close
    \/ reconnect
    \/ reconnectAdopts
    \/ reconnectIfDisconnected

Spec == Init /\ [][Next]_vars

(***************************************************************************)
(* Promises settle, timers fire and the platform reports what becomes of   *)
(* every connection attempt and of every close.  Users, signals and the    *)
(* server owe nothing.                                                     *)
(***************************************************************************)
Fairness ==
    /\ WF_vars(\E s \in Socket : Resolved(s))
    /\ WF_vars(RetryFires)
    /\ \A s \in Socket : WF_vars(SocketOpens(s))
    /\ \A s \in Socket : WF_vars(ready[s] = "closing" /\ SocketCloses(s))

FairSpec == Spec /\ Fairness

-----------------------------------------------------------------------------
(* Properties *)

\* No connection attempt runs beside another, or beside a retry timer: the
\* timer, reconnect(), the signals and a pending tryConnect() never compete.
OneAttempt ==
    /\ pending = IF connectPending THEN 1 ELSE 0
    /\ timer => ~connectPending /\ ~CurrentIs({"connecting", "open"})

\* Only the current platform socket has listeners, and none while a connect is
\* pending; every other one is closing, closed, or an abandoned attempt that
\* closes when it opens: whatever retries, reconnects and closes overlap, no
\* connection is orphaned.
NoOrphan ==
    /\ wired \subseteq {current}
    /\ connectPending => wired = {}
    /\ \A s \in Socket \ wired :
          \/ ready[s] \in {"closing", "closed"}
          \/ ready[s] = "connecting" /\ s \in doomed

\* After close() and until reconnect() no retry is scheduled and no socket
\* with listeners connects or is open, also when a url was resolving.
ClosedStaysClosed ==
    closedByUser => /\ ~timer
                    /\ \A s \in wired : ready[s] \in {"closing", "closed"}

\* The heartbeat monitors, and may close, only the socket it was started on.
HeartbeatHasItsSocket ==
    beating => beatsFor = current /\ current \in wired

\* The inductive invariant of the proofs: the properties above, which sockets
\* are abandoned, and what connectionState and the heartbeat's counter say of
\* the current socket.
SocketInv ==
    /\ OneAttempt
    /\ NoOrphan
    /\ ClosedStaysClosed
    /\ HeartbeatHasItsSocket
    /\ \A s \in doomed : s \notin wired /\ ready[s] # "closed"
    /\ state = "Open" => current \in wired /\ ~CurrentIs({"connecting"})
    /\ CurrentIs({"open"}) => state = "Open" /\ buffer = <<>>
    /\ timer => ~beating
    /\ awaitingPong \/ missed > 0 => beating
    /\ awaitingPong => missed <= MaxMissed
    /\ missed > MaxMissed => CurrentIs({"closing", "closed"})

\* Unless the user closed it or its retries are used up, a websocket without
\* a connection is connecting, about to retry, or still has to be closed.
KeepsTrying ==
    \/ closedByUser
    \/ GaveUp
    \/ pending > 0
    \/ timer
    \/ current \in wired /\ CurrentIs({"connecting", "open", "closing"})

\* Messages reach the platform once and in the order of send(), through
\* however many disconnections they were buffered.
InOrder == wire \o buffer = [i \in 1..sent |-> i]

\* A websocket that is not connected connects again, unless the user closes
\* it or its retries are used up.
EventuallyConnected ==
    ~CurrentIs({"open"}) ~> (CurrentIs({"open"}) \/ closedByUser \/ GaveUp)

=============================================================================
