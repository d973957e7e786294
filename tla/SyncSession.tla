---------------------------- MODULE SyncSession ----------------------------
(***************************************************************************)
(* The Durable Object behind one document: DocumentSyncSession             *)
(* (services/sync-service/src/durable_object.rs), process_message          *)
(* (websocket.rs), DocumentState (state.rs) and the session's storage      *)
(* (storage.rs, storage/backends).                                         *)
(*                                                                         *)
(* The object handles its events concurrently, on one thread.  While a     *)
(* handler awaits the object's own storage the input gate is shut: nothing *)
(* else is delivered.  It opens when the handler ends or awaits something  *)
(* outside (Worker KV, a request body), and then other handlers run.       *)
(* gate is the handler that runs behind the shut gate.  A crash can come   *)
(* between any two storage writes; an eviction only when nothing runs.     *)
(*                                                                         *)
(* An update is a member of Op, a snapshot or a document is a set of them. *)
(* A DocumentState is named after the handler that loaded it: two of them  *)
(* exist when two loads overlap, and the last one loaded is kept.          *)
(***************************************************************************)
EXTENDS Naturals, FiniteSets

CONSTANTS
    Op,         \* updates
    Socket,     \* client connections
    Actor,      \* those whose token names an actor (an AI peer)
    Handler,    \* a bound on the events handled at a time
    Backend,    \* "sql": do-sqlite-snapshot-storage; "kv": kv-snapshot-storage
    Legacy,     \* Worker KV holds a snapshot of this document from the start
    MaxInit,    \* a bound on the /initialize requests
    MaxFaults,  \* a bound on crashes, failures and timeouts
    None        \* no handler, no document state

ASSUME SessionAssumption ==
    /\ Socket # {}
    /\ Actor \subseteq Socket
    /\ Backend \in {"sql", "kv"}
    /\ Legacy \in BOOLEAN
    /\ MaxInit \in Nat
    /\ MaxFaults \in Nat
    /\ None \notin Handler

VARIABLES
    \* durable: the object's SQLite, Worker KV, the object's key-value storage
    hasSql, sql, hasKv, kv,
    log,            \* updates under the pending prefix "o/"
    alarm,          \* an alarm is scheduled
    \* in memory
    cur,            \* document_state: the loaded DocumentState, or None
    content,        \* Handler -> updates in the DocumentState it loaded
    dirty,          \* Handler -> should_save() of it
    justExported,   \* Handler -> last_export is the present instant
    keys,           \* applied_keys: pending keys that cur contains
    \* handlers
    gate, pc, job, sock, inst, work, batch,
    \* connections
    open, synced,
    sees,           \* Socket -> updates it has been sent or has sent itself
    \* history and bounds
    acked, inits, faults

durable  == <<hasSql, sql, hasKv, kv, log>>
memory   == <<cur, content, dirty, justExported, keys>>
frame    == <<job, sock, batch>>
handlers == <<gate, pc, inst, work, frame>>
conns    == <<open, synced, sees>>
bounds   == <<inits, faults>>
vars     == <<durable, alarm, memory, handlers, conns, acked, bounds>>

Job == {"none", "connect", "update", "read", "rest", "alarm", "close", "init"}
Pc  == {"idle", "body", "reset", "load", "kvGet", "kvGot", "loaded", "bump",
        "storing", "clearing"}

\* The type of every variable.
TypeOK ==
    /\ hasSql \in BOOLEAN /\ sql \in SUBSET Op
    /\ hasKv \in BOOLEAN /\ kv \in SUBSET Op
    /\ log \in SUBSET Op
    /\ alarm \in BOOLEAN
    /\ cur \in Handler \cup {None}
    /\ content \in [Handler -> SUBSET Op]
    /\ dirty \in [Handler -> BOOLEAN]
    /\ justExported \in [Handler -> BOOLEAN]
    /\ keys \in SUBSET Op
    /\ gate \in Handler \cup {None}
    /\ pc \in [Handler -> Pc]
    /\ job \in [Handler -> Job]
    /\ sock \in [Handler -> Socket]
    /\ inst \in [Handler -> Handler \cup {None}]
    /\ work \in [Handler -> SUBSET Op]
    /\ batch \in [Handler -> SUBSET Op]
    /\ open \in SUBSET Socket
    /\ synced \in SUBSET Socket
    /\ sees \in [Socket -> SUBSET Op]
    /\ acked \in SUBSET Op
    /\ inits \in 0..MaxInit
    /\ faults \in 0..MaxFaults

Init ==
    /\ hasSql = FALSE /\ sql = {}
    /\ hasKv = Legacy /\ kv = {}
    /\ log = {}
    /\ alarm = FALSE
    /\ cur = None
    /\ content = [h \in Handler |-> {}]
    /\ dirty = [h \in Handler |-> FALSE]
    /\ justExported = [h \in Handler |-> FALSE]
    /\ keys = {}
    /\ gate = None
    /\ pc = [h \in Handler |-> "idle"]
    /\ job = [h \in Handler |-> "none"]
    /\ sock = [h \in Handler |-> CHOOSE s \in Socket : TRUE]
    /\ inst = [h \in Handler |-> None]
    /\ work = [h \in Handler |-> {}]
    /\ batch = [h \in Handler |-> {}]
    /\ open = {}
    /\ synced = {}
    /\ sees = [s \in Socket |-> {}]
    /\ acked = {}
    /\ inits = 0
    /\ faults = 0

-----------------------------------------------------------------------------
\* combined_sql_kv.rs: SQLite if it holds a snapshot, else Worker KV.
hasSnapshot == hasSql \/ hasKv
Snapshot    == IF hasSql THEN sql ELSE kv

\* An event is delivered to an idle slot; what it does before its first
\* outside await it does behind the shut gate.
Deliver(h, j, shut, next) ==
    /\ gate = None
    /\ pc[h] = "idle"
    /\ gate' = IF shut THEN h ELSE None
    /\ pc' = [pc EXCEPT ![h] = next]
    /\ job' = [job EXCEPT ![h] = j]

\* The handler ends: its slot is free and the gate opens.
Finish(h) ==
    /\ gate' = None
    /\ pc' = [pc EXCEPT ![h] = "idle"]
    /\ job' = [job EXCEPT ![h] = "none"]
    /\ inst' = [inst EXCEPT ![h] = None]
    /\ work' = [work EXCEPT ![h] = {}]
    /\ batch' = [batch EXCEPT ![h] = {}]

\* The handler goes on behind the shut gate.
Goto(h, next) ==
    /\ gate' = h
    /\ pc' = [pc EXCEPT ![h] = next]

Runs(h, j, at) == gate = h /\ job[h] = j /\ pc[h] = at

Fault ==
    /\ faults < MaxFaults
    /\ faults' = faults + 1

-----------------------------------------------------------------------------
(* Deliveries *)

\* The events of socket s under way.  A new connection is a new socket, and the
\* close is its last event.
Serving(s) ==
    {h \in Handler : /\ job[h] \in {"connect", "update", "read", "close"}
                     /\ sock[h] = s}
Speaks(s) == s \in open /\ \A h \in Serving(s) : job[h] # "close"

\* connect_handler(): the socket is accepted before the document is loaded.
Connect(h, s) ==
    /\ s \notin open
    /\ Serving(s) = {}
    /\ Deliver(h, "connect", TRUE, "load")
    /\ sock' = [sock EXCEPT ![h] = s]
    /\ open' = open \cup {s}
    /\ sees' = [sees EXCEPT ![s] = {}]
    /\ UNCHANGED <<durable, alarm, memory, inst, work, batch, synced, acked, bounds>>

\* websocket_message() with a PeerUpdate of an editor.
PeerUpdate(h, s, B) ==
    /\ Speaks(s)
    /\ Deliver(h, "update", TRUE, "load")
    /\ sock' = [sock EXCEPT ![h] = s]
    /\ work' = [work EXCEPT ![h] = B]
    /\ batch' = [batch EXCEPT ![h] = B]
    /\ UNCHANGED <<durable, alarm, memory, inst, conns, acked, bounds>>

\* websocket_message() with a message that changes no document: a request for
\* updates or a snapshot, awareness, a peer id, an update of a mere reader.
PeerRead(h, s) ==
    /\ Speaks(s)
    /\ Deliver(h, "read", TRUE, "load")
    /\ sock' = [sock EXCEPT ![h] = s]
    /\ UNCHANGED <<durable, alarm, memory, inst, work, batch, conns, acked, bounds>>

\* apply_update_handler(): the request body is awaited first.
ApplyUpdate(h, B) ==
    /\ Deliver(h, "rest", FALSE, "body")
    /\ work' = [work EXCEPT ![h] = B]
    /\ batch' = [batch EXCEPT ![h] = B]
    /\ UNCHANGED <<durable, alarm, memory, sock, inst, conns, acked, bounds>>

ApplyUpdateBody(h) ==
    /\ gate = None
    /\ job[h] = "rest" /\ pc[h] = "body"
    /\ Goto(h, "load")
    /\ UNCHANGED <<durable, alarm, memory, frame, inst, work, conns, acked, bounds>>

\* initialize_handler() up to the awaits of has_snapshot() and of the body.
Initialize(h) ==
    /\ inits < MaxInit
    /\ inits' = inits + 1
    /\ ~hasSnapshot
    /\ Deliver(h, "init", FALSE, "body")
    /\ UNCHANGED <<durable, alarm, memory, sock, inst, work, batch, conns, acked,
                   faults>>

\* ... the body's snapshot, which has no update yet, is stored: behind the gate
\* in SQLite, outside it in Worker KV.
InitializeBody(h) ==
    /\ gate = None
    /\ job[h] = "init" /\ pc[h] = "body"
    /\ \/ /\ Backend = "sql"
          /\ hasSql' = TRUE
          /\ sql' = {}
          /\ gate' = h
          /\ UNCHANGED <<hasKv, kv>>
       \/ /\ Backend = "kv"
          /\ hasKv' = TRUE
          /\ kv' = {}
          /\ gate' = None
          /\ UNCHANGED <<hasSql, sql>>
    /\ pc' = [pc EXCEPT ![h] = "reset"]
    /\ UNCHANGED <<log, alarm, memory, frame, inst, work, conns, acked, bounds>>

\* ... and a new SessionStorage starts without applied keys.
InitializeReset(h) ==
    /\ gate = IF Backend = "sql" THEN h ELSE None
    /\ job[h] = "init" /\ pc[h] = "reset"
    /\ keys' = {}
    /\ Goto(h, "load")
    /\ UNCHANGED <<durable, alarm, cur, content, dirty, justExported, frame, inst,
                   work, conns, acked, bounds>>

\* alarm(): the scheduled alarm fires.
Alarm(h) ==
    /\ alarm
    /\ alarm' = FALSE
    /\ Deliver(h, "alarm", TRUE, "load")
    /\ UNCHANGED <<durable, memory, sock, inst, work, batch, conns, acked, bounds>>

\* websocket_close().
SocketClose(h, s) ==
    /\ Speaks(s)
    /\ Deliver(h, "close", TRUE, "load")
    /\ sock' = [sock EXCEPT ![h] = s]
    /\ UNCHANGED <<durable, alarm, memory, inst, work, batch, conns, acked, bounds>>

-----------------------------------------------------------------------------
(* document_state(): the cached state, or load_document_state() *)

LoadCached(h) ==
    /\ gate = h /\ pc[h] = "load"
    /\ cur # None
    /\ inst' = [inst EXCEPT ![h] = cur]
    /\ Goto(h, "loaded")
    /\ UNCHANGED <<durable, alarm, memory, frame, work, conns, acked, bounds>>

\* Mutants: the replay of the pending updates is skipped, and the list of keys
\* is inserted as one key.
Loaded_unreplayed(h, base) ==
    /\ cur' = h
    /\ content' = [content EXCEPT ![h] = base]
    /\ dirty' = [dirty EXCEPT ![h] = FALSE]
    /\ justExported' = [justExported EXCEPT ![h] = FALSE]
    /\ keys' = keys \cup log
    /\ inst' = [inst EXCEPT ![h] = h]
    /\ Goto(h, "loaded")

\* try_from_snapshot() and apply_pending_ops(); last_update stays unset.
Loaded(h, base) ==
    /\ cur' = h
    /\ content' = [content EXCEPT ![h] = base \cup log]
    /\ dirty' = [dirty EXCEPT ![h] = FALSE]
    /\ justExported' = [justExported EXCEPT ![h] = FALSE]
    /\ keys' = keys \cup log
    /\ inst' = [inst EXCEPT ![h] = h]
    /\ Goto(h, "loaded")

\* The snapshot is in SQLite: no other event comes between.
LoadSql(h) ==
    /\ gate = h /\ pc[h] = "load"
    /\ cur = None
    /\ hasSql
    /\ Loaded(h, sql)
    /\ UNCHANGED <<durable, alarm, frame, work, conns, acked, bounds>>

\* It is not: Worker KV is asked and the gate opens.
LoadAsksKv(h) ==
    /\ gate = h /\ pc[h] = "load"
    /\ cur = None
    /\ ~hasSql
    /\ gate' = None
    /\ pc' = [pc EXCEPT ![h] = "kvGet"]
    /\ UNCHANGED <<durable, alarm, memory, frame, inst, work, conns, acked, bounds>>

\* Worker KV reads its snapshot ...
KvRead(h) ==
    /\ pc[h] = "kvGet"
    /\ hasKv
    /\ content' = [content EXCEPT ![h] = kv]
    /\ pc' = [pc EXCEPT ![h] = "kvGot"]
    /\ UNCHANGED <<durable, alarm, cur, dirty, justExported, keys, gate, frame,
                   inst, work, conns, acked, bounds>>

\* ... and answers later; only then the log is read, and the state replaces
\* whatever another handler has loaded meanwhile.
LoadKv(h) ==
    /\ gate = None /\ pc[h] = "kvGot"
    /\ Loaded(h, content[h])
    /\ UNCHANGED <<durable, alarm, frame, work, conns, acked, bounds>>

\* There is no snapshot: the event is dropped, without an ack; connect() keeps
\* its socket and defers the initial sync, close() still forgets its socket.
Drop(h) ==
    /\ gate = None
    /\ Finish(h)
    /\ open' = IF job[h] = "close" THEN open \ {sock[h]} ELSE open
    /\ synced' = IF job[h] = "close" THEN synced \ {sock[h]} ELSE synced
    /\ UNCHANGED <<durable, alarm, memory, sock, sees, acked, inits>>

LoadNothing(h) ==
    /\ pc[h] = "kvGet"
    /\ ~hasKv
    /\ Drop(h)
    /\ UNCHANGED faults

\* timeout_ez!: no answer in time is taken for no snapshot.
LoadTimesOut(h) ==
    /\ pc[h] \in {"kvGet", "kvGot"}
    /\ Drop(h)
    /\ Fault

-----------------------------------------------------------------------------
(* What the handlers do with the document *)

\* Mutant: the initial sync is the stored snapshot.
SendInitialSync_stored(h) ==
    /\ Runs(h, "connect", "loaded")
    /\ Finish(h)
    /\ synced' = synced \cup ({sock[h]} \cap open)
    /\ sees' = [sees EXCEPT ![sock[h]] = @ \cup Snapshot]
    /\ UNCHANGED <<durable, alarm, memory, sock, open, acked, bounds>>

\* connect_handler(): the initial sync.
SendInitialSync(h) ==
    /\ Runs(h, "connect", "loaded")
    /\ Finish(h)
    /\ synced' = synced \cup ({sock[h]} \cap open)
    /\ sees' = [sees EXCEPT ![sock[h]] = @ \cup content[inst[h]]]
    /\ UNCHANGED <<durable, alarm, memory, sock, open, acked, bounds>>

\* append_pending_operation(): import into the document (which sets
\* last_update), then the put under "o/" and the applied key.
AppendPendingOperation(h, o) ==
    /\ gate = h /\ pc[h] = "loaded" /\ job[h] \in {"update", "rest"}
    /\ o \in work[h]
    /\ work' = [work EXCEPT ![h] = @ \ {o}]
    /\ content' = [content EXCEPT ![inst[h]] = @ \cup {o}]
    /\ dirty' = [dirty EXCEPT ![inst[h]] = @ \/ ~justExported[inst[h]]]
    /\ log' = log \cup {o}
    /\ keys' = keys \cup {o}
    /\ UNCHANGED <<hasSql, sql, hasKv, kv, alarm, cur, justExported, gate, pc,
                   frame, inst, conns, acked, bounds>>

\* The update cannot be imported, or it was and the put fails: the handler
\* returns the error, the updates before it stay stored.
AppendFails(h, o) ==
    /\ gate = h /\ pc[h] = "loaded" /\ job[h] \in {"update", "rest"}
    /\ o \in work[h]
    /\ Fault
    /\ \/ UNCHANGED <<content, dirty>>
       \/ /\ content' = [content EXCEPT ![inst[h]] = @ \cup {o}]
          /\ dirty' = [dirty EXCEPT ![inst[h]] = @ \/ ~justExported[inst[h]]]
    /\ Finish(h)
    /\ UNCHANGED <<durable, alarm, cur, justExported, keys, sock, conns, acked, inits>>

\* Mutant: the ack does not wait for the whole batch.
AckAndBroadcast_early(h) ==
    /\ Runs(h, "update", "loaded")
    /\ sock[h] \in open
    /\ acked' = acked \cup batch[h]
    /\ sees' = [s \in Socket |->
                    IF s \in open THEN sees[s] \cup batch[h] ELSE sees[s]]
    /\ Goto(h, "bump")
    /\ UNCHANGED <<durable, alarm, memory, frame, inst, work, open, synced, bounds>>

\* The ack to the sender, then the broadcast to the other sockets.
AckAndBroadcast(h) ==
    /\ Runs(h, "update", "loaded")
    /\ work[h] = {}
    /\ sock[h] \in open
    /\ acked' = acked \cup batch[h]
    /\ sees' = [s \in Socket |->
                    IF s \in open THEN sees[s] \cup batch[h] ELSE sees[s]]
    /\ Goto(h, "bump")
    /\ UNCHANGED <<durable, alarm, memory, frame, inst, work, open, synced, bounds>>

\* The ack or the answer cannot be sent: the handler returns the error, with a
\* batch stored, without a broadcast and without an alarm.
Unsent(h) ==
    /\ gate = h /\ pc[h] = "loaded" /\ job[h] \in {"update", "read"}
    /\ work[h] = {}
    /\ Finish(h)
    /\ UNCHANGED <<durable, alarm, memory, sock, conns, acked, inits>>

SendToClosed(h) ==
    /\ sock[h] \notin open
    /\ Unsent(h)
    /\ UNCHANGED faults

SendFails(h) ==
    /\ sock[h] \in open
    /\ Unsent(h)
    /\ Fault

\* The other messages: a request is answered with what the document has, the
\* rest asks for nothing.
AnswerRead(h) ==
    /\ Runs(h, "read", "loaded")
    /\ \/ /\ sock[h] \in open
          /\ sees' = [sees EXCEPT ![sock[h]] = @ \cup content[inst[h]]]
       \/ UNCHANGED sees
    /\ Goto(h, "bump")
    /\ UNCHANGED <<durable, alarm, memory, frame, inst, work, open, synced, acked,
                   bounds>>

\* bump_alarm(), at the end of websocket_message().
BumpAlarm(h) ==
    /\ gate = h /\ pc[h] = "bump"
    /\ alarm' = TRUE
    /\ Finish(h)
    /\ UNCHANGED <<durable, memory, sock, conns, acked, bounds>>

\* apply_update_handler(): broadcast to every socket and answer; no alarm.
ApplyUpdateDone(h) ==
    /\ Runs(h, "rest", "loaded")
    /\ work[h] = {}
    /\ acked' = acked \cup batch[h]
    /\ sees' = [s \in Socket |->
                    IF s \in open THEN sees[s] \cup batch[h] ELSE sees[s]]
    /\ Finish(h)
    /\ UNCHANGED <<durable, alarm, memory, sock, open, synced, bounds>>

\* Mutant: nobody is told.
InitializeSync_silent(h) ==
    /\ Runs(h, "init", "loaded")
    /\ Finish(h)
    /\ UNCHANGED <<durable, alarm, memory, sock, conns, acked, bounds>>

\* initialize_handler(): the delayed initial sync for every waiting socket.
InitializeSync(h) ==
    /\ Runs(h, "init", "loaded")
    /\ synced' = open
    /\ sees' = [s \in Socket |->
                    IF s \in open THEN sees[s] \cup content[inst[h]] ELSE sees[s]]
    /\ Finish(h)
    /\ UNCHANGED <<durable, alarm, memory, sock, open, acked, bounds>>

\* alarm(), nothing to save: re-armed while somebody is connected.
AlarmIdle(h) ==
    /\ Runs(h, "alarm", "loaded")
    /\ ~dirty[inst[h]]
    /\ alarm' = (alarm \/ open # {})
    /\ Finish(h)
    /\ UNCHANGED <<durable, memory, sock, conns, acked, bounds>>

\* Mutant: the store is awaited outside the gate.
AlarmStoreSql_ungated(h) ==
    /\ Runs(h, "alarm", "loaded")
    /\ dirty[inst[h]]
    /\ Backend = "sql"
    /\ hasSql' = TRUE
    /\ sql' = content[inst[h]]
    /\ gate' = None
    /\ pc' = [pc EXCEPT ![h] = "clearing"]
    /\ UNCHANGED <<hasKv, kv, log, alarm, memory, frame, inst, work, conns, acked,
                   bounds>>

\* alarm(): store_snapshot() into SQLite.
AlarmStoreSql(h) ==
    /\ Runs(h, "alarm", "loaded")
    /\ dirty[inst[h]]
    /\ Backend = "sql"
    /\ hasSql' = TRUE
    /\ sql' = content[inst[h]]
    /\ Goto(h, "clearing")
    /\ UNCHANGED <<hasKv, kv, log, alarm, memory, frame, inst, work, conns, acked,
                   bounds>>

\* Mutant: the log is cleared before the snapshot is stored.
AlarmStoreKv_clearsFirst(h) ==
    /\ Runs(h, "alarm", "loaded")
    /\ dirty[inst[h]]
    /\ Backend = "kv"
    /\ work' = [work EXCEPT ![h] = content[inst[h]]]
    /\ log' = log \ keys
    /\ gate' = None
    /\ pc' = [pc EXCEPT ![h] = "storing"]
    /\ UNCHANGED <<hasSql, sql, hasKv, kv, alarm, memory, frame, inst, conns, acked,
                   bounds>>

\* alarm(): the export is handed to Worker KV and the gate opens ...
AlarmStoreKv(h) ==
    /\ Runs(h, "alarm", "loaded")
    /\ dirty[inst[h]]
    /\ Backend = "kv"
    /\ work' = [work EXCEPT ![h] = content[inst[h]]]
    /\ gate' = None
    /\ pc' = [pc EXCEPT ![h] = "storing"]
    /\ UNCHANGED <<durable, alarm, memory, frame, inst, conns, acked, bounds>>

\* ... until it is stored.
AlarmStoredKv(h) ==
    /\ gate = None /\ pc[h] = "storing"
    /\ hasKv' = TRUE
    /\ kv' = work[h]
    /\ Goto(h, "clearing")
    /\ UNCHANGED <<hasSql, sql, log, alarm, memory, frame, inst, work, conns,
                   acked, bounds>>

\* ... or no answer comes in time: the alarm fails, stored or not, and is tried
\* again.
AlarmTimesOut(h) ==
    /\ gate = None /\ pc[h] = "storing"
    /\ Fault
    /\ \/ hasKv' = TRUE /\ kv' = work[h]
       \/ UNCHANGED <<hasKv, kv>>
    /\ alarm' = TRUE
    /\ Finish(h)
    /\ UNCHANGED <<hasSql, sql, log, memory, sock, conns, acked, inits>>

\* alarm(): clear_applied_ops(), mark_exported() and the next alarm.
AlarmClear(h) ==
    /\ Runs(h, "alarm", "clearing")
    /\ log' = log \ keys
    /\ keys' = {}
    /\ dirty' = [dirty EXCEPT ![inst[h]] = FALSE]
    /\ justExported' = [justExported EXCEPT ![inst[h]] = TRUE]
    /\ alarm' = (alarm \/ open # {})
    /\ Finish(h)
    /\ UNCHANGED <<hasSql, sql, hasKv, kv, cur, content, sock, conns, acked, bounds>>

\* websocket_close() with CloseFlush::decide(): an actor that leaves others
\* behind publishes its edits and marks the state exported.
CloseLoaded(h) ==
    LET actorLeft == /\ open # {sock[h]}
                     /\ sock[h] \in Actor
                     /\ dirty[inst[h]] IN
    /\ Runs(h, "close", "loaded")
    /\ dirty' = [dirty EXCEPT ![inst[h]] = @ /\ ~actorLeft]
    /\ justExported' = [justExported EXCEPT ![inst[h]] = @ \/ actorLeft]
    /\ open' = open \ {sock[h]}
    /\ synced' = synced \ {sock[h]}
    /\ Finish(h)
    /\ UNCHANGED <<durable, alarm, cur, content, keys, sock, sees, acked, bounds>>

-----------------------------------------------------------------------------
(* The platform *)

\* Time moves on: an update made now is later than the last export.
Tick ==
    /\ gate = None
    /\ \E h \in Handler : justExported[h]
    /\ justExported' = [h \in Handler |-> FALSE]
    /\ UNCHANGED <<durable, alarm, cur, content, dirty, keys, handlers, conns,
                   acked, bounds>>

\* Ten idle seconds: memory is dropped, hibernated sockets stay open.  A
\* scheduled alarm comes first, it is at most five seconds away.
Evict ==
    /\ cur # None
    /\ ~alarm
    /\ \A h \in Handler : pc[h] = "idle"
    /\ cur' = None
    /\ keys' = {}
    /\ UNCHANGED <<durable, alarm, content, dirty, justExported, handlers, conns,
                   acked, bounds>>

\* The object dies, wherever it is: connections and handlers are gone, an alarm
\* that was running is tried again.
Crash ==
    /\ Fault
    /\ alarm' = (alarm \/ \E h \in Handler : job[h] = "alarm")
    /\ cur' = None
    /\ keys' = {}
    /\ gate' = None
    /\ pc' = [h \in Handler |-> "idle"]
    /\ job' = [h \in Handler |-> "none"]
    /\ inst' = [h \in Handler |-> None]
    /\ work' = [h \in Handler |-> {}]
    /\ batch' = [h \in Handler |-> {}]
    /\ open' = {}
    /\ synced' = {}
    /\ UNCHANGED <<durable, content, dirty, justExported, sock, sees, acked, inits>>

-----------------------------------------------------------------------------
Event(h) ==
    \/ \E s \in Socket : Connect(h, s) \/ PeerRead(h, s) \/ SocketClose(h, s)
    \/ \E s \in Socket, B \in (SUBSET Op) \ {{}} : PeerUpdate(h, s, B)
    \/ \E B \in (SUBSET Op) \ {{}} : ApplyUpdate(h, B)
    \/ Initialize(h)
    \/ Alarm(h)

Progress(h) ==
    \/ ApplyUpdateBody(h) \/ InitializeBody(h) \/ InitializeReset(h)
    \/ LoadCached(h) \/ LoadSql(h) \/ LoadAsksKv(h) \/ KvRead(h)
    \/ LoadKv(h) \/ LoadNothing(h)
    \/ SendInitialSync(h)
    \/ \E o \in Op : AppendPendingOperation(h, o)
    \/ AckAndBroadcast(h) \/ SendToClosed(h) \/ AnswerRead(h) \/ BumpAlarm(h) \/ ApplyUpdateDone(h)
    \/ InitializeSync(h)
    \/ AlarmIdle(h) \/ AlarmStoreSql(h) \/ AlarmStoreKv(h) \/ AlarmStoredKv(h)
    \/ AlarmClear(h)
    \/ CloseLoaded(h)

Failure(h) ==
    \/ \E o \in Op : AppendFails(h, o)
    \/ SendFails(h) \/ LoadTimesOut(h) \/ AlarmTimesOut(h)

Next ==
    \/ \E h \in Handler : Event(h) \/ Progress(h) \/ Failure(h)
    \/ Tick \/ Evict \/ Crash

Spec == Init /\ [][Next]_vars

-----------------------------------------------------------------------------
(* Properties *)

Quiet == \A h \in Handler : pc[h] = "idle"

\* websocket.rs:271: when the ack is sent "the batch is durably stored at this
\* point".  It stays so: an update that was acknowledged is in the stored
\* snapshot or in the pending log, whatever alarms, evictions, crashes and
\* overlapping loads follow.
AckedDurable == acked \subseteq Snapshot \cup log

\* Every connected socket gets an initial sync: with its connect() if the
\* document exists, else from initialize_handler() (durable_object.rs:891-893).
SocketsSynced == Quiet /\ hasSnapshot => open \subseteq synced

\* A synced socket has been told of every acknowledged update, by its initial
\* sync or by a broadcast, however the two overlap.
PeersSeeAcked == Quiet => \A s \in open \cap synced : acked \subseteq sees[s]

-----------------------------------------------------------------------------
(* Why the three hold where SQLite keeps the snapshots *)

\* do-sqlite-snapshot-storage, nothing left in Worker KV, one /initialize.
SqlDeployment == Backend = "sql" /\ Legacy = FALSE /\ MaxInit = 1

\* A handler past document_state() has a document state.
HasState ==
    \A h \in Handler :
        pc[h] \in {"loaded", "bump", "storing", "clearing"} => inst[h] \in Handler

TypeInv == TypeOK /\ HasState

OnlySql == ~hasKv /\ \A h \in Handler : pc[h] \notin {"kvGot", "storing"}

\* Between its awaits of SQLite a handler is alone, with the kept state.
Gated ==
    \A h \in Handler :
        /\ pc[h] \in {"reset", "load", "loaded", "bump", "clearing"} => gate = h
        /\ pc[h] \in {"loaded", "bump", "clearing"} => inst[h] = cur

\* Nothing is stored, acknowledged or loaded before /initialize stored.
OneInit ==
    /\ inits = 0 => ~hasSql /\ \A h \in Handler : job[h] # "init"
    /\ \A g, h \in Handler : job[g] = "init" /\ job[h] = "init" => g = h
    /\ \A h \in Handler : job[h] = "init" /\ pc[h] = "body" => ~hasSql
    /\ ~hasSql => log = {} /\ acked = {} /\ cur = None

\* The kept state has all that is stored and all that would be cleared.
DocHasAll == cur # None => sql \cup log \cup keys \subseteq content[cur]

KeysApplied ==
    /\ cur = None => keys = {}
    /\ \A h \in Handler : pc[h] = "clearing" => keys \subseteq sql

AckedKept == acked \subseteq sql \cup log

\* What of a batch is not left to do is in the log.
BatchKept ==
    \A h \in Handler :
        /\ pc[h] \in {"idle", "body", "reset", "load", "kvGet"}
              => batch[h] \subseteq work[h]
        /\ pc[h] = "loaded" => batch[h] \subseteq work[h] \cup log

SocketsTold == synced \subseteq open /\ \A s \in synced : acked \subseteq sees[s]

\* Once there is a snapshot, whoever will sync a waiting socket is at work.
SocketsWait ==
    hasSql => \A s \in open \ synced :
        \E h \in Handler : /\ pc[h] \in {"reset", "load", "loaded"}
                          /\ \/ job[h] = "init"
                             \/ job[h] = "connect" /\ sock[h] = s

\* With snapshots in SQLite the gate keeps load, append, ack, store and clear of
\* one handler apart from every other's, and with that what is stored, kept in
\* memory and told to the sockets agrees at every step of every handler.
SessionInv ==
    /\ TypeInv /\ OnlySql /\ Gated /\ OneInit /\ DocHasAll /\ KeysApplied
    /\ AckedKept /\ BatchKept /\ SocketsTold /\ SocketsWait

-----------------------------------------------------------------------------
(* What the session promises *)

\* The stored document, and what each synced socket has been told.
Stored     == (IF hasSql THEN sql ELSE {}) \cup log
MemberView == [s \in Socket |-> IF s \in synced THEN sees[s] ELSE {}]

Doc == INSTANCE DurableDoc WITH Client <- Socket, doc <- Stored,
                                members <- synced, view <- MemberView

\* The session implements DurableDoc: no load, append, store, clear, eviction or
\* crash removes a stored update, acknowledged or not; an ack (websocket.rs:271)
\* is sent for stored updates only and together with the broadcast; and an
\* initial sync (durable_object.rs:891) or an answer holds all that is stored.
ImplementsDurableDoc == Doc!Spec
=============================================================================
