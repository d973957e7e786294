------------------------------ MODULE WalSync ------------------------------
(***************************************************************************)
(* The client's write-ahead log of document edits: WALSyncer and           *)
(* BrowserWALStore (packages/collaboration/src/collab/wal.ts), the parts   *)
(* of SyncEngine that feed and prune it (collab/engine.ts), the seeding of *)
(* a document from the local cache (MarkdownDocument.tsx) and the part of  *)
(* SyncServiceSource that pushes (sync-service/source.ts).                 *)
(*                                                                         *)
(* Several browser tabs hold the same document.  They share the two        *)
(* IndexedDB stores (the log and the cached snapshot); everything else is  *)
(* per tab and is lost when the tab goes away.  Every IndexedDB request is *)
(* one step, taken when it completes: requests of one connection complete  *)
(* in the order in which they were made, and a read-write transaction      *)
(* excludes the others.  Code between two awaits is one step.              *)
(*                                                                         *)
(* A Loro update is a member of Edit; a document or a snapshot is a set of *)
(* updates (import is commutative and idempotent).  deps[e] is the set of  *)
(* updates that were in the author's document when e was made: Loro holds  *)
(* an update back until all of them are present, so what a replica shows   *)
(* and what it exports is the part of its updates that Visible keeps.      *)
(***************************************************************************)
EXTENDS Naturals, FiniteSets

CONSTANTS
    Tab,    \* browser tabs (and reloads) with this document open
    Edit,   \* local Loro updates: a bound on the edits of a behaviour
    Task,   \* a bound on the doFlush() calls of one tab alive at a time
    MaxFaults   \* a bound on the failures, losses, closed tabs and elapsed weeks

ASSUME MaxFaultsAssumption == MaxFaults \in Nat

VARIABLES
    \* IndexedDB, shared by the tabs
    row,            \* Edit -> state of its row in the log
    aged,           \* edits whose row is older than WAL_TTL_MS
    hasSnapshot,    \* a cached snapshot exists
    snapshot,       \* its content
    \* the sync service and the connection to it
    wire,           \* updates sent and not yet stored
    server,         \* updates durably stored by the sync service
    \* Loro
    deps,           \* Edit -> updates the edit causally depends on
    \* per tab
    wal,            \* readiness of the WALSyncer
    expiring,       \* rows pruneExpired() has read and is about to delete
    initialSync,    \* the source's waiter for it, which sets initialSyncReceived
    seed,           \* progress of ingestLocalSnapshot()
    loaded,         \* the cached snapshot it has read
    running,        \* the engine runs (the manager has been seeded)
    doc,            \* updates imported into the Loro document
    called,         \* append() calls waiting for ready() and store.append()
    stored,         \* append() calls waiting for summary()
    isFlushing,
    hasNewPending,
    flush,          \* Task -> where a doFlush() call stands
    batch,          \* Task -> the undelivered entries it read
    persist,        \* where persistSnapshot() stands
    exported,       \* the snapshot it exported
    victims,        \* the delivered rows pruneDelivered() has read
    chat,           \* BroadcastChannel messages under way: <<tab, edit>>
    faults,         \* how many of these so far
    \* history, read by properties only
    made, logged, dropped,
    own,            \* edits this session of the tab has put in the log
    excused         \* a store or a push of this tab failed since its last read

disk    == <<row, aged, hasSnapshot, snapshot>>
net     == <<wire, server>>
walVars == <<wal, expiring, initialSync>>
docVars == <<seed, loaded, running, doc, deps, chat, made>>
appVars == <<called, stored>>
flVars  == <<isFlushing, hasNewPending, flush, batch>>
perVars == <<persist, exported, victims>>
hist    == <<logged, dropped, own, excused>>

vars == <<disk, net, walVars, docVars, appVars, flVars, perVars, hist,
          faults>>

-----------------------------------------------------------------------------
RowState == {"absent", "undelivered", "delivered"}
WalState == {"closed", "setup", "pruning", "ready", "broken"}
SyncState == {"waiting", "received", "missed"}
FlushPc  == {"idle", "await", "reading", "pushing", "marking", "closing"}

\* The type of every variable: rows, program counters, sets of edits.
TypeOK ==
    /\ row \in [Edit -> RowState]
    /\ aged \in SUBSET Edit
    /\ hasSnapshot \in BOOLEAN
    /\ snapshot \in SUBSET Edit
    /\ wire \in SUBSET Edit
    /\ server \in SUBSET Edit
    /\ deps \in [Edit -> SUBSET Edit]
    /\ wal \in [Tab -> WalState]
    /\ expiring \in [Tab -> SUBSET Edit]
    /\ initialSync \in [Tab -> SyncState]
    /\ seed \in [Tab -> {"none", "read", "saving", "done"}]
    /\ loaded \in [Tab -> SUBSET Edit]
    /\ running \in [Tab -> BOOLEAN]
    /\ doc \in [Tab -> SUBSET Edit]
    /\ called \in [Tab -> SUBSET Edit]
    /\ stored \in [Tab -> SUBSET Edit]
    /\ isFlushing \in [Tab -> BOOLEAN]
    /\ hasNewPending \in [Tab -> BOOLEAN]
    /\ flush \in [Tab -> [Task -> FlushPc]]
    /\ batch \in [Tab -> [Task -> SUBSET Edit]]
    /\ persist \in [Tab -> {"idle", "saving", "pruneRead", "pruning"}]
    /\ exported \in [Tab -> SUBSET Edit]
    /\ victims \in [Tab -> SUBSET Edit]
    /\ chat \in SUBSET (Tab \X Edit)
    /\ made \in SUBSET Edit
    /\ logged \in SUBSET Edit
    /\ dropped \in SUBSET Edit
    /\ own \in [Tab -> SUBSET Edit]
    /\ excused \in [Tab -> BOOLEAN]
    /\ faults \in 0..MaxFaults

Init ==
    /\ row = [e \in Edit |-> "absent"]
    /\ aged = {}
    /\ hasSnapshot = FALSE
    /\ snapshot = {}
    /\ wire = {}
    /\ server = {}
    /\ deps = [e \in Edit |-> {}]
    /\ wal = [t \in Tab |-> "closed"]
    /\ expiring = [t \in Tab |-> {}]
    /\ initialSync = [t \in Tab |-> "waiting"]
    /\ seed = [t \in Tab |-> "none"]
    /\ loaded = [t \in Tab |-> {}]
    /\ running = [t \in Tab |-> FALSE]
    /\ doc = [t \in Tab |-> {}]
    /\ called = [t \in Tab |-> {}]
    /\ stored = [t \in Tab |-> {}]
    /\ isFlushing = [t \in Tab |-> FALSE]
    /\ hasNewPending = [t \in Tab |-> FALSE]
    /\ flush = [t \in Tab |-> [k \in Task |-> "idle"]]
    /\ batch = [t \in Tab |-> [k \in Task |-> {}]]
    /\ persist = [t \in Tab |-> "idle"]
    /\ exported = [t \in Tab |-> {}]
    /\ victims = [t \in Tab |-> {}]
    /\ chat = {}
    /\ made = {}
    /\ logged = {}
    /\ dropped = {}
    /\ own = [t \in Tab |-> {}]
    /\ excused = [t \in Tab |-> FALSE]
    /\ faults = 0

-----------------------------------------------------------------------------
\* What a replica that has imported S shows and exports: Loro keeps an update
\* pending while one of its dependencies is missing.
Visible(S) == {e \in S : deps[e] \subseteq S}

Rows(state)  == {e \in Edit : row[e] = state}
Undelivered  == Rows("undelivered")
Delivered    == Rows("delivered")

\* Mutant: the row is put back without the if (row) test.
markDelivered_unguarded(S) ==
    [e \in Edit |-> IF e \in S THEN "delivered" ELSE row[e]]

\* WALStore.markDelivered(): rows that are gone stay gone.
markDelivered(S) ==
    [e \in Edit |-> IF e \in S /\ row[e] # "absent" THEN "delivered" ELSE row[e]]

\* store.delete() of every row of S, whatever has happened to it meanwhile.
DeleteRows(S) == [e \in Edit |-> IF e \in S THEN "absent" ELSE row[e]]

\* WALSyncer.flush(): nothing when a flush is in progress, else a new doFlush()
\* call, which first awaits ready().
CallFlush(t) ==
    \/ isFlushing[t] /\ UNCHANGED flush
    \/ /\ ~isFlushing[t]
       /\ \E k \in Task :
            /\ flush[t][k] = "idle"
            /\ flush' = [flush EXCEPT ![t][k] = "await"]

\* The next of the at most MaxFaults failures, losses, closings and delays.
Fault ==
    /\ faults < MaxFaults
    /\ faults' = faults + 1

-----------------------------------------------------------------------------
(* Opening a document: the source, WALSyncer.setup() and the seeds *)

\* createWALSyncSource(): the constructor starts setup(); the source's has
\* started its waiter for the initial sync.
OpenTab(t) ==
    /\ wal[t] = "closed"
    /\ wal' = [wal EXCEPT ![t] = "setup"]
    /\ UNCHANGED <<faults, disk, net, expiring, initialSync, docVars, appVars, flVars,
                   perVars, hist>>

\* The initial sync arrives while its waiter is there: initialSyncReceived.
InitialSync(t) ==
    /\ wal[t] # "closed"
    /\ initialSync[t] = "waiting"
    /\ initialSync' = [initialSync EXCEPT ![t] = "received"]
    /\ UNCHANGED <<faults, disk, net, wal, expiring, docVars, appVars, flVars, perVars,
                   hist>>

\* It does not within TIMEOUTS.INITIAL_SYNC (the document was opened offline):
\* the waiter is gone, and a later initial sync, after a reconnect, only emits
\* 'reconnect' and never sets initialSyncReceived.
InitialSyncMissed(t) ==
    /\ wal[t] # "closed"
    /\ initialSync[t] = "waiting"
    /\ initialSync' = [initialSync EXCEPT ![t] = "missed"]
    /\ UNCHANGED <<faults, disk, net, wal, expiring, docVars, appVars, flVars, perVars,
                   hist>>

\* pruneExpired(), first transaction: read the rows, pick the expired ones.
SetupRead(t) ==
    /\ wal[t] = "setup"
    /\ wal' = [wal EXCEPT ![t] = "pruning"]
    /\ expiring' = [expiring EXCEPT ![t] = Undelivered \cap aged]
    /\ UNCHANGED <<faults, disk, net, initialSync, docVars, appVars, flVars, perVars,
                   hist>>

\* pruneExpired(), second transaction: delete them; ready() resolves.
SetupDelete(t) ==
    /\ wal[t] = "pruning"
    /\ wal' = [wal EXCEPT ![t] = "ready"]
    /\ row' = DeleteRows(expiring[t])
    /\ dropped' = dropped \cup (expiring[t] \cap Undelivered)
    /\ expiring' = [expiring EXCEPT ![t] = {}]
    /\ UNCHANGED <<faults, aged, hasSnapshot, snapshot, net, initialSync, docVars,
                   appVars, flVars, perVars, logged, own, excused>>

\* pruneExpired() throws: ready() rejects, now and at every later call.
SetupFails(t) ==
    /\ wal[t] \in {"setup", "pruning"}
    /\ wal' = [wal EXCEPT ![t] = "broken"]
    /\ expiring' = [expiring EXCEPT ![t] = {}]
    /\ Fault
    /\ UNCHANGED <<disk, net, initialSync, docVars, appVars, flVars, perVars, hist>>

\* ingestLocalSnapshot(): snapshotStore.load() finds a snapshot.
SeedRead(t) ==
    /\ wal[t] # "closed"
    /\ seed[t] = "none"
    /\ hasSnapshot
    /\ seed' = [seed EXCEPT ![t] = "read"]
    /\ loaded' = [loaded EXCEPT ![t] = snapshot]
    /\ UNCHANGED <<faults, disk, net, walVars, running, doc, deps, chat, made, appVars,
                   flVars, perVars, hist>>

\* ... walStore.getAll(), then ingest(): the first seed wins, a later one is
\* discarded.  With any row in the log the document is exported again.
SeedLocal(t) ==
    LET rows == Undelivered \cup Delivered IN
    /\ seed[t] = "read"
    /\ doc' = [doc EXCEPT ![t] = IF running[t] THEN @ ELSE loaded[t] \cup rows]
    /\ running' = [running EXCEPT ![t] = TRUE]
    /\ seed' = [seed EXCEPT ![t] = IF rows = {} THEN "done" ELSE "saving"]
    /\ loaded' = [loaded EXCEPT ![t] = IF rows = {} THEN {} ELSE Visible(doc'[t])]
    /\ UNCHANGED <<faults, disk, net, walVars, deps, chat, made, appVars, flVars,
                   perVars, hist>>

\* ... and saved.
SeedSave(t) ==
    /\ seed[t] = "saving"
    /\ seed' = [seed EXCEPT ![t] = "done"]
    /\ snapshot' = loaded[t]
    /\ hasSnapshot' = TRUE
    /\ loaded' = [loaded EXCEPT ![t] = {}]
    /\ UNCHANGED <<faults, row, aged, net, walVars, running, doc, deps, chat, made,
                   appVars, flVars, perVars, hist>>

\* ingestRemoteSnapshot() / ingestS3Snapshot() win: the document is what the
\* sync service holds, or an older state of it.
SeedRemote(t) ==
    \E S \in SUBSET server :
        /\ wal[t] # "closed"
        /\ ~running[t]
        /\ Visible(S) = S
        /\ doc' = [doc EXCEPT ![t] = S]
        /\ running' = [running EXCEPT ![t] = TRUE]
        /\ UNCHANGED <<faults, disk, net, walVars, seed, loaded, deps, chat, made,
                       appVars, flVars, perVars, hist>>

-----------------------------------------------------------------------------
(* Editing: SyncEngine.handleLocalUpdates() and WALSyncer.append() *)

\* A local update: append() is called and the other tabs are told.
LocalUpdate(t, e) ==
    /\ running[t]
    /\ e \notin made
    /\ made' = made \cup {e}
    /\ deps' = [deps EXCEPT ![e] = Visible(doc[t])]
    /\ doc' = [doc EXCEPT ![t] = @ \cup {e}]
    /\ called' = [called EXCEPT ![t] = @ \cup {e}]
    /\ chat' = chat \cup {<<u, e>> : u \in {u \in Tab \ {t} : running[u]}}
    /\ UNCHANGED <<faults, disk, net, walVars, seed, loaded, running, stored, flVars,
                   perVars, hist>>

\* store.append(), once ready() has resolved; calls complete in call order.
AppendStored(t, e) ==
    /\ wal[t] = "ready"
    /\ e \in called[t]
    /\ deps[e] \cap called[t] = {}
    /\ row' = [row EXCEPT ![e] = "undelivered"]
    /\ called' = [called EXCEPT ![t] = @ \ {e}]
    /\ stored' = [stored EXCEPT ![t] = @ \cup {e}]
    /\ logged' = logged \cup {e}
    /\ own' = [own EXCEPT ![t] = @ \cup {e}]
    /\ UNCHANGED <<faults, aged, hasSnapshot, snapshot, net, walVars, docVars, flVars,
                   perVars, dropped, excused>>

\* Mutant: append() relies on flush() alone and forgets hasNewPending.
AppendDone_forgets(t, e) ==
    /\ e \in stored[t]
    /\ stored' = [stored EXCEPT ![t] = @ \ {e}]
    /\ CallFlush(t)
    /\ UNCHANGED <<faults, disk, net, walVars, docVars, called, isFlushing,
                   hasNewPending, batch, perVars, hist>>

\* ... after the summary(): hasNewPending and an unawaited flush().
AppendDone(t, e) ==
    /\ e \in stored[t]
    /\ stored' = [stored EXCEPT ![t] = @ \ {e}]
    /\ hasNewPending' = [hasNewPending EXCEPT ![t] = TRUE]
    /\ CallFlush(t)
    /\ UNCHANGED <<faults, disk, net, walVars, docVars, called, isFlushing, batch,
                   perVars, hist>>

\* ready(), store.append() or summary() rejects; nobody awaits append().
AppendFails(t, e) ==
    /\ wal[t] \in {"ready", "broken"}
    /\ e \in called[t] \cup stored[t]
    /\ called' = [called EXCEPT ![t] = @ \ {e}]
    /\ stored' = [stored EXCEPT ![t] = @ \ {e}]
    /\ excused' = [excused EXCEPT ![t] = TRUE]
    /\ Fault
    /\ UNCHANGED <<disk, net, walVars, docVars, flVars, perVars, logged,
                   dropped, own>>

-----------------------------------------------------------------------------
(* WALSyncer.flush() and doFlush() *)

\* The 'reconnect' event of the live source: void syncer.flush().
Reconnect(t) ==
    /\ wal[t] # "closed"
    /\ CallFlush(t)
    /\ UNCHANGED <<faults, disk, net, walVars, docVars, appVars, isFlushing,
                   hasNewPending, batch, perVars, hist>>

\* doFlush() after ready(): isFlushing is only set here.
FlushBegin(t, k) ==
    /\ flush[t][k] = "await"
    /\ wal[t] = "ready"
    /\ isFlushing' = [isFlushing EXCEPT ![t] = TRUE]
    /\ hasNewPending' = [hasNewPending EXCEPT ![t] = FALSE]
    /\ flush' = [flush EXCEPT ![t][k] = "reading"]
    /\ UNCHANGED <<faults, disk, net, walVars, docVars, appVars, batch, perVars, hist>>

\* ready() rejects before the try: the call ends.
FlushNotReady(t, k) ==
    /\ flush[t][k] = "await"
    /\ wal[t] = "broken"
    /\ flush' = [flush EXCEPT ![t][k] = "idle"]
    /\ UNCHANGED <<faults, disk, net, walVars, docVars, appVars, isFlushing,
                   hasNewPending, batch, perVars, hist>>

\* getAll() finds nothing undelivered: return, through the finally block.
FlushEmpty(t, k) ==
    /\ flush[t][k] = "reading"
    /\ Undelivered = {}
    /\ isFlushing' = [isFlushing EXCEPT ![t] = FALSE]
    /\ flush' = [flush EXCEPT ![t][k] = "idle"]
    /\ excused' = [excused EXCEPT ![t] = FALSE]
    /\ UNCHANGED <<faults, disk, net, walVars, docVars, appVars, hasNewPending, batch,
                   perVars, logged, dropped, own>>

\* getAll(), then push() sends every undelivered entry as one message.
FlushPush(t, k) ==
    /\ flush[t][k] = "reading"
    /\ Undelivered # {}
    /\ initialSync[t] = "received"
    /\ batch' = [batch EXCEPT ![t][k] = Undelivered]
    /\ flush' = [flush EXCEPT ![t][k] = "pushing"]
    /\ wire' = wire \cup Undelivered
    /\ excused' = [excused EXCEPT ![t] = FALSE]
    /\ UNCHANGED <<faults, disk, server, walVars, docVars, appVars, isFlushing,
                   hasNewPending, perVars, logged, dropped, own>>

\* getAll(), then pushUpdate() answers false, with nothing sent: it has had no
\* initial sync.  The finally block runs and nothing is run again.
FlushRefused(t, k) ==
    /\ flush[t][k] = "reading"
    /\ Undelivered # {}
    /\ initialSync[t] # "received"
    /\ isFlushing' = [isFlushing EXCEPT ![t] = FALSE]
    /\ flush' = [flush EXCEPT ![t][k] = "idle"]
    /\ excused' = [excused EXCEPT ![t] = TRUE]
    /\ UNCHANGED <<faults, disk, net, walVars, docVars, appVars, hasNewPending, batch,
                   perVars, logged, dropped, own>>

\* Mutant: a message handed to the socket counts as delivered.
FlushAcked_early(t, k) ==
    /\ flush[t][k] = "pushing"
    /\ flush' = [flush EXCEPT ![t][k] = "marking"]
    /\ UNCHANGED <<faults, disk, net, walVars, docVars, appVars, isFlushing,
                   hasNewPending, batch, perVars, hist>>

\* The ack: the sync service has stored the whole batch.
FlushAcked(t, k) ==
    /\ flush[t][k] = "pushing"
    /\ batch[t][k] \subseteq server
    /\ flush' = [flush EXCEPT ![t][k] = "marking"]
    /\ UNCHANGED <<faults, disk, net, walVars, docVars, appVars, isFlushing,
                   hasNewPending, batch, perVars, hist>>

\* store.markDelivered() of the batch.
FlushMark(t, k) ==
    /\ flush[t][k] = "marking"
    /\ row' = markDelivered(batch[t][k])
    /\ batch' = [batch EXCEPT ![t][k] = {}]
    /\ flush' = [flush EXCEPT ![t][k] = "closing"]
    /\ UNCHANGED <<faults, aged, hasSnapshot, snapshot, net, walVars, docVars, appVars,
                   isFlushing, hasNewPending, perVars, hist>>

\* Mutant: doFlush() ends without a look at hasNewPending.
FlushDone_once(t, k) ==
    /\ flush[t][k] = "closing"
    /\ isFlushing' = [isFlushing EXCEPT ![t] = FALSE]
    /\ flush' = [flush EXCEPT ![t][k] = "idle"]
    /\ UNCHANGED <<faults, disk, net, walVars, docVars, appVars, hasNewPending, batch,
                   perVars, hist>>

\* After the last summary(): finally, then run again if append() asked for it.
FlushDone(t, k) ==
    /\ flush[t][k] = "closing"
    /\ isFlushing' = [isFlushing EXCEPT ![t] = FALSE]
    /\ flush' = [flush EXCEPT ![t][k] =
                    IF hasNewPending[t] THEN "await" ELSE "idle"]
    /\ UNCHANGED <<faults, disk, net, walVars, docVars, appVars, hasNewPending, batch,
                   perVars, hist>>

\* push() answers false (no ack within TIMEOUTS.ACK): the finally block runs,
\* the entries stay undelivered, nothing is run again.
FlushNotAcked(t, k) ==
    /\ flush[t][k] = "pushing"
    /\ isFlushing' = [isFlushing EXCEPT ![t] = FALSE]
    /\ flush' = [flush EXCEPT ![t][k] = "idle"]
    /\ batch' = [batch EXCEPT ![t][k] = {}]
    /\ excused' = [excused EXCEPT ![t] = TRUE]
    /\ UNCHANGED <<faults, disk, net, walVars, docVars, appVars, hasNewPending,
                   perVars, logged, dropped, own>>

\* push() or a store request throws: the same.
FlushThrows(t, k) ==
    /\ flush[t][k] \in {"reading", "pushing", "marking", "closing"}
    /\ isFlushing' = [isFlushing EXCEPT ![t] = FALSE]
    /\ flush' = [flush EXCEPT ![t][k] = "idle"]
    /\ batch' = [batch EXCEPT ![t][k] = {}]
    /\ excused' = [excused EXCEPT ![t] = TRUE]
    /\ Fault
    /\ UNCHANGED <<disk, net, walVars, docVars, appVars, hasNewPending, perVars,
                   logged, dropped, own>>

-----------------------------------------------------------------------------
(* SyncEngine.persistSnapshot(), every SNAPSHOT_INTERVAL_MS.  Bound: at most *)
(* one call of a tab is under way, although setInterval does not wait.       *)

\* Mutant: the tick only saves, it does not flush.
PersistTick_noflush(t) ==
    /\ running[t]
    /\ persist[t] = "idle"
    /\ exported' = [exported EXCEPT ![t] = Visible(doc[t])]
    /\ persist' = [persist EXCEPT ![t] = "saving"]
    /\ UNCHANGED <<faults, disk, net, walVars, docVars, appVars, flVars,
                   victims, hist>>

\* The tick: an unawaited flush(), then the export.
PersistTick(t) ==
    /\ running[t]
    /\ persist[t] = "idle"
    /\ CallFlush(t)
    /\ exported' = [exported EXCEPT ![t] = Visible(doc[t])]
    /\ persist' = [persist EXCEPT ![t] = "saving"]
    /\ UNCHANGED <<faults, disk, net, walVars, docVars, appVars, isFlushing,
                   hasNewPending, batch, victims, hist>>

\* snapshotStore.save(): the last writer wins.
PersistSave(t) ==
    /\ persist[t] = "saving"
    /\ snapshot' = exported[t]
    /\ hasSnapshot' = TRUE
    /\ exported' = [exported EXCEPT ![t] = {}]
    /\ persist' = [persist EXCEPT ![t] = "pruneRead"]
    /\ UNCHANGED <<faults, row, aged, net, walVars, docVars, appVars, flVars, victims,
                   hist>>

\* Mutant: every row is picked, delivered or not.
PruneRead_all(t) ==
    /\ persist[t] = "pruneRead"
    /\ victims' = [victims EXCEPT ![t] = Delivered \cup Undelivered]
    /\ persist' = [persist EXCEPT ![t] = "pruning"]
    /\ UNCHANGED <<faults, disk, net, walVars, docVars, appVars, flVars,
                   exported, hist>>

\* pruneDelivered(), first transaction.
PruneRead(t) ==
    /\ persist[t] = "pruneRead"
    /\ victims' = [victims EXCEPT ![t] = Delivered]
    /\ persist' = [persist EXCEPT ![t] = "pruning"]
    /\ UNCHANGED <<faults, disk, net, walVars, docVars, appVars, flVars, exported, hist>>

\* pruneDelivered(), second transaction.
PruneDelete(t) ==
    /\ persist[t] = "pruning"
    /\ row' = DeleteRows(victims[t])
    /\ victims' = [victims EXCEPT ![t] = {}]
    /\ persist' = [persist EXCEPT ![t] = "idle"]
    /\ UNCHANGED <<faults, aged, hasSnapshot, snapshot, net, walVars, docVars, appVars,
                   flVars, exported, hist>>

\* Export, save or prune throws; the error is logged.
PersistFails(t) ==
    /\ persist[t] # "idle"
    /\ persist' = [persist EXCEPT ![t] = "idle"]
    /\ exported' = [exported EXCEPT ![t] = {}]
    /\ victims' = [victims EXCEPT ![t] = {}]
    /\ Fault
    /\ UNCHANGED <<disk, net, walVars, docVars, appVars, flVars, hist>>

-----------------------------------------------------------------------------
(* The rest of the world *)

\* The sync service stores one update of a message (append_pending_operation);
\* a message cut short by a crash leaves the earlier ones stored.
ServerStores(e) ==
    /\ e \in wire
    /\ wire' = wire \ {e}
    /\ server' = server \cup {e}
    /\ UNCHANGED <<faults, disk, walVars, docVars, appVars, flVars, perVars, hist>>

\* A connection dies with updates under way.
ServerMisses(e) ==
    /\ e \in wire
    /\ wire' = wire \ {e}
    /\ Fault
    /\ UNCHANGED <<server, disk, walVars, docVars, appVars, flVars, perVars, hist>>

\* convergeFromServer() or a broadcast: import what the sync service exports.
Converge(t) ==
    /\ running[t]
    /\ ~(Visible(server) \subseteq doc[t])
    /\ doc' = [doc EXCEPT ![t] = @ \cup Visible(server)]
    /\ UNCHANGED <<faults, disk, net, walVars, seed, loaded, running, deps, chat, made,
                   appVars, flVars, perVars, hist>>

\* reset(): the document is replaced by the sync service's snapshot.
Reset(t) ==
    /\ running[t]
    /\ doc' = [doc EXCEPT ![t] = Visible(server)]
    /\ Fault
    /\ UNCHANGED <<disk, net, walVars, seed, loaded, running, deps, chat, made,
                   appVars, flVars, perVars, hist>>

\* Another tab's update arrives over the BroadcastChannel.
ChatArrives(t, e) ==
    /\ <<t, e>> \in chat
    /\ chat' = chat \ {<<t, e>>}
    /\ doc' = [doc EXCEPT ![t] = IF running[t] THEN @ \cup {e} ELSE @]
    /\ UNCHANGED <<faults, disk, net, walVars, seed, loaded, running, deps, made,
                   appVars, flVars, perVars, hist>>

\* A week passes over an undelivered row.
Age(e) ==
    /\ row[e] = "undelivered"
    /\ e \notin aged
    /\ aged' = aged \cup {e}
    /\ Fault
    /\ UNCHANGED <<row, hasSnapshot, snapshot, net, walVars, docVars, appVars,
                   flVars, perVars, hist>>

\* The tab is closed, reloaded or crashes: all it held in memory is gone.
CloseTab(t) ==
    /\ wal[t] # "closed"
    /\ wal' = [wal EXCEPT ![t] = "closed"]
    /\ expiring' = [expiring EXCEPT ![t] = {}]
    /\ initialSync' = [initialSync EXCEPT ![t] = "waiting"]
    /\ seed' = [seed EXCEPT ![t] = "none"]
    /\ loaded' = [loaded EXCEPT ![t] = {}]
    /\ running' = [running EXCEPT ![t] = FALSE]
    /\ doc' = [doc EXCEPT ![t] = {}]
    /\ chat' = {m \in chat : m[1] # t}
    /\ called' = [called EXCEPT ![t] = {}]
    /\ stored' = [stored EXCEPT ![t] = {}]
    /\ isFlushing' = [isFlushing EXCEPT ![t] = FALSE]
    /\ hasNewPending' = [hasNewPending EXCEPT ![t] = FALSE]
    /\ flush' = [flush EXCEPT ![t] = [k \in Task |-> "idle"]]
    /\ batch' = [batch EXCEPT ![t] = [k \in Task |-> {}]]
    /\ persist' = [persist EXCEPT ![t] = "idle"]
    /\ exported' = [exported EXCEPT ![t] = {}]
    /\ victims' = [victims EXCEPT ![t] = {}]
    /\ own' = [own EXCEPT ![t] = {}]
    /\ excused' = [excused EXCEPT ![t] = FALSE]
    /\ Fault
    /\ UNCHANGED <<disk, net, deps, made, logged, dropped>>

-----------------------------------------------------------------------------
TabStep(t) ==
    \/ OpenTab(t) \/ InitialSync(t) \/ InitialSyncMissed(t) \/ SetupRead(t)
    \/ SetupDelete(t) \/ SetupFails(t)
    \/ SeedRead(t) \/ SeedLocal(t) \/ SeedSave(t) \/ SeedRemote(t)
    \/ Reconnect(t) \/ PersistTick(t) \/ PersistSave(t) \/ PruneRead(t)
    \/ PruneDelete(t) \/ PersistFails(t)
    \/ Converge(t) \/ Reset(t) \/ CloseTab(t)

EditStep(t, e) ==
    \/ LocalUpdate(t, e) \/ AppendStored(t, e) \/ AppendDone(t, e)
    \/ AppendFails(t, e) \/ ChatArrives(t, e)

FlushStep(t, k) ==
    \/ FlushBegin(t, k) \/ FlushNotReady(t, k) \/ FlushEmpty(t, k)
    \/ FlushPush(t, k) \/ FlushRefused(t, k) \/ FlushAcked(t, k)
    \/ FlushMark(t, k) \/ FlushDone(t, k) \/ FlushNotAcked(t, k)
    \/ FlushThrows(t, k)

Next ==
    \/ \E t \in Tab : TabStep(t)
    \/ \E t \in Tab, e \in Edit : EditStep(t, e)
    \/ \E t \in Tab, k \in Task : FlushStep(t, k)
    \/ \E e \in Edit : ServerStores(e) \/ ServerMisses(e) \/ Age(e)

Spec == Init /\ [][Next]_vars

-----------------------------------------------------------------------------
(* Properties *)

\* An edit that append() wrote to the log is never lost: until the sync service
\* has stored it its row stays, whatever tabs flush, prune, crash or reopen;
\* the only exception is pruneExpired() (wal.ts:40, "dropped without replay").
NoEditLost ==
    \A e \in logged : row[e] # "absent" \/ e \in server \/ e \in dropped

\* The inductive strengthening of NoEditLost: wherever the code is about to
\* forget an edit (a row marked delivered, a batch that was acked, rows picked
\* by pruneDelivered()), the sync service has stored it.
DeliveredIsStored == \A e \in Edit : row[e] = "delivered" => e \in server
AckedIsStored ==
    \A t \in Tab, k \in Task :
        flush[t][k] = "marking" => batch[t][k] \subseteq server
VictimsAreStored ==
    \A t \in Tab : persist[t] = "pruning" => victims[t] \subseteq server
WalInv ==
    /\ NoEditLost
    /\ DeliveredIsStored
    /\ AckedIsStored
    /\ VictimsAreStored

\* hasNewPending does its job (wal.ts:229, "so those entries aren't stranded"):
\* when a tab has nothing under way and none of its pushes or store requests
\* failed, no edit it logged is left undelivered, however appends, reconnects
\* and snapshot ticks interleaved with concurrent doFlush() calls.
Settled(t) ==
    /\ wal[t] = "ready"
    /\ called[t] = {} /\ stored[t] = {}
    /\ \A k \in Task : flush[t][k] = "idle"
NoStranded ==
    \A t \in Tab :
        Settled(t) /\ ~excused[t] => own[t] \cap Undelivered = {}

\* The inductive strengthening of NoStranded: an edit is logged by one append(); a
\* set isFlushing belongs to a doFlush() past ready(); and somebody will still push
\* every undelivered edit of a tab, or look at hasNewPending after pushing others.
LoggedOnce ==
    \A t \in Tab :
        /\ called[t] \cap logged = {} /\ called[t] \cup logged \subseteq made
        /\ own[t] \subseteq logged
        /\ \A u \in Tab \ {t} : called[t] \cap called[u] = {}
Covers(t, k, e) ==
    \/ flush[t][k] \in {"await", "reading"}
    \/ flush[t][k] \in {"pushing", "marking"} /\ e \in batch[t][k]
    \/ flush[t][k] \in {"pushing", "marking", "closing"} /\ hasNewPending[t]
NothingForgotten(t) ==
    /\ own[t] # {} => wal[t] = "ready"
    /\ isFlushing[t] =>
         \E k \in Task : flush[t][k] \in {"reading", "pushing", "marking", "closing"}
    /\ \A e \in own[t] \cap Undelivered :
         excused[t] \/ e \in stored[t] \/ \E k \in Task : Covers(t, k, e)
PendingInv == LoggedOnce /\ \A t \in Tab : NothingForgotten(t)

\* A row moves only from undelivered to delivered to gone: markDelivered() of a
\* tab that read the row before another tab pruned it does not bring it back
\* (the edit would be replayed and pushed again for ever).
RowsOnlyAdvance ==
    [][\A e \in logged :
          /\ row[e] = "absent" => row'[e] = "absent"
          /\ row[e] = "delivered" => row'[e] # "undelivered"]_vars

-----------------------------------------------------------------------------
(* Liveness.  The event loop and IndexedDB make progress: timers fire and    *)
(* continuations run (weak fairness).  A message that pushUpdate() really    *)
(* sent and the sync service has stored may miss its ack, but not every time *)
(* (strong fairness of the ack); nothing is assumed of a push that the       *)
(* source refuses.  Throwing requests and dying connections are among the    *)
(* finitely many faults.  The initial sync, opening, editing, closing and    *)
(* ageing are not fair.                                                      *)

Fairness ==
    /\ \A t \in Tab :
        /\ WF_vars(PersistTick(t))
        /\ WF_vars(PersistSave(t) \/ PruneRead(t) \/ PruneDelete(t))
    /\ \A t \in Tab, k \in Task :
        /\ WF_vars(FlushBegin(t, k) \/ FlushEmpty(t, k) \/ FlushPush(t, k)
                    \/ FlushRefused(t, k) \/ FlushMark(t, k) \/ FlushDone(t, k))
        /\ WF_vars(FlushNotAcked(t, k))
        /\ SF_vars(FlushAcked(t, k))
    /\ \A e \in Edit : WF_vars(ServerStores(e))

FairSpec == Spec /\ Fairness

\* The promise of the log: an undelivered row is delivered at last as long as
\* some tab stays open that has had its initial sync, even if the push that
\* append() started failed and no further edit or reconnect ever comes; the
\* snapshot tick retries it.  The initial sync is part of the condition because
\* a tab that missed it never pushes while it stays open (source.ts:175); its
\* rows are delivered by the next tab, or session, that had one.
Delivering(t) == running[t] /\ wal[t] = "ready" /\ initialSync[t] = "received"
EventuallyDelivered ==
    \A t \in Tab, e \in Edit :
        <>[]Delivering(t) => (row[e] = "undelivered" ~> row[e] # "undelivered")
=============================================================================
