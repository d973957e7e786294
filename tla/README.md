# Conation's editing and offline-cache protocols: TLA+ models, checks and proofs

Conation is a monorepo (web and desktop clients, some forty Rust services and
workers, Cloudflare workers). This project models the two protocols of it whose
correctness is hardest to test. The first is collaborative editing: the path of
an edit from the Loro document in a browser tab, through the client's
write-ahead log and its reconnecting websocket, into the Durable Object that
holds the document on the server, and out to the other clients. The second is
the GraphQL cache that the tabs of a browser share: which tab owns its database
engine, and the queue of mutations in that database. Paths below are relative to
`src/`; `cache/` stands for `apps/web/src/lib/graphql-cache/`.

| part | code | module |
|---|---|---|
| client: document, log, snapshot, tabs | `packages/collaboration/src/collab/{wal,engine}.ts`, `apps/web/.../MarkdownDocument.tsx` | `WalSync` |
| client: websocket | `packages/collaboration/src/websocket/core/websocket.ts`, `sync-service/{socket,source}.ts` | `ReconnectingSocket` |
| server: document session | `services/sync-service/src/{durable_object,websocket,state,storage}.rs`, `storage/backends/` | `SyncSession`, implements `DurableDoc` |
| cache: owner election and request routing | `cache/worker/{coordinator-core,coordinator-router,coordinator-page-adapter,cache-engine-runtime}.ts` | `CacheCoordinator` |
| cache: queue of mutations | `crates/client/cache-{core,turso}/src/`, `cache/exchange/normalized-cache-exchange.ts` | `MutationQueue` |

Each component has a module, an `MC` module with what only TLC needs (symmetry,
a view, a bound) and a `_proofs` module; the coordinator has two more,
`CacheRequests_proofs` for the way of a request and `CacheProtocol_proofs` for
what coordinator, pages and engines say to each other.

## 1. Inventory

**Write-ahead log** (`wal.ts`). State: rows in IndexedDB, shared by all tabs of
the browser (an update, delivered or not, its time); per tab `isFlushing`,
`hasNewPending` and the promise `ready()`. Operations: `append`, `flush` and
`doFlush`, `markDelivered`, `pruneDelivered`, `pruneExpired`. Called by the
engine and by the `reconnect` event; calls `pushUpdate` of the source. Hard:
every step is an IndexedDB request, flushes of one tab overlap, tabs share rows
without a lock, tabs die anywhere. Correct when a logged edit is forgotten only
after the service stored it, when none is left behind by a flush that ended,
when a pruned row stays pruned, and when an undelivered edit is delivered in
the end.

**Sync engine, Loro manager, seeding, snapshot store** (`engine.ts`,
`manager.ts`, `MarkdownDocument.tsx`, `snapshot-store.ts`). State: the document,
lifecycle generations, a convergence in flight, the cached snapshot. Operations:
local update, remote update, snapshot tick (flush, export, save, prune),
convergence with retries, reset, start and stop, local and remote seed. Hard:
save and prune are apart, seeds race, an update may arrive before what it
depends on. Correct when the cache can be rebuilt after any close, and when
replicas converge.

**Reconnecting websocket** (`websocket.ts`). State: the current platform socket
and its listeners, a pending connect, a retry timer and its budget, the
heartbeat, the send buffer. Operations: events of the platform, timers,
`send`, `close`, `reconnect`, `reconnectIfDisconnected`. Hard: all of these
interleave with the await of the url, and a replaced socket lives on. Correct
when attempts never compete, no socket is orphaned, `close()` is final, a
heartbeat belongs to its socket, messages go out once and in order, and the
websocket keeps trying while it may.

**Sync service source** (`source.ts`). State: waiters with timeouts, buffered
events, `initialSyncReceived`. It turns messages into events and pushes into
acks, and refuses every push before the initial sync. Hard: waiters are matched
by content, time out, and answers come late.

**Durable Object session** (`durable_object.rs`, `websocket.rs`, `state.rs`,
`storage*`). State: durable — a snapshot (SQLite or Worker KV), the log of
pending operations `o/`, an alarm; in memory — the loaded `DocumentState`,
the keys of applied operations, the connected sockets. Operations: connect,
socket messages (update, snapshot, updates-since), close, `/apply-update`,
`/initialize`, the alarm that stores a snapshot and clears the log; eviction and
restart by the platform. Hard: handlers run concurrently wherever the input gate
is open, memory is lost at any time, one handler is several storage writes.
Correct when an acknowledged update stays durable, every socket gets its initial
sync, and every connected peer hears of every acknowledged update.

**Cache coordinator** (`cache/worker/`). Tabs talk to one coordinator in a
SharedWorker; it elects one tab as owner, whose dedicated worker (the engine)
holds the OPFS database under an exclusive lock. State: of the coordinator's
state machine (waiting, activating, active, draining, resetting, failed; the
owner and its epoch; what the next owner must do with the database; requests
queued and in flight), of each page adapter and of each engine runtime; messages
on ports; Web Locks that tell of dead tabs. Operations: register, request,
become owner, open, answer, graceful departure with drain, navigation,
disconnect, engine loss, watchdogs, resume after a loss. Hard: every party can
vanish at every step, ports and locks are ordered by nothing, and messages of an
epoch arrive after it. Correct when a request is answered once whatever happens
to owners, when no message surprises its receiver, when the coordinator elects
whenever it can, and when a database left in disorder is wiped before use.

**Mutation queue** (`cache-core/src/{store,engine}.rs`, `cache-turso`'s
`storage.rs`, the exchange). State: rows in order with a uuid (the subject of
the intent), superseded or not, lease owner, generation and expiry, back-off;
per client `attemptInFlight`, `drainRunning`, `drainTimer` and the callers who
wait. Operations: enqueue (with a claim of the head), claim, defer, commit,
rollback, and the runner. Hard: leases expire under slow calls, newer intents
replace or supersede rows, answers are lost when the engine moves, tabs die
between the server and the settlement. Correct when one request is out at a
time while leases last, when nothing in the queue is overtaken by what came
after it, when the newest intent is never dropped, and when the runner never
sleeps for good.

**Around them**: awareness, chatter between tabs, AI peers and the editing
worker, the spreadsheet API, blame events, authentication, the Tauri transport.
**Elsewhere in the repository** (agents, email, calls, notifications, scheduled
actions, webhooks, reminders, updater): separate subsystems.
`PROJECT.json` lists every component with its status, and every hazard with its
line and the properties that would catch it.

How the parts interact: the engine appends every local update to the log; the
log pushes through source and websocket; the session stores, acknowledges and
broadcasts; an ack lets the log mark its rows, a saved snapshot lets it prune
them; a reconnect starts a flush and a convergence. `WalSync` sees the session as "stores a push, sooner or later or
never, and may then be heard" (`ServerStores`, `ServerMisses`, `FlushAcked`,
`FlushNotAcked`), which is what `SyncSession` is shown to provide
(`AckedDurable`: what was acked stays stored). On the cache's side, calls of the
exchange are requests of the coordinator, and `MutationQueue` sees the
coordinator as "calls are answered, or rejected although they may have been
done" (`EngineMoves`).

## 2. Models

### WalSync

State: rows and cached snapshot (shared); what is on the wire and what the
service stored; per tab the document, the readiness of the log, the progress of
seed, append, flush (several `doFlush()` calls, `Task`) and snapshot save. One
action per IndexedDB request or stretch of code between two awaits:
`FlushBegin`, `FlushEmpty`, `FlushPush`, `FlushAcked`, `FlushMark`, `FlushDone`
are the awaits of `doFlush()`. `initialSync` is the source's waiter for the
initial sync: it arrives (`InitialSync`) or its ten seconds pass
(`InitialSyncMissed`), and before the first and after the second `pushUpdate()`
answers false without sending (`FlushRefused`). An update is a model value with the set of updates
it depends on; `Visible` is what Loro shows of a set of updates. `faults` bounds
failed requests, lost pushes, closed tabs and elapsed weeks.

### SyncSession

A handler (`Handler`) is one event in progress: `job` says which, `pc` where.
`gate` is the handler that runs behind the shut input gate: nothing else is
delivered while a handler awaits the object's own storage; awaiting Worker KV or
a request body opens it. `content`, `dirty` and `keys` are the loaded state;
`hasSql/sql`, `hasKv/kv`, `log` and `alarm` survive. `Evict` drops memory when
nothing runs and no alarm is set, `Crash` anywhere. `Backend` selects the build
(`do-sqlite-snapshot-storage`, the default, or `kv-snapshot-storage`), `Legacy`
a document whose snapshot is still in Worker KV. `sees` and `acked` are history.

`DurableDoc` is what the session promises: what is stored stays stored, an
acknowledgement names stored updates and reaches every member, whoever joins is
told all that is stored. `SyncSession` implements it under the mapping at its
end (`ImplementsDurableDoc`).

### CacheCoordinator

`kind`, `owner`, `epoch`, `action`, `tabs`, `retiring`, `queue`, `inFlight`
and `granted` are the fields of `CoordinatorCore`; `pending`, `route`, `attempts`
and `resume` those of the router; `page`, `own` and `ended` a page adapter's; `eng`, `act`
and `admitted` an engine's; `holder` is the owner lock and `alive` the tabs
whose liveness lock is held. `up`/`down` and `edown`/`eup` are the ports, in
order; nothing orders one port against another or against the locks. One action
per message handled, per timer, and per way to close: `Dispose`,
`DisposeGracefully`, `GracefulTimeout`, `Navigate`, `TabCrash`, `WorkerError`.
Each tab asks one request, which stands for any. The page adapter's checks that
end in `failTerminal` for a protocol error are guards, and `NoSurprise` says
that none of them ever fails. `must` is history: the database needs a wipe.
`highestOwnerEpochSeen` is the maximum of `own` and `ended`; the
`engine-replaced` notice, which raises it too, names an epoch whose
`become-owner` was sent before.

### MutationQueue

`queue` is the table, a function from the ids of its rows to the rows; `First` is
the id of the head. A lease is free, held, expired or backed off, its times are
left out. The engine serves one call at a time
(`EngineEnqueue`, `EngineClaim`, `EngineSettle`), calls and answers are items of
`work`, and the client goes on when one returns. A lease may run out at any
time, also while the call or the answer that takes it, a request or a settlement
is under way (then it counts as a fault, and `overrun` remembers it): the client
counts it from before the call, which waits for an owner as long as that takes
(`worker-host.ts:759`, `startup.ts:5`), and does not look at it before it sends.
A request that was cut off after a minute, or whose tab died, is kept in `late`
and may be executed at any later time (`ExecutedLate`).
`EngineMoves` turns any set of calls under way into rejected ones, done or not.
One life of the database is modelled: an abrupt loss wipes the queue by design.

### ReconnectingSocket

Platform sockets are names with a `ready` state, reused when closed and replaced;
`wired` are the sockets that have the object's listeners, `doomed` the abandoned
attempts with the listener that closes them. Every event, timer and method is
one action; `tryConnect()` is cut at the await of the url (`tryConnect`, then
`Resolved`, `ResolvedTooLate` or `ResolveFails`). Delays are left out, so a timer
fires at any moment after it is set; the one exception is that the heartbeat's
timeout comes before its next ping (5 s and 10 s in `socket.ts`).

## 3. Runs

Passing:

| run | bounds | shows |
|---|---|---|
| `wal_one_tab` | 1 tab, 2 edits, 2 flushes, 1 fault, 3 calls at a time | `WalInv`: rows marked delivered, acked batches and rows about to be pruned are all stored by the service, so nothing logged is lost; `NoStranded`: overlapping flushes leave no edit behind; `PendingInv`, its inductive strengthening |
| `wal_two_tabs` | 2 tabs, 1 edit, 3 calls at a time | `NoEditLost`, `RowsOnlyAdvance` with two tabs on the same rows |
| `wal_live` | 1 tab, 1 edit, 2 faults | `EventuallyDelivered`: with a tab that has had its initial sync, also after sessions that missed theirs |
| `session_sql` | SQLite, 2 updates, 2 sockets (one an actor's), 2 handlers, 1 fault | `SessionInv`, which has the types, `AckedDurable`, `SocketsSynced`, `PeersSeeAcked`, and the refinement `ImplementsDurableDoc` |
| `session_kv_one_update` | Worker KV, 1 update, 2 sockets (one an actor's), 2 handlers, 1 fault | `AckedDurable` holds for a single update whatever overlaps or fails, so the loss below takes a second update |
| `socket_overlap` | 3 sockets, 2 messages, 3 calls, 3 faults, 2 retries, a resolver that may throw | `OneAttempt`, `NoOrphan`, `ClosedStaysClosed`, `HeartbeatHasItsSocket`, `InOrder`, `SocketInv` |
| `socket_live` | 3 sockets, 2 calls, 3 faults, 2 retries, a resolver that works | `KeepsTrying`, `EventuallyConnected` |
| `cache_two_tabs` | 2 tabs that may both close, 1 request each, 1 fault, 1 retry | types, `InFlightHasOwner`, `NeverIdle`, `RequiredWipe`, `AnsweredOnce`, `NoSurprise` |
| `cache_live` | 2 tabs that stay, 2 faults, 1 retry | `EventuallyAnswered`: an answer, or the news that the cache is gone |
| `queue` | 2 clients, 2 mutations of 1 or 2 subjects, 1 fault, 1 crash, 1 move | types, `SendsLeasedHead`, `NothingOvertaken`, `HeirExists`, `NewestIntentKept`, `RunnerAwake`, no deadlock |

Violations, each a disagreement between the code and what its comments, docs or
tests say (quoted under `findings`):

| run | what TLC finds |
|---|---|
| `session_kv_loss` | with Worker KV, an update acked while the alarm stores is cleared from the log |
| `queue_moves` | the engine moves by navigation while an enqueue is under way: the client forwards the mutation, and the queue, which has it, sends it again |

The loss of the session concerns Worker KV; the SQLite build without a snapshot
left in Worker KV is proved free of it (below).

**Smaller differences** between code and comments, which the models reproduce
and no run is about:

* `wal.ts:330` sets `isFlushing` only after `await this.ready()`: flushes asked
  for before `ready()` resolves run concurrently, though `wal.ts:227` says the
  flag "prevents concurrent flushes". `NoStranded` shows that it does no harm.
* `engine.ts:297` prunes every row delivered by then, also one that was pushed
  and acked during the save and that the saved snapshot lacks; `engine.ts:295`
  speaks of the "WAL entries it captures". The service has them (`WalInv`).
* `websocket.rs:282` returns before the broadcast when the ack cannot be sent:
  the update is stored, and peers see it with their next sync only.
* `source.ts:175` refuses every push of a tab whose initial sync did not arrive
  within ten seconds of opening the document, and no reconnect changes that: a
  tab opened offline keeps its edits in the log while it stays open, although
  the `reconnect` event and the snapshot tick flush. `EventuallyDelivered` has
  the initial sync in its condition.
* `normalized-cache-exchange.ts:248` speaks of "a hard network bound well inside
  the durable queue lease". The lease is counted from before the call that takes
  it (`:822`, `:957`), which may wait for an owner for longer than the lease, so
  two tabs may send the same head at once. Nor does `AbortSignal.timeout`
  (`:254`) stop the server: a request cut off there may be executed after a newer
  intent has replaced its row, been sent and been executed. No property excludes
  either; `SendsLeasedHead` says when requests may overlap, and
  `NothingOvertaken` that an older mutation executed late has left the queue.
* `durable_object.rs:624` tests `has_snapshot()` before it awaits the body: two
  `/initialize` may both pass, and the second stores over the first.
* `durable_object.rs:899` takes a Worker KV timeout for a document that does not
  exist: the socket waits for an `/initialize` that does not come.
* `state.rs:72`: updates replayed from the log do not count for `should_save()`,
  so after an eviction the alarms store nothing until the next edit.
* `wal.ts:165`: `pruneExpired()` drops an edit of a week ago from the log and not
  from the cached snapshot; the reopened document has it, and the service stores
  later edits that depend on it and can never apply them.
* `durable_object.rs:1053` assigns the loaded state without looking whether
  another event has loaded, edited and saved it meanwhile. Loads from Worker KV
  (a document not yet moved to SQLite) overlap, and the late one wins.
* `websocket.ts:365`: a url resolver that throws ends the retries with the
  budget unused, until a connectivity signal or `reconnect()`.
* `websocket.ts:101`: the constructor does not copy `autoStart`, so the
  heartbeat starts with the first open and not after the initial sync
  (`source.ts:129`), and may close a connection whose sync is slow.
* `coordinator-router.ts:432`: a navigating page posts its departure and releases
  its liveness lock in the same task. When the coordinator hears of the lock
  first, it takes the departure for a loss and wipes a database that was left in
  order (`apps/web/docs/graphql-normalized-cache-plan.md:189` says only an
  unannounced loss does).

**Why the bounds are enough.** Tabs, edits, updates, handlers and sockets differ
only in name, and each property relates at most two of them: two edits give a
dependency and an append during a flush, two flushes an overlap, two tabs a
shared row, two handlers every overlap the gate permits, two sockets a sender
and a peer. Three platform sockets are a current one, one that is closing and an
abandoned attempt. Two tabs of the cache are an owner and an heir, or an owner
and a page that waits; two mutations are a head and what supersedes it or waits
behind it, two clients a late settlement and the claim it must not touch, or two requests
for one head. Faults are bounded because each one only multiplies
interleavings; one retry of the coordinator is one that is not delayed, and the
delayed one is in the proofs only. `MaxBusy` (calls under way at a time) bounds the larger
`WalSync` runs. Some runs use a view: it leaves out only what no guard and no
property of the run reads before it is overwritten (the document state nobody
refers to any more, the socket of an idle handler, what a closed socket was
told, history of rows that are delivered). The inductive invariants are proved
without any bound.

**Fairness.** `WalSync`: IndexedDB requests complete, timers fire and
continuations run (weak fairness); a message that was really sent may miss its
ack, but not for ever while the service stores it (strong fairness of the ack).
Nothing is assumed of the initial sync, nor of pushes the source refuses, which
is why `EventuallyDelivered` asks for a tab that has had its initial sync. `ReconnectingSocket`:
promises settle, timers fire, and the platform reports the end of every attempt
and close. `CacheCoordinator`: ports deliver, engines that neither fail nor hang
go on, microtasks and timers run, and the watchdog fires on an engine that makes
no progress. Users, signals, servers and faults owe nothing. Faults are finite,
which stands for "the network works in the end". Deadlock is not checked in the
socket and cache runs, because a websocket closed by its user and a cache whose
tabs are all closed are at rest. No liveness is claimed for `MutationQueue`: that
a mutation is sent in the end depends on tabs that stay open and on every single
answer under way, of which `RunnerAwake` is the safety part.

## 4. Proofs

All theorems hold for every value of the constants; TLAPS checks them with no
assumption but the `ASSUME`s on the constants (`MaxFaultsAssumption`,
`SessionAssumption`, `SocketAssumption`, `CoordinatorAssumption`,
`QueueAssumption`), which TLC evaluates in the runs.

* **`WalSync_proofs`**: `TypeCorrect`, `LogInvariant`, `NothingLost`
  (`NoEditLost`), `RowsAdvance` (`RowsOnlyAdvance`), `PendingIsCared` and
  `NothingStranded` (`NoStranded`). Losing an
  edit takes several steps (ack, mark, read by a prune, delete), so `NoEditLost`
  alone is not inductive; `WalInv` adds that the service has what is marked
  delivered, what a flush is about to mark and what a prune is about to delete.
  `NoStranded` speaks of a tab at rest; `PendingInv` says who takes care of an
  undelivered edit before that: its own `append()` that has yet to look at
  `isFlushing`, a `doFlush()` that has yet to read the rows, or one that has the
  edit in its batch. A set `isFlushing` belongs to a `doFlush()` past `ready()`,
  which is why an `append()` may rely on it, however many run at once.
* **`SyncSession_proofs`**: `SessionTypeCorrect` for every deployment; and for
  `SqlDeployment` (SQLite, no snapshot left in Worker KV, one `/initialize`)
  `SessionInvariant`, `AcksAreDurable`, `PeersAreTold`, `SocketsAreSynced`. The
  argument is the input gate: between its awaits of SQLite a handler is alone
  with the kept state (`Gated`), so the state has all that is stored
  (`DocHasAll`), the keys to be cleared are in the stored snapshot
  (`KeysApplied`), and a batch is in the log when it is acked (`BatchKept`).
  The hypotheses are needed: `session_kv_loss` drops SQLite, a `Legacy` snapshot
  brings the late load described above, and two overlapping `/initialize` store
  over each other. `SessionImplementsDurableDoc` is the refinement: initial
  states map to initial states, and every step maps to a step of `DurableDoc` or
  a stutter, by cases over the actions.
* **`ReconnectingSocket_proofs`**: `SocketInvariant`, `AttemptsNeverCompete`,
  `NoSocketOrphaned`, `CloseIsFinal`, `MessagesInOrder`,
  `HeartbeatKeepsToItsSocket`, `SocketTypeCorrect`, and `NeverStopsTrying`
  when the resolver never throws. `SocketInv` says besides the properties that a
  timer excludes a heartbeat, that an open current socket means
  `connectionState` Open and an empty buffer, and that a socket that missed too
  many pongs is closing; without the last the counter has no bound.

* **`CacheCoordinator_proofs`**: `CoordinatorInvariant`, `RequestsHaveAnOwner`
  (`InFlightHasOwner`) and `CoordinatorNeverIdle` (`NeverIdle`). `CoordInv` adds
  to the two the types of the coordinator's state and `RouteInv`: a route to an
  engine exists only in the epoch of a current owner, that owner is a registered
  tab, and so is everyone whose request waits. For these pages, engines and locks
  may do anything: the argument needs nothing of them but what the router itself
  checks. `CoordinatorTypeCorrect` (`TypeOK`) and `WipeIsNeverForgotten`
  (`RequiredWipe`) take the whole system, `CacheInvariant`. A required wipe is
  remembered in `action` alone, travels in a `become-owner` message and is done by
  an engine of whatever epoch its page has, so `RequiredWipe` is far from
  inductive; `WipeInv` says that the duty stays with `action` while no owner is
  ready (`DutyKept`), that only the elected page has the current epoch, with that
  action (`EpochsOwned`), that a `become-owner` under way is older or agrees with
  the election (`ElectionsFresh`), and that an engine of the current epoch that has
  opened the database, or has said it is ready, has done the duty (`DutyDone`). TLC
  checked `WipeInv` on the bounds of `cache_two_tabs` before it was proved.
* **`CacheRequests_proofs`**: `AskInvariant` and `EachRequestOnce`
  (`AnsweredOnce`). The property counts the places of a request that was made;
  inductive is `AskInv`, which is about every page that is live and not being
  closed: its request is in at most one of the upward port, the queue, the routes
  in flight and the downward port, at most once in each port, and in none of them
  before it was asked or after it was answered (`OnePlace`); and the page
  registers once, is a registered tab from then on, and has posted no departure
  (`Joins`), which is why no second registration and no late departure drops what
  it asked. `CacheInv` of `CacheCoordinator_proofs` is used for the rest: only
  registered tabs are queued or in flight, and nothing is in flight without an
  owner, so an election starts with empty routes.
* **`CacheProtocol_proofs`**: `ProtocolInvariant` and `NothingSurprises`
  (`NoSurprise`). The property looks at the head of each port; inductive is
  `ProtocolInv`, which is about everything in them. `Script`, of what a page is
  told: an epoch begins after those the page has had, ends after it began and only
  when it is no longer the current one, a page that is to retire has drained and
  expects nothing else (`Fits`), and conversely an engine whose epoch is over has
  a `terminate-engine` or `retire-complete` under way (`Leads`); so the head of
  the port always fits the page. `Uplink`, of what it says: it registers once, has
  gone when it navigates, and its `attach-engine-port` is of an epoch it has had,
  for which there is no route yet. `Works`, of its engine: what it is told fits
  its state (`Runs`), its state fits the coordinator's phase while its epoch is
  the current one (`Phase`), and so does what it has said and nobody has read yet
  (`Mail`); messages that outlive an engine carry the last epoch the page had
  (`Port`), so a route never leads to an older engine's messages. The order within
  a port is one relation, `InOrder`. TLC checked `ProtocolInv` on the bounds of
  `cache_two_tabs` before it was proved; the proof uses `CacheInv` and `AskInv`.
* **`MutationQueue_proofs`**: `QueueInvariant`, `TypeCorrect`, `LeasedHeadSent`
  (`SendsLeasedHead`), `HeirsExist`, `NewestKept` (`NewestIntentKept`),
  `RunnerWakes` (`RunnerAwake`) and `NoneOvertaken` (`NothingOvertaken`). None of
  the properties is inductive alone. `QueueInv` says of rows (`RowsInv`) that a
  mutation has one row, under the id it was given, that the newest intent's row is
  not superseded and that nothing behind the head was executed; of each call under
  way (`ItemInv`) that a request, or an answer that leads to one, has the head
  leased to it or a lease that has run out, and that nothing older waits in either
  case; that a settlement carries a generation no newer than the
  row's, and that what it settles has been decided by the server; of two calls
  (`Apart`) that they never carry the same generation of a lease, which is what
  makes a late settlement harmless; and of runners (`Awake`) that `attemptInFlight`
  and `drainRunning` each belong to a call whose answer resets them.

Only model-checked: liveness (outside the prover) and the Worker KV
deployments.

## 5. Left out

Wire formats, logging, telemetry, awareness, wording and authentication (the
model has its result: who may edit, who is an actor). R2 storage behaves like
Worker KV. The archive prefix `a/` and the version-vector comparison have no
effect but a log line. Worker KV is read at some moment during the get, never
older. `instantReconnect` is used by no caller; backoff delays are time. Blame
events and reports to other services are best effort. Of the cache: telemetry,
startup progress, normalization, optimistic layers, link patches, query paths
and subscriptions; ids that start again after a wipe; the rollback of a replay
that throws before it is sent (`normalized-cache-exchange.ts:792`, for a stored
document that cannot be parsed). Of the session: a broadcast that fails for one
peer (`websocket.rs:302`), whose socket is dead.

**Not modelled, and why.** The repository has some 835,000 lines; most are
generated clients and schemas, user interface, and services whose state lives in
databases and third-party systems. The models cover the two protocols in which
several parties share state without a lock; covering a large share of the
repository's lines with faithful modules is out of reach, and modules for code
without interleavings would show nothing that its tests do not.

## 6. Plan

1. Proofs: the refinement of `DurableDoc` and acknowledgements for further
   deployments of the session.
2. `SyncSource`: the other waiters, their timeouts and the buffered events,
   with the engine's generations, convergence, retries and the seeding race;
   properties: a late answer resolves no other request, every replica converges.
3. `CollabSystem`: `WalSync` over `DurableDoc` in place of its own view of the
   service; `MutationQueue` over `CacheCoordinator`, with abrupt losses.
4. `Backoff` and `RingQueue` as functions against reference definitions; a
   count of retries per disconnection.
5. The spreadsheet API and the Tauri transport; the SQLite session with a
   `Legacy` snapshot restricted to one load at a time.
