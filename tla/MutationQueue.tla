---------------------------- MODULE MutationQueue ----------------------------
(***************************************************************************)
(* Optimistic GraphQL mutations of the web app wait in a queue in the      *)
(* database of the GraphQL cache (cache-core: store.rs, engine.rs).  Each  *)
(* tab runs a client (exchange/normalized-cache-exchange.ts) that enqueues *)
(* what its user does and claims the head of the queue, under a lease, to  *)
(* send it.  A newer intent for the same subject (uuid) replaces the       *)
(* waiting one, or supersedes the one whose lease is held.                 *)
(*                                                                         *)
(* The engine serves one call at a time; calls and answers travel through  *)
(* the coordinator, and those under way when the engine moves to another   *)
(* tab are rejected although the engine may have done them.                *)
(*                                                                         *)
(* One life of the database (an abrupt loss of the engine wipes it).  A    *)
(* lease is counted from before the call that takes it, which may wait for *)
(* an owner to start, and nobody looks at its end before sending: it may   *)
(* run out under whatever it was taken for.  A request the client has      *)
(* given up, or left behind by a tab that died, may still be executed.     *)
(***************************************************************************)
EXTENDS Naturals

CONSTANTS
    Client,
    Mutation,       \* what users do, in all tabs
    Uuid,
    MaxFaults,      \* a bound on network failures and on leases that run out in use
    MaxCrashes,     \* a bound on tabs that die
    MaxMoves,       \* a bound on moves of the engine
    None

ASSUME QueueAssumption ==
    /\ MaxFaults \in Nat /\ MaxCrashes \in Nat /\ MaxMoves \in Nat
    /\ None \notin Client \cup Mutation \cup Uuid

VARIABLES
    queue,          \* the rows by their ids; the head is the one with the least id
    nextId,
    alive,
    attemptInFlight, drainRunning,
    timer,          \* drainTimer is pending
    live,           \* liveQueuedOps: mutations whose caller waits for a route
    work,           \* calls, answers and network requests under way
    \* history and bounds
    posted,         \* mutations prepareMutation() has been called for
    newest,         \* the last mutation enqueued for each uuid
    order,          \* the id of each mutation's row, 0 before it is enqueued
    executed, refused, direct,
    late,           \* requests nobody waits for that may reach the server yet
    overrun,        \* leases that ran out in use, by mutation and generation
    faults, crashes, moves

runner  == <<attemptInFlight, drainRunning, timer, live>>
outside == <<executed, refused, late, overrun>>
bounds  == <<faults, crashes, moves>>
vars    == <<queue, nextId, alive, runner, work, posted, newest, order, outside, direct,
             bounds>>

\* free: no lease; held, expired: a lease; later: backed off.
Lease == {"free", "held", "expired", "later"}
Row   == [m : Mutation, uuid : Uuid, superseded : BOOLEAN,
          owner : Client \cup {None}, gen : Nat, lease : Lease]

\* A call (posted, then done or lost) or a network request (net).
Item  == [c : Client, k : {"enqueue", "claim", "net", "discard", "commit", "defer",
                           "rollback"},
          m : Mutation \cup {None}, uuid : Uuid \cup {None}, gen : Nat,
          st : {"posted", "done", "lost"},
          \* who awaits its end: prepareMutation(), drainQueue() or only the caller
          from : {"enqueue", "drain", "caller"},
          got : Mutation \cup {None}, superseded : BOOLEAN,  \* what was claimed
          replaced : Mutation \cup {None}]

\* The type of every variable.
TypeOK ==
    /\ nextId \in Nat /\ DOMAIN queue \subseteq 1..nextId /\ queue \in [DOMAIN queue -> Row]
    /\ alive \in SUBSET Client
    /\ attemptInFlight \in [Client -> BOOLEAN] /\ drainRunning \in [Client -> BOOLEAN]
    /\ timer \in [Client -> BOOLEAN] /\ live \in [Client -> SUBSET Mutation]
    /\ work \in SUBSET Item /\ \A w \in work : w.k # "claim" => w.m \in Mutation
    /\ posted \in SUBSET Mutation /\ newest \in [Uuid -> Mutation \cup {None}]
    /\ order \in [Mutation -> Nat]
    /\ executed \in SUBSET Mutation /\ refused \in SUBSET Mutation
    /\ direct \in SUBSET Mutation
    /\ late \in SUBSET Item /\ \A w \in late : w.k = "net" /\ w.m \in Mutation
    /\ overrun \in SUBSET (Mutation \X Nat)
    /\ faults \in 0..MaxFaults /\ crashes \in 0..MaxCrashes /\ moves \in 0..MaxMoves

Init ==
    /\ queue = [i \in {} |-> None] /\ nextId = 0 /\ alive = Client
    /\ attemptInFlight = [c \in Client |-> FALSE]
    /\ drainRunning = [c \in Client |-> FALSE]
    /\ timer = [c \in Client |-> TRUE]
    /\ live = [c \in Client |-> {}] /\ work = {}
    /\ posted = {} /\ newest = [u \in Uuid |-> None]
    /\ order = [m \in Mutation |-> 0]
    /\ executed = {} /\ refused = {} /\ direct = {}
    /\ late = {} /\ overrun = {}
    /\ faults = 0 /\ crashes = 0 /\ moves = 0

-----------------------------------------------------------------------------
(* The store *)

Queued(m) == \E i \in DOMAIN queue : queue[i].m = m
IdOf(m)   == CHOOSE i \in DOMAIN queue : queue[i].m = m
Without(q, S) == [i \in DOMAIN q \ S |-> q[i]]

\* The row a new intent collides with.
Collision(u) == {i \in DOMAIN queue : queue[i].uuid = u /\ ~queue[i].superseded}

\* upsert_mutation_with_shadow(): appended behind a row whose lease is held, which
\* is superseded, or in place of one that waits.
NewRow(m, u) ==
    [m |-> m, uuid |-> u, superseded |-> FALSE, owner |-> None, gen |-> 0,
     lease |-> "free"]
Replaced(u) == {i \in Collision(u) : queue[i].lease # "held"}
Upserted_beside(m, u) ==
    [i \in (DOMAIN queue \ Replaced(u)) \cup {nextId + 1} |->
        IF i = nextId + 1 THEN NewRow(m, u) ELSE queue[i]]
Upserted(m, u) ==
    [i \in (DOMAIN queue \ Replaced(u)) \cup {nextId + 1} |->
        IF i = nextId + 1 THEN NewRow(m, u)
        ELSE [queue[i] EXCEPT !.superseded = @ \/ i \in Collision(u)]]

\* claim_next_mutation(): the head of the queue, or nothing.
First_ready(q) ==
    CHOOSE i \in DOMAIN q : \A j \in DOMAIN q :
        IF q[i].lease = "later" THEN q[j].lease = "later" /\ i <= j
        ELSE q[j].lease = "later" \/ i <= j
First(q) == CHOOSE i \in DOMAIN q : \A j \in DOMAIN q : i <= j
Claimable_leased(q) == DOMAIN q # {} /\ q[First(q)].lease # "later"
Claimable(q) == DOMAIN q # {} /\ q[First(q)].lease \in {"free", "expired"}

Leased(r, c) == [r EXCEPT !.owner = c, !.gen = @ + 1, !.lease = "held"]
Claimed(q, c) == IF Claimable(q) THEN [q EXCEPT ![First(q)] = Leased(@, c)] ELSE q

\* claim_matches(): by owner and generation, whether or not the lease has expired.
ClaimMatches(w) ==
    Queued(w.m) /\ queue[IdOf(w.m)].owner = w.c /\ queue[IdOf(w.m)].gen = w.gen

-----------------------------------------------------------------------------
(* The engine serves a posted call; its answer is under way. *)

\* Nobody hears the answer to a tab that has died.
Answer(w, a) ==
    work' = (work \ {w}) \cup IF w.c \in alive THEN {[a EXCEPT !.st = "done"]} ELSE {}
WithClaim(w, q) ==
    IF Claimable(q)
    THEN [w EXCEPT !.got = q[First(q)].m, !.gen = q[First(q)].gen + 1,
                   !.superseded = q[First(q)].superseded]
    ELSE w

\* enqueue_optimistic_mutation(): the upsert and then a claim.
EngineEnqueue(w) ==
    LET q == Upserted(w.m, w.uuid)
        gone == {queue[i].m : i \in Replaced(w.uuid)} IN
    /\ w.k = "enqueue" /\ w.st = "posted"
    /\ queue' = Claimed(q, w.c)
    /\ nextId' = nextId + 1
    /\ newest' = [newest EXCEPT ![w.uuid] = w.m]
    /\ order' = [order EXCEPT ![w.m] = nextId + 1]
    /\ Answer(w, [WithClaim(w, q) EXCEPT
                    !.replaced = IF gone = {} THEN None ELSE CHOOSE m \in gone : TRUE])
    /\ UNCHANGED <<alive, runner, posted, outside, direct, bounds>>

EngineClaim(w) ==
    /\ w.k = "claim" /\ w.st = "posted"
    /\ queue' = Claimed(queue, w.c)
    /\ Answer(w, WithClaim(w, queue))
    /\ UNCHANGED <<nextId, alive, runner, posted, newest, order, outside, direct, bounds>>

\* commit_optimistic_write(), rollback_optimistic_write(), and
\* defer_optimistic_write(), which discards a superseded row; a claim that does not
\* match is refused.
Settled_byUuid(w) ==
    Without(queue, {i \in DOMAIN queue : queue[i].uuid = queue[IdOf(w.m)].uuid})
Settled(w) ==
    IF w.k = "defer" /\ ~queue[IdOf(w.m)].superseded
    THEN [queue EXCEPT ![IdOf(w.m)] = [@ EXCEPT !.owner = None, !.lease = "later"]]
    ELSE Without(queue, {IdOf(w.m)})

EngineSettle(w) ==
    /\ w.k \in {"commit", "rollback", "defer", "discard"} /\ w.st = "posted"
    /\ queue' = IF ClaimMatches(w) THEN Settled(w) ELSE queue
    /\ Answer(w, w)
    /\ UNCHANGED <<nextId, alive, runner, posted, newest, order, outside, direct, bounds>>

\* The engine moves to another tab without a loss; calls it had not answered are
\* rejected.
EngineMoves ==
    /\ moves < MaxMoves
    /\ moves' = moves + 1
    /\ \E L \in SUBSET {w \in work : w.k # "net" /\ w.st # "lost"} :
        /\ L # {}
        /\ work' = (work \ L) \cup {[w EXCEPT !.st = "lost"] : w \in {v \in L : v.c \in alive}}
    /\ UNCHANGED <<queue, nextId, alive, runner, posted, newest, order, outside, direct,
                   faults, crashes>>

\* Time passes: a lease runs out, also in use (which costs a fault); a back-off ends.
Holds(w, r) ==
    /\ w.c = r.owner /\ w.gen = r.gen
    /\ r.m = IF w.k \in {"enqueue", "claim"} THEN w.got ELSE w.m
LeaseExpires ==
    \E i \in DOMAIN queue :
        /\ queue[i].lease = "held"
        /\ IF \E w \in work : Holds(w, queue[i])
           THEN /\ faults < MaxFaults
                /\ faults' = faults + 1
                /\ overrun' = overrun \cup {<<queue[i].m, queue[i].gen>>}
           ELSE UNCHANGED <<faults, overrun>>
        /\ queue' = [queue EXCEPT ![i] = [@ EXCEPT !.lease = "expired"]]
        /\ UNCHANGED <<nextId, alive, runner, work, posted, newest, order, executed, refused,
                       late, direct, crashes, moves>>
BackoffEnds ==
    \E i \in DOMAIN queue :
        /\ queue[i].lease = "later"
        /\ queue' = [queue EXCEPT ![i] = [@ EXCEPT !.lease = "free"]]
        /\ UNCHANGED <<nextId, alive, runner, work, posted, newest, order, outside, direct,
                       bounds>>

-----------------------------------------------------------------------------
(* The client *)

Call(c, k, m, u, g, f) ==
    [c |-> c, k |-> k, m |-> m, uuid |-> u, gen |-> g, st |-> "posted", from |-> f,
     got |-> None, superseded |-> FALSE, replaced |-> None]

\* prepareMutation(): the enqueue is posted.
PrepareMutation(c, m, u) ==
    /\ c \in alive /\ m \notin posted
    /\ posted' = posted \cup {m}
    /\ work' = work \cup {Call(c, "enqueue", m, u, 0, "enqueue")}
    /\ UNCHANGED <<queue, nextId, alive, runner, newest, order, outside, direct, bounds>>

Schedule(c) == timer' = [timer EXCEPT ![c] = TRUE]

\* resolveLiveOperationsAsQueued()
Release(c) == live' = [live EXCEPT ![c] = {}]
DrainEnds(w) == drainRunning' = [drainRunning EXCEPT ![w.c] = @ /\ w.from # "drain"]

\* The timer fires, drainQueue(): it does nothing beside an attempt or another
\* drain.
DrainQueue(c) ==
    /\ c \in alive /\ timer[c]
    /\ timer' = [timer EXCEPT ![c] = FALSE]
    /\ \/ /\ attemptInFlight[c]
          /\ Release(c)
          /\ UNCHANGED <<drainRunning, work>>
       \/ /\ ~attemptInFlight[c] /\ drainRunning[c]
          /\ UNCHANGED <<live, drainRunning, work>>
       \/ /\ ~attemptInFlight[c] /\ ~drainRunning[c]
          /\ drainRunning' = [drainRunning EXCEPT ![c] = TRUE]
          /\ work' = work \cup {Call(c, "claim", None, None, 0, "drain")}
          /\ UNCHANGED live
    /\ UNCHANGED <<queue, nextId, alive, attemptInFlight, posted, newest, order, outside, direct,
                   bounds>>

\* routeClaimedMutation(): what was superseded is discarded; the operation of a
\* waiting caller is sent; otherwise the row is replayed, and whoever claimed waits
\* for the result before the callers L are released.
RouteClaimed(w, L) ==
    LET next(k, f) == work' = (work \ {w}) \cup {Call(w.c, k, w.got, None, w.gen, f)} IN
    \/ /\ w.superseded
       /\ next("discard", w.from)
       /\ live' = [live EXCEPT ![w.c] = L]
       /\ UNCHANGED <<attemptInFlight, drainRunning>>
    \/ /\ ~w.superseded
       /\ attemptInFlight' = [attemptInFlight EXCEPT ![w.c] = TRUE]
       /\ \/ /\ w.got \in L
             /\ next("net", "caller")
             /\ Release(w.c)
             /\ DrainEnds(w)
          \/ /\ w.got \notin L
             /\ next("net", w.from)
             /\ live' = [live EXCEPT ![w.c] = L]
             /\ UNCHANGED drainRunning

\* prepareMutation() goes on: the caller of a replaced mutation is released.
EnqueueReturns(w) ==
    /\ w.k = "enqueue" /\ w.st = "done"
    /\ \/ /\ w.got # None
          /\ RouteClaimed(w, (live[w.c] \ {w.replaced}) \cup {w.m})
          /\ UNCHANGED timer
       \/ /\ w.got = None
          /\ Release(w.c)
          /\ Schedule(w.c)
          /\ work' = work \ {w}
          /\ UNCHANGED <<attemptInFlight, drainRunning>>
    /\ UNCHANGED <<queue, nextId, alive, posted, newest, order, outside, direct, bounds>>

\* prepareMutation() fails: the operation is forwarded to the network (linkPatches
\* is empty).
EnqueueFails(w) ==
    /\ w.k = "enqueue" /\ w.st = "lost"
    /\ direct' = direct \cup {w.m}
    /\ work' = work \ {w}
    /\ UNCHANGED <<queue, nextId, alive, runner, posted, newest, order, outside, bounds>>

\* drainQueue() goes on.
ClaimReturns_unchecked(w) ==
    /\ w.k = "claim" /\ w.st # "posted"
    /\ \/ /\ w.st = "done"
          /\ RouteClaimed(w, live[w.c])
          /\ UNCHANGED timer
       \/ /\ w.st = "lost"
          /\ Release(w.c)
          /\ Schedule(w.c)
          /\ DrainEnds(w)
          /\ work' = work \ {w}
          /\ UNCHANGED attemptInFlight
    /\ UNCHANGED <<queue, nextId, alive, posted, newest, order, outside, direct, bounds>>
ClaimReturns(w) ==
    /\ w.k = "claim" /\ w.st # "posted"
    /\ \/ /\ w.st = "done" /\ w.got # None
          /\ RouteClaimed(w, live[w.c])
          /\ UNCHANGED timer
       \/ /\ w.st = "lost" \/ w.got = None
          /\ Release(w.c)
          /\ Schedule(w.c)
          /\ DrainEnds(w)
          /\ work' = work \ {w}
          /\ UNCHANGED attemptInFlight
    /\ UNCHANGED <<queue, nextId, alive, posted, newest, order, outside, direct, bounds>>

\* The network and the server: the reply, a failure, or the server's refusal.
\* writeThrough() settles accordingly.  What has failed here (cut off after a minute)
\* may be executed later, or may have been.
Replies(w, k) ==
    /\ w.k = "net" /\ w.c \in alive
    /\ work' = (work \ {w}) \cup {[w EXCEPT !.k = k]}
    /\ UNCHANGED <<queue, nextId, alive, runner, posted, newest, order, overrun, direct,
                   crashes, moves>>
Succeeds(w) ==
    /\ Replies(w, "commit")
    /\ executed' = executed \cup {w.m}
    /\ UNCHANGED <<refused, late, faults>>
Fails(w) ==
    /\ faults < MaxFaults
    /\ faults' = faults + 1
    /\ Replies(w, "defer")
    /\ late' = late \cup {w}
    /\ UNCHANGED <<executed, refused>>
IsRefused(w) ==
    /\ Replies(w, "rollback")
    /\ refused' = refused \cup {w.m}
    /\ UNCHANGED <<executed, late, faults>>

\* The server executes a request that nobody waits for; once more would change nothing
\* here.
ExecutedLate ==
    \E w \in late :
        /\ w.m \notin executed
        /\ executed' = executed \cup {w.m}
        /\ UNCHANGED <<queue, nextId, alive, runner, work, posted, newest, order, refused, late,
                       overrun, direct, bounds>>

\* writeThrough() and whoever awaits it go on, alike whether the settlement was
\* done, refused or lost.
SettleReturns_unscheduled(w) ==
    /\ w.k \in {"commit", "rollback", "defer"} /\ w.st # "posted"
    /\ attemptInFlight' = [attemptInFlight EXCEPT ![w.c] = FALSE]
    /\ UNCHANGED timer
    /\ work' = work \ {w}
    /\ \/ /\ w.from = "caller"
          /\ live' = [live EXCEPT ![w.c] = @ \ {w.m}]
       \/ /\ w.from # "caller"
          /\ Release(w.c)
    /\ DrainEnds(w)
    /\ UNCHANGED <<queue, nextId, alive, posted, newest, order, outside, direct, bounds>>
SettleReturns(w) ==
    /\ w.k \in {"commit", "rollback", "defer"} /\ w.st # "posted"
    /\ attemptInFlight' = [attemptInFlight EXCEPT ![w.c] = FALSE]
    /\ Schedule(w.c)
    /\ work' = work \ {w}
    /\ \/ /\ w.from = "caller"
          /\ live' = [live EXCEPT ![w.c] = @ \ {w.m}]
       \/ /\ w.from # "caller"
          /\ Release(w.c)
    /\ DrainEnds(w)
    /\ UNCHANGED <<queue, nextId, alive, posted, newest, order, outside, direct, bounds>>

DiscardReturns(w) ==
    /\ w.k = "discard" /\ w.st # "posted"
    /\ Release(w.c)
    /\ Schedule(w.c)
    /\ DrainEnds(w)
    /\ work' = work \ {w}
    /\ UNCHANGED <<queue, nextId, alive, attemptInFlight, posted, newest, order, outside, direct,
                   bounds>>

\* The tab dies, and does not wait for its requests any more.
Crash(c) ==
    /\ crashes < MaxCrashes /\ c \in alive
    /\ crashes' = crashes + 1
    /\ alive' = alive \ {c}
    /\ work' = {w \in work : w.c = c => w.k # "net" /\ w.st = "posted"}
    /\ late' = late \cup {w \in work : w.c = c /\ w.k = "net"}
    /\ UNCHANGED <<queue, nextId, runner, posted, newest, order, executed, refused, overrun,
                   direct, faults, moves>>

-----------------------------------------------------------------------------
EngineServes == \E w \in work : EngineEnqueue(w) \/ EngineClaim(w) \/ EngineSettle(w)
Returns ==
    \E w \in work :
        \/ EnqueueReturns(w) \/ EnqueueFails(w) \/ ClaimReturns(w)
        \/ SettleReturns(w) \/ DiscardReturns(w)
Network == \E w \in work : Succeeds(w) \/ Fails(w) \/ IsRefused(w)

Next ==
    \/ \E c \in Client : \/ DrainQueue(c) \/ Crash(c)
                         \/ \E m \in Mutation, u \in Uuid : PrepareMutation(c, m, u)
    \/ EngineServes \/ Returns \/ Network
    \/ EngineMoves \/ LeaseExpires \/ BackoffEnds \/ ExecutedLate

Spec == Init /\ [][Next]_vars

-----------------------------------------------------------------------------
\* A request whose lease has not run out is for the head of the queue, leased to this
\* very attempt: two requests of the queue overlap only once a lease has run out.
SendsLeasedHead ==
    \A w \in work : w.k = "net" /\ <<w.m, w.gen>> \notin overrun =>
        /\ DOMAIN queue # {} /\ queue[First(queue)].m = w.m
        /\ queue[First(queue)].owner = w.c /\ queue[First(queue)].gen = w.gen
        /\ queue[First(queue)].lease = "held"

\* Nothing waits in the queue that something enqueued behind it has overtaken: what
\* the server has executed, and what is on the way to it or may reach it late, came
\* before every row or is the head's own.  So a mutation executed after a later one
\* has left the queue before: it was settled or replaced.
NothingOvertaken ==
    \A i \in DOMAIN queue :
        /\ \A m \in executed : order[m] <= i
        /\ \A w \in work \cup late : w.k = "net" => order[w.m] <= i

\* Every superseded row has a later row for the same uuid, one row of a uuid at most
\* is not superseded, and only the head may be leased.
HeirExists ==
    /\ \A i \in DOMAIN queue : queue[i].superseded =>
         \E j \in DOMAIN queue : j > i /\ queue[j].uuid = queue[i].uuid
                                     /\ ~queue[j].superseded
    /\ \A i, j \in DOMAIN queue :
         queue[i].uuid = queue[j].uuid /\ ~queue[i].superseded /\ ~queue[j].superseded => i = j
    /\ \A i, j \in DOMAIN queue : i < j => queue[j].lease = "free" /\ queue[j].owner = None

\* The newest intent for a uuid stays in the queue until the server has executed or
\* refused it: no replacement, supersession, late or repeated settlement drops it.
NewestIntentKept ==
    \A u \in Uuid : newest[u] # None =>
        Queued(newest[u]) \/ newest[u] \in executed \cup refused

\* The runner of a live tab always has something that wakes it.
RunnerAwake ==
    \A c \in alive : timer[c] \/ \E w \in work : w.c = c /\ w.k # "enqueue"

\* A mutation forwarded because it could not be enqueued is not sent by the queue.
ForwardedOnce == direct \cap executed = {}
=============================================================================
