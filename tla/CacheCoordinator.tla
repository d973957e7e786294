-------------------------- MODULE CacheCoordinator --------------------------
(***************************************************************************)
(* The GraphQL cache of the web app has one database (Turso over OPFS) for *)
(* all tabs.  A coordinator in a SharedWorker (worker/coordinator-core.ts, *)
(* coordinator-router.ts) elects one tab as the owner of each epoch; the   *)
(* owner's page (coordinator-page-adapter.ts) spawns an engine in a        *)
(* DedicatedWorker (cache-engine-runtime.ts) that opens the database and   *)
(* answers the requests of every tab.  Owners come and go: they drain,     *)
(* navigate away, hang, fail or die, and the coordinator elects the next.  *)
(*                                                                         *)
(* Pages, engines and the coordinator exchange messages over ports, each a *)
(* queue; messages in a port outlive their sender.  A page holds a Web     *)
(* Lock while it lives, and its release reaches the coordinator in no      *)
(* order with the page's messages.  An engine holds the owner lock of the  *)
(* database from before it opens it.                                       *)
(*                                                                         *)
(* One life of the SharedWorker; each tab registers once and asks once.    *)
(* The order in which tabs registered is left out: any eligible tab may be *)
(* elected, but the one just lost only if there is no other.               *)
(***************************************************************************)
EXTENDS Naturals, Sequences, FiniteSets

CONSTANTS
    Tab,
    RetryLimit,     \* RECOVERY_RETRY_LIMIT
    MaxFaults,      \* a bound on crashes, hangs, failures and false alarms
    MaxClosing,     \* a bound on the pages that go
    None            \* no tab

ASSUME CoordinatorAssumption ==
    /\ RetryLimit \in Nat \ {0}
    /\ MaxFaults \in Nat /\ MaxClosing \in Nat
    /\ None \notin Tab

VARIABLES
    \* CoordinatorCore
    kind,           \* the kind of its state
    owner, epoch,   \* of the current or the last election
    action,         \* databaseAction: "open" an existing database or "wipe" it
    granted,        \* the phase is opening-database: the owner may touch it
    tabs, retiring,
    queue,          \* tabs whose request waits for an owner
    inFlight,       \* <<tab, epoch>> of the requests routed to an engine
    \* CoordinatorRouter
    pending,        \* pendingRegistrations: lock probes under way
    route,          \* the epoch of engineRoute, 0 if there is none
    attempts,       \* recoveryAttemptCount
    resume,         \* resumeAfterLoss() is due: "no", "soon" (a microtask), "later"
    \* pages
    page, own,      \* state and ownerEpoch (0: none)
    ended,          \* terminatedOwnerEpochs
    alive,          \* tabs whose liveness lock is held
    \* engines, named after the page that spawned them
    eng, act, admitted,
    holder,         \* whose engine holds the owner lock
    \* ports: page to coordinator and back, engine to coordinator and back
    up, down, eup, edown,
    \* history and bounds
    must,           \* an owner was lost after the grant, nobody has wiped since
    asked, answers, faults

core    == <<kind, owner, epoch, action, granted, tabs, retiring, queue, inFlight>>
router  == <<pending, route, attempts, resume>>
pages   == <<page, own, ended, alive>>
engines == <<eng, act, admitted, holder>>
eports  == <<eup, edown>>
history == <<asked, answers>>
vars    == <<core, router, pages, engines, up, down, eports, must, history, faults>>

Kind    == {"waiting", "activating", "active", "draining", "resetting", "failed"}
Action  == {"open", "wipe"}
Page    == {"off", "starting", "on", "leaving", "closed"}
Engine  == {"none", "loading", "assets", "granted", "opening", "ready",
            "draining", "drained", "failed", "hung"}

Message == [kind : {"register", "request", "attach", "graceful", "navigate",
                    "lost", "disconnect",
                    "registered", "become", "answer", "terminate", "retire",
                    "terminal",
                    "assets", "ready", "response", "drained", "fatal",
                    "open", "drain"},
            epoch : Nat, act : Action, of : SUBSET Tab]

Msg(k, e) == [kind |-> k, epoch |-> e, act |-> "open", of |-> {}]

CoreTypes ==
    /\ kind \in Kind /\ owner \in Tab \cup {None} /\ epoch \in Nat
    /\ action \in Action /\ granted \in BOOLEAN
    /\ tabs \in SUBSET Tab /\ retiring \in SUBSET Tab
    /\ queue \in SUBSET Tab /\ inFlight \in SUBSET (Tab \X Nat)
    /\ pending \in SUBSET Tab /\ route \in Nat
    /\ attempts \in 0..RetryLimit
    /\ resume \in {"no", "soon", "later"}
PageTypes ==
    /\ page \in [Tab -> Page] /\ own \in [Tab -> Nat]
    /\ ended \in [Tab -> SUBSET Nat] /\ alive \in SUBSET Tab
    /\ eng \in [Tab -> Engine] /\ act \in [Tab -> Action]
    /\ admitted \in [Tab -> SUBSET Tab] /\ holder \in Tab \cup {None}
    /\ must \in BOOLEAN
    /\ asked \in SUBSET Tab /\ answers \in [Tab -> Nat]
    /\ faults \in 0..MaxFaults
PortTypes ==
    /\ up \in [Tab -> Seq(Message)] /\ down \in [Tab -> Seq(Message)]
    /\ eup \in [Tab -> Seq(Message)] /\ edown \in [Tab -> Seq(Message)]

\* The type of every variable.
TypeOK == CoreTypes /\ PageTypes /\ PortTypes

Init ==
    /\ kind = "waiting" /\ owner = None /\ epoch = 0
    /\ action = "open" /\ granted = FALSE
    /\ tabs = {} /\ retiring = {} /\ queue = {} /\ inFlight = {}
    /\ pending = {} /\ route = 0 /\ attempts = 0 /\ resume = "no"
    /\ page = [t \in Tab |-> "off"] /\ own = [t \in Tab |-> 0]
    /\ ended = [t \in Tab |-> {}] /\ alive = {}
    /\ eng = [t \in Tab |-> "none"] /\ act = [t \in Tab |-> "open"]
    /\ admitted = [t \in Tab |-> {}] /\ holder = None
    /\ up = [t \in Tab |-> <<>>] /\ down = [t \in Tab |-> <<>>]
    /\ eup = [t \in Tab |-> <<>>] /\ edown = [t \in Tab |-> <<>>]
    /\ must = FALSE
    /\ asked = {} /\ answers = [t \in Tab |-> 0]
    /\ faults = 0

Fault == faults < MaxFaults /\ faults' = faults + 1

-----------------------------------------------------------------------------
(* The page adapter *)

Live(t) == page[t] \in {"starting", "on", "leaving"}

\* postCoordinator().
Send(t, m) == up' = [up EXCEPT ![t] = Append(@, m)]

\* terminateEngine(): the worker is gone, and with it its hold on the database.
EngineGone(t) ==
    /\ eng' = [eng EXCEPT ![t] = "none"]
    /\ admitted' = [admitted EXCEPT ![t] = {}]
    /\ edown' = [edown EXCEPT ![t] = <<>>]
    /\ holder' = IF holder = t THEN None ELSE holder
    /\ UNCHANGED <<act, eup>>

\* terminateEngine() remembers the epochs it ended.
OwnerGone_forgets(t) ==
    /\ own' = [own EXCEPT ![t] = 0]
    /\ UNCHANGED ended
OwnerGone(t) ==
    /\ ended' = [ended EXCEPT ![t] = IF own[t] = 0 THEN @ ELSE @ \cup {own[t]}]
    /\ own' = [own EXCEPT ![t] = 0]

\* finishDispose(), failTerminal(): the port is closed, the liveness lock
\* released, the engine terminated.
ClosePage(t) ==
    /\ page' = [page EXCEPT ![t] = "closed"]
    /\ alive' = alive \ {t}
    /\ down' = [down EXCEPT ![t] = <<>>]
    /\ OwnerGone(t)
    /\ EngineGone(t)

\* start() and connect(): the liveness lock first, then the registration.
Start(t) ==
    /\ page[t] = "off"
    /\ page' = [page EXCEPT ![t] = "starting"]
    /\ alive' = alive \cup {t}
    /\ Send(t, Msg("register", 0))
    /\ UNCHANGED <<core, router, own, ended, engines, down, eports, must, history,
                   faults>>

\* postMessage(): kept in the page until it is registered.
Ask(t) ==
    /\ Live(t) /\ t \notin asked
    /\ asked' = asked \cup {t}
    /\ up' = IF page[t] = "starting" THEN up
             ELSE [up EXCEPT ![t] = Append(@, Msg("request", 0))]
    /\ UNCHANGED <<core, router, pages, engines, down, eports, must, answers,
                   faults>>

MayClose(t) ==
    Cardinality({s \in Tab \ {t} : page[s] \in {"leaving", "closed"}}) < MaxClosing

\* dispose({graceful}) of an owner: it asks for a drain.
DisposeGracefully(t) ==
    /\ page[t] = "on" /\ own[t] # 0 /\ MayClose(t)
    /\ page' = [page EXCEPT ![t] = "leaving"]
    /\ Send(t, Msg("graceful", own[t]))
    /\ UNCHANGED <<core, router, own, ended, alive, engines, down, eports, must,
                   history, faults>>

\* The drain took ten seconds.
GracefulTimeout(t) ==
    /\ page[t] = "leaving"
    /\ Send(t, Msg("disconnect", 0))
    /\ ClosePage(t)
    /\ UNCHANGED <<core, router, must, history, faults>>

\* dispose() without grace, or of a page that owns no engine.
Dispose(t) ==
    /\ Live(t) /\ MayClose(t)
    /\ Send(t, Msg("disconnect", 0))
    /\ ClosePage(t)
    /\ UNCHANGED <<core, router, must, history, faults>>

\* pagehide, departForNavigation(): the owner announces that it goes.
Navigate(t) ==
    /\ page[t] \in {"on", "leaving"} /\ own[t] # 0 /\ MayClose(t)
    /\ Send(t, Msg("navigate", own[t]))
    /\ ClosePage(t)
    /\ UNCHANGED <<core, router, must, asked, answers, faults>>

\* The tab is killed.
TabCrash(t) ==
    /\ Live(t)
    /\ Fault
    /\ ClosePage(t)
    /\ UNCHANGED <<core, router, up, must, history>>

\* worker.onerror: the engine is terminated and reported lost; while the page
\* waits for a drain it fails instead.
WorkerError(t) ==
    /\ page[t] \in {"on", "leaving"} /\ eng[t] \notin {"none", "drained"}
    /\ Fault
    /\ IF page[t] = "leaving"
       THEN ClosePage(t) /\ UNCHANGED up
       ELSE /\ Send(t, Msg("lost", own[t]))
            /\ OwnerGone(t)
            /\ EngineGone(t)
            /\ UNCHANGED <<page, alive, down>>
    /\ UNCHANGED <<core, router, must, history>>

\* handleCoordinatorMessage()
Hear(t, k) == Live(t) /\ down[t] # <<>> /\ Head(down[t]).kind = k
Heard(t)   == down' = [down EXCEPT ![t] = Tail(@)]

HearRegistered(t) ==
    /\ Hear(t, "registered")
    /\ Heard(t)
    /\ page' = [page EXCEPT ![t] = "on"]
    /\ up' = IF t \in asked THEN [up EXCEPT ![t] = Append(@, Msg("request", 0))]
             ELSE up
    /\ UNCHANGED <<core, router, own, ended, alive, engines, eports, must, history,
                   faults>>

\* become-owner and spawnEngine(), for a page that has no engine and an epoch it
\* has not seen.
HearBecome(t) ==
    LET m == Head(down[t]) IN
    /\ Hear(t, "become")
    /\ own[t] = 0 /\ \A e \in ended[t] : e < m.epoch
    /\ Heard(t)
    /\ own' = [own EXCEPT ![t] = m.epoch]
    /\ eng' = [eng EXCEPT ![t] = "loading"]
    /\ act' = [act EXCEPT ![t] = m.act]
    /\ eup' = [eup EXCEPT ![t] = <<>>]
    /\ Send(t, Msg("attach", m.epoch))
    /\ UNCHANGED <<core, router, page, ended, alive, admitted, holder, edown, must,
                   history, faults>>

\* terminate-engine, for the engine there is or one terminated already.
HearTerminate(t) ==
    LET m == Head(down[t]) IN
    /\ Hear(t, "terminate")
    /\ Heard(t)
    /\ \/ /\ own[t] = m.epoch
          /\ OwnerGone(t)
          /\ EngineGone(t)
       \/ /\ own[t] # m.epoch /\ m.epoch \in ended[t]
          /\ UNCHANGED <<own, ended, engines, eports>>
    /\ UNCHANGED <<core, router, page, alive, up, must, history, faults>>

\* retire-complete: the drained owner disposes of itself.
HearRetire(t) ==
    /\ Hear(t, "retire")
    /\ own[t] = Head(down[t]).epoch
    /\ ClosePage(t)
    /\ UNCHANGED <<core, router, up, must, history, faults>>

HearAnswer(t) ==
    /\ Hear(t, "answer")
    /\ Heard(t)
    /\ answers' = [answers EXCEPT ![t] = @ + 1]
    /\ UNCHANGED <<core, router, pages, engines, up, eports, must, asked,
                   faults>>

HearTerminal(t) ==
    /\ Hear(t, "terminal")
    /\ ClosePage(t)
    /\ UNCHANGED <<core, router, up, must, history, faults>>

-----------------------------------------------------------------------------
(* The engine runtime *)

Tell(t, m)   == eup' = [eup EXCEPT ![t] = Append(@, m)]
Become(t, s) == eng' = [eng EXCEPT ![t] = s]
EngineHears(t, k) == edown[t] # <<>> /\ Head(edown[t]).kind = k
EngineHeard(t)    == edown' = [edown EXCEPT ![t] = Tail(@)]
quiet == <<core, router, pages, up, down, history>>

\* prepare(): the assets are loaded and the grant is awaited.
EngineAssets(t) ==
    /\ eng[t] = "loading"
    /\ Become(t, "assets")
    /\ Tell(t, Msg("assets", own[t]))
    /\ UNCHANGED <<quiet, act, admitted, holder, edown, must, faults>>

EngineGranted(t) ==
    /\ eng[t] = "assets" /\ EngineHears(t, "open")
    /\ Become(t, "granted")
    /\ EngineHeard(t)
    /\ UNCHANGED <<quiet, act, admitted, holder, eup, must, faults>>

\* The engine the coordinator counts on.
Current(t) ==
    /\ kind \in {"activating", "active", "draining"}
    /\ owner = t /\ own[t] = epoch

\* initializeCore(): the owner lock, then the wipe if one is due, then the open.
EngineLocks(t) ==
    /\ eng[t] = "granted"
    /\ holder = None
    /\ holder' = t
    /\ Become(t, "opening")
    /\ must' = (must /\ ~(act[t] = "wipe" /\ Current(t)))
    /\ UNCHANGED <<quiet, act, admitted, eports, faults>>

EngineReady(t) ==
    /\ eng[t] = "opening"
    /\ Become(t, "ready")
    /\ Tell(t, Msg("ready", own[t]))
    /\ UNCHANGED <<quiet, act, admitted, holder, edown, must, faults>>

\* activation-failed, engine-fatal.
EngineFails(t) ==
    /\ eng[t] \in {"loading", "assets", "granted", "opening", "ready", "draining"}
    /\ Fault
    /\ Become(t, "failed")
    /\ Tell(t, Msg("fatal", own[t]))
    /\ UNCHANGED <<quiet, act, admitted, holder, edown, must>>

\* The worker does not come back from what it does.
EngineHangs(t) ==
    /\ eng[t] \in {"loading", "granted", "opening", "ready", "draining"}
    /\ Fault
    /\ Become(t, "hung")
    /\ UNCHANGED <<quiet, act, admitted, holder, eports, must>>

\* admitRequest().
EngineAdmits(t) ==
    /\ eng[t] = "ready" /\ EngineHears(t, "request")
    /\ admitted' = [admitted EXCEPT ![t] = @ \cup Head(edown[t]).of]
    /\ EngineHeard(t)
    /\ UNCHANGED <<quiet, eng, act, holder, eup, must, faults>>

EngineResponds(t, r) ==
    /\ eng[t] \in {"ready", "draining"} /\ r \in admitted[t]
    /\ admitted' = [admitted EXCEPT ![t] = @ \ {r}]
    /\ Tell(t, [Msg("response", own[t]) EXCEPT !.of = {r}])
    /\ UNCHANGED <<quiet, eng, act, holder, edown, must, faults>>

EngineDrains(t) ==
    /\ eng[t] = "ready" /\ EngineHears(t, "drain")
    /\ Become(t, "draining")
    /\ EngineHeard(t)
    /\ UNCHANGED <<quiet, act, admitted, holder, eup, must, faults>>

\* Every admitted request is answered; drain() closes the database.
EngineDrained(t) ==
    /\ eng[t] = "draining" /\ admitted[t] = {}
    /\ Become(t, "drained")
    /\ holder' = None
    /\ Tell(t, Msg("drained", own[t]))
    /\ UNCHANGED <<quiet, act, admitted, edown, must, faults>>
-----------------------------------------------------------------------------
(* The coordinator's state machine and its router *)

\* A microtask runs before the next message or timer.
Idle == resume # "soon"

\* postToTab(): what a closed page is sent is lost.
Post(T, new) ==
    down' = [t \in Tab |-> IF t \in T /\ Live(t) THEN down[t] \o new[t] ELSE down[t]]
Nothing == [t \in Tab |-> <<>>]

\* sendToEngine(): what a terminated engine is sent is lost.
ToEngine(m) ==
    edown' = IF own[owner] = epoch THEN [edown EXCEPT ![owner] = Append(@, m)]
             ELSE edown

Routed == {r \in Tab : <<r, epoch>> \in inFlight}
If(b, m) == IF b THEN <<m>> ELSE <<>>

\* chooseCandidate().
Candidates_avoids(T, avoid) == (T \ retiring) \ {avoid}
Candidates(T, avoid) ==
    LET E == T \ retiring IN IF E \subseteq {avoid} THEN E ELSE E \ {avoid}

\* activateNext() and elect-owner, or nobody is there; first[t] is what the
\* router posts to t before.
Activate(T, avoid, a, R, first) ==
    /\ action' = a
    /\ granted' = FALSE
    /\ \/ /\ Candidates(T, avoid) = {}
          /\ kind' = "waiting"
          /\ Post(R, first)
          /\ UNCHANGED <<owner, epoch>>
       \/ \E c \in Candidates(T, avoid) :
            /\ kind' = "activating"
            /\ owner' = c
            /\ epoch' = epoch + 1
            /\ Post(R, [t \in Tab |-> first[t] \o
                         If(t = c, [Msg("become", epoch + 1) EXCEPT !.act = a])])

\* removeTabRecord(), drop-tab.
Remove(t) ==
    /\ tabs' = tabs \ {t}
    /\ retiring' = retiring \ {t}
    /\ queue' = queue \ {t}

IsOwner(t, e) ==
    kind \in {"activating", "active", "draining"} /\ owner = t /\ epoch = e

\* transitionToAbruptLoss(): the requests of the epoch are rejected, the engine
\* route is closed, and a database that may have been touched must be wiped.
\* scheduleResetActivation(): at once, later, or never again.
LoseOwner_oneMore(t, gone) ==
    LET untouched == kind = "activating" /\ ~granted
        giveUp == attempts > RetryLimit IN
    /\ Post(tabs, [s \in Tab |->
            If(s = t, Msg("terminate", epoch))
            \o If(s \in Routed /\ ~(gone /\ s = t), Msg("answer", 0))
            \o If(giveUp /\ ~(gone /\ s = t), Msg("terminal", 0))])
    /\ kind' = IF giveUp THEN "failed" ELSE "resetting"
    /\ action' = IF untouched THEN action ELSE "wipe"
    /\ must' = (must \/ ~untouched)
    /\ granted' = FALSE
    /\ route' = 0
    /\ inFlight' = IF giveUp THEN {} ELSE {p \in inFlight : p[2] # epoch}
    /\ attempts' = IF giveUp THEN attempts ELSE attempts + 1
    /\ resume' = IF giveUp THEN "no" ELSE IF attempts = 0 THEN "soon" ELSE "later"
    /\ IF gone
       THEN /\ tabs' = tabs \ {t} /\ retiring' = retiring \ {t}
            /\ queue' = IF giveUp THEN {} ELSE queue \ {t}
       ELSE /\ queue' = IF giveUp THEN {} ELSE queue
            /\ UNCHANGED <<tabs, retiring>>
    /\ UNCHANGED <<owner, epoch>>
LoseOwner(t, gone) ==
    LET untouched == kind = "activating" /\ ~granted
        giveUp == attempts >= RetryLimit IN
    /\ Post(tabs, [s \in Tab |->
            If(s = t, Msg("terminate", epoch))
            \o If(s \in Routed /\ ~(gone /\ s = t), Msg("answer", 0))
            \o If(giveUp /\ ~(gone /\ s = t), Msg("terminal", 0))])
    /\ kind' = IF giveUp THEN "failed" ELSE "resetting"
    /\ action' = IF untouched THEN action ELSE "wipe"
    /\ must' = (must \/ ~untouched)
    /\ granted' = FALSE
    /\ route' = 0
    /\ inFlight' = IF giveUp THEN {} ELSE {p \in inFlight : p[2] # epoch}
    /\ attempts' = IF giveUp THEN attempts ELSE attempts + 1
    /\ resume' = IF giveUp THEN "no" ELSE IF attempts = 0 THEN "soon" ELSE "later"
    /\ IF gone
       THEN /\ tabs' = tabs \ {t} /\ retiring' = retiring \ {t}
            /\ queue' = IF giveUp THEN {} ELSE queue \ {t}
       ELSE /\ queue' = IF giveUp THEN {} ELSE queue
            /\ UNCHANGED <<tabs, retiring>>
    /\ UNCHANGED <<owner, epoch>>

\* resumeAfterLoss().
Resume ==
    /\ resume # "no"
    /\ resume' = "no"
    /\ kind = "resetting"
    /\ Activate(tabs, owner, action, tabs, Nothing)
    /\ UNCHANGED <<tabs, retiring, queue, inFlight, pending, route, attempts, pages,
                   engines, up, eports, must, history, faults>>

\* failOwner(), loseTab().
FailOwner(t, e) ==
    /\ IsOwner(t, e)
    /\ LoseOwner(t, FALSE)

LoseTab_keepsRequests(t) ==
    \/ /\ IsOwner(t, epoch)
       /\ LoseOwner(t, TRUE)
    \/ /\ ~IsOwner(t, epoch)
       /\ Remove(t)
       /\ UNCHANGED <<inFlight, kind, owner, epoch, action, granted, route, attempts, resume,
                      down, must>>
LoseTab(t) ==
    \/ /\ IsOwner(t, epoch)
       /\ LoseOwner(t, TRUE)
    \/ /\ ~IsOwner(t, epoch)
       /\ Remove(t)
       /\ inFlight' = {p \in inFlight : p[1] # t}
       /\ UNCHANGED <<kind, owner, epoch, action, granted, route, attempts, resume,
                      down, must>>

\* Messages of the tabs
From(t, k) == Idle /\ up[t] # <<>> /\ Head(up[t]).kind = k
Taken(t)   == up' = [up EXCEPT ![t] = Tail(@)]

\* register(), up to the probe of the liveness lock and after it.
Register(t) ==
    /\ From(t, "register")
    /\ Taken(t)
    /\ pending' = pending \cup {t}
    /\ UNCHANGED <<core, route, attempts, resume, pages, engines, down, eports, must,
                   history, faults>>

Registered(t) ==
    /\ Idle /\ t \in pending
    /\ pending' = pending \ {t}
    /\ \/ /\ t \notin alive
          /\ UNCHANGED <<core, down>>
       \/ /\ t \in alive
          /\ tabs' = tabs \cup {t}
          /\ \/ /\ kind = "waiting"
                /\ Activate(tabs', None, action, tabs',
                            [s \in Tab |-> If(s = t, Msg("registered", 0))])
             \/ /\ kind # "waiting"
                /\ Post(tabs', [s \in Tab |-> If(s = t, Msg("registered", 0))
                                         \o If(kind = "failed", Msg("terminal", 0))])
                /\ UNCHANGED <<kind, owner, epoch, action, granted>>
          /\ UNCHANGED <<retiring, queue, inFlight>>
    /\ UNCHANGED <<route, attempts, resume, pages, engines, up, eports, must, history,
                   faults>>

\* A message of a port that is not registered any more, or not yet.
Ignored(t) ==
    /\ Idle /\ up[t] # <<>> /\ Head(up[t]).kind # "register"
    /\ t \notin tabs
    /\ Taken(t)
    /\ UNCHANGED <<core, router, pages, engines, down, eports, must, history, faults>>

\* cache-request: rejected, routed to the owner or queued.
Request(t) ==
    /\ From(t, "request") /\ t \in tabs
    /\ Taken(t)
    /\ \/ /\ t \in retiring \/ kind = "failed"
          /\ Post({t}, [s \in Tab |-> <<Msg("answer", 0)>>])
          /\ UNCHANGED <<queue, inFlight, edown>>
       \/ /\ t \notin retiring /\ kind = "active"
          /\ inFlight' = inFlight \cup {<<t, epoch>>}
          /\ ToEngine([Msg("request", epoch) EXCEPT !.of = {t}])
          /\ UNCHANGED <<queue, down>>
       \/ /\ t \notin retiring /\ kind \notin {"failed", "active"}
          /\ queue' = queue \cup {t}
          /\ UNCHANGED <<inFlight, edown, down>>
    /\ UNCHANGED <<kind, owner, epoch, action, granted, tabs, retiring, router, pages,
                   engines, eup, must, history, faults>>

\* attach-engine-port, of the owner that is being activated or too late.
AttachEnginePort(t) ==
    /\ From(t, "attach") /\ t \in tabs
    /\ Taken(t)
    /\ route' = IF kind = "activating" /\ IsOwner(t, Head(up[t]).epoch)
                THEN epoch ELSE route
    /\ UNCHANGED <<core, pending, attempts, resume, pages, engines, down, eports, must,
                   history, faults>>

\* graceful-departure, beginGracefulDeparture(); a mere protocol error unless the
\* tab is the active owner.
GracefulDeparture(t) ==
    /\ From(t, "graceful") /\ t \in tabs
    /\ Taken(t)
    /\ \/ /\ kind = "active" /\ IsOwner(t, Head(up[t]).epoch)
          /\ kind' = "draining"
          /\ retiring' = retiring \cup {t}
          /\ ToEngine(Msg("drain", epoch))
       \/ /\ ~(kind = "active" /\ IsOwner(t, Head(up[t]).epoch))
          /\ UNCHANGED <<kind, retiring, edown>>
    /\ UNCHANGED <<owner, epoch, action, granted, tabs, queue, inFlight, router, pages,
                   engines, down, eup, must, history, faults>>

\* The owner's epoch ends in peace: whoever is next opens with action a.
Succeed(t, a, last) ==
    LET R == Routed IN
    /\ route' = 0
    /\ Remove(t)
    /\ inFlight' = {p \in inFlight : p[2] # epoch /\ p[1] # t}
    /\ Activate(tabs \ {t}, None, a, tabs,
                [s \in Tab |-> If(s \in R, Msg("answer", 0)) \o last[s]])

\* navigation-departure, departForNavigation(); a mere protocol error unless the
\* tab is the owner.
NavigationDeparture_forgets(t) ==
    /\ From(t, "navigate") /\ t \in tabs
    /\ Taken(t)
    /\ \/ /\ IsOwner(t, Head(up[t]).epoch)
          /\ Succeed(t, "open", Nothing)
       \/ /\ ~IsOwner(t, Head(up[t]).epoch)
          /\ UNCHANGED <<core, route, down>>
    /\ UNCHANGED <<pending, attempts, resume, pages, engines, eports, must, history,
                   faults>>
NavigationDeparture(t) ==
    /\ From(t, "navigate") /\ t \in tabs
    /\ Taken(t)
    /\ \/ /\ IsOwner(t, Head(up[t]).epoch)
          /\ Succeed(t, IF kind = "activating" THEN action ELSE "open", Nothing)
       \/ /\ ~IsOwner(t, Head(up[t]).epoch)
          /\ UNCHANGED <<core, route, down>>
    /\ UNCHANGED <<pending, attempts, resume, pages, engines, eports, must, history,
                   faults>>

\* engine-lost.
EngineLost(t) ==
    /\ From(t, "lost") /\ t \in tabs
    /\ Taken(t)
    /\ \/ FailOwner(t, Head(up[t]).epoch)
       \/ /\ ~IsOwner(t, Head(up[t]).epoch)
          /\ UNCHANGED <<core, route, attempts, resume, down, must>>
    /\ UNCHANGED <<pending, pages, engines, eports, history, faults>>

\* disconnect-tab, and the liveness lock is released.
DisconnectTab(t) ==
    /\ From(t, "disconnect") /\ t \in tabs
    /\ Taken(t)
    /\ LoseTab(t)
    /\ UNCHANGED <<pending, pages, engines, eports, history, faults>>

LockReleased(t) ==
    /\ Idle /\ t \in tabs /\ t \notin alive
    /\ LoseTab(t)
    /\ UNCHANGED <<pending, pages, engines, up, eports, history, faults>>

\* Messages of the engine the route leads to
FromEngine(k) ==
    /\ Idle /\ route # 0 /\ eup[owner] # <<>>
    /\ Head(eup[owner]).kind = k /\ Head(eup[owner]).epoch = epoch
EngineTaken   == eup' = [eup EXCEPT ![owner] = Tail(@)]

\* beginEngineOpen(): the grant is recorded before it is sent.
AssetsReady ==
    /\ FromEngine("assets")
    /\ kind = "activating" /\ ~granted
    /\ EngineTaken
    /\ granted' = TRUE
    /\ ToEngine(Msg("open", epoch))
    /\ UNCHANGED <<kind, owner, epoch, action, tabs, retiring, queue, inFlight, router,
                   pages, engines, up, down, must, history, faults>>

\* engineReady(): the queued requests are routed.
OwnerReady_keepsQueue ==
    /\ FromEngine("ready")
    /\ kind = "activating" /\ granted
    /\ EngineTaken
    /\ kind' = "active"
    /\ inFlight' = inFlight \cup (queue \X {epoch})
    /\ IF queue = {} THEN UNCHANGED edown
       ELSE ToEngine([Msg("request", epoch) EXCEPT !.of = queue])
    /\ attempts' = 0
    /\ UNCHANGED <<queue, owner, epoch, action, granted, tabs, retiring, pending, route,
                   resume, pages, engines, up, down, must, history, faults>>
OwnerReady ==
    /\ FromEngine("ready")
    /\ kind = "activating" /\ granted
    /\ EngineTaken
    /\ kind' = "active"
    /\ queue' = {}
    /\ inFlight' = inFlight \cup (queue \X {epoch})
    /\ IF queue = {} THEN UNCHANGED edown
       ELSE ToEngine([Msg("request", epoch) EXCEPT !.of = queue])
    /\ attempts' = 0
    /\ UNCHANGED <<owner, epoch, action, granted, tabs, retiring, pending, route,
                   resume, pages, engines, up, down, must, history, faults>>

\* engineResponse().
EngineResponse ==
    /\ FromEngine("response")
    /\ EngineTaken
    /\ LET R == Head(eup[owner]).of \cap Routed IN
        /\ inFlight' = inFlight \ (R \X {epoch})
        /\ Post(tabs \cap R, [s \in Tab |-> <<Msg("answer", 0)>>])
    /\ UNCHANGED <<kind, owner, epoch, action, granted, tabs, retiring, queue, router,
                   pages, engines, up, edown, must, history, faults>>

\* engineDrained().
OwnerDrained ==
    /\ FromEngine("drained")
    /\ kind = "draining"
    /\ EngineTaken
    /\ Succeed(owner, "open",
               [s \in Tab |-> If(s = owner, Msg("retire", epoch))])
    /\ UNCHANGED <<pending, attempts, resume, pages, engines, up, edown, must, history,
                   faults>>

\* engine-fatal, activation-failed.
EngineFatal ==
    /\ FromEngine("fatal")
    /\ EngineTaken
    /\ FailOwner(owner, epoch)
    /\ UNCHANGED <<pending, pages, engines, up, edown, history, faults>>

\* The startup and heartbeat watchdogs, of an engine that is gone or hangs ...
Unresponsive ==
    \/ page[owner] = "closed"
    \/ own[owner] = epoch /\ eng[owner] = "hung"
    \/ epoch \in ended[owner]
Watchdog_ready ==
    /\ Idle /\ kind = "active"
    /\ Unresponsive
    /\ FailOwner(owner, epoch)
    /\ UNCHANGED <<pending, pages, engines, up, eports, history, faults>>
Watchdog ==
    /\ Idle /\ kind \in {"activating", "active"}
    /\ Unresponsive
    /\ FailOwner(owner, epoch)
    /\ UNCHANGED <<pending, pages, engines, up, eports, history, faults>>

\* ... or of one that is only slow.
FalseAlarm ==
    /\ Idle /\ kind \in {"activating", "active"}
    /\ ~Unresponsive
    /\ Fault
    /\ FailOwner(owner, epoch)
    /\ UNCHANGED <<pending, pages, engines, up, eports, history>>

-----------------------------------------------------------------------------
PageStep(t) ==
    \/ HearRegistered(t) \/ HearBecome(t) \/ HearTerminate(t) \/ HearRetire(t)
    \/ HearAnswer(t) \/ HearTerminal(t) \/ GracefulTimeout(t)

EngineStep(t) ==
    \/ EngineAssets(t) \/ EngineGranted(t) \/ EngineLocks(t) \/ EngineReady(t)
    \/ EngineAdmits(t) \/ EngineDrains(t) \/ EngineDrained(t)
    \/ \E r \in Tab : EngineResponds(t, r)

TabMessage(t) ==
    \/ Register(t) \/ Registered(t) \/ Ignored(t) \/ Request(t) \/ AttachEnginePort(t)
    \/ GracefulDeparture(t) \/ NavigationDeparture(t) \/ EngineLost(t)
    \/ DisconnectTab(t)

EngineMessage ==
    AssetsReady \/ OwnerReady \/ EngineResponse \/ OwnerDrained \/ EngineFatal

User(t) ==
    Start(t) \/ Ask(t) \/ DisposeGracefully(t) \/ Dispose(t) \/ Navigate(t)

Failure(t) ==
    TabCrash(t) \/ WorkerError(t) \/ EngineFails(t) \/ EngineHangs(t)

Next ==
    \/ \E t \in Tab :
        User(t) \/ PageStep(t) \/ EngineStep(t) \/ TabMessage(t) \/ LockReleased(t)
        \/ Failure(t)
    \/ EngineMessage \/ Resume \/ Watchdog \/ FalseAlarm

Spec == Init /\ [][Next]_vars

\* Messages and released locks arrive, engines work unless they hang or fail, and
\* timers fire.
Fairness ==
    /\ \A t \in Tab : /\ WF_vars(PageStep(t))
                      /\ WF_vars(EngineStep(t))
                      /\ WF_vars(TabMessage(t))
                      /\ WF_vars(LockReleased(t))
    /\ WF_vars(EngineMessage) /\ WF_vars(Resume) /\ WF_vars(Watchdog)

FairSpec == Spec /\ Fairness

-----------------------------------------------------------------------------
\* A request is in flight only in the epoch of an owner that is active or draining
\* and reachable, and only for a registered tab (assertInvariants()).
InFlightHasOwner ==
    /\ kind \in {"active", "draining"} => granted /\ route = epoch
    /\ inFlight # {} => kind \in {"active", "draining"}
    /\ \A p \in inFlight : p[2] = epoch /\ p[1] \in tabs

\* The coordinator never rests while a tab could be elected, a loss is always
\* followed by an election, and no request waits beside an active owner or behind
\* a coordinator that has given up.
NeverIdle ==
    /\ kind = "waiting" => tabs \subseteq retiring
    /\ (kind = "resetting") = (resume # "no")
    /\ queue # {} => kind \notin {"active", "failed"}

\* A database that an owner may have left half written is wiped before the next
\* owner uses it, however many owners and empty times lie between the two
\* (transitionToAbruptLoss(), nextDatabaseAction).
RequiredWipe ==
    \A t \in Tab : Current(t) /\ eng[t] \in {"opening", "ready", "draining"} => ~must

\* What a live page asked is in exactly one place, from its own buffer through the
\* ports and the coordinator to its answer, whatever owners come and go, unless the
\* page is about to be closed.
Pending(q, k) == \E i \in DOMAIN q : q[i].kind = k
Places(t) ==
    {p \in {"page", "up", "queue", "inFlight", "down", "answered"} :
        CASE p = "page"     -> page[t] = "starting"
          [] p = "up"       -> Pending(up[t], "request")
          [] p = "queue"    -> t \in queue
          [] p = "inFlight" -> <<t, epoch>> \in inFlight
          [] p = "down"     -> Pending(down[t], "answer")
          [] p = "answered" -> answers[t] = 1}
AnsweredOnce ==
    \A t \in Tab :
        t \in asked /\ Live(t) /\ ~Pending(down[t], "terminal")
                    /\ ~Pending(down[t], "retire")
        => Cardinality(Places(t)) = 1

\* No message meets a receiver in a state that takes it for a protocol error: the
\* page adapter's become-owner, terminate-engine and retire-complete, the runtime's
\* open permission and requests, the router's engine port and the engine's epoch,
\* assets-ready, ready and drained.
Next1(q, k) == q # <<>> /\ Head(q).kind = k
NoSurprise ==
    /\ \A t \in Tab : Live(t) =>
        /\ Next1(down[t], "become") =>
             own[t] = 0 /\ \A e \in ended[t] : e < Head(down[t]).epoch
        /\ Next1(down[t], "terminate") => Head(down[t]).epoch \in ended[t] \cup {own[t]}
        /\ Next1(down[t], "retire") => Head(down[t]).epoch = own[t]
        /\ Next1(edown[t], "open") => eng[t] \in {"assets", "failed", "hung"}
        /\ Next1(edown[t], "request") => eng[t] \in {"ready", "failed", "hung"}
    /\ \A t \in tabs : Next1(up[t], "attach") /\ IsOwner(t, Head(up[t]).epoch) => route = 0
    /\ route # 0 /\ eup[owner] # <<>> =>
        /\ Head(eup[owner]).epoch = epoch
        /\ Next1(eup[owner], "assets") => kind = "activating" /\ ~granted
        /\ Next1(eup[owner], "ready") => kind = "activating" /\ granted
        /\ Next1(eup[owner], "drained") => kind = "draining"

\* Whatever a page asks is answered, or the page is closed.
EventuallyAnswered ==
    \A t \in Tab : t \in asked ~> answers[t] > 0 \/ page[t] = "closed"
=============================================================================
