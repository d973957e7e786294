------------------------ MODULE CacheCoordinator_proofs ------------------------
(***************************************************************************)
(* The coordinator of the GraphQL cache, for any number of tabs, retries,  *)
(* failures and pages that go.                                             *)
(***************************************************************************)
EXTENDS CacheCoordinator, TLAPS

USE DEF Kind, Action

\* A route leads to the owner of the current epoch, who is registered; so is
\* whoever waits.
RouteInv ==
    /\ route # 0 => route = epoch /\ kind \in {"activating", "active", "draining"}
    /\ kind \in {"activating", "active", "draining"} => owner \in tabs
    /\ queue \subseteq tabs

\* The inductive invariant of the coordinator and its router.
CoordInv == CoreTypes /\ RouteInv /\ InFlightHasOwner /\ NeverIdle

coordVars == <<core, router>>

\* CoordInv is about the coordinator's own state.
LEMMA CoordFrame == ASSUME CoordInv, UNCHANGED coordVars PROVE CoordInv'
BY DEF CoordInv, CoreTypes, RouteInv, InFlightHasOwner, NeverIdle, coordVars, core, router

\* Nothing is registered at the start.
LEMMA CoordInit == Init => CoordInv
<1>1. 0 \in 0..RetryLimit
  BY CoordinatorAssumption
<1>2. Init => CoreTypes
  <2>1. Init => owner \in Tab \cup {None} /\ granted \in BOOLEAN
    BY Zenon DEF Init
  <2> QED BY <1>1, <2>1 DEF Init, CoreTypes
<1>3. Init => RouteInv /\ InFlightHasOwner /\ NeverIdle
  BY DEF Init, RouteInv, InFlightHasOwner, NeverIdle
<1> QED BY <1>2, <1>3 DEF CoordInv

\* Pages and engines do not touch it.
LEMMA OutsideCoord ==
    ASSUME CoordInv, NEW t \in Tab,
           User(t) \/ PageStep(t) \/ EngineStep(t) \/ Failure(t)
    PROVE  CoordInv'
<1>1. CASE User(t) \/ PageStep(t)
  BY <1>1, CoordFrame DEF User, PageStep, Start, Ask, DisposeGracefully, Dispose, Navigate,
     HearRegistered, HearBecome, HearTerminate, HearRetire, HearAnswer, HearTerminal,
     GracefulTimeout, coordVars
<1>2. CASE EngineStep(t) \/ Failure(t)
  BY <1>2, CoordFrame DEF EngineStep, Failure, EngineAssets, EngineGranted, EngineLocks,
     EngineReady, EngineAdmits, EngineDrains, EngineDrained, EngineResponds, TabCrash,
     WorkerError, EngineFails, EngineHangs, quiet, coordVars
<1> QED BY <1>1, <1>2

\* chooseCandidate() finds nobody only when everybody is retiring.
LEMMA NoCandidate ==
    ASSUME NEW T, NEW avoid, Candidates(T, avoid) = {} PROVE T \subseteq retiring
BY DEF Candidates

\* A candidate is a tab that is not retiring.
LEMMA CandidateRegistered ==
    ASSUME NEW T, NEW avoid, NEW c \in Candidates(T, avoid) PROVE c \in T \ retiring
BY DEF Candidates

\* The abrupt loss of an owner, of its engine or of its whole tab.
LEMMA LoseOwnerCoord ==
    ASSUME CoordInv, NEW t \in Tab, NEW gone \in BOOLEAN, NEW e,
           IsOwner(t, e), LoseOwner(t, gone), UNCHANGED pending
    PROVE  CoordInv'
<1>1. inFlight' = {}
  BY DEF LoseOwner, CoordInv, InFlightHasOwner
<1>0. attempts' \in 0..RetryLimit
  <2>1. attempts' = IF attempts >= RetryLimit THEN attempts ELSE attempts + 1
    BY DEF LoseOwner
  <2>2. attempts \in 0..RetryLimit
    BY DEF CoordInv, CoreTypes
  <2> QED BY <2>1, <2>2, CoordinatorAssumption
<1>2. CoreTypes'
  <2>1. granted' = FALSE
    BY DEF LoseOwner
  <2>2. granted' \in BOOLEAN
    BY <2>1, Zenon
  <2>3. /\ kind' \in Kind /\ action' \in Action /\ resume' \in {"no", "soon", "later"}
        /\ route' = 0 /\ UNCHANGED <<owner, epoch>>
    BY DEF LoseOwner, CoordInv, CoreTypes
  <2>4. tabs' \subseteq tabs /\ retiring' \subseteq retiring /\ queue' \subseteq queue
    BY DEF LoseOwner
  <2> QED BY <1>0, <1>1, <2>2, <2>3, <2>4 DEF CoordInv, CoreTypes
<1>3. RouteInv' /\ InFlightHasOwner'
  BY <1>1 DEF LoseOwner, CoordInv, CoreTypes, RouteInv, InFlightHasOwner
<1>4. NeverIdle'
  BY DEF LoseOwner, CoordInv, CoreTypes, NeverIdle, IsOwner
<1> QED BY <1>2, <1>3, <1>4 DEF CoordInv

\* The loss of any tab.
LEMMA LoseTabCoord ==
    ASSUME CoordInv, NEW t \in Tab, LoseTab(t), UNCHANGED pending PROVE CoordInv'
<1>1. CASE IsOwner(t, epoch) /\ LoseOwner(t, TRUE)
  BY <1>1, LoseOwnerCoord
<1>2. CASE /\ ~IsOwner(t, epoch) /\ Remove(t)
           /\ inFlight' = {p \in inFlight : p[1] # t}
           /\ UNCHANGED <<kind, owner, epoch, action, granted, route, attempts, resume>>
  <2>1. CoreTypes'
    BY <1>2 DEF Remove, CoordInv, CoreTypes
  <2>2. RouteInv'
    BY <1>2 DEF Remove, CoordInv, CoreTypes, RouteInv, IsOwner
  <2>3. InFlightHasOwner' /\ NeverIdle'
    BY <1>2 DEF Remove, CoordInv, CoreTypes, InFlightHasOwner, NeverIdle
  <2> QED BY <2>1, <2>2, <2>3 DEF CoordInv
<1> QED BY <1>1, <1>2 DEF LoseTab

\* What activateNext() does to the state machine, whatever it posts.
Elects(T, avoid, a) ==
    /\ action' = a /\ granted' = FALSE
    /\ \/ /\ Candidates(T, avoid) = {}
          /\ kind' = "waiting" /\ owner' = owner /\ epoch' = epoch
       \/ \E c \in Candidates(T, avoid) :
            kind' = "activating" /\ owner' = c /\ epoch' = epoch + 1

\* An election among the tabs that stay leaves nobody idle.
LEMMA ElectsCoord ==
    ASSUME CoreTypes, NEW T \in SUBSET Tab, NEW avoid, NEW a \in Action,
           Elects(T, avoid, a), tabs' = T, T \cap retiring \subseteq retiring',
           retiring' \in SUBSET Tab, queue' \in SUBSET T, inFlight' = {},
           route' = 0, pending' \in SUBSET Tab, attempts' = attempts, resume' = "no"
    PROVE  CoordInv'
<1>1. /\ kind' \in {"waiting", "activating"} /\ owner' \in Tab \cup {None} /\ epoch' \in Nat
      /\ kind' = "waiting" => T \subseteq retiring
      /\ kind' = "activating" => owner' \in T
  BY NoCandidate, CandidateRegistered DEF Elects, CoreTypes
<1>2. action' = a /\ granted' = FALSE
  BY DEF Elects
<1>3. granted' \in BOOLEAN
  BY <1>2, Zenon
<1>4. CoreTypes'
  BY <1>1, <1>2, <1>3 DEF CoreTypes
<1>5. RouteInv' /\ InFlightHasOwner'
  BY <1>1 DEF RouteInv, InFlightHasOwner
<1>6. NeverIdle'
  BY <1>1 DEF NeverIdle
<1> QED BY <1>4, <1>5, <1>6 DEF CoordInv

\* The owner's epoch ends without a loss.
LEMMA SucceedCoord ==
    ASSUME CoordInv, NEW t \in Tab, NEW e, IsOwner(t, e), NEW a \in Action,
           Elects(tabs \ {t}, None, a), Remove(t), route' = 0,
           inFlight' = {p \in inFlight : p[2] # epoch /\ p[1] # t},
           UNCHANGED <<pending, attempts, resume>>
    PROVE  CoordInv'
<1>1. inFlight' = {}
  BY DEF CoordInv, InFlightHasOwner
<1>2. resume = "no"
  BY DEF CoordInv, NeverIdle, IsOwner
<1>3. /\ tabs' = tabs \ {t} /\ tabs \ {t} \in SUBSET Tab
      /\ (tabs \ {t}) \cap retiring \subseteq retiring'
      /\ retiring' \in SUBSET Tab /\ queue' \in SUBSET (tabs \ {t})
      /\ pending' \in SUBSET Tab
  BY DEF Remove, CoordInv, CoreTypes, RouteInv
<1> QED
  BY <1>1, <1>2, <1>3, ElectsCoord DEF CoordInv

\* resumeAfterLoss().
LEMMA ResumeCoord == ASSUME CoordInv, Resume PROVE CoordInv'
<1>1. /\ Elects(tabs, owner, action) /\ kind = "resetting"
      /\ UNCHANGED <<tabs, retiring, queue, inFlight, pending, route, attempts>> /\ resume' = "no"
  BY DEF Resume, Activate, Elects
<1>2. route = 0 /\ inFlight = {}
  BY <1>1 DEF CoordInv, RouteInv, InFlightHasOwner
<1>3. tabs \in SUBSET Tab /\ retiring \in SUBSET Tab /\ queue \in SUBSET tabs
      /\ pending \in SUBSET Tab /\ action \in Action /\ CoreTypes
  BY DEF CoordInv, CoreTypes, RouteInv
<1> QED BY <1>1, <1>2, <1>3, ElectsCoord

\* register(): a tab that comes when nobody is there is elected.
LEMMA RegisterCoord ==
    ASSUME CoordInv, NEW t \in Tab, Register(t) \/ Registered(t) PROVE CoordInv'
<1>1. CASE Register(t)
  <2>1. CoreTypes'
    BY <1>1 DEF Register, CoordInv, CoreTypes, core
  <2> QED
    BY <1>1, <2>1 DEF Register, CoordInv, RouteInv, InFlightHasOwner, NeverIdle, core
<1>2. CASE Registered(t) /\ t \notin alive
  <2>1. UNCHANGED <<core, route, attempts, resume>> /\ pending' = pending \ {t}
    BY <1>2 DEF Registered
  <2>2. CoreTypes'
    BY <2>1 DEF CoordInv, CoreTypes, core
  <2> QED
    BY <2>1, <2>2 DEF CoordInv, RouteInv, InFlightHasOwner, NeverIdle, core
<1>3. CASE Registered(t) /\ t \in alive /\ kind = "waiting"
  <2>1. /\ tabs' = tabs \cup {t} /\ Elects(tabs', None, action)
        /\ UNCHANGED <<retiring, queue, inFlight, route, attempts, resume>>
        /\ pending' = pending \ {t}
    BY <1>3 DEF Registered, Activate, Elects
  <2>2. route = 0 /\ inFlight = {} /\ resume = "no"
    BY <1>3 DEF CoordInv, RouteInv, InFlightHasOwner, NeverIdle
  <2>3. /\ tabs' \in SUBSET Tab /\ retiring \in SUBSET Tab /\ queue \in SUBSET tabs'
        /\ pending' \in SUBSET Tab /\ action \in Action /\ CoreTypes
    BY <2>1 DEF CoordInv, CoreTypes, RouteInv
  <2> QED BY <2>1, <2>2, <2>3, ElectsCoord
<1>4. CASE Registered(t) /\ t \in alive /\ kind # "waiting"
  <2>1. /\ tabs' = tabs \cup {t} /\ pending' = pending \ {t}
        /\ UNCHANGED <<retiring, queue, inFlight, route, attempts, resume>>
    BY <1>4 DEF Registered
  <2>3. UNCHANGED <<kind, owner, epoch, action, granted>>
    BY <1>4, Zenon DEF Registered
  <2>2. CoreTypes'
    BY <2>1, <2>3 DEF CoordInv, CoreTypes
  <2> QED
    BY <1>4, <2>1, <2>2, <2>3 DEF CoordInv, RouteInv, InFlightHasOwner, NeverIdle
<1> QED BY <1>1, <1>2, <1>3, <1>4

\* A request is answered, routed or queued; a port is attached.
LEMMA RequestCoord ==
    ASSUME CoordInv, NEW t \in Tab, Request(t) \/ AttachEnginePort(t) \/ Ignored(t)
    PROVE  CoordInv'
<1>1. CASE Ignored(t)
  BY <1>1, CoordFrame DEF Ignored, coordVars
<1>2. CASE AttachEnginePort(t)
  <2>1. /\ UNCHANGED <<core, pending, attempts, resume>>
        /\ \/ route' = route
           \/ route' = epoch /\ kind = "activating"
    BY <1>2 DEF AttachEnginePort
  <2>2. CoreTypes'
    BY <2>1 DEF CoordInv, CoreTypes, core
  <2> QED
    BY <2>1, <2>2 DEF CoordInv, RouteInv, InFlightHasOwner, NeverIdle, core
<1>3. CASE Request(t)
  <2>1. UNCHANGED <<kind, owner, epoch, action, granted, tabs, retiring, router>> /\ t \in tabs
    BY <1>3 DEF Request
  <2>2. \/ UNCHANGED <<queue, inFlight>>
        \/ kind = "active" /\ inFlight' = inFlight \cup {<<t, epoch>>} /\ UNCHANGED queue
        \/ kind \notin {"failed", "active"} /\ queue' = queue \cup {t} /\ UNCHANGED inFlight
    BY <1>3 DEF Request
  <2>3. CoreTypes'
    BY <2>1, <2>2 DEF CoordInv, CoreTypes, router
  <2> QED
    BY <2>1, <2>2, <2>3 DEF CoordInv, RouteInv, InFlightHasOwner, NeverIdle, router
<1> QED BY <1>1, <1>2, <1>3

\* A drain begins; an owner navigates away; an engine or a tab is reported lost.
LEMMA DepartureCoord ==
    ASSUME CoordInv, NEW t \in Tab,
           \/ GracefulDeparture(t) \/ NavigationDeparture(t) \/ EngineLost(t)
           \/ DisconnectTab(t) \/ LockReleased(t)
    PROVE  CoordInv'
<1>1. CASE GracefulDeparture(t)
  <2>1. /\ UNCHANGED <<owner, epoch, action, granted, tabs, queue, inFlight, router>>
        /\ \/ UNCHANGED <<kind, retiring>>
           \/ kind = "active" /\ kind' = "draining" /\ retiring' = retiring \cup {t}
    BY <1>1 DEF GracefulDeparture
  <2>2. CoreTypes'
    BY <2>1 DEF CoordInv, CoreTypes, router
  <2> QED
    BY <2>1, <2>2 DEF CoordInv, RouteInv, InFlightHasOwner, NeverIdle, router
<1>2. CASE NavigationDeparture(t)
  <2>0. UNCHANGED <<pending, attempts, resume>>
    BY <1>2 DEF NavigationDeparture
  <2>1. CASE IsOwner(t, Head(up[t]).epoch)
    <3> DEFINE a == IF kind = "activating" THEN action ELSE "open"
    <3>1. /\ route' = 0 /\ Remove(t) /\ Elects(tabs \ {t}, None, a)
          /\ inFlight' = {p \in inFlight : p[2] # epoch /\ p[1] # t}
      BY <1>2, <2>1 DEF NavigationDeparture, Succeed, Activate, Elects
    <3>2. a \in Action
      BY DEF CoordInv, CoreTypes
    <3> QED BY <2>0, <2>1, <3>1, <3>2, SucceedCoord
  <2>2. CASE ~IsOwner(t, Head(up[t]).epoch)
    BY <1>2, <2>0, <2>2, CoordFrame DEF NavigationDeparture, coordVars, router
  <2> QED BY <2>1, <2>2
<1>3. CASE EngineLost(t)
  <2>1. CASE FailOwner(t, Head(up[t]).epoch)
    BY <1>3, <2>1, LoseOwnerCoord DEF EngineLost, FailOwner
  <2>2. CASE UNCHANGED <<core, route, attempts, resume>>
    BY <1>3, <2>2, CoordFrame DEF EngineLost, coordVars, router
  <2> QED BY <1>3, <2>1, <2>2 DEF EngineLost
<1>4. CASE DisconnectTab(t) \/ LockReleased(t)
  BY <1>4, LoseTabCoord DEF DisconnectTab, LockReleased
<1> QED BY <1>1, <1>2, <1>3, <1>4

\* Messages of the engine.
LEMMA EngineMessageCoord == ASSUME CoordInv, EngineMessage PROVE CoordInv'
<1>0. route # 0 /\ route = epoch /\ owner \in tabs /\ owner \in Tab
      /\ kind \in {"activating", "active", "draining"}
  BY DEF EngineMessage, AssetsReady, OwnerReady, EngineResponse, OwnerDrained, EngineFatal,
     FromEngine, CoordInv, RouteInv, CoreTypes
<1>1. CASE AssetsReady
  <2>1. /\ UNCHANGED <<kind, owner, epoch, action, tabs, retiring, queue, inFlight, router>>
        /\ granted' = TRUE /\ kind = "activating"
    BY <1>1 DEF AssetsReady
  <2>2. granted' \in BOOLEAN
    BY <2>1, Zenon
  <2>3. CoreTypes'
    BY <2>1, <2>2 DEF CoordInv, CoreTypes, router
  <2> QED
    BY <2>1, <2>3 DEF CoordInv, RouteInv, InFlightHasOwner, NeverIdle, router
<1>2. CASE OwnerReady
  <2>1. /\ UNCHANGED <<owner, epoch, action, granted, tabs, retiring, pending, route, resume>>
        /\ kind = "activating" /\ granted /\ kind' = "active" /\ queue' = {} /\ attempts' = 0
        /\ inFlight' = inFlight \cup (queue \X {epoch})
    BY <1>2 DEF OwnerReady
  <2>2. 0 \in 0..RetryLimit
    BY CoordinatorAssumption
  <2>3. CoreTypes'
    BY <2>1, <2>2 DEF CoordInv, CoreTypes
  <2>4. inFlight = {}
    BY <2>1 DEF CoordInv, InFlightHasOwner
  <2>5. InFlightHasOwner'
    BY <1>0, <2>1, <2>4 DEF CoordInv, RouteInv, InFlightHasOwner
  <2> QED
    BY <2>1, <2>3, <2>5 DEF CoordInv, RouteInv, NeverIdle
<1>3. CASE EngineResponse
  <2>1. /\ UNCHANGED <<kind, owner, epoch, action, granted, tabs, retiring, queue, router>>
        /\ inFlight' \subseteq inFlight
    BY <1>3 DEF EngineResponse
  <2>2. CoreTypes'
    BY <2>1 DEF CoordInv, CoreTypes, router
  <2> QED
    BY <2>1, <2>2 DEF CoordInv, RouteInv, InFlightHasOwner, NeverIdle, router
<1>4. CASE OwnerDrained
  <2>1. /\ UNCHANGED <<pending, attempts, resume>> /\ IsOwner(owner, epoch)
    BY <1>0, <1>4 DEF OwnerDrained, IsOwner
  <2>2. /\ route' = 0 /\ Remove(owner) /\ Elects(tabs \ {owner}, None, "open")
        /\ inFlight' = {p \in inFlight : p[2] # epoch /\ p[1] # owner}
    BY <1>4 DEF OwnerDrained, Succeed, Activate, Elects
  <2> QED BY <1>0, <2>1, <2>2, SucceedCoord
<1>5. CASE EngineFatal
  BY <1>0, <1>5, LoseOwnerCoord DEF EngineFatal, FailOwner
<1> QED BY <1>1, <1>2, <1>3, <1>4, <1>5 DEF EngineMessage

\* Every step keeps the coordinator's invariant.
LEMMA CoordNext == CoordInv /\ [Next]_vars => CoordInv'
<1> SUFFICES ASSUME CoordInv, [Next]_vars PROVE CoordInv'
  OBVIOUS
<1>1. ASSUME NEW t \in Tab, TabMessage(t) PROVE CoordInv'
  BY <1>1, RegisterCoord, RequestCoord, DepartureCoord DEF TabMessage
<1>2. CASE Watchdog \/ FalseAlarm
  <2>1. owner \in Tab
    BY <1>2 DEF Watchdog, FalseAlarm, CoordInv, RouteInv, CoreTypes
  <2> QED BY <1>2, <2>1, LoseOwnerCoord DEF Watchdog, FalseAlarm, FailOwner
<1>3. CASE UNCHANGED vars
  BY <1>3, CoordFrame DEF vars, coordVars
<1> QED
  BY <1>1, <1>2, <1>3, OutsideCoord, DepartureCoord, EngineMessageCoord, ResumeCoord
  DEF Next

\* The invariant of the coordinator holds in every reachable state.
THEOREM CoordinatorInvariant == Spec => []CoordInv
BY CoordInit, CoordNext, PTL DEF Spec

\* Requests are in flight only to a reachable owner of the current epoch, for tabs
\* that are registered (coordinator-core.ts: assertInvariants()).
THEOREM RequestsHaveAnOwner == Spec => []InFlightHasOwner
<1>1. CoordInv => InFlightHasOwner
  BY DEF CoordInv
<1> QED BY <1>1, CoordinatorInvariant, PTL

\* The coordinator never rests while somebody could be elected or must be answered
\* (coordinator-core.ts: activateNext(), resumeAfterLoss()).
THEOREM CoordinatorNeverIdle == Spec => []NeverIdle
<1>1. CoordInv => NeverIdle
  BY DEF CoordInv
<1> QED BY <1>1, CoordinatorInvariant, PTL

-----------------------------------------------------------------------------
(* Ports: their messages are well formed and only those posted are added. *)

Contents(q) == {q[i] : i \in DOMAIN q}

\* What a queue holds after something is appended to it ...
LEMMA Appended ==
    ASSUME NEW q \in Seq(Message), NEW m \in Message
    PROVE  Append(q, m) \in Seq(Message) /\ Contents(Append(q, m)) = Contents(q) \cup {m}
<1>1. Append(q, m) \in Seq(Message) /\ Len(Append(q, m)) = Len(q) + 1
      /\ \A i \in 1..Len(q) : Append(q, m)[i] = q[i]
      /\ Append(q, m)[Len(q) + 1] = m
  OBVIOUS
<1>2. DOMAIN q = 1..Len(q) /\ DOMAIN Append(q, m) = 1..(Len(q) + 1) /\ Len(q) \in Nat
  BY <1>1
<1>3. Contents(Append(q, m)) \subseteq Contents(q) \cup {m}
  BY <1>1, <1>2 DEF Contents
<1>4. Contents(q) \cup {m} \subseteq Contents(Append(q, m))
  BY <1>1, <1>2 DEF Contents
<1> QED BY <1>1, <1>3, <1>4

\* ... after its head is taken ...
LEMMA Taking ==
    ASSUME NEW q \in Seq(Message), q # <<>>
    PROVE  /\ Tail(q) \in Seq(Message) /\ Contents(Tail(q)) \subseteq Contents(q)
           /\ Head(q) \in Message /\ Head(q) \in Contents(q)
<1>1. /\ Tail(q) \in Seq(Message) /\ Len(Tail(q)) = Len(q) - 1 /\ Len(q) \in Nat /\ Len(q) > 0
      /\ \A i \in 1..Len(Tail(q)) : Tail(q)[i] = q[i + 1]
      /\ Head(q) = q[1] /\ DOMAIN q = 1..Len(q) /\ DOMAIN Tail(q) = 1..Len(Tail(q))
  OBVIOUS
<1>2. Head(q) \in Message /\ Head(q) \in Contents(q)
  BY <1>1 DEF Contents
<1>3. Contents(Tail(q)) \subseteq Contents(q)
  BY <1>1 DEF Contents
<1> QED BY <1>1, <1>2, <1>3

\* ... and of two queues in a row.
LEMMA Joined ==
    ASSUME NEW q \in Seq(Message), NEW r \in Seq(Message)
    PROVE  q \o r \in Seq(Message) /\ Contents(q \o r) \subseteq Contents(q) \cup Contents(r)
<1>1. /\ q \o r \in Seq(Message) /\ Len(q \o r) = Len(q) + Len(r)
      /\ Len(q) \in Nat /\ Len(r) \in Nat
      /\ DOMAIN q = 1..Len(q) /\ DOMAIN r = 1..Len(r) /\ DOMAIN (q \o r) = 1..(Len(q) + Len(r))
      /\ \A i \in 1..(Len(q) + Len(r)) :
            (q \o r)[i] = IF i <= Len(q) THEN q[i] ELSE r[i - Len(q)]
  OBVIOUS
<1>2. ASSUME NEW i \in 1..(Len(q) + Len(r))
      PROVE  (q \o r)[i] \in Contents(q) \cup Contents(r)
  <2>1. CASE i <= Len(q)
    BY <1>1, <2>1 DEF Contents
  <2>2. CASE ~(i <= Len(q))
    <3>1. i - Len(q) \in 1..Len(r)
      BY <1>1, <2>2
    <3> QED BY <1>1, <2>2, <3>1 DEF Contents
  <2> QED BY <2>1, <2>2
<1> QED BY <1>1, <1>2 DEF Contents

\* An optional message.
LEMMA Optional ==
    ASSUME NEW b, NEW m \in Message
    PROVE  If(b, m) \in Seq(Message) /\ Contents(If(b, m)) \subseteq {m}
           /\ (~b => Contents(If(b, m)) = {})
<1>1. <<m>> \in Seq(Message) /\ <<>> \in Seq(Message) /\ Contents(<<m>>) = {m}
      /\ Contents(<<>>) = {}
  BY DEF Contents
<1>2. CASE b
  BY <1>1, <1>2 DEF If
<1>3. CASE ~b
  BY <1>1, <1>3 DEF If
<1> QED BY <1>2, <1>3

\* What postToTab() adds to the ports.
LEMMA Posted ==
    ASSUME NEW T, NEW new \in [Tab -> Seq(Message)], down \in [Tab -> Seq(Message)],
           Post(T, new)
    PROVE  /\ down' \in [Tab -> Seq(Message)]
           /\ \A t \in Tab : Contents(down'[t]) \subseteq Contents(down[t]) \cup Contents(new[t])
<1>1. down' = [t \in Tab |-> IF t \in T /\ Live(t) THEN down[t] \o new[t] ELSE down[t]]
  BY DEF Post
<1>2. ASSUME NEW t \in Tab
      PROVE  /\ down'[t] \in Seq(Message)
             /\ Contents(down'[t]) \subseteq Contents(down[t]) \cup Contents(new[t])
  <2>1. down[t] \in Seq(Message) /\ new[t] \in Seq(Message)
    OBVIOUS
  <2>2. down'[t] = down[t] \o new[t] \/ down'[t] = down[t]
    BY <1>1
  <2> QED BY <2>1, <2>2, Joined
<1> QED BY <1>1, <1>2

\* Appending to one port, or taking from it.
LEMMA PortAppend ==
    ASSUME NEW p \in [Tab -> Seq(Message)], NEW t, NEW m \in Message
    PROVE  /\ [p EXCEPT ![t] = Append(@, m)] \in [Tab -> Seq(Message)]
           /\ \A s \in Tab : Contents([p EXCEPT ![t] = Append(@, m)][s])
                               = Contents(p[s]) \cup (IF s = t THEN {m} ELSE {})
<1>1. ASSUME NEW s \in Tab
      PROVE  /\ [p EXCEPT ![t] = Append(@, m)][s] \in Seq(Message)
             /\ Contents([p EXCEPT ![t] = Append(@, m)][s])
                  = Contents(p[s]) \cup (IF s = t THEN {m} ELSE {})
  <2>1. p[s] \in Seq(Message)
    OBVIOUS
  <2>2. CASE s = t
    BY <2>1, <2>2, Appended
  <2>3. CASE s # t
    BY <2>1, <2>3
  <2> QED BY <2>2, <2>3
<1> QED BY <1>1

\* Taking the head of one port.
LEMMA PortTail ==
    ASSUME NEW p \in [Tab -> Seq(Message)], NEW t \in Tab, p[t] # <<>>
    PROVE  /\ [p EXCEPT ![t] = Tail(@)] \in [Tab -> Seq(Message)]
           /\ Head(p[t]) \in Message /\ Head(p[t]) \in Contents(p[t])
           /\ \A s \in Tab : Contents([p EXCEPT ![t] = Tail(@)][s]) \subseteq Contents(p[s])
<1>1. p[t] \in Seq(Message)
  OBVIOUS
<1>2. /\ Tail(p[t]) \in Seq(Message) /\ Contents(Tail(p[t])) \subseteq Contents(p[t])
      /\ Head(p[t]) \in Message /\ Head(p[t]) \in Contents(p[t])
  BY <1>1, Taking
<1>3. ASSUME NEW s \in Tab
      PROVE  /\ [p EXCEPT ![t] = Tail(@)][s] \in Seq(Message)
             /\ Contents([p EXCEPT ![t] = Tail(@)][s]) \subseteq Contents(p[s])
  BY <1>2
<1> QED BY <1>2, <1>3

\* Emptying one port.
LEMMA PortEmpty ==
    ASSUME NEW p \in [Tab -> Seq(Message)], NEW t
    PROVE  /\ [p EXCEPT ![t] = <<>>] \in [Tab -> Seq(Message)]
           /\ \A s \in Tab : Contents([p EXCEPT ![t] = <<>>][s]) \subseteq Contents(p[s])
<1>1. <<>> \in Seq(Message) /\ Contents(<<>>) = {}
  BY DEF Contents
<1>2. ASSUME NEW s \in Tab
      PROVE  /\ [p EXCEPT ![t] = <<>>][s] \in Seq(Message)
             /\ Contents([p EXCEPT ![t] = <<>>][s]) \subseteq Contents(p[s])
  BY <1>1
<1> QED BY <1>1, <1>2

-----------------------------------------------------------------------------
(* Types *)

\* Nothing has happened at the start.
LEMMA TypesInit == Init => PageTypes /\ PortTypes
<1>1. Init => must \in BOOLEAN /\ holder \in Tab \cup {None}
  BY Zenon DEF Init
<1>2. 0 \in 0..MaxFaults
  BY CoordinatorAssumption
<1>3. Init => PortTypes
  BY DEF Init, PortTypes
<1> QED BY <1>1, <1>2, <1>3 DEF Init, PageTypes, Page, Engine

\* The budget of faults.
LEMMA FaultType == ASSUME Fault, faults \in 0..MaxFaults PROVE faults' \in 0..MaxFaults
BY CoordinatorAssumption DEF Fault

\* A page ends its engine.
LEMMA EngineGoneTypes ==
    ASSUME PageTypes, PortTypes, NEW t \in Tab, EngineGone(t)
    PROVE  /\ eng' \in [Tab -> Engine] /\ admitted' \in [Tab -> SUBSET Tab]
           /\ holder' \in Tab \cup {None} /\ edown' \in [Tab -> Seq(Message)]
           /\ UNCHANGED <<act, eup>>
<1>1. edown' \in [Tab -> Seq(Message)]
  BY PortEmpty DEF EngineGone, PortTypes
<1>2. holder' \in Tab \cup {None}
  BY DEF EngineGone, PageTypes
<1> QED BY <1>1, <1>2 DEF EngineGone, PageTypes, Engine

\* A page forgets the epoch it owned.
LEMMA OwnerGoneTypes ==
    ASSUME PageTypes, NEW t \in Tab, OwnerGone(t)
    PROVE  own' \in [Tab -> Nat] /\ ended' \in [Tab -> SUBSET Nat]
BY DEF OwnerGone, PageTypes

\* A page is closed.
LEMMA ClosePageTypes ==
    ASSUME PageTypes, PortTypes, NEW t \in Tab, ClosePage(t),
           up' \in [Tab -> Seq(Message)], faults' \in 0..MaxFaults,
           UNCHANGED <<must, history>>
    PROVE  PageTypes' /\ PortTypes'
<1>1. /\ page' = [page EXCEPT ![t] = "closed"] /\ alive' = alive \ {t}
      /\ down' = [down EXCEPT ![t] = <<>>] /\ OwnerGone(t) /\ EngineGone(t)
  BY DEF ClosePage
<1>2. down' \in [Tab -> Seq(Message)]
  BY <1>1, PortEmpty DEF PortTypes
<1>3. page' \in [Tab -> Page] /\ alive' \in SUBSET Tab
  BY <1>1 DEF PageTypes, Page
<1>4. must' \in BOOLEAN /\ asked' \in SUBSET Tab /\ answers' \in [Tab -> Nat]
  BY DEF PageTypes, history
<1>5. act' \in [Tab -> Action] /\ eup' \in [Tab -> Seq(Message)]
  BY <1>1, EngineGoneTypes DEF PageTypes, PortTypes
<1> QED
  BY <1>1, <1>2, <1>3, <1>4, <1>5, OwnerGoneTypes, EngineGoneTypes DEF PageTypes, PortTypes

\* A user's step or the page's own.
LEMMA UserTypes ==
    ASSUME PageTypes, PortTypes, NEW t \in Tab, User(t) PROVE PageTypes' /\ PortTypes'
<1>0. \A k \in {"register", "request", "disconnect"} : Msg(k, 0) \in Message
  BY DEF Msg, Message
<1>1. own[t] \in Nat /\ faults \in 0..MaxFaults
  BY DEF PageTypes
<1>2. Msg("graceful", own[t]) \in Message /\ Msg("navigate", own[t]) \in Message
  BY <1>1 DEF Msg, Message
<1>3. CASE Start(t)
  <2>1. /\ page' = [page EXCEPT ![t] = "starting"] /\ alive' = alive \cup {t}
        /\ up' = [up EXCEPT ![t] = Append(@, Msg("register", 0))]
        /\ UNCHANGED <<own, ended, engines, down, eports, must, history, faults>>
    BY <1>3 DEF Start, Send
  <2>2. up' \in [Tab -> Seq(Message)]
    BY <1>0, <2>1, PortAppend DEF PortTypes
  <2> QED BY <2>1, <2>2 DEF PageTypes, PortTypes, Page, engines, eports, history
<1>4. CASE Ask(t)
  <2>1. /\ asked' = asked \cup {t} /\ UNCHANGED <<pages, engines, down, eports, must, answers, faults>>
        /\ up' = up \/ up' = [up EXCEPT ![t] = Append(@, Msg("request", 0))]
    BY <1>4 DEF Ask
  <2>3. up \in [Tab -> Seq(Message)] /\ Msg("request", 0) \in Message
    BY <1>0 DEF PortTypes
  <2>4. [up EXCEPT ![t] = Append(@, Msg("request", 0))] \in [Tab -> Seq(Message)]
    BY <2>3, PortAppend
  <2>2. up' \in [Tab -> Seq(Message)]
    BY <2>1, <2>3, <2>4
  <2> QED BY <2>1, <2>2 DEF PageTypes, PortTypes, pages, engines, eports
<1>5. CASE DisposeGracefully(t)
  <2>1. /\ page' = [page EXCEPT ![t] = "leaving"]
        /\ up' = [up EXCEPT ![t] = Append(@, Msg("graceful", own[t]))]
        /\ UNCHANGED <<own, ended, alive, engines, down, eports, must, history, faults>>
    BY <1>5 DEF DisposeGracefully, Send
  <2>2. up' \in [Tab -> Seq(Message)]
    BY <1>2, <2>1, PortAppend DEF PortTypes
  <2> QED BY <2>1, <2>2 DEF PageTypes, PortTypes, Page, engines, eports, history
<1>6. CASE Dispose(t) \/ Navigate(t)
  <2>1. /\ ClosePage(t) /\ UNCHANGED <<must, history, faults>>
        /\ \E m \in Message : up' = [up EXCEPT ![t] = Append(@, m)]
    BY <1>0, <1>2, <1>6 DEF Dispose, Navigate, Send, history
  <2>2. up' \in [Tab -> Seq(Message)]
    BY <2>1, PortAppend DEF PortTypes
  <2> QED BY <1>1, <2>1, <2>2, ClosePageTypes
<1> QED BY <1>3, <1>4, <1>5, <1>6 DEF User

\* A step of a page, most of them on a message of the coordinator.
LEMMA PageStepTypes ==
    ASSUME PageTypes, PortTypes, NEW t \in Tab, PageStep(t) PROVE PageTypes' /\ PortTypes'
<1>0. Msg("request", 0) \in Message /\ Msg("disconnect", 0) \in Message
  BY DEF Msg, Message
<1>1. faults \in 0..MaxFaults /\ down \in [Tab -> Seq(Message)] /\ up \in [Tab -> Seq(Message)]
      /\ eup \in [Tab -> Seq(Message)]
  BY DEF PageTypes, PortTypes
<1>2. CASE GracefulTimeout(t)
  <2>1. /\ ClosePage(t) /\ UNCHANGED <<must, history, faults>>
        /\ up' = [up EXCEPT ![t] = Append(@, Msg("disconnect", 0))]
    BY <1>2 DEF GracefulTimeout, Send
  <2>2. up' \in [Tab -> Seq(Message)]
    BY <1>0, <1>1, <2>1, PortAppend
  <2> QED BY <1>1, <2>1, <2>2, ClosePageTypes
<1>3. CASE HearRetire(t) \/ HearTerminal(t)
  <2>1. ClosePage(t) /\ UNCHANGED <<up, must, history, faults>>
    BY <1>3 DEF HearRetire, HearTerminal
  <2> QED BY <1>1, <2>1, ClosePageTypes
<1>4. CASE HearRegistered(t) \/ HearBecome(t) \/ HearTerminate(t) \/ HearAnswer(t)
  <2>0. down[t] # <<>> /\ down' = [down EXCEPT ![t] = Tail(@)]
    BY <1>4 DEF HearRegistered, HearBecome, HearTerminate, HearAnswer, Hear, Heard
  <2>1. down' \in [Tab -> Seq(Message)] /\ Head(down[t]) \in Message
    BY <1>1, <2>0, PortTail
  <2>2. CASE HearRegistered(t)
    <3>1. /\ page' = [page EXCEPT ![t] = "on"]
          /\ up' = up \/ up' = [up EXCEPT ![t] = Append(@, Msg("request", 0))]
          /\ UNCHANGED <<own, ended, alive, engines, eports, must, history, faults>>
      BY <2>2 DEF HearRegistered
    <3>3. [up EXCEPT ![t] = Append(@, Msg("request", 0))] \in [Tab -> Seq(Message)]
      BY <1>0, <1>1, PortAppend
    <3>2. up' \in [Tab -> Seq(Message)]
      BY <1>1, <3>1, <3>3
    <3> QED BY <2>1, <3>1, <3>2 DEF PageTypes, PortTypes, Page, engines, eports, history
  <2>3. CASE HearBecome(t)
    <3> DEFINE m == Head(down[t])
    <3>1. /\ own' = [own EXCEPT ![t] = m.epoch] /\ eng' = [eng EXCEPT ![t] = "loading"]
          /\ act' = [act EXCEPT ![t] = m.act] /\ eup' = [eup EXCEPT ![t] = <<>>]
          /\ up' = [up EXCEPT ![t] = Append(@, Msg("attach", m.epoch))]
          /\ UNCHANGED <<page, ended, alive, admitted, holder, edown, must, history, faults>>
      BY <2>3 DEF HearBecome, Send
    <3>2. m.epoch \in Nat /\ m.act \in Action
      BY <2>1 DEF Message
    <3>6. Msg("attach", m.epoch) \in Message
      BY <3>2 DEF Msg, Message
    <3>3. up' \in [Tab -> Seq(Message)]
      BY <1>1, <3>1, <3>6, PortAppend
    <3>4. eup' \in [Tab -> Seq(Message)]
      BY <1>1, <3>1, PortEmpty
    <3> HIDE DEF m
    <3>5. PageTypes'
      BY <3>1, <3>2 DEF PageTypes, Engine, history
    <3> QED BY <2>1, <3>1, <3>3, <3>4, <3>5 DEF PortTypes
  <2>4. CASE HearTerminate(t)
    <3>1. /\ \/ OwnerGone(t) /\ EngineGone(t)
             \/ UNCHANGED <<own, ended, engines, eports>>
          /\ UNCHANGED <<page, alive, up, must, history, faults>>
      BY <2>4 DEF HearTerminate
    <3>2. CASE OwnerGone(t) /\ EngineGone(t)
      <4>1. act' \in [Tab -> Action] /\ eup' \in [Tab -> Seq(Message)]
        BY <3>2, EngineGoneTypes DEF PageTypes, PortTypes
      <4> QED
        BY <2>1, <3>1, <3>2, <4>1, OwnerGoneTypes, EngineGoneTypes
        DEF PageTypes, PortTypes, history
    <3>3. CASE UNCHANGED <<own, ended, engines, eports>>
      BY <2>1, <3>1, <3>3 DEF PageTypes, PortTypes, engines, eports, history
    <3> QED BY <3>1, <3>2, <3>3
  <2>5. CASE HearAnswer(t)
    <3>1. /\ answers' = [answers EXCEPT ![t] = @ + 1]
          /\ UNCHANGED <<pages, engines, up, eports, must, asked, faults>>
      BY <2>5 DEF HearAnswer
    <3>2. answers' \in [Tab -> Nat]
      BY <3>1 DEF PageTypes
    <3>3. PageTypes'
      BY <3>1, <3>2 DEF PageTypes, pages, engines
    <3> QED BY <2>1, <3>1, <3>3 DEF PortTypes, eports
  <2> QED BY <1>4, <2>2, <2>3, <2>4, <2>5
<1> QED BY <1>2, <1>3, <1>4 DEF PageStep

\* A step of an engine.
LEMMA EngineStepTypes ==
    ASSUME PageTypes, PortTypes, NEW t \in Tab, EngineStep(t) PROVE PageTypes' /\ PortTypes'
<1>0. own[t] \in Nat /\ eup \in [Tab -> Seq(Message)] /\ edown \in [Tab -> Seq(Message)]
  BY DEF PageTypes, PortTypes
<1>1. CASE EngineAssets(t) \/ EngineReady(t) \/ EngineDrained(t)
  <2>1. /\ \E k \in {"assets", "ready", "drained"} :
             /\ eng' = [eng EXCEPT ![t] = k]
             /\ eup' = [eup EXCEPT ![t] = Append(@, Msg(k, own[t]))]
        /\ holder' = None \/ UNCHANGED holder
        /\ UNCHANGED <<quiet, act, admitted, edown, must, faults>>
    BY <1>1 DEF EngineAssets, EngineReady, EngineDrained, Become, Tell
  <2>2. eup' \in [Tab -> Seq(Message)]
    <3>1. \A k \in {"assets", "ready", "drained"} : Msg(k, own[t]) \in Message
      BY <1>0 DEF Msg, Message
    <3> QED BY <1>0, <2>1, <3>1, PortAppend
  <2>3. eng' \in [Tab -> Engine]
    BY <2>1 DEF PageTypes, Engine
  <2> QED
    BY <2>1, <2>2, <2>3 DEF PageTypes, PortTypes, quiet, pages, history
<1>2. CASE EngineGranted(t) \/ EngineAdmits(t) \/ EngineDrains(t)
  <2>1. /\ edown[t] # <<>> /\ edown' = [edown EXCEPT ![t] = Tail(@)]
        /\ \/ UNCHANGED <<eng, act, holder>> /\ admitted' = [admitted EXCEPT ![t] = @ \cup Head(edown[t]).of]
           \/ UNCHANGED <<act, admitted, holder>> /\ \E k \in Engine : eng' = [eng EXCEPT ![t] = k]
        /\ UNCHANGED <<quiet, eup, must, faults>>
    BY <1>2 DEF EngineGranted, EngineAdmits, EngineDrains, EngineHears, EngineHeard, Become, Engine
  <2>2. edown' \in [Tab -> Seq(Message)] /\ Head(edown[t]).of \in SUBSET Tab
    BY <1>0, <2>1, PortTail DEF Message
  <2>4. eng' \in [Tab -> Engine]
    BY <2>1 DEF PageTypes
  <2>5. admitted' \in [Tab -> SUBSET Tab]
    <3> DEFINE S == Head(edown[t]).of
    <3>1. admitted \in [Tab -> SUBSET Tab] /\ S \in SUBSET Tab
          /\ (admitted' = admitted \/ admitted' = [admitted EXCEPT ![t] = @ \cup S])
      BY <2>1, <2>2 DEF PageTypes
    <3> HIDE DEF S
    <3> QED BY <3>1
  <2>3. eng' \in [Tab -> Engine] /\ admitted' \in [Tab -> SUBSET Tab]
    BY <2>4, <2>5
  <2> QED BY <2>1, <2>2, <2>3 DEF PageTypes, PortTypes, quiet, pages, history
<1>3. CASE EngineLocks(t)
  <2>1. /\ holder' = t /\ eng' = [eng EXCEPT ![t] = "opening"]
        /\ UNCHANGED <<quiet, act, admitted, eports, faults>>
    BY <1>3 DEF EngineLocks, Become
  <2>2. must' \in BOOLEAN
    BY <1>3, Zenon DEF EngineLocks
  <2> QED BY <2>1, <2>2 DEF PageTypes, PortTypes, Engine, quiet, pages, history, eports
<1>4. ASSUME NEW r \in Tab, EngineResponds(t, r) PROVE PageTypes' /\ PortTypes'
  <2>1. /\ admitted' = [admitted EXCEPT ![t] = @ \ {r}]
        /\ eup' = [eup EXCEPT ![t] = Append(@, [Msg("response", own[t]) EXCEPT !.of = {r}])]
        /\ UNCHANGED <<quiet, eng, act, holder, edown, must, faults>>
    BY <1>4 DEF EngineResponds, Tell
  <2>2. eup' \in [Tab -> Seq(Message)]
    <3>1. {r} \in SUBSET Tab
      OBVIOUS
    <3>2. [Msg("response", own[t]) EXCEPT !.of = {r}] \in Message
      BY <1>0, <3>1 DEF Msg, Message
    <3> QED BY <1>0, <2>1, <3>2, PortAppend
  <2> QED BY <2>1, <2>2 DEF PageTypes, PortTypes, quiet, pages, history
<1> QED BY <1>1, <1>2, <1>3, <1>4 DEF EngineStep

\* A failure of a tab or an engine.
LEMMA FailureTypes ==
    ASSUME PageTypes, PortTypes, NEW t \in Tab, Failure(t) PROVE PageTypes' /\ PortTypes'
<1>0. faults' \in 0..MaxFaults
  BY FaultType DEF PageTypes, Failure, TabCrash, WorkerError, EngineFails, EngineHangs
<1>1. own[t] \in Nat /\ eup \in [Tab -> Seq(Message)] /\ up \in [Tab -> Seq(Message)]
  BY DEF PageTypes, PortTypes
<1>2. CASE ClosePage(t) /\ UNCHANGED <<up, must, history>>
  BY <1>0, <1>1, <1>2, ClosePageTypes
<1>3. CASE EngineFails(t)
  <2>1. /\ eng' = [eng EXCEPT ![t] = "failed"]
        /\ eup' = [eup EXCEPT ![t] = Append(@, Msg("fatal", own[t]))]
        /\ UNCHANGED <<quiet, act, admitted, holder, edown, must>>
    BY <1>3 DEF EngineFails, Become, Tell
  <2>4. Msg("fatal", own[t]) \in Message
    BY <1>1 DEF Msg, Message
  <2>2. eup' \in [Tab -> Seq(Message)]
    BY <1>1, <2>1, <2>4, PortAppend
  <2> QED BY <1>0, <2>1, <2>2 DEF PageTypes, PortTypes, Engine, quiet, pages, history
<1>4. CASE EngineHangs(t)
  BY <1>0, <1>4 DEF EngineHangs, Become, PageTypes, PortTypes, Engine, quiet, pages, history, eports
<1>5. CASE WorkerError(t) /\ page[t] # "leaving"
  <2>1. /\ up' = [up EXCEPT ![t] = Append(@, Msg("lost", own[t]))]
        /\ OwnerGone(t) /\ EngineGone(t) /\ UNCHANGED <<page, alive, down, must, history>>
    BY <1>5 DEF WorkerError, Send
  <2>4. Msg("lost", own[t]) \in Message
    BY <1>1 DEF Msg, Message
  <2>2. up' \in [Tab -> Seq(Message)]
    BY <1>1, <2>1, <2>4, PortAppend
  <2>3. act' \in [Tab -> Action] /\ eup' \in [Tab -> Seq(Message)]
    BY <2>1, EngineGoneTypes DEF PageTypes, PortTypes
  <2> QED
    BY <1>0, <2>1, <2>2, <2>3, OwnerGoneTypes, EngineGoneTypes DEF PageTypes, PortTypes, history
<1> QED BY <1>2, <1>3, <1>4, <1>5 DEF Failure, TabCrash, WorkerError

\* The coordinator's steps leave pages and engines alone.
LEMMA CoordTypes ==
    ASSUME PageTypes, UNCHANGED <<pages, engines, history>>, must' \in BOOLEAN,
           faults' \in 0..MaxFaults,
           up' \in [Tab -> Seq(Message)], down' \in [Tab -> Seq(Message)],
           eup' \in [Tab -> Seq(Message)], edown' \in [Tab -> Seq(Message)]
    PROVE  PageTypes' /\ PortTypes'
BY DEF PageTypes, PortTypes, pages, engines, history

\* Sequences without a become-owner message.
Plain(q) == q \in Seq(Message) /\ \A m \in Contents(q) : m.kind # "become"

\* Plain sequences, and what is put together from them.
LEMMA PlainEmpty == Plain(<<>>)
BY DEF Plain, Contents

\* An optional message that elects nobody is plain.
LEMMA PlainIf ==
    ASSUME NEW b, NEW m \in Message, m.kind # "become" PROVE Plain(If(b, m))
BY Optional DEF Plain

\* Plain sequences in a row are plain.
LEMMA PlainJoin == ASSUME NEW q, NEW r, Plain(q), Plain(r) PROVE Plain(q \o r)
BY Joined DEF Plain

\* The step posts no become-owner message.
NoNewBecome ==
    \A t \in Tab : \A m \in Contents(down'[t]) : m.kind = "become" => m \in Contents(down[t])

\* Posting plain sequences elects nobody.
LEMMA PlainPost ==
    ASSUME NEW T, NEW new, new = [s \in Tab |-> new[s]], \A s \in Tab : Plain(new[s]),
           down \in [Tab -> Seq(Message)], Post(T, new)
    PROVE  down' \in [Tab -> Seq(Message)] /\ NoNewBecome
<1>1. new \in [Tab -> Seq(Message)]
  BY DEF Plain
<1>2. /\ down' \in [Tab -> Seq(Message)]
      /\ \A t \in Tab : Contents(down'[t]) \subseteq Contents(down[t]) \cup Contents(new[t])
  BY <1>1, Posted
<1>3. \A t \in Tab : \A m \in Contents(new[t]) : m.kind # "become"
  BY DEF Plain
<1> QED BY <1>2, <1>3 DEF NoNewBecome

\* The messages the coordinator posts.
LEMMA CoordMessages ==
    ASSUME epoch \in Nat
    PROVE  /\ \A k \in {"answer", "terminal", "registered"} :
                Msg(k, 0) \in Message /\ Msg(k, 0).kind # "become"
           /\ \A k \in {"terminate", "retire", "drain", "open"} :
                Msg(k, epoch) \in Message /\ Msg(k, epoch).kind # "become"
BY DEF Msg, Message

\* The loss of an owner elects nobody yet.
LEMMA LoseOwnerPosts ==
    ASSUME CoordInv, PortTypes, NEW t, NEW gone, LoseOwner(t, gone)
    PROVE  down' \in [Tab -> Seq(Message)] /\ NoNewBecome
<1> DEFINE giveUp == attempts >= RetryLimit
           a(s) == If(s = t, Msg("terminate", epoch))
           b(s) == If(s \in Routed /\ ~(gone /\ s = t), Msg("answer", 0))
           c(s) == If(giveUp /\ ~(gone /\ s = t), Msg("terminal", 0))
           new == [s \in Tab |-> a(s) \o b(s) \o c(s)]
<1>1. Post(tabs, new)
  BY DEF LoseOwner
<1>2. epoch \in Nat /\ down \in [Tab -> Seq(Message)]
  BY DEF CoordInv, CoreTypes, PortTypes
<1>3. ASSUME NEW s \in Tab PROVE Plain(a(s) \o b(s) \o c(s))
  <2>1. Plain(a(s)) /\ Plain(b(s)) /\ Plain(c(s))
    BY <1>2, CoordMessages, PlainIf
  <2> HIDE DEF a, b, c
  <2>2. Plain(a(s) \o b(s))
    BY <2>1, PlainJoin
  <2> QED BY <2>1, <2>2, PlainJoin
<1> HIDE DEF a, b, c
<1>4. new = [s \in Tab |-> new[s]] /\ \A s \in Tab : Plain(new[s])
  BY <1>3
<1> HIDE DEF new
<1> QED BY <1>1, <1>2, <1>4, PlainPost

\* The only become-owner message of an election goes to the elected tab, with the
\* new epoch and the action the coordinator keeps.
BecomeTo(c) ==
    \A t \in Tab : \A m \in Contents(down'[t]) : m.kind = "become" =>
        \/ m \in Contents(down[t])
        \/ t = c /\ m.epoch = epoch + 1 /\ m.act = action'

\* What activateNext() posts.
LEMMA ActivatePosts ==
    ASSUME CoordInv, PortTypes, NEW T, NEW avoid, NEW a \in Action, NEW R, NEW first,
           \A s \in Tab : Plain(first[s]), first = [s \in Tab |-> first[s]],
           Activate(T, avoid, a, R, first)
    PROVE  /\ down' \in [Tab -> Seq(Message)]
           /\ \/ kind' = "waiting" /\ UNCHANGED <<owner, epoch>> /\ NoNewBecome
              \/ \E c \in Candidates(T, avoid) :
                    kind' = "activating" /\ owner' = c /\ epoch' = epoch + 1 /\ BecomeTo(c)
           /\ action' = a
<1>0. epoch \in Nat /\ down \in [Tab -> Seq(Message)] /\ action' = a
  BY DEF CoordInv, CoreTypes, PortTypes, Activate
<1>1. CASE kind' = "waiting" /\ UNCHANGED <<owner, epoch>> /\ Post(R, first)
  BY <1>0, <1>1, PlainPost
<1>2. ASSUME NEW c \in Candidates(T, avoid), kind' = "activating", owner' = c,
             epoch' = epoch + 1,
             Post(R, [t \in Tab |-> first[t] \o
                        If(t = c, [Msg("become", epoch + 1) EXCEPT !.act = a])])
      PROVE  down' \in [Tab -> Seq(Message)] /\ BecomeTo(c)
  <2> DEFINE m == [Msg("become", epoch + 1) EXCEPT !.act = a]
             new == [t \in Tab |-> first[t] \o If(t = c, m)]
  <2>1. m \in Message /\ m.epoch = epoch + 1 /\ m.act = a
    BY <1>0 DEF Msg, Message
  <2>2. Post(R, new)
    BY <1>2
  <2> HIDE DEF m
  <2>3. ASSUME NEW t \in Tab
        PROVE  /\ new[t] \in Seq(Message)
               /\ \A n \in Contents(new[t]) : n.kind = "become" => t = c /\ n = m
    <3>1. /\ If(t = c, m) \in Seq(Message) /\ Contents(If(t = c, m)) \subseteq {m}
          /\ t # c => Contents(If(t = c, m)) = {}
      BY <2>1, Optional
    <3>2. first[t] \in Seq(Message) /\ \A n \in Contents(first[t]) : n.kind # "become"
      BY DEF Plain
    <3>3. new[t] = first[t] \o If(t = c, m)
      OBVIOUS
    <3> QED BY <3>1, <3>2, <3>3, Joined
  <2>4. new \in [Tab -> Seq(Message)]
    BY <2>3
  <2> HIDE DEF new
  <2>5. /\ down' \in [Tab -> Seq(Message)]
        /\ \A t \in Tab : Contents(down'[t]) \subseteq Contents(down[t]) \cup Contents(new[t])
    BY <1>0, <2>2, <2>4, Posted
  <2> QED BY <1>0, <2>1, <2>3, <2>5 DEF BecomeTo
<1> QED BY <1>0, <1>1, <1>2 DEF Activate

-----------------------------------------------------------------------------
(* A required wipe is remembered.  The duty (must) lies with the coordinator's  *)
(* action until the owner of the current epoch, and no other engine, performs it *)
(* under the owner lock; so it matters which epochs pages, become-owner messages *)
(* and ready messages carry, and which action goes with the current one.         *)

Owning == kind \in {"activating", "active", "draining"}

\* The duty is with the action, and is done before an owner is ready.
DutyKept ==
    /\ Owning => epoch # 0
    /\ must => action = "wipe" /\ kind \notin {"active", "draining"}

\* Only the elected page has the current epoch, with the coordinator's action.
EpochsOwned ==
    \A t \in Tab :
        /\ own[t] <= epoch
        /\ own[t] = epoch /\ epoch # 0 => owner = t /\ (Owning => act[t] = action)

\* So it is with become-owner messages under way.
ElectionsFresh ==
    \A t \in Tab : \A m \in Contents(down[t]) : m.kind = "become" =>
        /\ m.epoch # 0 /\ m.epoch <= epoch
        /\ m.epoch = epoch => owner = t /\ (Owning => m.act = action)

\* An engine of the current epoch that has opened the database has done the duty,
\* and so has one that says it is ready.
DutyDone ==
    \A t \in Tab :
        /\ kind = "activating" /\ own[t] = epoch /\ eng[t] \in {"opening", "ready", "draining"}
             => ~must
        /\ \A m \in Contents(eup[t]) :
             /\ m.epoch <= epoch
             /\ kind = "activating" /\ m.kind = "ready" /\ m.epoch = epoch => ~must

WipeInv == DutyKept /\ EpochsOwned /\ ElectionsFresh /\ DutyDone

\* Everything the coordinator, the pages and the engines keep to.
CacheInv == CoordInv /\ PageTypes /\ PortTypes /\ WipeInv

\* No engine port gains a message.
EupKept == \A t \in Tab : Contents(eup'[t]) \subseteq Contents(eup[t])

\* Numbers, for the arithmetic below.
LEMMA Numbers ==
    ASSUME CoordInv, PageTypes, PortTypes
    PROVE  /\ epoch \in Nat /\ \A t \in Tab : own[t] \in Nat
           /\ \A t \in Tab : \A m \in Contents(down[t]) \cup Contents(eup[t]) : m.epoch \in Nat
<1>1. ASSUME NEW t \in Tab, NEW q \in Seq(Message), NEW m \in Contents(q) PROVE m.epoch \in Nat
  <2>1. m \in Message
    BY <1>1 DEF Contents
  <2> QED BY <2>1 DEF Message
<1> QED BY <1>1 DEF CoordInv, CoreTypes, PageTypes, PortTypes

\* The coordinator keeps owner, epoch, action and duty.
LEMMA WipeSame ==
    ASSUME CacheInv, UNCHANGED <<own, act, eng, owner, epoch, action, must>>, EupKept,
           NoNewBecome,
           \/ kind' = kind
           \/ kind = "active" /\ kind' = "draining"
           \/ kind = "activating" /\ kind' = "active" /\ ~must
    PROVE  WipeInv'
<1>1. DutyKept'
  BY DEF CacheInv, WipeInv, DutyKept, Owning
<1>2. EpochsOwned'
  BY DEF CacheInv, WipeInv, EpochsOwned, Owning
<1>3. ElectionsFresh'
  BY DEF CacheInv, WipeInv, ElectionsFresh, Owning, NoNewBecome
<1>4. DutyDone'
  BY DEF CacheInv, WipeInv, DutyDone, EupKept
<1> QED BY <1>1, <1>2, <1>3, <1>4 DEF WipeInv

\* Nobody owns the database any more.
LEMMA WipeEnds ==
    ASSUME CacheInv, UNCHANGED <<own, act, eng, owner, epoch>>, EupKept, NoNewBecome,
           kind' \in {"waiting", "resetting", "failed"}, must' => action' = "wipe"
    PROVE  WipeInv'
<1>1. DutyKept'
  BY DEF DutyKept, Owning
<1>2. EpochsOwned'
  BY DEF CacheInv, WipeInv, EpochsOwned, Owning
<1>3. ElectionsFresh'
  BY DEF CacheInv, WipeInv, ElectionsFresh, Owning, NoNewBecome
<1>4. DutyDone'
  BY DEF CacheInv, WipeInv, DutyDone, EupKept
<1> QED BY <1>1, <1>2, <1>3, <1>4 DEF WipeInv

\* Somebody is elected: the epoch is new to everyone.
LEMMA WipeElected ==
    ASSUME CacheInv, UNCHANGED <<own, act, eng, must>>, EupKept, NEW c \in Tab, BecomeTo(c),
           kind' = "activating", owner' = c, epoch' = epoch + 1, must => action' = "wipe"
    PROVE  WipeInv'
<1>0. /\ epoch \in Nat /\ \A t \in Tab : own[t] \in Nat
      /\ \A t \in Tab : \A m \in Contents(down[t]) \cup Contents(eup[t]) : m.epoch \in Nat
  BY Numbers DEF CacheInv
<1>1. DutyKept'
  BY <1>0 DEF DutyKept, Owning
<1>2. EpochsOwned'
  <2>1. \A t \in Tab : own[t] <= epoch
    BY DEF CacheInv, WipeInv, EpochsOwned
  <2>2. \A t \in Tab : own[t] <= epoch + 1 /\ own[t] # epoch + 1
    BY <1>0, <2>1
  <2> QED BY <2>2 DEF EpochsOwned
<1>3. ElectionsFresh'
  <2>1. ASSUME NEW t \in Tab, NEW m \in Contents(down[t]), m.kind = "become"
        PROVE  m.epoch # 0 /\ m.epoch <= epoch + 1 /\ m.epoch # epoch + 1
    <3>1. m.epoch # 0 /\ m.epoch <= epoch
      BY <2>1 DEF CacheInv, WipeInv, ElectionsFresh
    <3>2. m.epoch \in Nat
      BY <1>0
    <3> QED BY <1>0, <3>1, <3>2
  <2>2. ASSUME NEW t \in Tab, NEW m \in Contents(down'[t]), m.kind = "become"
        PROVE  /\ m.epoch # 0 /\ m.epoch <= epoch + 1
               /\ m.epoch = epoch + 1 => t = c /\ m.act = action'
    <3>1. CASE m \in Contents(down[t])
      BY <2>1, <2>2, <3>1
    <3>2. CASE t = c /\ m.epoch = epoch + 1 /\ m.act = action'
      BY <1>0, <3>2
    <3> QED BY <2>2, <3>1, <3>2 DEF BecomeTo
  <2> QED BY <2>2 DEF ElectionsFresh
<1>4. DutyDone'
  <2>1. \A t \in Tab : own[t] <= epoch /\ \A m \in Contents(eup[t]) : m.epoch <= epoch
    BY DEF CacheInv, WipeInv, EpochsOwned, DutyDone
  <2>2. \A t \in Tab : own[t] # epoch + 1
    BY <1>0, <2>1
  <2>3. \A t \in Tab : \A m \in Contents(eup[t]) : m.epoch <= epoch + 1 /\ m.epoch # epoch + 1
    BY <1>0, <2>1
  <2> QED BY <2>2, <2>3 DEF DutyDone, EupKept
<1> QED BY <1>1, <1>2, <1>3, <1>4 DEF WipeInv

\* Pages and engines: an epoch is kept or given up, what an engine has opened it had
\* opened, and what it says is of its own epoch.
LEMMA WipePages ==
    ASSUME CacheInv, UNCHANGED <<kind, owner, epoch, action, must>>, NoNewBecome,
           \A t \in Tab : own'[t] = 0 \/ (own'[t] = own[t] /\ act'[t] = act[t]),
           \A t \in Tab : eng'[t] \in {"opening", "ready", "draining"} =>
                            own'[t] = own[t] /\ eng[t] \in {"opening", "ready", "draining"},
           \A t \in Tab : \A m \in Contents(eup'[t]) :
              \/ m \in Contents(eup[t])
              \/ m.epoch = own[t] /\ (m.kind = "ready" => eng[t] = "opening")
    PROVE  WipeInv'
<1>0. /\ epoch \in Nat /\ \A t \in Tab : own[t] \in Nat
      /\ \A t \in Tab : \A m \in Contents(down[t]) \cup Contents(eup[t]) : m.epoch \in Nat
  BY Numbers DEF CacheInv
<1>1. DutyKept'
  BY DEF CacheInv, WipeInv, DutyKept, Owning
<1>2. EpochsOwned'
  <2>1. ASSUME NEW t \in Tab
        PROVE  /\ own'[t] <= epoch
               /\ own'[t] = epoch /\ epoch # 0 => owner = t /\ (Owning => act'[t] = action)
    <3>1. CASE own'[t] = 0
      BY <1>0, <3>1
    <3>2. CASE own'[t] = own[t] /\ act'[t] = act[t]
      BY <3>2 DEF CacheInv, WipeInv, EpochsOwned
    <3> QED BY <3>1, <3>2
  <2> QED BY <2>1 DEF EpochsOwned, Owning
<1>3. ElectionsFresh'
  BY DEF CacheInv, WipeInv, ElectionsFresh, Owning, NoNewBecome
<1>4. DutyDone'
  <2>1. ASSUME NEW t \in Tab, kind = "activating", own'[t] = epoch,
               eng'[t] \in {"opening", "ready", "draining"}
        PROVE  ~must
    BY <2>1 DEF CacheInv, WipeInv, DutyDone
  <2>2. ASSUME NEW t \in Tab, NEW m \in Contents(eup'[t])
        PROVE  m.epoch <= epoch /\ (kind = "activating" /\ m.kind = "ready" /\ m.epoch = epoch => ~must)
    <3>1. CASE m \in Contents(eup[t])
      BY <3>1 DEF CacheInv, WipeInv, DutyDone
    <3>2. CASE m.epoch = own[t] /\ (m.kind = "ready" => eng[t] = "opening")
      BY <3>2 DEF CacheInv, WipeInv, DutyDone, EpochsOwned
    <3> QED BY <2>2, <3>1, <3>2
  <2> QED BY <2>1, <2>2 DEF DutyDone
<1> QED BY <1>1, <1>2, <1>3, <1>4 DEF WipeInv

\* A page that is closed.
LEMMA ClosePageWipe ==
    ASSUME CacheInv, NEW t \in Tab, ClosePage(t), UNCHANGED <<core, must>> PROVE WipeInv'
<1>0. /\ own \in [Tab -> Nat] /\ eng \in [Tab -> Engine] /\ down \in [Tab -> Seq(Message)]
  BY DEF CacheInv, PageTypes, PortTypes
<1>1. /\ own' = [own EXCEPT ![t] = 0] /\ eng' = [eng EXCEPT ![t] = "none"]
      /\ down' = [down EXCEPT ![t] = <<>>] /\ UNCHANGED <<act, eup>>
  BY DEF ClosePage, OwnerGone, EngineGone
<1>2. NoNewBecome
  BY <1>0, <1>1, PortEmpty DEF NoNewBecome
<1>3. \A s \in Tab : /\ own'[s] = 0 \/ (own'[s] = own[s] /\ act'[s] = act[s])
                     /\ eng'[s] \in {"opening", "ready", "draining"} =>
                            own'[s] = own[s] /\ eng[s] \in {"opening", "ready", "draining"}
  BY <1>0, <1>1
<1> QED BY <1>1, <1>2, <1>3, WipePages DEF core

\* Nothing of what WipeInv speaks of changes.
LEMMA WipeFrame ==
    ASSUME CacheInv, UNCHANGED <<kind, owner, epoch, action, must, own, act, eng, eup>>,
           NoNewBecome
    PROVE  WipeInv'
BY WipePages

\* What the user does to a page does not touch the duty.
LEMMA UserWipe == ASSUME CacheInv, NEW t \in Tab, User(t) PROVE WipeInv'
<1>1. CASE Start(t) \/ Ask(t) \/ DisposeGracefully(t)
  <2>1. UNCHANGED <<core, own, engines, eports, down, must>>
    BY <1>1 DEF Start, Ask, DisposeGracefully, pages
  <2>2. NoNewBecome
    BY <2>1 DEF NoNewBecome
  <2> QED BY <2>1, <2>2, WipeFrame DEF core, engines, eports
<1>2. CASE Dispose(t) \/ Navigate(t)
  BY <1>2, ClosePageWipe DEF Dispose, Navigate
<1> QED BY <1>1, <1>2 DEF User

\* A page becomes the owner, with the action it was elected for.
LEMMA HearBecomeWipe == ASSUME CacheInv, NEW t \in Tab, HearBecome(t) PROVE WipeInv'
<1> DEFINE m == Head(down[t])
<1>0. /\ epoch \in Nat /\ \A s \in Tab : own[s] \in Nat
      /\ \A s \in Tab : \A n \in Contents(down[s]) \cup Contents(eup[s]) : n.epoch \in Nat
      /\ own \in [Tab -> Nat] /\ eng \in [Tab -> Engine] /\ act \in [Tab -> Action]
      /\ down \in [Tab -> Seq(Message)] /\ eup \in [Tab -> Seq(Message)]
  BY Numbers DEF CacheInv, PageTypes, PortTypes
<1>1. /\ own' = [own EXCEPT ![t] = m.epoch] /\ eng' = [eng EXCEPT ![t] = "loading"]
      /\ act' = [act EXCEPT ![t] = m.act] /\ eup' = [eup EXCEPT ![t] = <<>>]
      /\ down' = [down EXCEPT ![t] = Tail(@)] /\ down[t] # <<>> /\ m.kind = "become"
      /\ UNCHANGED <<kind, owner, epoch, action, must>>
  BY DEF HearBecome, Hear, Heard, core
<1>2. /\ m \in Contents(down[t])
      /\ \A s \in Tab : Contents(down'[s]) \subseteq Contents(down[s])
      /\ \A s \in Tab : Contents(eup'[s]) \subseteq Contents(eup[s])
  BY <1>0, <1>1, PortTail, PortEmpty
<1>3. m.epoch <= epoch /\ (m.epoch = epoch => owner = t /\ (Owning => m.act = action))
  BY <1>1, <1>2 DEF CacheInv, WipeInv, ElectionsFresh
<1> HIDE DEF m
<1>4. DutyKept'
  BY <1>1 DEF CacheInv, WipeInv, DutyKept, Owning
<1>5. EpochsOwned'
  <2>1. ASSUME NEW s \in Tab
        PROVE  /\ own'[s] <= epoch
               /\ own'[s] = epoch /\ epoch # 0 => owner = s /\ (Owning => act'[s] = action)
    <3>1. CASE s = t
      BY <1>0, <1>1, <1>3, <3>1
    <3>2. CASE s # t
      BY <1>0, <1>1, <3>2 DEF CacheInv, WipeInv, EpochsOwned
    <3> QED BY <3>1, <3>2
  <2> QED BY <1>1, <2>1 DEF EpochsOwned, Owning
<1>6. ElectionsFresh'
  BY <1>1, <1>2 DEF CacheInv, WipeInv, ElectionsFresh, Owning
<1>7. DutyDone'
  <2>1. ASSUME NEW s \in Tab, kind = "activating", own'[s] = epoch,
               eng'[s] \in {"opening", "ready", "draining"}
        PROVE  ~must
    <3>1. s # t
      BY <1>0, <1>1, <2>1
    <3> QED BY <1>0, <1>1, <2>1, <3>1 DEF CacheInv, WipeInv, DutyDone
  <2> QED BY <1>1, <1>2, <2>1 DEF CacheInv, WipeInv, DutyDone
<1> QED BY <1>4, <1>5, <1>6, <1>7 DEF WipeInv

\* A step of a page keeps it.
LEMMA PageStepWipe == ASSUME CacheInv, NEW t \in Tab, PageStep(t) PROVE WipeInv'
<1>0. /\ own \in [Tab -> Nat] /\ eng \in [Tab -> Engine] /\ down \in [Tab -> Seq(Message)]
  BY DEF CacheInv, PageTypes, PortTypes
<1>1. CASE HearRetire(t) \/ HearTerminal(t) \/ GracefulTimeout(t)
  BY <1>1, ClosePageWipe DEF HearRetire, HearTerminal, GracefulTimeout
<1>2. CASE HearBecome(t)
  BY <1>2, HearBecomeWipe
<1>3. CASE HearRegistered(t) \/ HearAnswer(t) \/ HearTerminate(t)
  <2>1. down[t] # <<>> /\ down' = [down EXCEPT ![t] = Tail(@)] /\ UNCHANGED <<core, must>>
    BY <1>3 DEF HearRegistered, HearAnswer, HearTerminate, Hear, Heard
  <2>2. NoNewBecome
    BY <1>0, <2>1, PortTail DEF NoNewBecome
  <2>3. CASE UNCHANGED <<own, engines, eports>>
    BY <2>1, <2>2, <2>3, WipeFrame DEF core, engines, eports
  <2>4. CASE OwnerGone(t) /\ EngineGone(t)
    <3>1. /\ own' = [own EXCEPT ![t] = 0] /\ eng' = [eng EXCEPT ![t] = "none"]
          /\ UNCHANGED <<act, eup>>
      BY <2>4 DEF OwnerGone, EngineGone
    <3>2. \A s \in Tab : /\ own'[s] = 0 \/ (own'[s] = own[s] /\ act'[s] = act[s])
                         /\ eng'[s] \in {"opening", "ready", "draining"} =>
                               own'[s] = own[s] /\ eng[s] \in {"opening", "ready", "draining"}
      BY <1>0, <3>1
    <3> QED BY <2>1, <2>2, <3>1, <3>2, WipePages DEF core
  <2> QED BY <1>3, <2>3, <2>4 DEF HearRegistered, HearAnswer, HearTerminate, pages
<1> QED BY <1>1, <1>2, <1>3 DEF PageStep

\* An engine takes the owner lock, and wipes if it was elected to.
LEMMA EngineLocksWipe == ASSUME CacheInv, NEW t \in Tab, EngineLocks(t) PROVE WipeInv'
<1>0. eng \in [Tab -> Engine]
  BY DEF CacheInv, PageTypes
<1>1. /\ eng' = [eng EXCEPT ![t] = "opening"] /\ UNCHANGED <<quiet, act, eports>>
      /\ must' = (must /\ ~(act[t] = "wipe" /\ Current(t)))
  BY DEF EngineLocks, Become
<1>2. UNCHANGED <<kind, owner, epoch, action, own, act, eup, down>>
  BY <1>1 DEF quiet, core, pages, eports
<1>3. must' => must
  BY <1>1
<1>4. DutyKept' /\ EpochsOwned' /\ ElectionsFresh'
  BY <1>2, <1>3 DEF CacheInv, WipeInv, DutyKept, EpochsOwned, ElectionsFresh, Owning
<1>5. ASSUME NEW s \in Tab, kind = "activating", own[s] = epoch,
             eng'[s] \in {"opening", "ready", "draining"}
      PROVE  ~must'
  <2>1. CASE s = t
    <3>1. owner = t /\ act[t] = action /\ (must => action = "wipe")
      BY <1>5, <2>1 DEF CacheInv, WipeInv, EpochsOwned, DutyKept, Owning
    <3> QED BY <1>1, <1>5, <2>1, <3>1 DEF Current
  <2>2. CASE s # t
    BY <1>0, <1>1, <1>3, <1>5, <2>2 DEF CacheInv, WipeInv, DutyDone
  <2> QED BY <2>1, <2>2
<1>6. DutyDone'
  BY <1>2, <1>3, <1>5 DEF CacheInv, WipeInv, DutyDone
<1> QED BY <1>4, <1>6 DEF WipeInv

\* A step of an engine keeps it.
LEMMA EngineStepWipe == ASSUME CacheInv, NEW t \in Tab, EngineStep(t) PROVE WipeInv'
<1>0. /\ own[t] \in Nat /\ eng \in [Tab -> Engine] /\ eup \in [Tab -> Seq(Message)]
  BY DEF CacheInv, PageTypes, PortTypes
<1>1. CASE EngineLocks(t)
  BY <1>1, EngineLocksWipe
<1>2. CASE ~EngineLocks(t)
  <2>1. /\ UNCHANGED <<quiet, act, must>>
        /\ \/ UNCHANGED eng
           \/ \E k \in {"assets", "granted", "drained"} : eng' = [eng EXCEPT ![t] = k]
           \/ eng[t] = "opening" /\ eng' = [eng EXCEPT ![t] = "ready"]
           \/ eng[t] = "ready" /\ eng' = [eng EXCEPT ![t] = "draining"]
    BY <1>2 DEF EngineStep, EngineAssets, EngineGranted, EngineReady, EngineAdmits,
       EngineDrains, EngineDrained, EngineResponds, Become
  <2>2. UNCHANGED <<kind, owner, epoch, action, own, down>>
    BY <2>1 DEF quiet, core, pages
  <2>3. NoNewBecome
    BY <2>2 DEF NoNewBecome
  <2>4. \A s \in Tab : eng'[s] \in {"opening", "ready", "draining"} =>
                         eng[s] \in {"opening", "ready", "draining"}
    BY <1>0, <2>1
  <2>5. \/ UNCHANGED eup
        \/ \E n \in Message :
             /\ eup' = [eup EXCEPT ![t] = Append(@, n)]
             /\ n.epoch = own[t] /\ (n.kind = "ready" => eng[t] = "opening")
    <3>1. CASE EngineGranted(t) \/ EngineAdmits(t) \/ EngineDrains(t)
      BY <3>1 DEF EngineGranted, EngineAdmits, EngineDrains
    <3>2. CASE EngineAssets(t) \/ EngineReady(t) \/ EngineDrained(t)
      <4>1. \E k \in {"assets", "ready", "drained"} :
               /\ eup' = [eup EXCEPT ![t] = Append(@, Msg(k, own[t]))]
               /\ k = "ready" => eng[t] = "opening"
        BY <3>2 DEF EngineAssets, EngineReady, EngineDrained, Tell
      <4>2. \A k \in {"assets", "ready", "drained"} :
               Msg(k, own[t]) \in Message /\ Msg(k, own[t]).epoch = own[t] /\ Msg(k, own[t]).kind = k
        BY <1>0 DEF Msg, Message
      <4> QED BY <4>1, <4>2
    <3>3. ASSUME NEW r \in Tab, EngineResponds(t, r)
          PROVE  \E n \in Message : /\ eup' = [eup EXCEPT ![t] = Append(@, n)]
                                    /\ n.epoch = own[t] /\ n.kind # "ready"
      <4> DEFINE n == [Msg("response", own[t]) EXCEPT !.of = {r}]
      <4>1. eup' = [eup EXCEPT ![t] = Append(@, n)]
        BY <3>3 DEF EngineResponds, Tell
      <4>2. n \in Message /\ n.epoch = own[t] /\ n.kind # "ready"
        BY <1>0 DEF Msg, Message
      <4> QED BY <4>1, <4>2
    <3> QED BY <1>2, <3>1, <3>2, <3>3 DEF EngineStep
  <2>6. \A s \in Tab : \A m \in Contents(eup'[s]) :
              \/ m \in Contents(eup[s])
              \/ m.epoch = own[s] /\ (m.kind = "ready" => eng[s] = "opening")
    <3>1. CASE UNCHANGED eup
      BY <3>1
    <3>2. ASSUME NEW n \in Message, eup' = [eup EXCEPT ![t] = Append(@, n)],
                 n.epoch = own[t], n.kind = "ready" => eng[t] = "opening"
          PROVE  \A s \in Tab : \A m \in Contents(eup'[s]) :
                     \/ m \in Contents(eup[s])
                     \/ m.epoch = own[s] /\ (m.kind = "ready" => eng[s] = "opening")
      <4>1. \A s \in Tab : Contents(eup'[s]) = Contents(eup[s]) \cup (IF s = t THEN {n} ELSE {})
        BY <1>0, <3>2, PortAppend
      <4> QED BY <3>2, <4>1
    <3> QED BY <2>5, <3>1, <3>2
  <2> QED BY <2>1, <2>2, <2>3, <2>4, <2>6, WipePages
<1> QED BY <1>1, <1>2

\* A failure of a tab or an engine keeps it.
LEMMA FailureWipe == ASSUME CacheInv, NEW t \in Tab, Failure(t) PROVE WipeInv'
<1>0. /\ own \in [Tab -> Nat] /\ eng \in [Tab -> Engine] /\ eup \in [Tab -> Seq(Message)]
  BY DEF CacheInv, PageTypes, PortTypes
<1>1. CASE ClosePage(t) /\ UNCHANGED <<core, must>>
  BY <1>1, ClosePageWipe
<1>2. CASE WorkerError(t) /\ page[t] # "leaving"
  <2>1. /\ own' = [own EXCEPT ![t] = 0] /\ eng' = [eng EXCEPT ![t] = "none"]
        /\ UNCHANGED <<core, act, eup, down, must>>
    BY <1>2 DEF WorkerError, OwnerGone, EngineGone
  <2>2. NoNewBecome
    BY <2>1 DEF NoNewBecome
  <2>3. \A s \in Tab : /\ own'[s] = 0 \/ (own'[s] = own[s] /\ act'[s] = act[s])
                       /\ eng'[s] \in {"opening", "ready", "draining"} =>
                            own'[s] = own[s] /\ eng[s] \in {"opening", "ready", "draining"}
    BY <1>0, <2>1
  <2> QED BY <2>1, <2>2, <2>3, WipePages DEF core
<1>3. CASE EngineFails(t) \/ EngineHangs(t)
  <2> DEFINE n == Msg("fatal", own[t])
  <2>1. /\ UNCHANGED <<kind, owner, epoch, action, own, down, act, must>>
        /\ \E k \in {"failed", "hung"} : eng' = [eng EXCEPT ![t] = k]
        /\ eup' = eup \/ eup' = [eup EXCEPT ![t] = Append(@, n)]
    BY <1>3 DEF EngineFails, EngineHangs, Become, Tell, quiet, core, pages, eports
  <2>2. n \in Message /\ n.epoch = own[t] /\ n.kind # "ready"
    BY <1>0 DEF Msg, Message
  <2> HIDE DEF n
  <2>3. \A s \in Tab : Contents(eup'[s]) \subseteq Contents(eup[s]) \cup (IF s = t THEN {n} ELSE {})
    <3>1. CASE eup' = eup
      BY <3>1
    <3>2. CASE eup' = [eup EXCEPT ![t] = Append(@, n)]
      BY <1>0, <2>2, <3>2, PortAppend
    <3> QED BY <2>1, <3>1, <3>2
  <2>4. NoNewBecome
    BY <2>1 DEF NoNewBecome
  <2>5. \A s \in Tab : eng'[s] \in {"opening", "ready", "draining"} =>
                         eng[s] \in {"opening", "ready", "draining"}
    BY <1>0, <2>1
  <2>6. \A s \in Tab : \A m \in Contents(eup'[s]) :
              \/ m \in Contents(eup[s])
              \/ m.epoch = own[s] /\ (m.kind = "ready" => eng[s] = "opening")
    BY <2>2, <2>3
  <2> QED BY <2>1, <2>4, <2>5, <2>6, WipePages
<1> QED BY <1>1, <1>2, <1>3 DEF Failure, TabCrash, WorkerError

-----------------------------------------------------------------------------
(* The coordinator's own steps *)

Rest == PageTypes /\ PortTypes /\ WipeInv

\* The other ports after a step of the coordinator.
OtherPorts ==
    /\ up' \in [Tab -> Seq(Message)] /\ eup' \in [Tab -> Seq(Message)]
    /\ edown' \in [Tab -> Seq(Message)] /\ EupKept

\* Nothing becomes of owner, epoch, action and duty.
LEMMA SameRest ==
    ASSUME CacheInv, UNCHANGED <<pages, engines, history, faults, owner, epoch, action, must>>,
           OtherPorts, down' \in [Tab -> Seq(Message)], NoNewBecome,
           \/ kind' = kind
           \/ kind = "active" /\ kind' = "draining"
           \/ kind = "activating" /\ kind' = "active" /\ ~must
    PROVE  Rest'
<1>1. UNCHANGED <<own, act, eng>>
  BY DEF pages, engines
<1>2. WipeInv'
  BY <1>1, WipeSame DEF OtherPorts
<1>3. must' \in BOOLEAN /\ faults' \in 0..MaxFaults
  BY DEF CacheInv, PageTypes
<1>4. PageTypes' /\ PortTypes'
  BY <1>3, CoordTypes DEF CacheInv, OtherPorts
<1> QED BY <1>2, <1>4 DEF Rest

\* Somebody is elected, or nobody is there.
LEMMA ActivateRest ==
    ASSUME CacheInv, NEW T \in SUBSET Tab, NEW avoid, NEW a \in Action, NEW R, NEW first,
           \A s \in Tab : Plain(first[s]), first = [s \in Tab |-> first[s]],
           Activate(T, avoid, a, R, first),
           UNCHANGED <<pages, engines, history, faults, must>>, OtherPorts, must => a = "wipe"
    PROVE  Rest'
<1>1. UNCHANGED <<own, act, eng>>
  BY DEF pages, engines
<1>2. /\ down' \in [Tab -> Seq(Message)] /\ action' = a
      /\ \/ kind' = "waiting" /\ UNCHANGED <<owner, epoch>> /\ NoNewBecome
         \/ \E c \in Candidates(T, avoid) :
               kind' = "activating" /\ owner' = c /\ epoch' = epoch + 1 /\ BecomeTo(c)
  BY ActivatePosts DEF CacheInv
<1>3. WipeInv'
  <2>1. CASE kind' = "waiting" /\ UNCHANGED <<owner, epoch>> /\ NoNewBecome
    BY <1>1, <1>2, <2>1, WipeEnds DEF OtherPorts
  <2>2. ASSUME NEW c \in Candidates(T, avoid), kind' = "activating", owner' = c,
               epoch' = epoch + 1, BecomeTo(c)
        PROVE  WipeInv'
    <3>1. c \in Tab
      BY CandidateRegistered
    <3> QED BY <1>1, <1>2, <2>2, <3>1, WipeElected DEF OtherPorts
  <2> QED BY <1>2, <2>1, <2>2
<1>4. must' \in BOOLEAN /\ faults' \in 0..MaxFaults
  BY DEF CacheInv, PageTypes
<1>5. PageTypes' /\ PortTypes'
  BY <1>2, <1>4, CoordTypes DEF CacheInv, OtherPorts
<1> QED BY <1>3, <1>5 DEF Rest

\* An owner is lost.
LEMMA LoseOwnerRest ==
    ASSUME CacheInv, NEW t \in Tab, NEW gone, LoseOwner(t, gone),
           UNCHANGED <<pages, engines, history>>, faults' \in 0..MaxFaults, OtherPorts
    PROVE  Rest'
<1>1. UNCHANGED <<own, act, eng>>
  BY DEF pages, engines
<1>2. down' \in [Tab -> Seq(Message)] /\ NoNewBecome
  BY LoseOwnerPosts DEF CacheInv
<1>3. kind' \in {"resetting", "failed"} /\ UNCHANGED <<owner, epoch>>
  BY DEF LoseOwner
<1>4. must' \in BOOLEAN
  BY Zenon DEF LoseOwner
<1>5. must' => action' = "wipe"
  <2>1. /\ must' = (must \/ ~(kind = "activating" /\ ~granted))
        /\ action' = IF kind = "activating" /\ ~granted THEN action ELSE "wipe"
    BY Zenon DEF LoseOwner
  <2>2. must => action = "wipe"
    BY DEF CacheInv, WipeInv, DutyKept
  <2> QED BY <2>1, <2>2
<1>6. WipeInv'
  BY <1>1, <1>2, <1>3, <1>5, WipeEnds DEF OtherPorts
<1>7. PageTypes' /\ PortTypes'
  BY <1>2, <1>4, CoordTypes DEF CacheInv, OtherPorts
<1> QED BY <1>6, <1>7 DEF Rest

\* A tab is lost, the owner or another.
LEMMA LoseTabRest ==
    ASSUME CacheInv, NEW t \in Tab, LoseTab(t), UNCHANGED <<pages, engines, history, faults>>,
           OtherPorts
    PROVE  Rest'
<1>0. faults' \in 0..MaxFaults /\ down \in [Tab -> Seq(Message)]
  BY DEF CacheInv, PageTypes, PortTypes
<1>1. CASE LoseOwner(t, TRUE)
  BY <1>0, <1>1, LoseOwnerRest
<1>2. CASE UNCHANGED <<kind, owner, epoch, action, down, must>>
  <2>1. NoNewBecome
    BY <1>2 DEF NoNewBecome
  <2> QED BY <1>0, <1>2, <2>1, SameRest
<1> QED BY <1>1, <1>2 DEF LoseTab

\* The coordinator takes a message from a page ...
LEMMA TakenPorts ==
    ASSUME CacheInv, NEW t \in Tab, up[t] # <<>>, Taken(t), UNCHANGED eports
    PROVE  OtherPorts
<1>1. up' \in [Tab -> Seq(Message)]
  BY PortTail DEF CacheInv, PortTypes, Taken
<1>2. eup' = eup /\ edown' = edown
  BY DEF eports
<1> QED BY <1>1, <1>2 DEF OtherPorts, EupKept, CacheInv, PortTypes

\* ... or from the engine.
LEMMA EngineTakenPorts ==
    ASSUME CacheInv, owner \in Tab, eup[owner] # <<>>, EngineTaken, UNCHANGED up,
           edown' \in [Tab -> Seq(Message)]
    PROVE  OtherPorts /\ Head(eup[owner]) \in Contents(eup[owner])
<1>0. eup \in [Tab -> Seq(Message)] /\ up \in [Tab -> Seq(Message)]
  BY DEF CacheInv, PortTypes
<1>1. /\ eup' \in [Tab -> Seq(Message)] /\ Head(eup[owner]) \in Contents(eup[owner])
      /\ \A s \in Tab : Contents(eup'[s]) \subseteq Contents(eup[s])
  BY <1>0, PortTail DEF EngineTaken
<1> QED BY <1>0, <1>1 DEF OtherPorts, EupKept

\* It sends one to the engine.
LEMMA ToEngineType ==
    ASSUME PortTypes, NEW m \in Message, ToEngine(m) PROVE edown' \in [Tab -> Seq(Message)]
<1>1. edown \in [Tab -> Seq(Message)]
      /\ (edown' = edown \/ edown' = [edown EXCEPT ![owner] = Append(@, m)])
  BY DEF PortTypes, ToEngine
<1>2. [edown EXCEPT ![owner] = Append(@, m)] \in [Tab -> Seq(Message)]
  BY <1>1, PortAppend
<1> QED BY <1>1, <1>2

\* register().
LEMMA RegisterRest ==
    ASSUME CacheInv, NEW t \in Tab, Register(t) \/ Registered(t) \/ Ignored(t) PROVE Rest'
<1>0. /\ epoch \in Nat /\ action \in Action /\ tabs \in SUBSET Tab
      /\ down \in [Tab -> Seq(Message)] /\ (must => action = "wipe")
  BY DEF CacheInv, CoordInv, CoreTypes, PortTypes, WipeInv, DutyKept
<1>1. CASE Register(t) \/ Ignored(t)
  <2>1. /\ up[t] # <<>> /\ Taken(t)
        /\ UNCHANGED <<core, pages, engines, down, eports, must, history, faults>>
    BY <1>1 DEF Register, Ignored, From
  <2>2. OtherPorts /\ NoNewBecome
    BY <2>1, TakenPorts DEF NoNewBecome
  <2> QED BY <1>0, <2>1, <2>2, SameRest DEF core
<1>2. CASE Registered(t)
  <2> DEFINE first == [s \in Tab |-> If(s = t, Msg("registered", 0))]
             last  == [s \in Tab |-> If(s = t, Msg("registered", 0))
                                       \o If(kind = "failed", Msg("terminal", 0))]
  <2>1. UNCHANGED <<pages, engines, up, eports, must, history, faults>>
    BY <1>2 DEF Registered
  <2>2. OtherPorts
    BY <2>1 DEF OtherPorts, EupKept, eports, CacheInv, PortTypes
  <2>3. CASE UNCHANGED <<core, down>>
    <3>1. NoNewBecome
      BY <2>3 DEF NoNewBecome
    <3> QED BY <1>0, <2>1, <2>2, <2>3, <3>1, SameRest DEF core
  <2>4. CASE Activate(tabs', None, action, tabs', first) /\ tabs' = tabs \cup {t}
    <3>1. \A s \in Tab : Plain(first[s])
      BY <1>0, CoordMessages, PlainIf
    <3>2. tabs' \in SUBSET Tab /\ first = [s \in Tab |-> first[s]]
      BY <1>0, <2>4
    <3> HIDE DEF first
    <3> QED BY <1>0, <2>1, <2>2, <2>4, <3>1, <3>2, ActivateRest
  <2>5. CASE Post(tabs', last) /\ UNCHANGED <<kind, owner, epoch, action>>
    <3>1. ASSUME NEW s \in Tab PROVE Plain(last[s])
      <4> DEFINE a == If(s = t, Msg("registered", 0))
                 b == If(kind = "failed", Msg("terminal", 0))
      <4>1. Plain(a) /\ Plain(b)
        BY <1>0, CoordMessages, PlainIf
      <4>2. last[s] = a \o b
        OBVIOUS
      <4> HIDE DEF a, b
      <4> QED BY <4>1, <4>2, PlainJoin
    <3>2. last = [s \in Tab |-> last[s]]
      OBVIOUS
    <3> HIDE DEF last
    <3>3. down' \in [Tab -> Seq(Message)] /\ NoNewBecome
      BY <1>0, <2>5, <3>1, <3>2, PlainPost
    <3> QED BY <2>1, <2>2, <2>5, <3>3, SameRest
  <2>6. \/ UNCHANGED <<core, down>>
        \/ Activate(tabs', None, action, tabs', first) /\ tabs' = tabs \cup {t}
        \/ Post(tabs', last) /\ UNCHANGED <<kind, owner, epoch, action>>
    BY <1>2, Zenon DEF Registered
  <2> HIDE DEF first, last
  <2> QED BY <2>3, <2>4, <2>5, <2>6
<1> QED BY <1>1, <1>2

\* Answers are plain.
LEMMA PlainAnswers ==
    ASSUME epoch \in Nat
    PROVE  \A s \in Tab : Plain([r \in Tab |-> <<Msg("answer", 0)>>][s])
<1>1. <<Msg("answer", 0)>> = If(TRUE, Msg("answer", 0))
  BY DEF If
<1>2. Plain(If(TRUE, Msg("answer", 0)))
  BY CoordMessages, PlainIf
<1> QED BY <1>1, <1>2

\* Requests, engine ports and drains.
LEMMA RequestRest ==
    ASSUME CacheInv, NEW t \in Tab, Request(t) \/ AttachEnginePort(t) \/ GracefulDeparture(t)
    PROVE  Rest'
<1>0. /\ epoch \in Nat /\ PortTypes
      /\ down \in [Tab -> Seq(Message)] /\ edown \in [Tab -> Seq(Message)]
  BY DEF CacheInv, CoordInv, CoreTypes, PortTypes
<1>1. /\ up[t] # <<>> /\ Taken(t)
      /\ UNCHANGED <<owner, epoch, action, must, pages, engines, eup, history, faults>>
  <2>1. CASE Request(t)
    BY <2>1 DEF Request, From
  <2>2. CASE AttachEnginePort(t)
    BY <2>2 DEF AttachEnginePort, From, core, eports
  <2>3. CASE GracefulDeparture(t)
    BY <2>3 DEF GracefulDeparture, From
  <2> QED BY <2>1, <2>2, <2>3
<1>2. up' \in [Tab -> Seq(Message)] /\ eup' \in [Tab -> Seq(Message)] /\ EupKept
  <2>1. up' \in [Tab -> Seq(Message)]
    BY <1>0, <1>1, PortTail DEF PortTypes, Taken
  <2> QED BY <1>0, <1>1, <2>1 DEF EupKept, PortTypes
<1>3. edown' \in [Tab -> Seq(Message)]
  <2>1. \/ UNCHANGED edown
        \/ ToEngine([Msg("request", epoch) EXCEPT !.of = {t}])
        \/ ToEngine(Msg("drain", epoch))
    BY DEF Request, AttachEnginePort, GracefulDeparture, eports
  <2>2. [Msg("request", epoch) EXCEPT !.of = {t}] \in Message /\ Msg("drain", epoch) \in Message
    BY <1>0 DEF Msg, Message
  <2>3. CASE UNCHANGED edown
    BY <1>0, <2>3
  <2> QED BY <1>0, <2>1, <2>2, <2>3, ToEngineType
<1>4. down' \in [Tab -> Seq(Message)] /\ NoNewBecome
  <2> DEFINE new == [s \in Tab |-> <<Msg("answer", 0)>>]
  <2>1. \A s \in Tab : Plain(new[s])
    BY <1>0, PlainAnswers
  <2>2. new = [s \in Tab |-> new[s]]
    OBVIOUS
  <2>3. UNCHANGED down \/ Post({t}, new)
    BY DEF Request, AttachEnginePort, GracefulDeparture
  <2> HIDE DEF new
  <2>4. CASE UNCHANGED down
    BY <1>0, <2>4 DEF NoNewBecome
  <2>5. CASE Post({t}, new)
    BY <1>0, <2>1, <2>2, <2>5, PlainPost
  <2> QED BY <2>3, <2>4, <2>5
<1>5. kind' = kind \/ (kind = "active" /\ kind' = "draining")
  BY DEF Request, AttachEnginePort, GracefulDeparture, core
<1>6. OtherPorts
  BY <1>2, <1>3 DEF OtherPorts
<1> QED BY <1>1, <1>4, <1>5, <1>6, SameRest

\* An owner goes in peace.
LEMMA SucceedRest ==
    ASSUME CacheInv, NEW t, NEW a \in Action, NEW last, last = [s \in Tab |-> last[s]],
           \A s \in Tab : Plain(last[s]), Succeed(t, a, last), must => a = "wipe",
           UNCHANGED <<pages, engines, history, faults, must>>, OtherPorts
    PROVE  Rest'
<1> DEFINE first == [s \in Tab |-> If(s \in Routed, Msg("answer", 0)) \o last[s]]
<1>0. epoch \in Nat /\ tabs \ {t} \in SUBSET Tab
  BY DEF CacheInv, CoordInv, CoreTypes
<1>1. Activate(tabs \ {t}, None, a, tabs, first)
  BY DEF Succeed
<1>2. ASSUME NEW s \in Tab PROVE Plain(first[s])
  <2> DEFINE b == If(s \in Routed, Msg("answer", 0))
  <2>1. Plain(b) /\ Plain(last[s])
    BY <1>0, CoordMessages, PlainIf
  <2>2. first[s] = b \o last[s]
    OBVIOUS
  <2> HIDE DEF b
  <2> QED BY <2>1, <2>2, PlainJoin
<1>3. first = [s \in Tab |-> first[s]]
  OBVIOUS
<1> HIDE DEF first
<1> QED BY <1>0, <1>1, <1>2, <1>3, ActivateRest

\* An owner that has not been ready passes its action on; one that has has no duty.
LEMMA NavigationRest == ASSUME CacheInv, NEW t \in Tab, NavigationDeparture(t) PROVE Rest'
<1> DEFINE a == IF kind = "activating" THEN action ELSE "open"
<1>0. /\ down \in [Tab -> Seq(Message)] /\ a \in Action
  BY DEF CacheInv, CoordInv, CoreTypes, PortTypes
<1>1. /\ up[t] # <<>> /\ Taken(t) /\ UNCHANGED <<pages, engines, eports, must, history, faults>>
  BY DEF NavigationDeparture, From
<1>2. OtherPorts
  BY <1>1, TakenPorts
<1>3. CASE IsOwner(t, Head(up[t]).epoch)
  <2>1. Succeed(t, a, Nothing)
    BY <1>3 DEF NavigationDeparture
  <2>2. must => a = "wipe"
    BY <1>3 DEF CacheInv, WipeInv, DutyKept, IsOwner
  <2>3. Nothing = [s \in Tab |-> Nothing[s]] /\ \A s \in Tab : Plain(Nothing[s])
    BY PlainEmpty DEF Nothing
  <2> HIDE DEF a
  <2> QED BY <1>0, <1>1, <1>2, <2>1, <2>2, <2>3, SucceedRest
<1>4. CASE ~IsOwner(t, Head(up[t]).epoch)
  <2>1. UNCHANGED <<core, down>>
    BY <1>4 DEF NavigationDeparture
  <2>2. NoNewBecome
    BY <2>1 DEF NoNewBecome
  <2> QED BY <1>0, <1>1, <1>2, <2>1, <2>2, SameRest DEF core
<1> QED BY <1>3, <1>4

\* An engine, or a whole tab, is reported lost.
LEMMA LossRest ==
    ASSUME CacheInv, NEW t \in Tab, EngineLost(t) \/ DisconnectTab(t) \/ LockReleased(t)
    PROVE  Rest'
<1>0. faults \in 0..MaxFaults /\ down \in [Tab -> Seq(Message)]
  BY DEF CacheInv, PageTypes, PortTypes
<1>1. CASE EngineLost(t)
  <2>1. /\ up[t] # <<>> /\ Taken(t) /\ UNCHANGED <<pages, engines, eports, history, faults>>
    BY <1>1 DEF EngineLost, From
  <2>2. OtherPorts
    BY <2>1, TakenPorts
  <2>3. CASE LoseOwner(t, FALSE)
    BY <1>0, <2>1, <2>2, <2>3, LoseOwnerRest
  <2>4. CASE UNCHANGED <<core, down, must>>
    <3>1. NoNewBecome
      BY <2>4 DEF NoNewBecome
    <3> QED BY <1>0, <2>1, <2>2, <2>4, <3>1, SameRest DEF core
  <2> QED BY <1>1, <2>3, <2>4 DEF EngineLost, FailOwner
<1>2. CASE DisconnectTab(t)
  <2>1. /\ up[t] # <<>> /\ Taken(t) /\ LoseTab(t)
        /\ UNCHANGED <<pages, engines, eports, history, faults>>
    BY <1>2 DEF DisconnectTab, From
  <2>2. OtherPorts
    BY <2>1, TakenPorts
  <2> QED BY <2>1, <2>2, LoseTabRest
<1>3. CASE LockReleased(t)
  <2>1. LoseTab(t) /\ UNCHANGED <<pages, engines, up, eports, history, faults>>
    BY <1>3 DEF LockReleased
  <2>2. OtherPorts
    BY <2>1 DEF OtherPorts, EupKept, eports, CacheInv, PortTypes
  <2> QED BY <2>1, <2>2, LoseTabRest
<1> QED BY <1>1, <1>2, <1>3

\* Messages of the engine; the one that says it is ready has done its duty.
LEMMA EngineMessageRest == ASSUME CacheInv, EngineMessage PROVE Rest'
<1>0. /\ owner \in Tab /\ epoch \in Nat /\ queue \in SUBSET Tab /\ faults \in 0..MaxFaults
      /\ PortTypes /\ down \in [Tab -> Seq(Message)] /\ edown \in [Tab -> Seq(Message)]
  <2>1. route # 0
    BY DEF EngineMessage, AssetsReady, OwnerReady, EngineResponse, OwnerDrained, EngineFatal,
       FromEngine
  <2> QED BY <2>1 DEF CacheInv, CoordInv, RouteInv, CoreTypes, PageTypes, PortTypes
<1>1. /\ eup[owner] # <<>> /\ EngineTaken
      /\ UNCHANGED <<pages, engines, up, history, faults>>
  BY DEF EngineMessage, AssetsReady, OwnerReady, EngineResponse, OwnerDrained, EngineFatal,
     FromEngine
<1>2. CASE EngineResponse \/ OwnerDrained \/ EngineFatal
  <2>1. OtherPorts
    <3>1. UNCHANGED edown
      BY <1>2 DEF EngineResponse, OwnerDrained, EngineFatal
    <3> QED BY <1>0, <1>1, <3>1, EngineTakenPorts
  <2>2. CASE EngineResponse
    <3> DEFINE new == [s \in Tab |-> <<Msg("answer", 0)>>]
    <3>1. /\ \E S : Post(S, new)
          /\ UNCHANGED <<kind, owner, epoch, action, must>>
      BY <2>2 DEF EngineResponse
    <3>2. \A s \in Tab : Plain(new[s])
      BY <1>0, PlainAnswers
    <3>3. new = [s \in Tab |-> new[s]]
      OBVIOUS
    <3> HIDE DEF new
    <3>4. down' \in [Tab -> Seq(Message)] /\ NoNewBecome
      BY <1>0, <3>1, <3>2, <3>3, PlainPost
    <3> QED BY <1>1, <2>1, <3>1, <3>4, SameRest
  <2>3. CASE OwnerDrained
    <3> DEFINE last == [s \in Tab |-> If(s = owner, Msg("retire", epoch))]
    <3>1. Succeed(owner, "open", last) /\ UNCHANGED must /\ kind = "draining"
      BY <2>3 DEF OwnerDrained
    <3>2. ~must
      BY <3>1 DEF CacheInv, WipeInv, DutyKept
    <3>3. \A s \in Tab : Plain(last[s])
      BY <1>0, CoordMessages, PlainIf
    <3>4. last = [s \in Tab |-> last[s]]
      OBVIOUS
    <3> HIDE DEF last
    <3> QED BY <1>1, <2>1, <3>1, <3>2, <3>3, <3>4, SucceedRest
  <2>4. CASE EngineFatal
    <3>1. LoseOwner(owner, FALSE)
      BY <2>4 DEF EngineFatal, FailOwner
    <3> QED BY <1>0, <1>1, <2>1, <3>1, LoseOwnerRest
  <2> QED BY <1>2, <2>2, <2>3, <2>4
<1>3. CASE OwnerReady \/ AssetsReady
  <2>1. edown' \in [Tab -> Seq(Message)]
    <3>1. \/ UNCHANGED edown
          \/ ToEngine([Msg("request", epoch) EXCEPT !.of = queue])
          \/ ToEngine(Msg("open", epoch))
      BY <1>3 DEF OwnerReady, AssetsReady
    <3>2. /\ [Msg("request", epoch) EXCEPT !.of = queue] \in Message
          /\ Msg("open", epoch) \in Message
      BY <1>0 DEF Msg, Message
    <3>3. CASE UNCHANGED edown
      BY <1>0, <3>3
    <3> QED BY <1>0, <3>1, <3>2, <3>3, ToEngineType
  <2>2. OtherPorts /\ Head(eup[owner]) \in Contents(eup[owner])
    BY <1>0, <1>1, <2>1, EngineTakenPorts
  <2>3. /\ UNCHANGED <<owner, epoch, action, down, must>>
        /\ \/ kind' = kind
           \/ /\ kind = "activating" /\ kind' = "active"
              /\ Head(eup[owner]).kind = "ready" /\ Head(eup[owner]).epoch = epoch
    BY <1>3 DEF OwnerReady, AssetsReady, FromEngine
  <2>4. kind' = kind \/ (kind = "activating" /\ kind' = "active" /\ ~must)
    BY <1>0, <2>2, <2>3 DEF CacheInv, WipeInv, DutyDone
  <2>5. NoNewBecome
    BY <2>3 DEF NoNewBecome
  <2> QED BY <1>0, <1>1, <2>2, <2>3, <2>4, <2>5, SameRest
<1> QED BY <1>2, <1>3 DEF EngineMessage

\* resumeAfterLoss(), and the watchdogs.
LEMMA TimerRest == ASSUME CacheInv, Resume \/ Watchdog \/ FalseAlarm PROVE Rest'
<1>0. /\ action \in Action /\ tabs \in SUBSET Tab /\ (must => action = "wipe")
      /\ faults \in 0..MaxFaults
  BY DEF CacheInv, CoordInv, CoreTypes, PageTypes, WipeInv, DutyKept
<1>1. UNCHANGED <<pages, engines, up, eports, history>>
  BY DEF Resume, Watchdog, FalseAlarm
<1>2. OtherPorts
  BY <1>1 DEF OtherPorts, EupKept, eports, CacheInv, PortTypes
<1>3. CASE Resume
  <2>1. Activate(tabs, owner, action, tabs, Nothing) /\ UNCHANGED <<must, faults>>
    BY <1>3 DEF Resume
  <2>2. Nothing = [s \in Tab |-> Nothing[s]] /\ \A s \in Tab : Plain(Nothing[s])
    BY PlainEmpty DEF Nothing
  <2> QED BY <1>0, <1>1, <1>2, <2>1, <2>2, ActivateRest
<1>4. CASE Watchdog \/ FalseAlarm
  <2>1. LoseOwner(owner, FALSE) /\ kind \in {"activating", "active"}
    BY <1>4 DEF Watchdog, FalseAlarm, FailOwner
  <2>2. owner \in Tab
    BY <2>1 DEF CacheInv, CoordInv, RouteInv, CoreTypes
  <2>3. faults' \in 0..MaxFaults
    BY <1>0, <1>4, FaultType DEF Watchdog, FalseAlarm
  <2> QED BY <1>1, <1>2, <2>1, <2>2, <2>3, LoseOwnerRest
<1> QED BY <1>3, <1>4

-----------------------------------------------------------------------------
(* The invariant of the whole cache *)

\* Everything starts empty.
LEMMA CacheInit == Init => CacheInv
<1> SUFFICES ASSUME Init PROVE CacheInv
  OBVIOUS
<1>1. CoordInv /\ PageTypes /\ PortTypes
  BY CoordInit, TypesInit
<1>2. /\ kind = "waiting" /\ epoch = 0 /\ ~must
      /\ \A t \in Tab : own[t] = 0 /\ eng[t] = "none" /\ down[t] = <<>> /\ eup[t] = <<>>
  BY DEF Init
<1>3. \A t \in Tab : Contents(down[t]) = {} /\ Contents(eup[t]) = {}
  BY <1>2 DEF Contents
<1>4. DutyKept
  BY <1>2 DEF DutyKept, Owning
<1>5. EpochsOwned
  BY <1>2 DEF EpochsOwned
<1>6. ElectionsFresh
  BY <1>3 DEF ElectionsFresh
<1>7. DutyDone
  BY <1>2, <1>3 DEF DutyDone
<1> QED BY <1>1, <1>4, <1>5, <1>6, <1>7 DEF CacheInv, WipeInv

\* Every step keeps the whole invariant.
LEMMA CacheNext == CacheInv /\ [Next]_vars => CacheInv'
<1> SUFFICES ASSUME CacheInv, [Next]_vars PROVE CacheInv'
  OBVIOUS
<1>0. CoordInv /\ PageTypes /\ PortTypes
  BY DEF CacheInv
<1>1. CoordInv'
  BY <1>0, CoordNext
<1>2. ASSUME NEW t \in Tab, User(t) \/ PageStep(t) \/ EngineStep(t) \/ Failure(t) PROVE Rest'
  <2>1. PageTypes' /\ PortTypes'
    BY <1>0, <1>2, UserTypes, PageStepTypes, EngineStepTypes, FailureTypes
  <2>2. WipeInv'
    BY <1>2, UserWipe, PageStepWipe, EngineStepWipe, FailureWipe
  <2> QED BY <2>1, <2>2 DEF Rest
<1>3. ASSUME NEW t \in Tab, TabMessage(t) \/ LockReleased(t) PROVE Rest'
  BY <1>3, RegisterRest, RequestRest, NavigationRest, LossRest DEF TabMessage
<1>4. CASE UNCHANGED vars
  <2>1. UNCHANGED <<core, pages, engines, history, faults, must, up, down, eports>>
    BY <1>4 DEF vars
  <2>2. OtherPorts /\ NoNewBecome /\ down' \in [Tab -> Seq(Message)]
    BY <1>0, <2>1 DEF OtherPorts, EupKept, NoNewBecome, eports, PortTypes
  <2>3. Rest'
    BY <2>1, <2>2, SameRest DEF core
  <2> QED BY <1>1, <2>3 DEF Rest, CacheInv
<1>5. CASE Next
  <2>1. Rest'
    BY <1>2, <1>3, <1>5, EngineMessageRest, TimerRest DEF Next
  <2> QED BY <1>1, <2>1 DEF Rest, CacheInv
<1> QED BY <1>4, <1>5

\* Coordinator, pages, engines, ports and the duty to wipe, in every reachable state.
THEOREM CacheInvariant == Spec => []CacheInv
BY CacheInit, CacheNext, PTL DEF Spec

\* Every variable and every message in a port is of its type, whatever pages and
\* engines come and go (coordinator-protocol.ts: the messages of coordinator, page and engine).
THEOREM CoordinatorTypeCorrect == Spec => []TypeOK
<1>1. CacheInv => TypeOK
  BY DEF CacheInv, CoordInv, TypeOK
<1> QED BY <1>1, CacheInvariant, PTL

\* No owner uses a database that an earlier owner may have left half written before
\* it is wiped, whatever losses, drains, navigations and empty times lie between
\* (coordinator-core.ts: transitionToAbruptLoss(), nextDatabaseAction).
THEOREM WipeIsNeverForgotten == Spec => []RequiredWipe
<1>1. CacheInv => RequiredWipe
  <2> SUFFICES ASSUME CacheInv, NEW t \in Tab, Current(t),
                      eng[t] \in {"opening", "ready", "draining"}
               PROVE  ~must
    BY DEF RequiredWipe
  <2>1. CASE kind = "activating"
    BY <2>1 DEF CacheInv, WipeInv, DutyDone, Current
  <2>2. CASE kind # "activating"
    BY <2>2 DEF CacheInv, WipeInv, DutyKept, Current
  <2> QED BY <2>1, <2>2
<1> QED BY <1>1, CacheInvariant, PTL

=============================================================================
