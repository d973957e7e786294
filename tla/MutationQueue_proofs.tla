------------------------ MODULE MutationQueue_proofs ------------------------
(***************************************************************************)
(* The queue of optimistic mutations, for any number of clients,           *)
(* mutations, subjects, network failures, crashes and moves of the engine. *)
(***************************************************************************)
EXTENDS MutationQueue, WellFoundedInduction, TLAPS

-----------------------------------------------------------------------------
(* The inductive invariant *)

\* The mutation whose claim w carries or settles.
Mut(w) == IF w.k \in {"enqueue", "claim"} THEN w.got ELSE w.m

\* An answer with a claim that has not been routed yet; whatever will lead to a
\* request; and every item that carries a claim.
Claims(w)  == w.k \in {"enqueue", "claim"} /\ w.st = "done" /\ w.got # None
Attempt(w) == w.k = "net" \/ Claims(w)
Holder(w)  == w.k \in {"net", "commit", "rollback", "defer", "discard"} \/ Claims(w)

Enqueues(w) == w.k = "enqueue" /\ w.st = "posted"

\* The row with the least id is leased to w.
Leads(w) ==
    /\ DOMAIN queue # {} /\ queue[First(queue)].m = Mut(w)
    /\ queue[First(queue)].owner = w.c /\ queue[First(queue)].gen = w.gen
    /\ queue[First(queue)].lease = "held"

\* The lease w was given has run out in use.
Overran(w) == <<Mut(w), w.gen>> \in overrun

\* Nothing in the queue was enqueued before m.
Ahead(m) == order[m] # 0 /\ \A i \in DOMAIN queue : order[m] <= i

\* A mutation has at most one row, under the id it was given.
Ordered ==
    /\ \A i \in DOMAIN queue : order[queue[i].m] = i
    /\ \A m \in Mutation : order[m] <= nextId /\ (m \notin posted => order[m] = 0)

\* The newest intent has been enqueued, and its row is not superseded.
NewestInv ==
    \A u \in Uuid : newest[u] # None =>
        /\ order[newest[u]] # 0
        /\ \A i \in DOMAIN queue :
             queue[i].m = newest[u] => queue[i].uuid = u /\ ~queue[i].superseded

\* What was executed or may be executed late came before whatever is in the queue.
PastInv == (\A m \in executed : Ahead(m)) /\ \A w \in late : Ahead(w.m)

RowsInv == HeirExists /\ Ordered /\ NewestInv /\ NewestIntentKept /\ PastInv

\* Of one item: an attempt has the lease of the head unless it ran out, and came before
\* whatever is queued; a settlement has at most an outdated lease, and what is settled
\* has been decided.
ItemInv(w) ==
    /\ w.k = "net" => w.st = "posted"
    /\ w.k = "enqueue" => w.uuid \in Uuid
    /\ w.k \in {"enqueue", "claim"} /\ w.st = "posted" => w.got = None
    /\ Enqueues(w) => order[w.m] = 0 /\ w.m \in posted
    /\ Holder(w) => /\ Mut(w) \in Mutation /\ order[Mut(w)] # 0
                    /\ \A i \in DOMAIN queue : queue[i].m = Mut(w) => w.gen <= queue[i].gen
    /\ Attempt(w) => (Leads(w) \/ Overran(w)) /\ Ahead(Mut(w))
    /\ w.k = "commit" => w.m \in executed
    /\ w.k = "rollback" => w.m \in refused
    /\ w.k = "discard" \/ (Claims(w) /\ w.superseded) =>
         \A i \in DOMAIN queue : queue[i].m = Mut(w) => queue[i].superseded

\* Of two items: a mutation is posted once, and a generation of its lease belongs to
\* one of them.
Apart(v, w) ==
    /\ Enqueues(v) /\ Enqueues(w) /\ v.m = w.m => v = w
    /\ Holder(v) /\ Holder(w) /\ Mut(v) = Mut(w) /\ v.gen = w.gen => v = w

WorkInv ==
    /\ \A w \in work : ItemInv(w)
    /\ \A v, w \in work : Apart(v, w)

\* What wakes a client, what ends its attempt, and what ends its drain.
Awake(c) ==
    /\ timer[c] \/ \E w \in work : w.c = c /\ w.k # "enqueue"
    /\ attemptInFlight[c] =>
         \E w \in work : w.c = c /\ w.k \in {"net", "commit", "rollback", "defer"}
    /\ drainRunning[c] => \E w \in work : w.c = c /\ w.k # "enqueue" /\ w.from = "drain"
RunnerInv == \A c \in alive : Awake(c)

QueueInv == TypeOK /\ RowsInv /\ WorkInv /\ RunnerInv

-----------------------------------------------------------------------------
(* Operators *)

\* A nonempty set of naturals has a least element.
LEMMA Least ==
    ASSUME NEW S \in SUBSET Nat, S # {} PROVE \E m \in S : \A n \in S : m <= n
<1> DEFINE R == OpToRel(<, Nat)
<1>1. IsWellFoundedOn(R, Nat)
  BY NatLessThanWellFounded
<1>2. \E x \in S : \A y \in S : ~(<<y, x>> \in R)
  <2> HIDE DEF R
  <2> QED BY <1>1, WFMin
<1>3. \A x, y \in Nat : y < x => <<y, x>> \in R
  BY DEF OpToRel
<1> HIDE DEF R
<1>4. \A x, y \in Nat : ~(<<y, x>> \in R) => x <= y
  BY <1>3
<1> QED BY <1>2, <1>4

\* QUEUE_HEAD_SELECT returns the row with the least id.
LEMMA FirstLeast ==
    ASSUME NEW q, DOMAIN q \in SUBSET Nat, DOMAIN q # {}
    PROVE  First(q) \in DOMAIN q /\ \A j \in DOMAIN q : First(q) <= j
<1>1. \E i \in DOMAIN q : \A j \in DOMAIN q : i <= j
  BY Least
<1> QED BY <1>1 DEF First

\* There is only one such row.
LEMMA FirstIs ==
    ASSUME NEW q, DOMAIN q \in SUBSET Nat, NEW i \in DOMAIN q, \A j \in DOMAIN q : i <= j
    PROVE  First(q) = i
<1>1. First(q) \in DOMAIN q /\ First(q) <= i
  BY FirstLeast
<1>2. i <= First(q) /\ i \in Nat /\ First(q) \in Nat
  BY <1>1
<1> QED BY <1>1, <1>2

\* The ids of the queue, and its rows.
LEMMA QueueTyped ==
    ASSUME TypeOK
    PROVE  /\ nextId \in Nat /\ nextId + 1 \notin DOMAIN queue
           /\ DOMAIN queue \in SUBSET Nat
           /\ \A i \in DOMAIN queue : queue[i] \in Row
BY DEF TypeOK

\* The columns of a row.
LEMMA RowTyped ==
    ASSUME NEW r \in Row
    PROVE  /\ r.m \in Mutation /\ r.uuid \in Uuid /\ r.superseded \in BOOLEAN
           /\ r.owner \in Client \cup {None} /\ r.gen \in Nat /\ r.lease \in Lease
BY DEF Row

\* The fields of a call or a request.
LEMMA ItemTyped ==
    ASSUME NEW w \in Item
    PROVE  /\ w.c \in Client /\ w.m \in Mutation \cup {None} /\ w.uuid \in Uuid \cup {None}
           /\ w.k \in {"enqueue", "claim", "net", "discard", "commit", "defer", "rollback"}
           /\ w.gen \in Nat /\ w.st \in {"posted", "done", "lost"}
           /\ w.from \in {"enqueue", "drain", "caller"}
           /\ w.got \in Mutation \cup {None} /\ w.superseded \in BOOLEAN
           /\ w.replaced \in Mutation \cup {None}
BY DEF Item

\* A call that is posted.
LEMMA CallTyped ==
    ASSUME NEW c \in Client, NEW m \in Mutation \cup {None}, NEW u \in Uuid \cup {None},
           NEW g \in Nat, NEW f \in {"enqueue", "drain", "caller"},
           NEW k \in {"enqueue", "claim", "net", "discard", "commit", "defer", "rollback"}
    PROVE  /\ Call(c, k, m, u, g, f) \in Item
           /\ Call(c, k, m, u, g, f).c = c /\ Call(c, k, m, u, g, f).k = k
           /\ Call(c, k, m, u, g, f).m = m /\ Call(c, k, m, u, g, f).gen = g
           /\ Call(c, k, m, u, g, f).st = "posted" /\ Call(c, k, m, u, g, f).from = f
           /\ Call(c, k, m, u, g, f).uuid = u /\ Call(c, k, m, u, g, f).got = None
BY DEF Call, Item

\* A request, or a discard, under a claim.
LEMMA RouteCall ==
    ASSUME NEW c \in Client, NEW m \in Mutation, NEW g \in Nat,
           NEW f \in {"enqueue", "drain", "caller"}, NEW k \in {"net", "discard"}
    PROVE  /\ Call(c, k, m, None, g, f) \in Item
           /\ Call(c, k, m, None, g, f).c = c /\ Call(c, k, m, None, g, f).k = k
           /\ Call(c, k, m, None, g, f).m = m /\ Call(c, k, m, None, g, f).gen = g
           /\ Call(c, k, m, None, g, f).st = "posted" /\ Call(c, k, m, None, g, f).from = f
BY DEF Call, Item

\* An item that is done or lost is otherwise what it was.
LEMMA StTyped ==
    ASSUME NEW w \in Item, NEW s \in {"done", "lost"}
    PROVE  /\ [w EXCEPT !.st = s] \in Item
           /\ [w EXCEPT !.st = s].c = w.c /\ [w EXCEPT !.st = s].k = w.k
           /\ [w EXCEPT !.st = s].m = w.m /\ [w EXCEPT !.st = s].gen = w.gen
           /\ [w EXCEPT !.st = s].st = s /\ [w EXCEPT !.st = s].from = w.from
           /\ [w EXCEPT !.st = s].got = w.got /\ [w EXCEPT !.st = s].superseded = w.superseded
           /\ [w EXCEPT !.st = s].uuid = w.uuid
BY DEF Item

\* A request that has been answered becomes the settlement of its claim.
LEMMA KTyped ==
    ASSUME NEW w \in Item, NEW k \in {"commit", "defer", "rollback"}
    PROVE  /\ [w EXCEPT !.k = k] \in Item
           /\ [w EXCEPT !.k = k].c = w.c /\ [w EXCEPT !.k = k].k = k
           /\ [w EXCEPT !.k = k].m = w.m /\ [w EXCEPT !.k = k].gen = w.gen
           /\ [w EXCEPT !.k = k].st = w.st /\ [w EXCEPT !.k = k].from = w.from
BY DEF Item

-----------------------------------------------------------------------------
(* The store *)

\* The head under a new lease.
LEMMA LeasedRow ==
    ASSUME NEW r \in Row, NEW c \in Client
    PROVE  /\ Leased(r, c) \in Row
           /\ Leased(r, c).m = r.m /\ Leased(r, c).uuid = r.uuid
           /\ Leased(r, c).superseded = r.superseded
           /\ Leased(r, c).owner = c /\ Leased(r, c).gen = r.gen + 1
           /\ Leased(r, c).lease = "held" /\ r.gen \in Nat
<1>1. r.gen \in Nat /\ r.gen + 1 \in Nat
  BY DEF Row
<1> DEFINE g == r.gen + 1
<1>2. Leased(r, c) = [r EXCEPT !.owner = c, !.gen = g, !.lease = "held"]
  BY DEF Leased
<1> HIDE DEF g
<1>3. [r EXCEPT !.owner = c, !.gen = g, !.lease = "held"] \in Row
  BY <1>1 DEF Row, Lease, g
<1>4. /\ Leased(r, c).m = r.m /\ Leased(r, c).uuid = r.uuid
      /\ Leased(r, c).superseded = r.superseded /\ Leased(r, c).owner = c
      /\ Leased(r, c).gen = g /\ Leased(r, c).lease = "held"
  BY <1>2 DEF Row
<1> QED BY <1>1, <1>2, <1>3, <1>4 DEF g

\* claim_next_mutation() touches the lease of the head, and only if it is claimable.
LEMMA ClaimedRows ==
    ASSUME NEW q, NEW n \in Nat, DOMAIN q \subseteq 1..n, q \in [DOMAIN q -> Row],
           NEW c \in Client
    PROVE  /\ DOMAIN Claimed(q, c) = DOMAIN q
           /\ Claimed(q, c) \in [DOMAIN q -> Row]
           /\ ~Claimable(q) => Claimed(q, c) = q
           /\ \A i \in DOMAIN q :
                /\ Claimed(q, c)[i].m = q[i].m /\ Claimed(q, c)[i].uuid = q[i].uuid
                /\ Claimed(q, c)[i].superseded = q[i].superseded
                /\ q[i].gen <= Claimed(q, c)[i].gen
                /\ i # First(q) => Claimed(q, c)[i] = q[i]
           /\ Claimable(q) => 
                /\ First(q) \in DOMAIN q /\ First(Claimed(q, c)) = First(q)
                /\ Claimed(q, c)[First(q)].owner = c
                /\ Claimed(q, c)[First(q)].gen = q[First(q)].gen + 1
                /\ Claimed(q, c)[First(q)].lease = "held"
<1>0. DOMAIN q \in SUBSET Nat
  OBVIOUS
<1>1. CASE ~Claimable(q)
  <2>1. Claimed(q, c) = q
    BY <1>1 DEF Claimed
  <2>2. \A i \in DOMAIN q : q[i].gen \in Nat
    BY RowTyped
  <2> QED BY <1>1, <2>1, <2>2
<1>2. CASE Claimable(q)
  <2> DEFINE f == First(q)
             r == Leased(q[f], c)
             p == Claimed(q, c)
  <2>1. f \in DOMAIN q /\ \A j \in DOMAIN q : f <= j
    BY <1>0, <1>2, FirstLeast DEF Claimable
  <2>2. p = [q EXCEPT ![f] = r]
    BY <1>2, Zenon DEF Claimed
  <2>3. r \in Row /\ r.m = q[f].m /\ r.uuid = q[f].uuid /\ r.superseded = q[f].superseded
        /\ r.owner = c /\ r.gen = q[f].gen + 1 /\ r.lease = "held" /\ q[f].gen \in Nat
    BY <2>1, LeasedRow
  <2> HIDE DEF r, f, p
  <2>4. DOMAIN p = DOMAIN q /\ p \in [DOMAIN q -> Row] /\ p[f] = r
        /\ \A i \in DOMAIN q : i # f => p[i] = q[i]
    BY <2>1, <2>2, <2>3
  <2>5. First(p) = f
    BY <1>0, <2>1, <2>4, FirstIs
  <2>6. \A i \in DOMAIN q : q[i].gen \in Nat
    BY RowTyped
  <2>7. \A i \in DOMAIN q :
          /\ p[i].m = q[i].m /\ p[i].uuid = q[i].uuid
          /\ p[i].superseded = q[i].superseded
          /\ q[i].gen <= p[i].gen
          /\ i # f => p[i] = q[i]
    BY <2>3, <2>4, <2>6
  <2> QED BY <1>2, <2>1, <2>3, <2>4, <2>5, <2>7 DEF f, p
<1> QED BY <1>1, <1>2

\* upsert_mutation_with_shadow() appends a row, removes the one it replaces and marks
\* the one it supersedes.
IsUpserted(q, m, u) ==
    /\ DOMAIN q = (DOMAIN queue \ Replaced(u)) \cup {nextId + 1}
    /\ q \in [DOMAIN q -> Row]
    /\ q[nextId + 1] = NewRow(m, u)
    /\ \A i \in DOMAIN queue \ Replaced(u) :
         /\ q[i].m = queue[i].m /\ q[i].uuid = queue[i].uuid
         /\ q[i].owner = queue[i].owner /\ q[i].gen = queue[i].gen
         /\ q[i].lease = queue[i].lease
         /\ q[i].superseded <=> queue[i].superseded \/ i \in Collision(u)

\* An enqueue leaves such a table.
LEMMA UpsertedRows ==
    ASSUME TypeOK, NEW m \in Mutation, NEW u \in Uuid
    PROVE  IsUpserted(Upserted(m, u), m, u)
<1> DEFINE D == (DOMAIN queue \ Replaced(u)) \cup {nextId + 1}
           r(i) == [queue[i] EXCEPT !.superseded = @ \/ i \in Collision(u)]
           q == Upserted(m, u)
<1>1. \A i \in DOMAIN queue : queue[i] \in Row
  BY QueueTyped
<1>2. \A i \in DOMAIN queue :
        /\ r(i) \in Row /\ r(i).m = queue[i].m /\ r(i).uuid = queue[i].uuid
        /\ r(i).owner = queue[i].owner /\ r(i).gen = queue[i].gen
        /\ r(i).lease = queue[i].lease
        /\ r(i).superseded <=> queue[i].superseded \/ i \in Collision(u)
  BY <1>1 DEF Row
<1>3. NewRow(m, u) \in Row
  BY DEF NewRow, Row, Lease
<1>4. q = [i \in D |-> IF i = nextId + 1 THEN NewRow(m, u) ELSE r(i)]
  BY Zenon DEF Upserted
<1>5. nextId + 1 \notin DOMAIN queue
  BY QueueTyped
<1> HIDE DEF r, q
<1>6. DOMAIN q = D /\ q[nextId + 1] = NewRow(m, u)
      /\ \A i \in DOMAIN queue \ Replaced(u) : q[i] = r(i)
  BY <1>4, <1>5
<1>7. q \in [D -> Row]
  BY <1>2, <1>3, <1>4, <1>6
<1> QED BY <1>2, <1>6, <1>7 DEF q, IsUpserted

\* What a claim puts into its answer.
LEMMA WithClaimFields ==
    ASSUME NEW w \in Item, NEW q, NEW n \in Nat, DOMAIN q \subseteq 1..n,
           q \in [DOMAIN q -> Row]
    PROVE  /\ WithClaim(w, q) \in Item
           /\ WithClaim(w, q).c = w.c /\ WithClaim(w, q).k = w.k /\ WithClaim(w, q).m = w.m
           /\ WithClaim(w, q).st = w.st /\ WithClaim(w, q).from = w.from
           /\ WithClaim(w, q).uuid = w.uuid
           /\ ~Claimable(q) => WithClaim(w, q) = w
           /\ Claimable(q) =>
                /\ WithClaim(w, q).got = q[First(q)].m
                /\ WithClaim(w, q).gen = q[First(q)].gen + 1
                /\ WithClaim(w, q).superseded = q[First(q)].superseded
<1>1. CASE ~Claimable(q)
  BY <1>1 DEF WithClaim
<1>2. CASE Claimable(q)
  <2> DEFINE r == q[First(q)]
  <2>1. r \in Row
    BY <1>2, FirstLeast DEF Claimable
  <2>2. r.m \in Mutation /\ r.gen + 1 \in Nat /\ r.superseded \in BOOLEAN
    BY <2>1, RowTyped
  <2>3. WithClaim(w, q) = [w EXCEPT !.got = r.m, !.gen = r.gen + 1,
                                    !.superseded = r.superseded]
    BY <1>2, Zenon DEF WithClaim
  <2> HIDE DEF r
  <2> DEFINE a == [w EXCEPT !.got = r.m, !.gen = r.gen + 1, !.superseded = r.superseded]
  <2>4. a \in Item /\ a.uuid = w.uuid /\ a.c = w.c /\ a.k = w.k /\ a.m = w.m /\ a.st = w.st /\ a.from = w.from
        /\ a.got = r.m /\ a.gen = r.gen + 1 /\ a.superseded = r.superseded
    BY <2>2 DEF Item
  <2> QED BY <1>2, <2>3, <2>4 DEF r
<1> QED BY <1>1, <1>2

-----------------------------------------------------------------------------
(* What steps have in common *)

RowsTyped ==
    nextId \in Nat /\ DOMAIN queue \subseteq 1..nextId /\ queue \in [DOMAIN queue -> Row]
WorkTyped == work \in SUBSET Item /\ \A w \in work : w.k # "claim" => w.m \in Mutation
RunnerTyped ==
    /\ attemptInFlight \in [Client -> BOOLEAN] /\ drainRunning \in [Client -> BOOLEAN]
    /\ timer \in [Client -> BOOLEAN] /\ live \in [Client -> SUBSET Mutation]
PastTyped ==
    /\ posted \in SUBSET Mutation /\ newest \in [Uuid -> Mutation \cup {None}]
    /\ order \in [Mutation -> Nat]
    /\ late \in SUBSET Item /\ (\A w \in late : w.k = "net" /\ w.m \in Mutation)
    /\ overrun \in SUBSET (Mutation \X Nat)
    /\ executed \in SUBSET Mutation /\ refused \in SUBSET Mutation /\ direct \in SUBSET Mutation
BoundsTyped ==
    /\ alive \in SUBSET Client
    /\ faults \in 0..MaxFaults /\ crashes \in 0..MaxCrashes /\ moves \in 0..MaxMoves

\* The parts of the type invariant.
LEMMA TypeParts ==
    TypeOK <=> RowsTyped /\ WorkTyped /\ RunnerTyped /\ PastTyped /\ BoundsTyped
BY Zenon DEF TypeOK, RowsTyped, WorkTyped, RunnerTyped, PastTyped, BoundsTyped

\* The same of the next state.
LEMMA TypePartsNext ==
    TypeOK' <=> RowsTyped' /\ WorkTyped' /\ RunnerTyped' /\ PastTyped' /\ BoundsTyped'
BY Zenon DEF TypeOK, RowsTyped, WorkTyped, RunnerTyped, PastTyped, BoundsTyped

\* A step that leaves the rows alone.
Quiet ==
    /\ UNCHANGED <<queue, nextId, newest, order>>
    /\ posted \subseteq posted' /\ executed \subseteq executed' /\ refused \subseteq refused'
    /\ overrun \subseteq overrun'

\* It keeps the invariant of the rows.
LEMMA RowsFrame ==
    ASSUME RowsInv, Quiet, PastInv' PROVE RowsInv'
<1>1. HeirExists'
  BY DEF RowsInv, HeirExists, Quiet
<1>2. Ordered'
  BY DEF RowsInv, Ordered, Quiet
<1>3. NewestInv'
  BY DEF RowsInv, NewestInv, Quiet
<1>4. NewestIntentKept'
  BY DEF RowsInv, NewestIntentKept, Quiet, Queued
<1> QED BY <1>1, <1>2, <1>3, <1>4 DEF RowsInv

\* Nothing more was executed or given up.
LEMMA PastFrame ==
    ASSUME RowsInv, UNCHANGED <<queue, order, executed, late>> PROVE PastInv'
BY DEF RowsInv, PastInv, Ahead

\* Items that the step leaves alone.
LEMMA ItemFrame ==
    ASSUME NEW v, ItemInv(v), Quiet PROVE ItemInv(v)'
<1>1. Leads(v) => Leads(v)'
  BY DEF Leads, Quiet, First
<1>2. Overran(v) => Overran(v)'
  BY DEF Overran, Quiet
<1>3. Ahead(Mut(v)) => Ahead(Mut(v))'
  BY DEF Ahead, Quiet
<1> QED BY <1>1, <1>2, <1>3 DEF ItemInv, Quiet

\* The items W stay and n is new.
LEMMA WorkSwap ==
    ASSUME WorkInv, NEW W \in SUBSET work, NEW n, work' \subseteq W \cup {n},
           \A v \in W : ItemInv(v)', ItemInv(n)', \A v \in W : Apart(v, n)
    PROVE  WorkInv'
<1>1. \A v, w \in W : Apart(v, w)
  BY DEF WorkInv
<1>2. Apart(n, n)
  BY DEF Apart
<1>3. \A v \in W : Apart(n, v)
  BY DEF Apart
<1>4. \A v, w \in work' : Apart(v, w)
  BY <1>1, <1>2, <1>3
<1>5. \A w \in work' : ItemInv(w)'
  OBVIOUS
<1> QED BY <1>4, <1>5 DEF WorkInv

\* No item is new.
LEMMA WorkShrinks ==
    ASSUME WorkInv, work' \subseteq work, \A v \in work' : ItemInv(v)' PROVE WorkInv'
BY DEF WorkInv

\* The item n takes over the claim of w.
LEMMA TakesOver ==
    ASSUME NEW v, NEW w, NEW n, Apart(v, w), v # w, ~Enqueues(n),
           Holder(n) => Holder(w) /\ Mut(n) = Mut(w) /\ n.gen = w.gen
    PROVE  Apart(v, n)
BY DEF Apart

\* The item w of another client goes.
LEMMA AwakeOther ==
    ASSUME NEW w, NEW c, Awake(c), w.c # c, work \ {w} \subseteq work',
           timer[c] => timer'[c], attemptInFlight'[c] = attemptInFlight[c],
           drainRunning'[c] = drainRunning[c]
    PROVE  Awake(c)'
BY Zenon DEF Awake

\* Nothing goes, and the timer is not stopped.
LEMMA AwakeMore ==
    ASSUME NEW c, Awake(c), work \subseteq work', timer[c] => timer'[c],
           attemptInFlight'[c] = attemptInFlight[c], drainRunning'[c] = drainRunning[c]
    PROVE  Awake(c)'
BY Zenon DEF Awake

\* An item goes and another one does what it did for the runner.
LEMMA AwakeSame ==
    ASSUME NEW w, NEW n, NEW c, Awake(c), work \ {w} \subseteq work', n \in work',
           n.c = w.c, n.k = w.k, n.from = w.from, timer[c] => timer'[c],
           attemptInFlight'[c] = attemptInFlight[c], drainRunning'[c] = drainRunning[c]
    PROVE  Awake(c)'
BY DEF Awake

\* An enqueue goes.
LEMMA AwakeEnqueue ==
    ASSUME NEW w, NEW c, Awake(c), work \ {w} \subseteq work', w.k = "enqueue",
           timer[c] => timer'[c], attemptInFlight'[c] = attemptInFlight[c],
           drainRunning'[c] => drainRunning[c]
    PROVE  Awake(c)'
BY DEF Awake

\* An item goes that was no attempt, and the timer is set.
LEMMA AwakeTimer ==
    ASSUME NEW w, NEW c, Awake(c), work \ {w} \subseteq work', timer'[c],
           attemptInFlight'[c] =>
               attemptInFlight[c] /\ w.k \notin {"net", "commit", "rollback", "defer"},
           drainRunning'[c] => drainRunning[c] /\ w.from # "drain"
    PROVE  Awake(c)'
BY DEF Awake

-----------------------------------------------------------------------------
(* Steps of a client *)

\* The queue starts empty, and every client with a timer.
LEMMA InvInit == Init => QueueInv
<1> SUFFICES ASSUME Init PROVE QueueInv
  OBVIOUS
<1>1. queue = [i \in {} |-> None] /\ DOMAIN queue = {} /\ nextId = 0 /\ work = {}
  BY DEF Init
<1>2. RowsTyped
  BY <1>1 DEF RowsTyped
<1>3. WorkTyped /\ WorkInv
  BY <1>1 DEF WorkTyped, WorkInv
<1>4. RunnerTyped
  <2>1. RunnerTyped
    BY Zenon DEF Init, RunnerTyped
  <2> QED BY <2>1
<1>5. PastTyped /\ BoundsTyped
  BY QueueAssumption DEF Init, PastTyped, BoundsTyped
<1>6. HeirExists /\ Ordered /\ PastInv
  BY <1>1 DEF Init, HeirExists, Ordered, PastInv, Ahead
<1>7. NewestInv /\ NewestIntentKept
  BY DEF Init, NewestInv, NewestIntentKept
<1>8. RunnerInv
  BY <1>1 DEF Init, RunnerInv, Awake
<1> QED BY <1>2, <1>3, <1>4, <1>5, <1>6, <1>7, <1>8, TypeParts DEF QueueInv, RowsInv

\* prepareMutation() posts a mutation that nobody has posted.
LEMMA PrepareInv ==
    ASSUME QueueInv, NEW c \in Client, NEW m \in Mutation, NEW u \in Uuid,
           PrepareMutation(c, m, u)
    PROVE  QueueInv'
<1> DEFINE n == Call(c, "enqueue", m, u, 0, "enqueue")
<1>1. m \notin posted /\ posted' = posted \cup {m} /\ work' = work \cup {n}
  BY DEF PrepareMutation
<1>2. /\ UNCHANGED <<queue, nextId, newest, order, executed, refused, late, overrun>>
      /\ UNCHANGED <<alive, attemptInFlight, drainRunning, timer, live>>
      /\ UNCHANGED <<direct, faults, crashes, moves>>
  BY DEF PrepareMutation, runner, outside, bounds
<1>3. n \in Item /\ n.k = "enqueue" /\ n.st = "posted" /\ n.m = m
      /\ n.uuid = u /\ n.got = None
  BY CallTyped
<1> HIDE DEF n
<1>4. Quiet
  BY <1>1, <1>2 DEF Quiet
<1>5. TypeOK'
  <2>1. RowsTyped' /\ RunnerTyped' /\ BoundsTyped'
    BY <1>2, TypeParts DEF QueueInv, RowsTyped, RunnerTyped, BoundsTyped
  <2>2. WorkTyped' /\ PastTyped'
    BY <1>1, <1>2, <1>3, TypeParts DEF QueueInv, WorkTyped, PastTyped
  <2> QED BY <2>1, <2>2, TypePartsNext
<1>6. RowsInv'
  BY <1>2, <1>4, RowsFrame, PastFrame DEF QueueInv
<1>7. WorkInv'
  <2>1. order[m] = 0
    BY <1>1 DEF QueueInv, RowsInv, Ordered
  <2>2. ItemInv(n)'
    BY <1>1, <1>2, <1>3, <2>1 DEF ItemInv, Enqueues, Holder, Attempt, Claims
  <2>3. \A v \in work : Apart(v, n)
    BY <1>1, <1>3 DEF QueueInv, WorkInv, ItemInv, Apart, Enqueues, Holder, Claims
  <2>4. \A v \in work : ItemInv(v)'
    BY <1>4, ItemFrame DEF QueueInv, WorkInv
  <2> QED BY <1>1, <2>2, <2>3, <2>4, WorkSwap DEF QueueInv
<1>8. RunnerInv'
  BY <1>1, <1>2, AwakeMore DEF QueueInv, RunnerInv
<1> QED BY <1>5, <1>6, <1>7, <1>8 DEF QueueInv

\* drainQueue() starts, or leaves it to the attempt or the drain that is under way.
LEMMA DrainInv ==
    ASSUME QueueInv, NEW c \in Client, DrainQueue(c) PROVE QueueInv'
<1> DEFINE n == Call(c, "claim", None, None, 0, "drain")
<1>1. /\ timer' = [timer EXCEPT ![c] = FALSE]
      /\ UNCHANGED <<queue, nextId, newest, order, executed, refused, late, overrun, posted>>
      /\ UNCHANGED <<alive, attemptInFlight, direct, faults, crashes, moves>>
  BY DEF DrainQueue, outside, bounds
<1>2. n \in Item /\ n.k = "claim" /\ n.st = "posted" /\ n.c = c /\ n.from = "drain"
      /\ n.got = None
  BY CallTyped
<1>3. \/ /\ attemptInFlight[c] /\ live' = [live EXCEPT ![c] = {}]
         /\ drainRunning' = drainRunning /\ work' = work
      \/ /\ ~attemptInFlight[c] /\ drainRunning[c]
         /\ UNCHANGED <<live, drainRunning, work>>
      \/ /\ drainRunning' = [drainRunning EXCEPT ![c] = TRUE]
         /\ work' = work \cup {n} /\ UNCHANGED live
  BY DEF DrainQueue, Release
<1> HIDE DEF n
<1>4. Quiet
  BY <1>1 DEF Quiet
<1>5. TypeOK'
  <2>1. RowsTyped' /\ PastTyped' /\ BoundsTyped'
    BY <1>1, TypeParts DEF QueueInv, RowsTyped, PastTyped, BoundsTyped
  <2>2. WorkTyped'
    BY <1>2, <1>3, TypeParts DEF QueueInv, WorkTyped
  <2>3. RunnerTyped'
    BY <1>1, <1>3, TypeParts DEF QueueInv, RunnerTyped
  <2> QED BY <2>1, <2>2, <2>3, TypePartsNext
<1>6. RowsInv'
  BY <1>1, <1>4, RowsFrame, PastFrame DEF QueueInv
<1>7. WorkInv'
  <2>1. ItemInv(n)'
    BY <1>2 DEF ItemInv, Enqueues, Holder, Attempt, Claims
  <2>2. \A v \in work : Apart(v, n)
    BY <1>2 DEF Apart, Enqueues, Holder, Claims
  <2>3. \A v \in work : ItemInv(v)'
    BY <1>4, ItemFrame DEF QueueInv, WorkInv
  <2>4. work' \subseteq work \cup {n}
    BY <1>3
  <2> QED BY <2>1, <2>2, <2>3, <2>4, WorkSwap DEF QueueInv
<1>8. RunnerInv'
  <2> SUFFICES ASSUME NEW d \in alive PROVE Awake(d)'
    BY <1>1 DEF RunnerInv
  <2>0. Awake(d) /\ d \in Client
    BY TypeParts DEF QueueInv, RunnerInv, BoundsTyped
  <2>1. timer \in [Client -> BOOLEAN] /\ drainRunning \in [Client -> BOOLEAN]
    BY TypeParts DEF QueueInv, RunnerTyped
  <2>2. work \subseteq work'
    BY <1>3
  <2>3. CASE d # c
    <3>1. timer'[d] = timer[d] /\ drainRunning'[d] = drainRunning[d]
      BY <1>1, <1>3, <2>0, <2>1, <2>3
    <3> QED BY <1>1, <2>0, <2>2, <3>1, AwakeMore
  <2>4. CASE d = c
    <3>1. CASE attemptInFlight[c] /\ work' = work /\ drainRunning' = drainRunning
      BY <1>1, <2>0, <2>4, <3>1 DEF Awake
    <3>2. CASE drainRunning[c] /\ work' = work /\ drainRunning' = drainRunning
      BY <1>1, <2>0, <2>4, <3>2 DEF Awake
    <3>3. CASE work' = work \cup {n}
      BY <1>1, <1>2, <2>0, <2>4, <3>3 DEF Awake
    <3> QED BY <1>3, <3>1, <3>2, <3>3
  <2> QED BY <2>3, <2>4
<1> QED BY <1>5, <1>6, <1>7, <1>8 DEF QueueInv

\* An item ends.
LEMMA EndWork ==
    ASSUME QueueInv, NEW w \in work, work' = work \ {w}, Quiet
    PROVE  WorkTyped' /\ WorkInv'
<1>1. WorkTyped'
  BY TypeParts DEF QueueInv, WorkTyped
<1>2. \A v \in work' : ItemInv(v)'
  BY ItemFrame DEF QueueInv, WorkInv
<1> QED BY <1>1, <1>2, WorkShrinks DEF QueueInv

\* routeClaimedMutation() turns a claim into a discard or a request under this claim.
LEMMA RouteNext ==
    ASSUME QueueInv, NEW w \in work, Claims(w), NEW L, RouteClaimed(w, L)
    PROVE  \E n \in Item :
             /\ work' = (work \ {w}) \cup {n}
             /\ n.c = w.c /\ n.m = w.got /\ n.gen = w.gen /\ n.st = "posted"
             /\ n.m \in Mutation
             /\ \/ /\ n.k = "discard" /\ w.superseded /\ n.from = w.from
                   /\ UNCHANGED <<attemptInFlight, drainRunning>>
                   /\ live' = [live EXCEPT ![w.c] = L]
                \/ /\ n.k = "net" /\ ~w.superseded
                   /\ attemptInFlight' = [attemptInFlight EXCEPT ![w.c] = TRUE]
                   /\ \/ /\ drainRunning' = [drainRunning EXCEPT ![w.c] = @ /\ w.from # "drain"]
                         /\ live' = [live EXCEPT ![w.c] = {}]
                      \/ /\ drainRunning' = drainRunning /\ n.from = w.from
                         /\ live' = [live EXCEPT ![w.c] = L]
<1>1. w \in Item /\ w.c \in Client /\ w.got \in Mutation \cup {None} /\ w.got # None
      /\ w.gen \in Nat /\ w.from \in {"enqueue", "drain", "caller"}
  BY TypeParts, ItemTyped DEF QueueInv, WorkTyped, Claims
<1>2. None \in Uuid \cup {None} /\ w.got \in Mutation
  BY <1>1
<1> DEFINE call(k, f) == Call(w.c, k, w.got, None, w.gen, f)
<1>3. CASE w.superseded
  <2>1. /\ work' = (work \ {w}) \cup {call("discard", w.from)}
        /\ live' = [live EXCEPT ![w.c] = L]
        /\ UNCHANGED <<attemptInFlight, drainRunning>>
    BY <1>3 DEF RouteClaimed
  <2> DEFINE n == call("discard", w.from)
  <2>2. /\ n.c = w.c /\ n.m = w.got /\ n.gen = w.gen /\ n.st = "posted" /\ n.k = "discard"
        /\ n.from = w.from
    BY <1>1, <1>2, RouteCall
  <2> n \in Item
    BY <1>1, <1>2, RouteCall
  <2> HIDE DEF n
  <2> WITNESS n \in Item
  <2> QED BY <1>2, <1>3, <2>1, <2>2 DEF n
<1>4. CASE ~w.superseded
  <2>1. attemptInFlight' = [attemptInFlight EXCEPT ![w.c] = TRUE]
    BY <1>4 DEF RouteClaimed
  <2>2. CASE w.got \in L
    <3>1. /\ work' = (work \ {w}) \cup {call("net", "caller")}
          /\ drainRunning' = [drainRunning EXCEPT ![w.c] = @ /\ w.from # "drain"]
          /\ live' = [live EXCEPT ![w.c] = {}]
      BY <1>4, <2>2 DEF RouteClaimed, Release, DrainEnds
    <3> DEFINE n == call("net", "caller")
    <3>2. /\ n.c = w.c /\ n.m = w.got /\ n.gen = w.gen /\ n.st = "posted" /\ n.k = "net"
          /\ n.from = "caller"
      BY <1>1, <1>2, RouteCall
    <3> n \in Item
      BY <1>1, <1>2, RouteCall
    <3> HIDE DEF n
    <3> WITNESS n \in Item
    <3> QED BY <1>2, <1>4, <2>1, <3>1, <3>2 DEF n
  <2>3. CASE w.got \notin L
    <3>1. /\ work' = (work \ {w}) \cup {call("net", w.from)}
          /\ drainRunning' = drainRunning
          /\ live' = [live EXCEPT ![w.c] = L]
      BY <1>4, <2>3 DEF RouteClaimed
    <3> DEFINE n == call("net", w.from)
    <3>2. /\ n.c = w.c /\ n.m = w.got /\ n.gen = w.gen /\ n.st = "posted" /\ n.k = "net"
          /\ n.from = w.from
      BY <1>1, <1>2, RouteCall
    <3> n \in Item
      BY <1>1, <1>2, RouteCall
    <3> HIDE DEF n
    <3> WITNESS n \in Item
    <3> QED BY <1>2, <1>4, <2>1, <3>1, <3>2 DEF n
  <2> QED BY <2>2, <2>3
<1> QED BY <1>3, <1>4

\* The lease and the mark of the claimed row are what the answer says.
LEMMA RouteInv ==
    ASSUME QueueInv, NEW w \in work, Claims(w), NEW L \in SUBSET Mutation,
           RouteClaimed(w, L), Quiet, UNCHANGED <<timer, alive>>
    PROVE  WorkTyped' /\ WorkInv' /\ RunnerTyped' /\ RunnerInv'
<1>1. PICK n \in Item :
        /\ work' = (work \ {w}) \cup {n}
        /\ n.c = w.c /\ n.m = w.got /\ n.gen = w.gen /\ n.st = "posted"
        /\ n.m \in Mutation
        /\ \/ /\ n.k = "discard" /\ w.superseded /\ n.from = w.from
              /\ UNCHANGED <<attemptInFlight, drainRunning>>
              /\ live' = [live EXCEPT ![w.c] = L]
           \/ /\ n.k = "net" /\ ~w.superseded
              /\ attemptInFlight' = [attemptInFlight EXCEPT ![w.c] = TRUE]
              /\ \/ /\ drainRunning' = [drainRunning EXCEPT ![w.c] = @ /\ w.from # "drain"]
                    /\ live' = [live EXCEPT ![w.c] = {}]
                 \/ /\ drainRunning' = drainRunning /\ n.from = w.from
                    /\ live' = [live EXCEPT ![w.c] = L]
  BY RouteNext
<1>2. w \in Item /\ w.c \in Client /\ w.k \in {"enqueue", "claim"} /\ w.st = "done"
      /\ ItemInv(w) /\ Holder(w) /\ Attempt(w)
  BY TypeParts, ItemTyped DEF QueueInv, WorkInv, WorkTyped, Claims, Holder, Attempt
<1>3. n.k \in {"discard", "net"} /\ Mut(n) = Mut(w) /\ ~Enqueues(n) /\ ~Claims(n)
  BY <1>1, <1>2 DEF Mut, Enqueues, Claims
<1>4. WorkTyped'
  BY <1>1, TypeParts DEF QueueInv, WorkTyped
<1>5. WorkInv'
  <2>1. Leads(w) => Leads(n)
    BY <1>1, <1>3 DEF Leads
  <2>a. Overran(w) => Overran(n)
    BY <1>1, <1>3 DEF Overran
  <2>2. ItemInv(n)
    BY <1>1, <1>2, <1>3, <2>1, <2>a DEF ItemInv, Holder, Attempt
  <2>3. ItemInv(n)' /\ \A v \in work \ {w} : ItemInv(v)'
    BY <2>2, ItemFrame DEF QueueInv, WorkInv
  <2>4. \A v \in work \ {w} : Apart(v, n)
    BY <1>1, <1>2, <1>3, TakesOver DEF QueueInv, WorkInv
  <2> QED BY <1>1, <2>3, <2>4, WorkSwap DEF QueueInv
<1>6. RunnerTyped'
  <2>1. /\ attemptInFlight \in [Client -> BOOLEAN] /\ drainRunning \in [Client -> BOOLEAN]
        /\ timer' \in [Client -> BOOLEAN] /\ live \in [Client -> SUBSET Mutation]
    BY TypeParts DEF QueueInv, RunnerTyped
  <2>2. attemptInFlight' \in [Client -> BOOLEAN]
    BY <1>1, <2>1
  <2>3. drainRunning' \in [Client -> BOOLEAN]
    BY <1>1, <2>1
  <2>4. live' \in [Client -> SUBSET Mutation]
    BY <1>1, <2>1
  <2> QED BY <2>1, <2>2, <2>3, <2>4 DEF RunnerTyped
<1>7. RunnerInv'
  <2> SUFFICES ASSUME NEW c \in alive PROVE Awake(c)'
    BY DEF RunnerInv
  <2>0. Awake(c) /\ c \in Client
    BY TypeParts DEF QueueInv, RunnerInv, BoundsTyped
  <2>1. attemptInFlight \in [Client -> BOOLEAN] /\ drainRunning \in [Client -> BOOLEAN]
    BY TypeParts DEF QueueInv, RunnerTyped
  <2>2. work \ {w} \subseteq work' /\ n \in work'
    BY <1>1
  <2>3. CASE c # w.c
    <3>1. attemptInFlight'[c] = attemptInFlight[c] /\ drainRunning'[c] = drainRunning[c]
      BY <1>1, <2>0, <2>1, <2>3
    <3> QED BY <2>0, <2>2, <2>3, <3>1, AwakeOther
  <2>4. CASE c = w.c
    <3>1. timer'[c] \/ \E x \in work' : x.c = c /\ x.k # "enqueue"
      BY <1>1, <1>3, <2>2, <2>4
    <3>2. attemptInFlight'[c] =>
            \E x \in work' : x.c = c /\ x.k \in {"net", "commit", "rollback", "defer"}
      <4>1. CASE n.k = "net"
        BY <1>1, <2>2, <2>4, <4>1
      <4>2. CASE n.k = "discard"
        <5>1. attemptInFlight' = attemptInFlight
          BY <1>1, <4>2
        <5> QED BY <1>2, <2>0, <2>2, <5>1 DEF Awake
      <4> QED BY <1>3, <4>1, <4>2
    <3>3. drainRunning'[c] =>
            \E x \in work' : x.c = c /\ x.k # "enqueue" /\ x.from = "drain"
      <4>1. CASE drainRunning' = drainRunning /\ n.from = w.from
        BY <1>1, <1>3, <2>0, <2>2, <2>4, <4>1 DEF Awake
      <4>2. CASE drainRunning' = [drainRunning EXCEPT ![w.c] = @ /\ w.from # "drain"]
        <5>1. drainRunning'[c] => drainRunning[c] /\ w.from # "drain"
          BY <2>0, <2>1, <2>4, <4>2
        <5> QED BY <2>0, <2>2, <5>1 DEF Awake
      <4> QED BY <1>1, <4>1, <4>2
    <3> QED BY <3>1, <3>2, <3>3 DEF Awake
  <2> QED BY <2>3, <2>4
<1> QED BY <1>4, <1>5, <1>6, <1>7

\* What none of the returns touches.
LEMMA ReturnFrame ==
    ASSUME QueueInv, UNCHANGED <<queue, nextId, alive, posted, newest, order, outside, bounds>>,
           direct' \in SUBSET Mutation
    PROVE  Quiet /\ RowsInv' /\ RowsTyped' /\ PastTyped' /\ BoundsTyped' /\ alive' = alive
<1>1. /\ UNCHANGED <<queue, nextId, newest, order, executed, refused, late, overrun, posted>>
      /\ UNCHANGED <<alive, faults, crashes, moves>>
  BY DEF outside, bounds
<1>2. Quiet
  BY <1>1 DEF Quiet
<1>3. RowsTyped' /\ PastTyped' /\ BoundsTyped'
  BY <1>1, TypeParts DEF QueueInv, RowsTyped, PastTyped, BoundsTyped
<1> QED BY <1>1, <1>2, <1>3, RowsFrame, PastFrame DEF QueueInv

\* drainQueue() returns, with its callers released, the timer set and the item gone.
LEMMA EndRunner ==
    ASSUME QueueInv, NEW w \in work, work' = work \ {w}, alive' = alive,
           timer' = [timer EXCEPT ![w.c] = TRUE],
           drainRunning' = [drainRunning EXCEPT ![w.c] = @ /\ w.from # "drain"],
           \/ attemptInFlight' = [attemptInFlight EXCEPT ![w.c] = FALSE]
           \/ /\ attemptInFlight' = attemptInFlight
              /\ w.k \notin {"net", "commit", "rollback", "defer"},
           live' \in [Client -> SUBSET Mutation]
    PROVE  RunnerTyped' /\ RunnerInv'
<1>1. /\ attemptInFlight \in [Client -> BOOLEAN] /\ drainRunning \in [Client -> BOOLEAN]
      /\ timer \in [Client -> BOOLEAN] /\ alive \in SUBSET Client
  BY TypeParts DEF QueueInv, RunnerTyped, BoundsTyped
<1>2. RunnerTyped'
  <2>1. attemptInFlight' \in [Client -> BOOLEAN]
    BY <1>1
  <2>2. drainRunning' \in [Client -> BOOLEAN]
    BY <1>1
  <2>3. timer' \in [Client -> BOOLEAN]
    BY <1>1
  <2> QED BY <2>1, <2>2, <2>3 DEF RunnerTyped
<1>3. RunnerInv'
  <2> SUFFICES ASSUME NEW c \in alive PROVE Awake(c)'
    BY DEF RunnerInv
  <2>0. Awake(c) /\ c \in Client /\ work \ {w} \subseteq work'
    BY <1>1 DEF QueueInv, RunnerInv
  <2>1. CASE c # w.c
    <3>1. timer'[c] = timer[c] /\ drainRunning'[c] = drainRunning[c]
          /\ attemptInFlight'[c] = attemptInFlight[c]
      BY <1>1, <2>0, <2>1
    <3> QED BY <2>0, <2>1, <3>1, AwakeOther
  <2>2. CASE c = w.c
    <3>1. timer'[c]
      BY <1>1, <2>0, <2>2
    <3>2. drainRunning'[c] => drainRunning[c] /\ w.from # "drain"
      BY <1>1, <2>0, <2>2
    <3>3. attemptInFlight'[c] =>
            attemptInFlight[c] /\ w.k \notin {"net", "commit", "rollback", "defer"}
      BY <1>1, <2>0, <2>2
    <3> QED BY <2>0, <3>1, <3>2, <3>3, AwakeTimer
  <2> QED BY <2>1, <2>2
<1> QED BY <1>2, <1>3

\* Types of what the returns read.
LEMMA ReturnTypes ==
    ASSUME QueueInv, NEW w \in work
    PROVE  /\ w \in Item /\ w.c \in Client /\ live \in [Client -> SUBSET Mutation]
           /\ live[w.c] \in SUBSET Mutation
           /\ direct \in SUBSET Mutation
           /\ w.got \in Mutation \cup {None} /\ (w.k # "claim" => w.m \in Mutation)
BY TypeParts, ItemTyped DEF QueueInv, WorkTyped, RunnerTyped, PastTyped

\* resolveLiveOperationsAsQueued() releases callers.
LEMMA ReleaseTyped ==
    ASSUME live \in [Client -> SUBSET Mutation], NEW c \in Client,
           Release(c)
    PROVE  live' \in [Client -> SUBSET Mutation]
BY DEF Release

\* prepareMutation() goes on with a claim, or leaves the mutation to the queue.
LEMMA EnqueueReturnsInv ==
    ASSUME QueueInv, NEW w \in work, EnqueueReturns(w) PROVE QueueInv'
<1> DEFINE L == (live[w.c] \ {w.replaced}) \cup {w.m}
<1>1. w.k = "enqueue" /\ w.st = "done"
  BY DEF EnqueueReturns
<1>2. /\ UNCHANGED <<queue, nextId, alive, posted, newest, order, outside, bounds>>
      /\ UNCHANGED direct
  BY DEF EnqueueReturns
<1>3. /\ w.c \in Client /\ live \in [Client -> SUBSET Mutation]
      /\ L \in SUBSET Mutation /\ direct \in SUBSET Mutation
  BY <1>1, ReturnTypes
<1>4. Quiet /\ RowsInv' /\ RowsTyped' /\ PastTyped' /\ BoundsTyped' /\ alive' = alive
  BY <1>2, <1>3, ReturnFrame
<1>5. CASE w.got # None
  <2>1. RouteClaimed(w, L) /\ timer' = timer
    BY <1>5 DEF EnqueueReturns
  <2>2. Claims(w)
    BY <1>1, <1>5 DEF Claims
  <2> HIDE DEF L
  <2>3. WorkTyped' /\ WorkInv' /\ RunnerTyped' /\ RunnerInv'
    BY <1>3, <1>4, <2>1, <2>2, RouteInv
  <2> QED BY <1>4, <2>3, TypePartsNext DEF QueueInv
<1>6. CASE w.got = None
  <2>1. /\ Release(w.c) /\ timer' = [timer EXCEPT ![w.c] = TRUE]
        /\ work' = work \ {w} /\ UNCHANGED <<attemptInFlight, drainRunning>>
    BY <1>6 DEF EnqueueReturns, Schedule
  <2> HIDE DEF L
  <2>2. live' \in [Client -> SUBSET Mutation]
    BY <1>3, <2>1, ReleaseTyped
  <2>3. /\ attemptInFlight \in [Client -> BOOLEAN] /\ drainRunning \in [Client -> BOOLEAN]
        /\ timer \in [Client -> BOOLEAN] /\ alive \in SUBSET Client
    BY TypeParts DEF QueueInv, RunnerTyped, BoundsTyped
  <2>4. RunnerTyped'
    BY <1>3, <2>1, <2>2, <2>3 DEF RunnerTyped
  <2>5. RunnerInv'
    <3> SUFFICES ASSUME NEW c \in alive PROVE Awake(c)'
      BY <1>4 DEF RunnerInv
    <3>1. Awake(c) /\ work \ {w} \subseteq work' /\ (timer[c] => timer'[c])
      BY <1>3, <2>1, <2>3 DEF QueueInv, RunnerInv
    <3> QED BY <1>1, <2>1, <3>1, AwakeEnqueue
  <2> QED BY <1>4, <2>1, <2>4, <2>5, EndWork, TypePartsNext DEF QueueInv
<1> QED BY <1>5, <1>6

\* prepareMutation() fails and forwards the mutation.
LEMMA EnqueueFailsInv ==
    ASSUME QueueInv, NEW w \in work, EnqueueFails(w) PROVE QueueInv'
<1>1. /\ w.k = "enqueue" /\ work' = work \ {w}
      /\ direct' = direct \cup {w.m}
      /\ UNCHANGED <<queue, nextId, alive, posted, newest, order, outside, bounds>>
      /\ UNCHANGED <<attemptInFlight, drainRunning, timer, live>>
  BY DEF EnqueueFails, runner
<1>2. direct' \in SUBSET Mutation
  BY <1>1, ReturnTypes
<1>3. Quiet /\ RowsInv' /\ RowsTyped' /\ PastTyped' /\ BoundsTyped' /\ alive' = alive
  BY <1>1, <1>2, ReturnFrame
<1>4. RunnerTyped'
  BY <1>1, <1>2, TypeParts DEF QueueInv, RunnerTyped
<1>5. RunnerInv'
  <2> SUFFICES ASSUME NEW c \in alive PROVE Awake(c)'
    BY <1>3 DEF RunnerInv
  <2>1. Awake(c) /\ work \ {w} \subseteq work'
    BY <1>1 DEF QueueInv, RunnerInv
  <2> QED BY <1>1, <2>1, AwakeEnqueue
<1> QED BY <1>1, <1>3, <1>4, <1>5, EndWork, TypePartsNext DEF QueueInv

\* drainQueue() goes on with a claim, or ends.
LEMMA ClaimReturnsInv ==
    ASSUME QueueInv, NEW w \in work, ClaimReturns(w) PROVE QueueInv'
<1>1. /\ w.k = "claim" /\ UNCHANGED direct
      /\ UNCHANGED <<queue, nextId, alive, posted, newest, order, outside, bounds>>
  BY DEF ClaimReturns
<1>2. Quiet /\ RowsInv' /\ RowsTyped' /\ PastTyped' /\ BoundsTyped' /\ alive' = alive
  BY <1>1, ReturnFrame, ReturnTypes
<1>3. CASE w.st = "done" /\ w.got # None /\ RouteClaimed(w, live[w.c]) /\ timer' = timer
  <2>1. Claims(w)
    BY <1>1, <1>3 DEF Claims
  <2>2. WorkTyped' /\ WorkInv' /\ RunnerTyped' /\ RunnerInv'
    BY <1>2, <1>3, <2>1, RouteInv, ReturnTypes
  <2> QED BY <1>2, <2>2, TypePartsNext DEF QueueInv
<1>4. CASE /\ Release(w.c) /\ Schedule(w.c) /\ DrainEnds(w)
           /\ work' = work \ {w} /\ attemptInFlight' = attemptInFlight
  <2>1. live' \in [Client -> SUBSET Mutation]
    BY <1>4, ReturnTypes, ReleaseTyped
  <2>2. RunnerTyped' /\ RunnerInv'
    BY <1>1, <1>2, <1>4, <2>1, EndRunner DEF Schedule, DrainEnds
  <2> QED BY <1>2, <1>4, <2>2, EndWork, TypePartsNext DEF QueueInv
<1> QED BY <1>3, <1>4 DEF ClaimReturns

\* writeThrough() has settled.
LEMMA SettleReturnsInv ==
    ASSUME QueueInv, NEW w \in work, SettleReturns(w) PROVE QueueInv'
<1>1. /\ w.k \in {"commit", "rollback", "defer"} /\ UNCHANGED direct
      /\ attemptInFlight' = [attemptInFlight EXCEPT ![w.c] = FALSE]
      /\ Schedule(w.c) /\ work' = work \ {w} /\ DrainEnds(w)
      /\ UNCHANGED <<queue, nextId, alive, posted, newest, order, outside, bounds>>
  BY DEF SettleReturns
<1>2. Quiet /\ RowsInv' /\ RowsTyped' /\ PastTyped' /\ BoundsTyped' /\ alive' = alive
  BY <1>1, ReturnFrame, ReturnTypes
<1>3. live' \in [Client -> SUBSET Mutation]
  <2>1. CASE live' = [live EXCEPT ![w.c] = @ \ {w.m}]
    BY <1>1, <2>1, ReturnTypes
  <2>2. CASE Release(w.c)
    BY <2>2, ReturnTypes, ReleaseTyped
  <2> QED BY <2>1, <2>2 DEF SettleReturns
<1>4. RunnerTyped' /\ RunnerInv'
  BY <1>1, <1>2, <1>3, EndRunner DEF Schedule, DrainEnds
<1> QED BY <1>1, <1>2, <1>4, EndWork, TypePartsNext DEF QueueInv

\* A superseded row has been discarded.
LEMMA DiscardReturnsInv ==
    ASSUME QueueInv, NEW w \in work, DiscardReturns(w) PROVE QueueInv'
<1>1. /\ w.k = "discard" /\ UNCHANGED <<direct, attemptInFlight>>
      /\ Schedule(w.c) /\ work' = work \ {w} /\ DrainEnds(w) /\ Release(w.c)
      /\ UNCHANGED <<queue, nextId, alive, posted, newest, order, outside, bounds>>
  BY DEF DiscardReturns
<1>2. Quiet /\ RowsInv' /\ RowsTyped' /\ PastTyped' /\ BoundsTyped' /\ alive' = alive
  BY <1>1, ReturnFrame, ReturnTypes
<1>3. live' \in [Client -> SUBSET Mutation]
  BY <1>1, ReturnTypes, ReleaseTyped
<1>4. RunnerTyped' /\ RunnerInv'
  BY <1>1, <1>2, <1>3, EndRunner DEF Schedule, DrainEnds
<1> QED BY <1>1, <1>2, <1>4, EndWork, TypePartsNext DEF QueueInv

-----------------------------------------------------------------------------
(* The network, tabs that die, and moves of the engine *)

\* Whatever is sent came before the rows of the queue.
LEMMA SentAhead ==
    ASSUME QueueInv, NEW w \in work, w.k = "net"
    PROVE  w.m \in Mutation /\ Ahead(w.m)
<1>1. Ahead(Mut(w)) /\ Mut(w) = w.m
  BY DEF QueueInv, WorkInv, ItemInv, Attempt, Mut
<1> QED BY <1>1, TypeParts DEF QueueInv, WorkTyped

\* A reply turns the request into the settlement k of its claim.
LEMMA RepliesInv ==
    ASSUME QueueInv, NEW w \in work, NEW k \in {"commit", "defer", "rollback"}, Replies(w, k),
           executed' = executed \/ executed' = executed \cup {w.m},
           late' = late \/ late' = late \cup {w},
           \/ refused' = refused
           \/ refused' = refused \cup {w.m},
           faults' \in 0..MaxFaults,
           k = "commit" => w.m \in executed', k = "rollback" => w.m \in refused'
    PROVE  QueueInv'
<1> DEFINE n == [w EXCEPT !.k = k]
<1>1. /\ w.k = "net" /\ work' = (work \ {w}) \cup {n}
      /\ UNCHANGED <<queue, nextId, newest, order, posted, direct, overrun>>
      /\ UNCHANGED <<alive, attemptInFlight, drainRunning, timer, live, crashes, moves>>
  BY DEF Replies, runner
<1>2. w \in Item /\ w.m \in Mutation
  BY <1>1, ReturnTypes
<1>3. n \in Item /\ n.c = w.c /\ n.k = k /\ n.m = w.m /\ n.gen = w.gen /\ n.from = w.from
  BY <1>2, KTyped
<1> HIDE DEF n
<1>4. Ahead(w.m)
  BY <1>1, SentAhead
<1>5. PastInv'
  BY <1>1, <1>4 DEF QueueInv, RowsInv, PastInv, Ahead
<1>6. Quiet
  BY <1>1 DEF Quiet
<1>7. TypeOK'
  <2>1. RowsTyped' /\ RunnerTyped' /\ BoundsTyped'
    BY <1>1, TypeParts DEF QueueInv, RowsTyped, RunnerTyped, BoundsTyped
  <2>2. WorkTyped'
    BY <1>1, <1>2, <1>3, TypeParts DEF QueueInv, WorkTyped
  <2>3. PastTyped'
    BY <1>1, <1>2, TypeParts DEF QueueInv, PastTyped
  <2> QED BY <2>1, <2>2, <2>3, TypePartsNext
<1>8. WorkInv'
  <2>1. ItemInv(w)' /\ \A v \in work \ {w} : ItemInv(v)'
    BY <1>6, ItemFrame DEF QueueInv, WorkInv
  <2>2. Mut(n) = Mut(w) /\ Holder(w) /\ ~Enqueues(n) /\ ~Claims(n) /\ ~Attempt(n)
        /\ n.k # "discard"
    BY <1>1, <1>3 DEF Mut, Holder, Enqueues, Claims, Attempt
  <2>3. ItemInv(n)'
    BY <1>3, <2>1, <2>2 DEF ItemInv
  <2>4. \A v \in work \ {w} : Apart(v, n)
    BY <1>3, <2>2, TakesOver DEF QueueInv, WorkInv
  <2> QED BY <1>1, <2>1, <2>3, <2>4, WorkSwap DEF QueueInv
<1>9. RunnerInv'
  <2> SUFFICES ASSUME NEW c \in alive PROVE Awake(c)'
    BY <1>1 DEF RunnerInv
  <2>1. Awake(c) /\ work \ {w} \subseteq work' /\ n \in work'
    BY <1>1 DEF QueueInv, RunnerInv
  <2> QED BY <1>1, <1>3, <2>1 DEF Awake
<1> QED BY <1>5, <1>6, <1>7, <1>8, <1>9, RowsFrame DEF QueueInv

\* The reply, a failure, and the refusal of the server.
LEMMA NetworkInv ==
    ASSUME QueueInv, NEW w \in work, Succeeds(w) \/ Fails(w) \/ IsRefused(w) PROVE QueueInv'
<1>0. faults \in 0..MaxFaults
  BY TypeParts DEF QueueInv, BoundsTyped
<1>1. CASE Succeeds(w)
  <2>1. /\ Replies(w, "commit") /\ executed' = executed \cup {w.m} /\ refused' = refused
        /\ faults' = faults /\ late' = late
    BY <1>1 DEF Succeeds
  <2>2. w.m \in executed'
    BY <2>1
  <2> QED BY <1>0, <2>1, <2>2, RepliesInv
<1>2. CASE Fails(w)
  <2>1. /\ Replies(w, "defer") /\ executed' = executed /\ late' = late \cup {w}
        /\ refused' = refused /\ faults < MaxFaults /\ faults' = faults + 1
    BY <1>2 DEF Fails
  <2>2. faults' \in 0..MaxFaults
    BY <1>0, <2>1, QueueAssumption
  <2> QED BY <2>1, <2>2, RepliesInv
<1>3. CASE IsRefused(w)
  <2>1. /\ Replies(w, "rollback") /\ refused' = refused \cup {w.m}
        /\ UNCHANGED <<executed, late>> /\ faults' = faults
    BY <1>3 DEF IsRefused
  <2> QED BY <1>0, <2>1, RepliesInv
<1> QED BY <1>1, <1>2, <1>3

\* A tab dies; the engine still serves the calls it has posted.
LEMMA CrashInv ==
    ASSUME QueueInv, NEW c \in Client, Crash(c) PROVE QueueInv'
<1>1. /\ crashes < MaxCrashes /\ crashes' = crashes + 1 /\ alive' = alive \ {c}
      /\ work' = {w \in work : w.c = c => w.k # "net" /\ w.st = "posted"}
      /\ late' = late \cup {w \in work : w.c = c /\ w.k = "net"}
      /\ UNCHANGED <<queue, nextId, newest, order, posted, executed, refused, overrun, direct>>
      /\ UNCHANGED <<attemptInFlight, drainRunning, timer, live, faults, moves>>
  BY DEF Crash, runner
<1>3. Quiet
  BY <1>1 DEF Quiet
<1>4. PastInv'
  <2>1. \A w \in late' : Ahead(w.m)
    BY <1>1, SentAhead DEF QueueInv, RowsInv, PastInv
  <2> QED BY <1>1, <2>1 DEF QueueInv, RowsInv, PastInv, Ahead
<1>5. TypeOK'
  <2>1. RowsTyped' /\ RunnerTyped' /\ PastTyped'
    BY <1>1, SentAhead, TypeParts
    DEF QueueInv, RowsTyped, RunnerTyped, PastTyped, WorkTyped
  <2>2. BoundsTyped'
    BY <1>1, TypeParts, QueueAssumption DEF QueueInv, BoundsTyped
  <2>3. WorkTyped'
    BY <1>1, TypeParts DEF QueueInv, WorkTyped
  <2> QED BY <2>1, <2>2, <2>3, TypePartsNext
<1>6. WorkInv'
  BY <1>1, <1>3, ItemFrame, WorkShrinks DEF QueueInv, WorkInv
<1>7. RunnerInv'
  BY <1>1 DEF QueueInv, RunnerInv, Awake
<1> QED BY <1>3, <1>4, <1>5, <1>6, <1>7, RowsFrame DEF QueueInv

\* The server executes what nobody waits for.
LEMMA LateInv ==
    ASSUME QueueInv, ExecutedLate PROVE QueueInv'
<1>1. PICK w \in late : executed' = executed \cup {w.m}
  BY DEF ExecutedLate
<1>2. /\ UNCHANGED <<queue, nextId, newest, order, posted, refused, late, overrun, work>>
      /\ UNCHANGED <<alive, attemptInFlight, drainRunning, timer, live>>
      /\ UNCHANGED <<direct, faults, crashes, moves>>
  BY DEF ExecutedLate, runner, bounds
<1>3. Quiet
  BY <1>1, <1>2 DEF Quiet
<1>4. PastInv'
  BY <1>1, <1>2 DEF QueueInv, RowsInv, PastInv, Ahead
<1>5. TypeOK'
  <2>1. RowsTyped' /\ WorkTyped' /\ RunnerTyped' /\ BoundsTyped'
    BY <1>2, TypeParts DEF QueueInv, RowsTyped, WorkTyped, RunnerTyped, BoundsTyped
  <2>2. PastTyped'
    BY <1>1, <1>2, TypeParts DEF QueueInv, PastTyped
  <2> QED BY <2>1, <2>2, TypePartsNext
<1>6. WorkInv'
  BY <1>2, <1>3, ItemFrame, WorkShrinks DEF QueueInv, WorkInv
<1>7. RunnerInv'
  BY <1>2 DEF QueueInv, RunnerInv, Awake
<1> QED BY <1>3, <1>4, <1>5, <1>6, <1>7, RowsFrame DEF QueueInv

\* The engine moves: what it had not answered is lost, and a lost item carries no more
\* than the item did.
LEMMA MovesInv ==
    ASSUME QueueInv, EngineMoves PROVE QueueInv'
<1> DEFINE lost(w) == [w EXCEPT !.st = "lost"]
<1>1. /\ moves < MaxMoves /\ moves' = moves + 1
      /\ UNCHANGED <<queue, nextId, newest, order, posted, executed, refused, late, overrun, direct>>
      /\ UNCHANGED <<alive, attemptInFlight, drainRunning, timer, live, faults, crashes>>
  BY DEF EngineMoves, runner, outside
<1>2. PICK L \in SUBSET {w \in work : w.k # "net" /\ w.st # "lost"} :
        work' = (work \ L) \cup {lost(w) : w \in {v \in L : v.c \in alive}}
  BY DEF EngineMoves
<1>3. \A w \in work : /\ lost(w) \in Item /\ lost(w).c = w.c /\ lost(w).k = w.k
                      /\ lost(w).m = w.m /\ lost(w).gen = w.gen /\ lost(w).st = "lost"
                      /\ lost(w).from = w.from /\ lost(w).uuid = w.uuid
  BY StTyped, ReturnTypes
<1> HIDE DEF lost
<1>4. Quiet
  BY <1>1 DEF Quiet
<1>5. TypeOK'
  <2>1. RowsTyped' /\ RunnerTyped' /\ PastTyped'
    BY <1>1, TypeParts DEF QueueInv, RowsTyped, RunnerTyped, PastTyped
  <2>2. BoundsTyped'
    BY <1>1, TypeParts, QueueAssumption DEF QueueInv, BoundsTyped
  <2>3. WorkTyped'
    BY <1>2, <1>3, TypeParts DEF QueueInv, WorkTyped
  <2> QED BY <2>1, <2>2, <2>3, TypePartsNext
<1>6. \A n \in work' : \E w \in work : n = w \/ (n = lost(w) /\ w \in L)
  BY <1>2
<1>7. \A w \in L : /\ ~Enqueues(lost(w)) /\ ~Attempt(lost(w)) /\ lost(w).k # "net"
                   /\ Holder(lost(w)) => Holder(w) /\ Mut(lost(w)) = Mut(w)
  <2> SUFFICES ASSUME NEW w \in L
               PROVE  /\ ~Enqueues(lost(w)) /\ ~Attempt(lost(w)) /\ lost(w).k # "net"
                      /\ Holder(lost(w)) => Holder(w) /\ Mut(lost(w)) = Mut(w)
    BY Zenon
  <2>1. w \in work /\ w.k # "net"
    BY <1>2
  <2> QED BY <1>3, <2>1 DEF Enqueues, Attempt, Claims, Holder, Mut
<1>8. WorkInv'
  <2>1. \A n \in work' : ItemInv(n)'
    <3> SUFFICES ASSUME NEW n \in work' PROVE ItemInv(n)'
      OBVIOUS
    <3>1. PICK w \in work : n = w \/ (n = lost(w) /\ w \in L)
      BY <1>6
    <3>2. ItemInv(w)'
      BY <1>4, ItemFrame DEF QueueInv, WorkInv
    <3>3. CASE n = lost(w) /\ w \in L
      <4>1. ~Claims(n)
        BY <1>3, <3>3 DEF Claims
      <4>2. n.k = w.k /\ n.m = w.m /\ n.gen = w.gen /\ n.uuid = w.uuid /\ n.st = "lost"
        BY <1>3, <3>3
      <4>3. ~Enqueues(n) /\ ~Attempt(n) /\ n.k # "net"
            /\ (Holder(n) => Holder(w) /\ Mut(n) = Mut(w))
        BY <1>7, <3>3
      <4>4. n.k = "discard" => Holder(n)
        BY DEF Holder
      <4> QED BY <3>2, <4>1, <4>2, <4>3, <4>4 DEF ItemInv
    <3> QED BY <3>1, <3>2, <3>3
  <2>2. \A n, x \in work' : Apart(n, x)
    <3> SUFFICES ASSUME NEW n \in work', NEW x \in work' PROVE Apart(n, x)
      OBVIOUS
    <3>1. PICK w \in work : n = w \/ (n = lost(w) /\ w \in L)
      BY <1>6
    <3>2. PICK v \in work : x = v \/ (x = lost(v) /\ v \in L)
      BY <1>6
    <3>3. Apart(w, v)
      BY DEF QueueInv, WorkInv
    <3>4. n.m = w.m /\ n.gen = w.gen /\ x.m = v.m /\ x.gen = v.gen
      BY <1>3, <3>1, <3>2
    <3>5. (Enqueues(n) => n = w) /\ (Enqueues(x) => x = v)
      BY <1>7, <3>1, <3>2
    <3>6. /\ Holder(n) => Holder(w) /\ Mut(n) = Mut(w)
          /\ Holder(x) => Holder(v) /\ Mut(x) = Mut(v)
      BY <1>7, <3>1, <3>2
    <3>7. w = v => n = x
      <4>1. \A y \in L : y.st # "lost"
        BY <1>2
      <4>2. \A y \in L : y \notin work'
        <5> SUFFICES ASSUME NEW y \in L, y \in work' PROVE FALSE
          OBVIOUS
        <5>1. PICK z \in L : y = lost(z) /\ z \in work
          BY <1>2
        <5> QED BY <1>3, <4>1, <5>1
      <4> QED BY <3>1, <3>2, <4>2
    <3> QED BY <3>3, <3>4, <3>5, <3>6, <3>7 DEF Apart
  <2> QED BY <2>1, <2>2 DEF WorkInv
<1>9. RunnerInv'
  <2> SUFFICES ASSUME NEW c \in alive PROVE Awake(c)'
    BY <1>1 DEF RunnerInv
  <2>1. Awake(c)
    BY DEF QueueInv, RunnerInv
  <2>2. \A w \in work : w.c = c => \E n \in work' : n.c = c /\ n.k = w.k /\ n.from = w.from
    <3> SUFFICES ASSUME NEW w \in work, w.c = c
                 PROVE  \E n \in work' : n.c = c /\ n.k = w.k /\ n.from = w.from
      OBVIOUS
    <3>1. CASE w \in L
      <4>1. lost(w) \in work'
        BY <1>2, <3>1
      <4> QED BY <1>3, <4>1
    <3>2. CASE w \notin L
      BY <1>2, <3>2
    <3> QED BY <3>1, <3>2
  <2> QED BY <1>1, <2>1, <2>2 DEF Awake
<1> QED BY <1>1, <1>4, <1>5, <1>8, <1>9, RowsFrame, PastFrame DEF QueueInv

-----------------------------------------------------------------------------
(* Time, and the engine *)

\* Only the head is leased or backed off.
LEMMA LeasedIsHead ==
    ASSUME QueueInv, NEW i \in DOMAIN queue, queue[i].lease # "free" \/ queue[i].owner # None
    PROVE  i = First(queue)
<1>1. First(queue) \in DOMAIN queue /\ First(queue) <= i /\ i \in Nat /\ First(queue) \in Nat
  BY FirstLeast, QueueTyped DEF QueueInv
<1>2. ~(First(queue) < i)
  BY <1>1 DEF QueueInv, RowsInv, HeirExists
<1> QED BY <1>1, <1>2

\* The lease of the head changes; the leases of attempts have run out.
LEMMA HeadChanges ==
    ASSUME QueueInv, NEW i \in DOMAIN queue, i = First(queue), NEW r \in Row,
           queue' = [queue EXCEPT ![i] = r], r.m = queue[i].m, r.uuid = queue[i].uuid,
           r.superseded = queue[i].superseded, r.gen = queue[i].gen,
           UNCHANGED <<nextId, newest, order, posted, executed, refused, late>>
    PROVE  /\ RowsTyped' /\ RowsInv'
           /\ \A v \in work : (Attempt(v) => Overran(v)') => ItemInv(v)'
<1>1. /\ DOMAIN queue' = DOMAIN queue
      /\ \A j \in DOMAIN queue :
           /\ queue'[j].m = queue[j].m /\ queue'[j].uuid = queue[j].uuid
           /\ queue'[j].superseded = queue[j].superseded /\ queue'[j].gen = queue[j].gen
           /\ j # i => queue'[j] = queue[j]
  OBVIOUS
<1>2. RowsTyped'
  BY TypeParts DEF QueueInv, RowsTyped
<1>3. HeirExists'
  <2>1. i \in Nat /\ \A j \in DOMAIN queue : i <= j /\ j \in Nat
    BY FirstLeast, QueueTyped DEF QueueInv
  <2>2. \A j, k \in DOMAIN queue : j < k => queue'[k] = queue[k]
    BY <1>1, <2>1
  <2>3. HeirExists
    BY DEF QueueInv, RowsInv
  <2>4. \A j \in DOMAIN queue' : queue'[j].superseded =>
          \E k \in DOMAIN queue' : k > j /\ queue'[k].uuid = queue'[j].uuid
                                         /\ ~queue'[k].superseded
    BY <1>1, <2>3 DEF HeirExists
  <2>5. \A j, k \in DOMAIN queue' :
          queue'[j].uuid = queue'[k].uuid /\ ~queue'[j].superseded /\ ~queue'[k].superseded
            => j = k
    BY <1>1, <2>3 DEF HeirExists
  <2>6. \A j, k \in DOMAIN queue' :
          j < k => queue'[k].lease = "free" /\ queue'[k].owner = None
    BY <1>1, <2>2, <2>3 DEF HeirExists
  <2> QED BY <2>4, <2>5, <2>6 DEF HeirExists
<1>4. Ordered' /\ PastInv'
  BY <1>1 DEF QueueInv, RowsInv, Ordered, PastInv, Ahead
<1>5. NewestInv'
  BY <1>1 DEF QueueInv, RowsInv, NewestInv
<1>6. NewestIntentKept'
  BY <1>1 DEF QueueInv, RowsInv, NewestIntentKept, Queued
<1>7. \A v \in work : (Attempt(v) => Overran(v)') => ItemInv(v)'
  <2> SUFFICES ASSUME NEW v \in work, Attempt(v) => Overran(v)' PROVE ItemInv(v)'
    OBVIOUS
  <2>1. ItemInv(v)
    BY DEF QueueInv, WorkInv
  <2>2. Ahead(Mut(v)) => Ahead(Mut(v))'
    BY <1>1 DEF Ahead
  <2> QED BY <1>1, <2>1, <2>2 DEF ItemInv
<1> QED BY <1>2, <1>3, <1>4, <1>5, <1>6, <1>7 DEF RowsInv

\* A lease runs out: whoever has it has an overrun one.
LEMMA LeaseInv ==
    ASSUME QueueInv, LeaseExpires PROVE QueueInv'
<1>1. PICK i \in DOMAIN queue :
        /\ queue[i].lease = "held"
        /\ IF \E w \in work : Holds(w, queue[i])
           THEN /\ faults < MaxFaults /\ faults' = faults + 1
                /\ overrun' = overrun \cup {<<queue[i].m, queue[i].gen>>}
           ELSE UNCHANGED <<faults, overrun>>
        /\ queue' = [queue EXCEPT ![i] = [@ EXCEPT !.lease = "expired"]]
        /\ UNCHANGED <<nextId, alive, runner, work, posted, newest, order, executed, refused,
                       late, direct, crashes, moves>>
  BY Zenon DEF LeaseExpires
<1>2. /\ UNCHANGED <<nextId, newest, order, posted, executed, refused, late>>
      /\ UNCHANGED <<alive, attemptInFlight, drainRunning, timer, live, work>>
      /\ UNCHANGED <<direct, crashes, moves>>
  BY <1>1 DEF runner
<1>3. i = First(queue) /\ queue[i] \in Row
  BY <1>1, LeasedIsHead, QueueTyped DEF QueueInv
<1>a. /\ faults' = faults \/ (faults < MaxFaults /\ faults' = faults + 1)
      /\ overrun' = overrun \/ overrun' = overrun \cup {<<queue[i].m, queue[i].gen>>}
  BY <1>1
<1> DEFINE r == [queue[i] EXCEPT !.lease = "expired"]
<1>4. queue' = [queue EXCEPT ![i] = r]
  BY <1>1
<1>5. r \in Row /\ r.m = queue[i].m /\ r.uuid = queue[i].uuid
      /\ r.superseded = queue[i].superseded /\ r.gen = queue[i].gen
  BY <1>3 DEF Row, Lease
<1> HIDE DEF r
<1>6. \A v \in work : Attempt(v) => Overran(v)'
  <2> SUFFICES ASSUME NEW v \in work, Attempt(v) PROVE Overran(v)'
    OBVIOUS
  <2>1. Leads(v) \/ Overran(v)
    BY DEF QueueInv, WorkInv, ItemInv
  <2>2. CASE Overran(v)
    BY <1>a, <2>2 DEF Overran
  <2>3. CASE Leads(v)
    <3>1. Mut(v) = queue[i].m /\ v.c = queue[i].owner /\ v.gen = queue[i].gen
      BY <1>3, <2>3 DEF Leads
    <3>2. Holds(v, queue[i])
      BY <3>1 DEF Holds, Mut
    <3>3. overrun' = overrun \cup {<<queue[i].m, queue[i].gen>>}
      BY <1>1, <3>2
    <3> QED BY <3>1, <3>3 DEF Overran
  <2> QED BY <2>1, <2>2, <2>3
<1>7. RowsTyped' /\ RowsInv' /\ \A v \in work : ItemInv(v)'
  BY <1>2, <1>3, <1>4, <1>5, <1>6, HeadChanges
<1>8. TypeOK'
  <2>1. WorkTyped' /\ RunnerTyped'
    BY <1>2, TypeParts DEF QueueInv, WorkTyped, RunnerTyped
  <2>2. BoundsTyped'
    BY <1>2, <1>a, TypeParts, QueueAssumption DEF QueueInv, BoundsTyped
  <2>3. queue[i].m \in Mutation /\ queue[i].gen \in Nat
    BY <1>3, RowTyped
  <2>4. PastTyped'
    BY <1>2, <1>a, <2>3, TypeParts DEF QueueInv, PastTyped
  <2> QED BY <1>7, <2>1, <2>2, <2>4, TypePartsNext
<1>9. WorkInv' /\ RunnerInv'
  BY <1>2, <1>7 DEF QueueInv, WorkInv, RunnerInv, Awake
<1> QED BY <1>7, <1>8, <1>9 DEF QueueInv

\* A back-off ends: the head is not leased then.
LEMMA BackoffInv ==
    ASSUME QueueInv, BackoffEnds PROVE QueueInv'
<1>1. PICK i \in DOMAIN queue :
        /\ queue[i].lease = "later"
        /\ queue' = [queue EXCEPT ![i] = [@ EXCEPT !.lease = "free"]]
        /\ UNCHANGED <<nextId, alive, runner, work, posted, newest, order, outside, direct,
                       bounds>>
  BY Zenon DEF BackoffEnds
<1>2. /\ UNCHANGED <<nextId, newest, order, posted, executed, refused, late, overrun>>
      /\ UNCHANGED <<alive, attemptInFlight, drainRunning, timer, live, work>>
      /\ UNCHANGED <<direct, faults, crashes, moves>>
  BY <1>1 DEF runner, outside, bounds
<1>3. i = First(queue) /\ queue[i] \in Row
  BY <1>1, LeasedIsHead, QueueTyped DEF QueueInv
<1> DEFINE r == [queue[i] EXCEPT !.lease = "free"]
<1>4. queue' = [queue EXCEPT ![i] = r]
  BY <1>1
<1>5. r \in Row /\ r.m = queue[i].m /\ r.uuid = queue[i].uuid
      /\ r.superseded = queue[i].superseded /\ r.gen = queue[i].gen
  BY <1>3 DEF Row, Lease
<1> HIDE DEF r
<1>6. \A v \in work : Attempt(v) => Overran(v)'
  BY <1>1, <1>2, <1>3 DEF QueueInv, WorkInv, ItemInv, Leads, Overran
<1>7. RowsTyped' /\ RowsInv' /\ \A v \in work : ItemInv(v)'
  BY <1>2, <1>3, <1>4, <1>5, <1>6, HeadChanges
<1>8. TypeOK'
  BY <1>2, <1>7, TypeParts, TypePartsNext
  DEF QueueInv, WorkTyped, RunnerTyped, PastTyped, BoundsTyped
<1>9. WorkInv' /\ RunnerInv'
  BY <1>2, <1>7 DEF QueueInv, WorkInv, RunnerInv, Awake
<1> QED BY <1>7, <1>8, <1>9 DEF QueueInv

\* The answer to a call does for the runner what the call did.
LEMMA AnswerRunner ==
    ASSUME QueueInv, NEW w \in work, NEW a \in Item, Answer(w, a),
           a.c = w.c, a.k = w.k, a.from = w.from, UNCHANGED <<alive, runner>>
    PROVE  RunnerInv'
<1> DEFINE n == [a EXCEPT !.st = "done"]
<1>1. work' = (work \ {w}) \cup (IF w.c \in alive THEN {n} ELSE {})
  BY DEF Answer
<1>2. n.c = w.c /\ n.k = w.k /\ n.from = w.from
  BY StTyped
<1> HIDE DEF n
<1>3. UNCHANGED <<alive, attemptInFlight, drainRunning, timer>>
  BY DEF runner
<1> SUFFICES ASSUME NEW c \in alive PROVE Awake(c)'
  BY <1>3 DEF RunnerInv
<1>4. Awake(c) /\ work \ {w} \subseteq work'
  BY <1>1 DEF QueueInv, RunnerInv
<1>5. CASE w.c = c
  <2>1. n \in work'
    BY <1>1, <1>5
  <2> QED BY <1>2, <1>3, <1>4, <2>1, AwakeSame
<1>6. CASE w.c # c
  BY <1>3, <1>4, <1>6, AwakeOther
<1> QED BY <1>5, <1>6

\* The head goes once it is superseded or decided; the leases of attempts have run out.
LEMMA HeadGoes ==
    ASSUME QueueInv, NEW i \in DOMAIN queue, i = First(queue), queue' = Without(queue, {i}),
           queue[i].superseded \/ queue[i].m \in executed \cup refused,
           UNCHANGED <<nextId, newest, order, posted, executed, refused, late>>
    PROVE  /\ RowsTyped' /\ RowsInv'
           /\ \A v \in work : (Attempt(v) => Overran(v)') => ItemInv(v)'
<1>1. DOMAIN queue' = DOMAIN queue \ {i} /\ \A j \in DOMAIN queue' : queue'[j] = queue[j]
  BY DEF Without
<1>2. RowsTyped'
  BY <1>1, TypeParts DEF QueueInv, RowsTyped, Without
<1>3. HeirExists'
  <2>1. i \in Nat /\ \A j \in DOMAIN queue : i <= j /\ j \in Nat
    BY FirstLeast, QueueTyped DEF QueueInv
  <2>2. HeirExists
    BY DEF QueueInv, RowsInv
  <2>3. \A j \in DOMAIN queue' : queue'[j].superseded =>
          \E k \in DOMAIN queue' : k > j /\ queue'[k].uuid = queue'[j].uuid
                                         /\ ~queue'[k].superseded
    <3> SUFFICES ASSUME NEW j \in DOMAIN queue', queue'[j].superseded
                 PROVE  \E k \in DOMAIN queue' : k > j /\ queue'[k].uuid = queue'[j].uuid
                                                       /\ ~queue'[k].superseded
      OBVIOUS
    <3>1. PICK k \in DOMAIN queue : k > j /\ queue[k].uuid = queue[j].uuid
                                         /\ ~queue[k].superseded
      BY <1>1, <2>2 DEF HeirExists
    <3>2. k # i
      BY <1>1, <2>1, <3>1
    <3> QED BY <1>1, <3>1, <3>2
  <2>4. \A j, k \in DOMAIN queue' :
          queue'[j].uuid = queue'[k].uuid /\ ~queue'[j].superseded /\ ~queue'[k].superseded
            => j = k
    BY <1>1, <2>2 DEF HeirExists
  <2>5. \A j, k \in DOMAIN queue' :
          j < k => queue'[k].lease = "free" /\ queue'[k].owner = None
    <3>1. \A j, k \in DOMAIN queue : j < k => queue[k].lease = "free" /\ queue[k].owner = None
      BY <2>2 DEF HeirExists
    <3> QED BY <1>1, <3>1
  <2> QED BY <2>3, <2>4, <2>5 DEF HeirExists
<1>4. Ordered' /\ PastInv'
  BY <1>1 DEF QueueInv, RowsInv, Ordered, PastInv, Ahead
<1>5. NewestInv'
  BY <1>1 DEF QueueInv, RowsInv, NewestInv
<1>6. NewestIntentKept'
  <2> SUFFICES ASSUME NEW u \in Uuid, newest[u] # None
               PROVE  (\E j \in DOMAIN queue' : queue'[j].m = newest[u])
                      \/ newest[u] \in executed \cup refused
    BY DEF NewestIntentKept, Queued
  <2>1. (\E j \in DOMAIN queue : queue[j].m = newest[u]) \/ newest[u] \in executed \cup refused
    BY DEF QueueInv, RowsInv, NewestIntentKept, Queued
  <2>2. queue[i].m = newest[u] => ~queue[i].superseded
    BY DEF QueueInv, RowsInv, NewestInv
  <2> QED BY <1>1, <2>1, <2>2
<1>7. \A v \in work : (Attempt(v) => Overran(v)') => ItemInv(v)'
  <2> SUFFICES ASSUME NEW v \in work, Attempt(v) => Overran(v)' PROVE ItemInv(v)'
    OBVIOUS
  <2>1. ItemInv(v)
    BY DEF QueueInv, WorkInv
  <2>2. Ahead(Mut(v)) => Ahead(Mut(v))'
    BY <1>1 DEF Ahead
  <2> QED BY <1>1, <2>1, <2>2 DEF ItemInv
<1> QED BY <1>2, <1>3, <1>4, <1>5, <1>6, <1>7 DEF RowsInv

\* A settlement whose claim matches is about the head, and no attempt has its lease:
\* this generation belongs to the settlement.
LEMMA MatchIsHead ==
    ASSUME QueueInv, NEW w \in work, ClaimMatches(w),
           w.k \in {"commit", "rollback", "defer", "discard"}
    PROVE  /\ IdOf(w.m) \in DOMAIN queue /\ IdOf(w.m) = First(queue)
           /\ queue[IdOf(w.m)].m = w.m /\ queue[IdOf(w.m)] \in Row
           /\ \A v \in work : Attempt(v) => Overran(v)
<1>1. IdOf(w.m) \in DOMAIN queue /\ queue[IdOf(w.m)].m = w.m
  BY DEF ClaimMatches, Queued, IdOf
<1>2. queue[IdOf(w.m)].owner = w.c /\ queue[IdOf(w.m)].gen = w.gen
  BY DEF ClaimMatches
<1>3. queue[IdOf(w.m)].owner # None
  BY <1>2, ReturnTypes, QueueAssumption
<1>4. IdOf(w.m) = First(queue)
  BY <1>1, <1>3, LeasedIsHead
<1>5. ASSUME NEW v \in work, Attempt(v), ~Overran(v) PROVE FALSE
  <2>1. Leads(v) /\ Holder(v)
    BY <1>5 DEF QueueInv, WorkInv, ItemInv, Attempt, Holder
  <2>2. Holder(w) /\ ~Attempt(w) /\ Mut(w) = w.m
    BY DEF Holder, Attempt, Claims, Mut
  <2>3. Mut(v) = Mut(w) /\ v.gen = w.gen
    BY <1>1, <1>2, <1>4, <2>1, <2>2 DEF Leads
  <2>4. v = w
    BY <2>1, <2>2, <2>3 DEF QueueInv, WorkInv, Apart
  <2> QED BY <1>5, <2>2, <2>4
<1> QED BY <1>1, <1>4, <1>5, QueueTyped DEF QueueInv

\* commit, rollback, defer and discard.
LEMMA SettleInv ==
    ASSUME QueueInv, NEW w \in work, EngineSettle(w) PROVE QueueInv'
<1> DEFINE n == [w EXCEPT !.st = "done"]
           i == IdOf(w.m)
<1>1. /\ w.k \in {"commit", "rollback", "defer", "discard"}
      /\ queue' = (IF ClaimMatches(w) THEN Settled(w) ELSE queue)
      /\ Answer(w, w)
      /\ UNCHANGED <<alive, runner>>
      /\ UNCHANGED <<nextId, newest, order, posted, executed, refused, late, overrun>>
      /\ UNCHANGED <<attemptInFlight, drainRunning, timer, live>>
      /\ UNCHANGED <<direct, faults, crashes, moves>>
  BY DEF EngineSettle, runner, outside, bounds
<1>2. w \in Item /\ w.m \in Mutation /\ ItemInv(w)
  BY <1>1, ReturnTypes DEF QueueInv, WorkInv
<1>3. n \in Item /\ n.k = w.k /\ n.m = w.m /\ n.gen = w.gen /\ n.st = "done"
  BY <1>2, StTyped
<1>4. work' \subseteq (work \ {w}) \cup {n}
  BY <1>1 DEF Answer
<1> HIDE DEF n
<1>5. RowsTyped' /\ RowsInv' /\ \A v \in work : ItemInv(v)'
  <2>1. CASE ~ClaimMatches(w)
    <3>1. Quiet /\ queue' = queue
      BY <1>1, <2>1 DEF Quiet
    <3>2. RowsTyped'
      BY <1>1, <3>1, TypeParts DEF QueueInv, RowsTyped
    <3>3. \A v \in work : ItemInv(v)'
      BY <3>1, ItemFrame DEF QueueInv, WorkInv
    <3> QED BY <1>1, <3>1, <3>2, <3>3, RowsFrame, PastFrame DEF QueueInv
  <2>2. CASE ClaimMatches(w)
    <3>1. /\ i \in DOMAIN queue /\ i = First(queue) /\ queue[i].m = w.m /\ queue[i] \in Row
          /\ \A v \in work : Attempt(v) => Overran(v)'
      BY <1>1, <2>2, MatchIsHead DEF Overran
    <3>2. CASE w.k = "defer" /\ ~queue[i].superseded
      <4> DEFINE r == [queue[i] EXCEPT !.owner = None, !.lease = "later"]
      <4>1. queue' = [queue EXCEPT ![i] = r]
        BY <1>1, <2>2, <3>2 DEF Settled
      <4>2. r \in Row /\ r.m = queue[i].m /\ r.uuid = queue[i].uuid
            /\ r.superseded = queue[i].superseded /\ r.gen = queue[i].gen
        <5> HIDE DEF i
        <5> QED BY <3>1 DEF Row, Lease
      <4> HIDE DEF r, i
      <4> QED BY <1>1, <3>1, <4>1, <4>2, HeadChanges
    <3>3. CASE ~(w.k = "defer" /\ ~queue[i].superseded)
      <4>1. queue' = Without(queue, {i})
        BY <1>1, <2>2, <3>3 DEF Settled
      <4>2. queue[i].superseded \/ queue[i].m \in executed \cup refused
        <5>1. CASE w.k = "defer"
          BY <3>3, <5>1
        <5>2. CASE w.k \in {"commit", "rollback"}
          BY <1>2, <3>1, <5>2 DEF ItemInv
        <5>3. CASE w.k = "discard"
          <6>1. Mut(w) = w.m
            BY <5>3 DEF Mut
          <6> QED BY <1>2, <3>1, <5>3, <6>1 DEF ItemInv
        <5> QED BY <1>1, <5>1, <5>2, <5>3
      <4> HIDE DEF i
      <4> QED BY <1>1, <3>1, <4>1, <4>2, HeadGoes
    <3> QED BY <3>2, <3>3
  <2> QED BY <2>1, <2>2
<1>6. TypeOK'
  <2>1. RunnerTyped' /\ PastTyped' /\ BoundsTyped'
    BY <1>1, TypeParts DEF QueueInv, RunnerTyped, PastTyped, BoundsTyped
  <2>2. WorkTyped'
    BY <1>2, <1>3, <1>4, TypeParts DEF QueueInv, WorkTyped
  <2> QED BY <1>5, <2>1, <2>2, TypePartsNext
<1>7. WorkInv'
  <2>1. Mut(n) = Mut(w) /\ Holder(w) /\ ~Enqueues(n) /\ ~Claims(n) /\ ~Attempt(n)
    BY <1>1, <1>3 DEF Mut, Holder, Enqueues, Claims, Attempt
  <2>2. ItemInv(n)'
    BY <1>1, <1>3, <1>5, <2>1 DEF ItemInv
  <2>3. \A v \in work \ {w} : Apart(v, n)
    BY <1>3, <2>1, TakesOver DEF QueueInv, WorkInv
  <2> QED BY <1>4, <1>5, <2>2, <2>3, WorkSwap DEF QueueInv
<1>8. RunnerInv'
  BY <1>1, <1>2, AnswerRunner
<1> QED BY <1>5, <1>6, <1>7, <1>8 DEF QueueInv

\* The answer n to whoever claims from the rows q carries the new lease of the head.
LEMMA ClaimedItem ==
    ASSUME NEW q, NEW N \in Nat, DOMAIN q \subseteq 1..N, q \in [DOMAIN q -> Row],
           NEW c \in Client, queue' = Claimed(q, c), \A i \in DOMAIN q : order'[q[i].m] = i,
           NEW n \in Item, n.k \in {"enqueue", "claim"}, n.st = "done", n.c = c,
           n.k = "enqueue" => n.uuid \in Uuid,
           Claimable(q) => /\ n.got = q[First(q)].m /\ n.gen = q[First(q)].gen + 1
                           /\ n.superseded = q[First(q)].superseded,
           ~Claimable(q) => n.got = None
    PROVE  /\ ItemInv(n)' /\ ~Enqueues(n) /\ (Holder(n) => Claimable(q))
           /\ Claimable(q) => Mut(n) = q[First(q)].m /\ n.gen = q[First(q)].gen + 1
<1>1. ~Enqueues(n) /\ n.k \notin {"net", "commit", "rollback", "defer", "discard"}
  BY DEF Enqueues
<1>2. Mut(n) = n.got
  BY DEF Mut
<1>3. CASE ~Claimable(q)
  <2>1. ~Claims(n) /\ ~Holder(n) /\ ~Attempt(n)
    BY <1>1, <1>3 DEF Claims, Holder, Attempt
  <2> QED BY <1>1, <1>3, <2>1 DEF ItemInv
<1>4. CASE Claimable(q)
  <2> DEFINE f == First(q)
  <2>1. /\ DOMAIN queue' = DOMAIN q /\ f \in DOMAIN q /\ First(queue') = f
        /\ queue'[f].owner = c /\ queue'[f].gen = q[f].gen + 1 /\ queue'[f].lease = "held"
        /\ \A i \in DOMAIN q : /\ queue'[i].m = q[i].m
                               /\ queue'[i].superseded = q[i].superseded
    BY <1>4, ClaimedRows
  <2>2. q[f] \in Row /\ q[f].m \in Mutation /\ q[f].gen \in Nat /\ f \in 1..N
    BY <2>1, RowTyped
  <2> HIDE DEF f
  <2>3. n.got = q[f].m /\ n.gen = q[f].gen + 1 /\ n.superseded = q[f].superseded
    BY <1>4 DEF f
  <2>4. \A i \in DOMAIN queue' : queue'[i].m = Mut(n) => i = f
    BY <1>2, <2>1, <2>3
  <2>5. Mut(n) \in Mutation /\ order'[Mut(n)] = f /\ f # 0
    BY <1>2, <2>1, <2>2, <2>3
  <2>6. Leads(n)'
    BY <1>2, <2>1, <2>3 DEF Leads
  <2>a. Ahead(Mut(n))'
    <3>1. \A i \in DOMAIN q : First(q) <= i
      BY <1>4, FirstLeast DEF Claimable
    <3> QED BY <2>1, <2>5, <3>1 DEF Ahead, f
  <2>7. ItemInv(n)'
    <3>1. \A i \in DOMAIN queue' : queue'[i].m = Mut(n) => n.gen <= queue'[i].gen
      BY <2>1, <2>2, <2>3, <2>4
    <3>2. n.superseded => \A i \in DOMAIN queue' : queue'[i].m = Mut(n) => queue'[i].superseded
      BY <2>1, <2>3, <2>4
    <3> QED BY <1>1, <2>5, <2>6, <2>a, <3>1, <3>2 DEF ItemInv
  <2> QED BY <1>1, <1>2, <1>4, <2>3, <2>7 DEF f
<1> QED BY <1>3, <1>4

\* Everybody else has an older generation of this lease.
LEMMA ClaimedApart ==
    ASSUME NEW q, NEW n, NEW v, NEW N \in Nat, DOMAIN q \subseteq 1..N, q \in [DOMAIN q -> Row],
           ~Enqueues(n), Holder(n) => Claimable(q),
           Claimable(q) => Mut(n) = q[First(q)].m /\ n.gen = q[First(q)].gen + 1,
           Holder(v) => \A i \in DOMAIN q : q[i].m = Mut(v) => v.gen <= q[i].gen
    PROVE  Apart(v, n)
<1>1. CASE Holder(n) /\ Holder(v) /\ Mut(v) = Mut(n) /\ v.gen = n.gen
  <2>1. First(q) \in DOMAIN q
    BY <1>1, FirstLeast DEF Claimable
  <2>2. q[First(q)].gen \in Nat
    BY <2>1, RowTyped
  <2>3. q[First(q)].gen + 1 <= q[First(q)].gen
    BY <1>1, <2>1
  <2> QED BY <2>2, <2>3
<1> QED BY <1>1 DEF Apart

\* drainQueue() claims the head.
LEMMA ClaimInv ==
    ASSUME QueueInv, NEW w \in work, EngineClaim(w) PROVE QueueInv'
<1> DEFINE a == WithClaim(w, queue)
<1>0. PICK n : n = [a EXCEPT !.st = "done"]
  OBVIOUS
<1>1. /\ w.k = "claim" /\ w.st = "posted"
      /\ queue' = Claimed(queue, w.c)
      /\ Answer(w, a)
      /\ UNCHANGED <<alive, runner>>
      /\ UNCHANGED <<nextId, newest, order, posted, executed, refused, late, overrun>>
      /\ UNCHANGED <<attemptInFlight, drainRunning, timer, live>>
      /\ UNCHANGED <<direct, faults, crashes, moves>>
  BY DEF EngineClaim, runner, outside, bounds
<1>2. w \in Item /\ w.c \in Client /\ ItemInv(w) /\ w.got = None
  BY <1>1, ReturnTypes DEF QueueInv, WorkInv, ItemInv
<1>3. nextId \in Nat /\ DOMAIN queue \subseteq 1..nextId /\ queue \in [DOMAIN queue -> Row]
  BY TypeParts DEF QueueInv, RowsTyped
<1>4. /\ a \in Item /\ a.c = w.c /\ a.k = w.k /\ a.m = w.m /\ a.from = w.from
      /\ ~Claimable(queue) => a = w
      /\ Claimable(queue) => /\ a.got = queue[First(queue)].m
                             /\ a.gen = queue[First(queue)].gen + 1
                             /\ a.superseded = queue[First(queue)].superseded
  BY <1>2, <1>3, WithClaimFields
<1>5. work' \subseteq (work \ {w}) \cup {n}
  BY <1>0, <1>1 DEF Answer
<1> HIDE DEF a
<1>6. /\ n \in Item /\ n.c = w.c /\ n.k = w.k /\ n.m = w.m /\ n.from = w.from
      /\ n.st = "done" /\ n.got = a.got /\ n.gen = a.gen /\ n.superseded = a.superseded
  BY <1>0, <1>4, StTyped
<1>7. /\ DOMAIN queue' = DOMAIN queue /\ queue' \in [DOMAIN queue -> Row]
      /\ \A i \in DOMAIN queue :
           /\ queue'[i].m = queue[i].m /\ queue'[i].uuid = queue[i].uuid
           /\ queue'[i].superseded = queue[i].superseded
           /\ queue[i].gen <= queue'[i].gen
           /\ i # First(queue) => queue'[i] = queue[i]
      /\ ~Claimable(queue) => queue' = queue
  BY <1>1, <1>2, <1>3, ClaimedRows
<1>8. TypeOK'
  <2>1. RunnerTyped' /\ PastTyped' /\ BoundsTyped'
    BY <1>1, TypeParts DEF QueueInv, RunnerTyped, PastTyped, BoundsTyped
  <2>2. WorkTyped'
    BY <1>1, <1>5, <1>6, TypeParts DEF QueueInv, WorkTyped
  <2>3. RowsTyped'
    BY <1>1, <1>3, <1>7 DEF RowsTyped
  <2> QED BY <2>1, <2>2, <2>3, TypePartsNext
<1>9. RowsInv'
  <2>1. HeirExists'
    <3>1. HeirExists
      BY DEF QueueInv, RowsInv
    <3>2. \A j, k \in DOMAIN queue : j < k => queue'[k] = queue[k]
      <4>1. \A j \in DOMAIN queue : First(queue) <= j /\ First(queue) \in Nat /\ j \in Nat
        BY <1>3, FirstLeast
      <4> QED BY <1>7, <4>1
    <3>3. \A j \in DOMAIN queue' : queue'[j].superseded =>
            \E k \in DOMAIN queue' : k > j /\ queue'[k].uuid = queue'[j].uuid
                                           /\ ~queue'[k].superseded
      BY <1>7, <3>1 DEF HeirExists
    <3>4. \A j, k \in DOMAIN queue' :
            queue'[j].uuid = queue'[k].uuid /\ ~queue'[j].superseded /\ ~queue'[k].superseded
              => j = k
      BY <1>7, <3>1 DEF HeirExists
    <3>5. \A j, k \in DOMAIN queue' :
            j < k => queue'[k].lease = "free" /\ queue'[k].owner = None
      BY <1>7, <3>1, <3>2 DEF HeirExists
    <3> QED BY <3>3, <3>4, <3>5 DEF HeirExists
  <2>2. Ordered' /\ PastInv'
    BY <1>1, <1>7 DEF QueueInv, RowsInv, Ordered, PastInv, Ahead
  <2>3. NewestInv'
    BY <1>1, <1>7 DEF QueueInv, RowsInv, NewestInv
  <2>4. NewestIntentKept'
    BY <1>1, <1>7 DEF QueueInv, RowsInv, NewestIntentKept, Queued
  <2> QED BY <2>1, <2>2, <2>3, <2>4 DEF RowsInv
<1>10. WorkInv'
  <2>1. /\ ItemInv(n)' /\ ~Enqueues(n) /\ (Holder(n) => Claimable(queue))
        /\ Claimable(queue) => /\ Mut(n) = queue[First(queue)].m
                               /\ n.gen = queue[First(queue)].gen + 1
    <3>1. \A i \in DOMAIN queue : order'[queue[i].m] = i
      BY <1>1 DEF QueueInv, RowsInv, Ordered
    <3> QED BY <1>1, <1>2, <1>3, <1>4, <1>6, <3>1, ClaimedItem
  <2>2. \A v \in work \ {w} : ItemInv(v)'
    <3>1. CASE ~Claimable(queue)
      <4>1. Quiet
        BY <1>1, <1>7, <3>1 DEF Quiet
      <4> QED BY <4>1, ItemFrame DEF QueueInv, WorkInv
    <3>2. CASE Claimable(queue)
      <4> SUFFICES ASSUME NEW v \in work PROVE ItemInv(v)'
        OBVIOUS
      <4>1. ItemInv(v)
        BY DEF QueueInv, WorkInv
      <4>2. Attempt(v) => Overran(v)' /\ Ahead(Mut(v))'
        BY <1>1, <1>7, <3>2, <4>1 DEF ItemInv, Leads, Claimable, Overran, Ahead
      <4>3. Holder(v) => \A i \in DOMAIN queue' : queue'[i].m = Mut(v) => v.gen <= queue'[i].gen
        <5>1. \A i \in DOMAIN queue : queue[i].gen \in Nat /\ queue'[i].gen \in Nat
          BY <1>3, <1>7, RowTyped
        <5>2. v.gen \in Nat
          BY TypeParts, ItemTyped DEF QueueInv, WorkTyped
        <5> QED BY <1>7, <4>1, <5>1, <5>2 DEF ItemInv
      <4> QED BY <1>1, <1>7, <4>1, <4>2, <4>3 DEF ItemInv
    <3> QED BY <3>1, <3>2
  <2>3. \A v \in work \ {w} : Apart(v, n)
    BY <1>3, <2>1, ClaimedApart DEF QueueInv, WorkInv, ItemInv
  <2> QED BY <1>5, <2>1, <2>2, <2>3, WorkSwap DEF QueueInv
<1>11. RunnerInv'
  BY <1>1, <1>4, AnswerRunner
<1> QED BY <1>8, <1>9, <1>10, <1>11 DEF QueueInv

\* What the engine does with an enqueue: the rows afterwards, by their ids.
Enqueued(w) ==
    /\ DOMAIN queue' = (DOMAIN queue \ Replaced(w.uuid)) \cup {nextId + 1}
    /\ queue' \in [DOMAIN queue' -> Row]
    /\ queue'[nextId + 1].m = w.m /\ queue'[nextId + 1].uuid = w.uuid
    /\ ~queue'[nextId + 1].superseded
    /\ \A i \in DOMAIN queue \ Replaced(w.uuid) :
         /\ queue'[i].m = queue[i].m /\ queue'[i].uuid = queue[i].uuid
         /\ queue'[i].superseded <=> queue[i].superseded \/ i \in Collision(w.uuid)
         /\ queue[i].gen <= queue'[i].gen
    /\ \A i, j \in DOMAIN queue' : i < j =>
         \/ queue'[j].lease = "free" /\ queue'[j].owner = None
         \/ /\ i \in DOMAIN queue /\ j \in DOMAIN queue
            /\ queue'[j].lease = queue[j].lease /\ queue'[j].owner = queue[j].owner

\* The upsert and the claim together.
LEMMA EnqueuedRows ==
    ASSUME QueueInv, NEW w \in work, w.m \in Mutation, w.uuid \in Uuid, w.c \in Client,
           queue' = Claimed(Upserted(w.m, w.uuid), w.c)
    PROVE  Enqueued(w)
<1> DEFINE q == Upserted(w.m, w.uuid)
           N == nextId + 1
           D == DOMAIN queue \ Replaced(w.uuid)
<1>0. nextId \in Nat /\ DOMAIN queue \subseteq 1..nextId
  BY TypeParts DEF QueueInv, RowsTyped
<1>1. /\ N \in Nat /\ N \notin DOMAIN queue
      /\ \A i \in DOMAIN queue : i < N /\ i \in Nat
  BY <1>0
<1>a. IsUpserted(q, w.m, w.uuid)
  BY UpsertedRows DEF QueueInv
<1> HIDE DEF q
<1>2. /\ DOMAIN q = D \cup {N} /\ q \in [DOMAIN q -> Row] /\ q[N] = NewRow(w.m, w.uuid)
      /\ \A i \in D :
           /\ q[i].m = queue[i].m /\ q[i].uuid = queue[i].uuid
           /\ q[i].owner = queue[i].owner /\ q[i].gen = queue[i].gen
           /\ q[i].lease = queue[i].lease
           /\ q[i].superseded <=> queue[i].superseded \/ i \in Collision(w.uuid)
  BY <1>a DEF IsUpserted
<1>3. DOMAIN q \subseteq 1..N
  BY <1>0, <1>2
<1>4. queue' = Claimed(q, w.c)
  BY DEF q
<1>5. /\ DOMAIN queue' = DOMAIN q /\ queue' \in [DOMAIN q -> Row]
      /\ \A i \in DOMAIN q :
           /\ queue'[i].m = q[i].m /\ queue'[i].uuid = q[i].uuid
           /\ queue'[i].superseded = q[i].superseded /\ q[i].gen <= queue'[i].gen
           /\ i # First(q) => queue'[i] = q[i]
  BY <1>1, <1>2, <1>3, <1>4, ClaimedRows
<1>6. /\ q[N].m = w.m /\ q[N].uuid = w.uuid /\ ~q[N].superseded
      /\ q[N].lease = "free" /\ q[N].owner = None
  BY <1>2 DEF NewRow
<1>7. \A i, j \in DOMAIN q : i < j =>
        \/ queue'[j].lease = "free" /\ queue'[j].owner = None
        \/ /\ i \in DOMAIN queue /\ j \in DOMAIN queue
           /\ queue'[j].lease = queue[j].lease /\ queue'[j].owner = queue[j].owner
  <2> SUFFICES ASSUME NEW i \in DOMAIN q, NEW j \in DOMAIN q, i < j
               PROVE  \/ queue'[j].lease = "free" /\ queue'[j].owner = None
                      \/ /\ i \in DOMAIN queue /\ j \in DOMAIN queue
                         /\ queue'[j].lease = queue[j].lease
                         /\ queue'[j].owner = queue[j].owner
    BY Zenon
  <2>1. First(q) <= i /\ First(q) \in Nat /\ i \in Nat /\ j \in Nat
    BY <1>3, FirstLeast
  <2>2. queue'[j] = q[j]
    BY <1>5, <2>1
  <2>3. CASE j = N
    BY <1>6, <2>2, <2>3
  <2>4. CASE j # N
    <3>1. j \in D
      BY <1>2, <2>4
    <3>2. i \in D
      BY <1>1, <1>2, <2>1, <3>1
    <3> QED BY <1>2, <2>2, <3>1, <3>2
  <2> QED BY <2>3, <2>4
<1>8. \A i \in D :
        /\ queue'[i].m = queue[i].m /\ queue'[i].uuid = queue[i].uuid
        /\ queue'[i].superseded <=> queue[i].superseded \/ i \in Collision(w.uuid)
        /\ queue[i].gen <= queue'[i].gen
  BY <1>2, <1>5
<1> QED BY <1>2, <1>5, <1>6, <1>7, <1>8 DEF Enqueued

\* The rows keep their invariant.
LEMMA EnqueueRows ==
    ASSUME QueueInv, NEW w \in work, Enqueued(w), w.m \in Mutation, w.uuid \in Uuid,
           w.m \in posted, order[w.m] = 0, nextId' = nextId + 1,
           newest' = [newest EXCEPT ![w.uuid] = w.m],
           order' = [order EXCEPT ![w.m] = nextId + 1],
           UNCHANGED <<posted, executed, refused, late, overrun>>
    PROVE  RowsTyped' /\ RowsInv'
<1> DEFINE N == nextId + 1
           u == w.uuid
           D == DOMAIN queue \ Replaced(w.uuid)
<1>1. /\ N \in Nat /\ N \notin DOMAIN queue /\ nextId \in Nat /\ DOMAIN queue \subseteq 1..nextId
      /\ \A i \in DOMAIN queue : i < N /\ i \in Nat /\ i # 0
      /\ \A i \in DOMAIN queue : queue[i] \in Row
  BY TypeParts DEF QueueInv, RowsTyped
<1>2. /\ order \in [Mutation -> Nat] /\ newest \in [Uuid -> Mutation \cup {None}]
  BY TypeParts DEF QueueInv, PastTyped
<1>3. /\ DOMAIN queue' = D \cup {N} /\ queue' \in [DOMAIN queue' -> Row]
      /\ queue'[N].m = w.m /\ queue'[N].uuid = u /\ ~queue'[N].superseded
      /\ \A i \in D :
           /\ queue'[i].m = queue[i].m /\ queue'[i].uuid = queue[i].uuid
           /\ queue'[i].superseded <=> queue[i].superseded \/ i \in Collision(u)
      /\ \A i, j \in DOMAIN queue' : i < j =>
           \/ queue'[j].lease = "free" /\ queue'[j].owner = None
           \/ /\ i \in DOMAIN queue /\ j \in DOMAIN queue
              /\ queue'[j].lease = queue[j].lease /\ queue'[j].owner = queue[j].owner
  BY DEF Enqueued
<1>4. /\ \A i \in DOMAIN queue : i \in Collision(u) <=> queue[i].uuid = u /\ ~queue[i].superseded
      /\ \A i \in DOMAIN queue \ D : i \in Collision(u)
  BY DEF Collision, Replaced
<1>5. \A i \in DOMAIN queue : queue[i].m # w.m /\ queue[i].m \in Mutation
  <2>1. \A i \in DOMAIN queue : order[queue[i].m] = i /\ queue[i].m \in Mutation
    BY <1>1, RowTyped DEF QueueInv, RowsInv, Ordered
  <2> QED BY <1>1, <2>1
<1> HIDE DEF N, u, D
<1>6. /\ order'[w.m] = N /\ \A m \in Mutation : m # w.m => order'[m] = order[m]
      /\ newest'[u] = w.m /\ \A x \in Uuid : x # u => newest'[x] = newest[x]
  BY <1>2 DEF N, u
<1>7. RowsTyped'
  BY <1>1, <1>3 DEF RowsTyped, N, D
<1>8. HeirExists'
  <2>0. HeirExists
    BY DEF QueueInv, RowsInv
  <2>1. \A i \in DOMAIN queue' : queue'[i].superseded =>
          \E j \in DOMAIN queue' : j > i /\ queue'[j].uuid = queue'[i].uuid
                                         /\ ~queue'[j].superseded
    <3> SUFFICES ASSUME NEW i \in DOMAIN queue', queue'[i].superseded
                 PROVE  \E j \in DOMAIN queue' : j > i /\ queue'[j].uuid = queue'[i].uuid
                                                       /\ ~queue'[j].superseded
      OBVIOUS
    <3>1. i \in D /\ i \in DOMAIN queue
      BY <1>3 DEF D
    <3>2. CASE queue[i].uuid = u
      <4>1. N \in DOMAIN queue' /\ N > i
        BY <1>1, <1>3, <3>1
      <4> QED BY <1>3, <3>1, <3>2, <4>1
    <3>3. CASE queue[i].uuid # u
      <4>1. i \notin Collision(u)
        BY <1>4, <3>1, <3>3
      <4>2. queue[i].superseded
        BY <1>3, <3>1, <4>1
      <4>3. PICK j \in DOMAIN queue : j > i /\ queue[j].uuid = queue[i].uuid
                                           /\ ~queue[j].superseded
        BY <2>0, <3>1, <4>2 DEF HeirExists
      <4>4. j \in D /\ j \notin Collision(u)
        BY <1>4, <3>3, <4>3
      <4> QED BY <1>3, <3>1, <4>3, <4>4
    <3> QED BY <3>2, <3>3
  <2>2. \A i, j \in DOMAIN queue' :
          queue'[i].uuid = queue'[j].uuid /\ ~queue'[i].superseded /\ ~queue'[j].superseded
            => i = j
    <3>1. \A i \in D : i \in DOMAIN queue
      BY DEF D
    <3>2. \A i \in D : ~queue'[i].superseded => queue'[i].uuid # u /\ ~queue[i].superseded
      BY <1>3, <1>4, <3>1
    <3>3. \A i, j \in D : queue[i].uuid = queue[j].uuid /\ ~queue[i].superseded
                            /\ ~queue[j].superseded => i = j
      BY <2>0, <3>1 DEF HeirExists
    <3> QED BY <1>3, <3>2, <3>3
  <2>3. \A i, j \in DOMAIN queue' :
          i < j => queue'[j].lease = "free" /\ queue'[j].owner = None
    BY <1>3, <2>0 DEF HeirExists
  <2> QED BY <2>1, <2>2, <2>3 DEF HeirExists
<1>9. Ordered'
  <2>1. Ordered
    BY DEF QueueInv, RowsInv
  <2>2. \A i \in DOMAIN queue' : order'[queue'[i].m] = i
    <3>1. \A i \in D : order'[queue'[i].m] = i
      BY <1>3, <1>5, <1>6, <2>1 DEF Ordered, D
    <3> QED BY <1>3, <1>6, <3>1
  <2>3. \A m \in Mutation : order'[m] <= nextId' /\ (m \notin posted' => order'[m] = 0)
    BY <1>1, <1>2, <1>6, <2>1 DEF Ordered, N
  <2> QED BY <2>2, <2>3 DEF Ordered
<1>10. NewestInv'
  <2> SUFFICES ASSUME NEW x \in Uuid, newest'[x] # None
               PROVE  /\ order'[newest'[x]] # 0
                      /\ \A i \in DOMAIN queue' :
                           queue'[i].m = newest'[x] =>
                             queue'[i].uuid = x /\ ~queue'[i].superseded
    BY DEF NewestInv
  <2>1. CASE x = u
    <3>1. \A i \in DOMAIN queue' : queue'[i].m = w.m => i = N
      BY <1>3, <1>5 DEF D
    <3>2. N # 0
      BY <1>1 DEF N
    <3> QED BY <1>3, <1>6, <2>1, <3>1, <3>2
  <2>2. CASE x # u
    <3>1. newest'[x] = newest[x] /\ newest[x] \in Mutation
      BY <1>2, <1>6, <2>2
    <3>2. /\ order[newest[x]] # 0
          /\ \A i \in DOMAIN queue :
               queue[i].m = newest[x] => queue[i].uuid = x /\ ~queue[i].superseded
      BY <3>1 DEF QueueInv, RowsInv, NewestInv
    <3>3. newest[x] # w.m
      BY <3>2
    <3>4. order'[newest'[x]] # 0
      BY <1>6, <3>1, <3>2, <3>3
    <3>5. ASSUME NEW i \in DOMAIN queue', queue'[i].m = newest'[x]
          PROVE  queue'[i].uuid = x /\ ~queue'[i].superseded
      <4>1. i \in D /\ i \in DOMAIN queue
        BY <1>3, <3>1, <3>3, <3>5 DEF D
      <4>2. queue[i].uuid = x /\ ~queue[i].superseded
        BY <1>3, <3>1, <3>2, <3>5, <4>1
      <4>3. i \notin Collision(u)
        BY <1>4, <2>2, <4>1, <4>2
      <4> QED BY <1>3, <4>1, <4>2, <4>3
    <3> QED BY <3>4, <3>5
  <2> QED BY <2>1, <2>2
<1>11. NewestIntentKept'
  <2> SUFFICES ASSUME NEW x \in Uuid, newest'[x] # None
               PROVE  (\E i \in DOMAIN queue' : queue'[i].m = newest'[x])
                      \/ newest'[x] \in executed \cup refused
    BY DEF NewestIntentKept, Queued
  <2>1. CASE x = u
    BY <1>3, <1>6, <2>1
  <2>2. CASE x # u
    <3>1. newest'[x] = newest[x]
      BY <1>6, <2>2
    <3>2. CASE \E i \in DOMAIN queue : queue[i].m = newest[x]
      <4>1. PICK i \in DOMAIN queue : queue[i].m = newest[x]
        BY <3>2
      <4>2. queue[i].uuid = x
        BY <3>1, <4>1 DEF QueueInv, RowsInv, NewestInv
      <4>3. i \in D
        BY <1>4, <2>2, <4>2
      <4> QED BY <1>3, <3>1, <4>1, <4>3
    <3>3. CASE newest[x] \in executed \cup refused
      BY <3>1, <3>3
    <3> QED BY <3>1, <3>2, <3>3 DEF QueueInv, RowsInv, NewestIntentKept, Queued
  <2> QED BY <2>1, <2>2
<1>12. PastInv'
  <2>1. PastInv /\ Ordered
    BY DEF QueueInv, RowsInv
  <2>2. ASSUME NEW m \in Mutation, Ahead(m) PROVE Ahead(m)'
    <3>1. order'[m] = order[m] /\ order[m] <= nextId /\ order[m] \in Nat
      BY <1>2, <1>6, <2>1, <2>2 DEF Ahead, Ordered
    <3> QED BY <1>1, <1>3, <2>2, <3>1 DEF Ahead, N, D
  <2>3. (\A m \in executed : m \in Mutation) /\ \A v \in late : v.m \in Mutation
    BY TypeParts DEF QueueInv, PastTyped
  <2> QED BY <2>1, <2>2, <2>3 DEF PastInv
<1> QED BY <1>7, <1>8, <1>9, <1>10, <1>11, <1>12 DEF RowsInv

\* The other items keep theirs: a leased row is neither replaced nor claimed.
LEMMA EnqueueItems ==
    ASSUME QueueInv, NEW w \in work, NEW v \in work, v # w, Enqueued(w), Enqueues(w),
           w.m \in Mutation, w.uuid \in Uuid, w.c \in Client, order[w.m] = 0,
           queue' = Claimed(Upserted(w.m, w.uuid), w.c),
           order' = [order EXCEPT ![w.m] = nextId + 1],
           UNCHANGED <<posted, executed, refused, overrun>>
    PROVE  ItemInv(v)'
<1> DEFINE N == nextId + 1
           D == DOMAIN queue \ Replaced(w.uuid)
<1>1. ItemInv(v) /\ Apart(v, w) /\ v \in Item /\ v.gen \in Nat
  BY TypeParts, ItemTyped DEF QueueInv, WorkInv, WorkTyped
<1>2. /\ DOMAIN queue' = D \cup {N} /\ queue' \in [DOMAIN queue' -> Row] /\ queue'[N].m = w.m
      /\ \A i \in D : /\ queue'[i].m = queue[i].m
                      /\ queue[i].superseded => queue'[i].superseded
                      /\ queue[i].gen <= queue'[i].gen
  BY DEF Enqueued
<1>3. order \in [Mutation -> Nat] /\ N \in Nat /\ nextId \in Nat
      /\ \A i \in DOMAIN queue : i < N /\ i \in Nat /\ queue[i] \in Row
  BY TypeParts DEF QueueInv, PastTyped, RowsTyped
<1>4. \A i \in D : queue[i].gen \in Nat /\ queue'[i].gen \in Nat
  BY <1>2, <1>3, RowTyped
<1>5. Enqueues(v) => order'[v.m] = 0 /\ v.m \in posted'
  <2>1. Enqueues(v) => v.m # w.m /\ v.m \in Mutation
    BY <1>1, TypeParts DEF Apart, Enqueues, QueueInv, WorkTyped
  <2> QED BY <1>1, <1>3, <2>1 DEF ItemInv
<1>6. Holder(v) => Mut(v) \in Mutation /\ Mut(v) # w.m /\ order'[Mut(v)] # 0
  BY <1>1, <1>3 DEF ItemInv
<1>7. Holder(v) => \A i \in DOMAIN queue' : queue'[i].m = Mut(v) => i \in D
  BY <1>2, <1>6
<1>8. Holder(v) => \A i \in DOMAIN queue' : queue'[i].m = Mut(v) => v.gen <= queue'[i].gen
  <2> HIDE DEF D
  <2>1. Holder(v) => \A i \in D : queue[i].m = Mut(v) => v.gen <= queue[i].gen
    BY <1>1 DEF ItemInv, D
  <2> QED BY <1>1, <1>2, <1>4, <1>7, <2>1
<1>9. v.k = "discard" \/ (Claims(v) /\ v.superseded) =>
        \A i \in DOMAIN queue' : queue'[i].m = Mut(v) => queue'[i].superseded
  <2>1. v.k = "discard" \/ Claims(v) => Holder(v)
    BY DEF Holder
  <2> QED BY <1>1, <1>2, <1>7, <2>1 DEF ItemInv
<1>a. Attempt(v) => Ahead(Mut(v))'
  <2> SUFFICES ASSUME Attempt(v) PROVE Ahead(Mut(v))'
    OBVIOUS
  <2>1. Holder(v) /\ Ahead(Mut(v))
    BY <1>1 DEF Attempt, Holder, ItemInv
  <2>2. order'[Mut(v)] = order[Mut(v)] /\ order[Mut(v)] <= nextId /\ order[Mut(v)] \in Nat
    BY <1>3, <1>6, <2>1, TypeParts DEF QueueInv, RowsInv, Ordered, PastTyped
  <2> QED BY <1>2, <1>3, <2>1, <2>2 DEF Ahead
<1>b. Attempt(v) => Leads(v) \/ Overran(v)'
  BY <1>1 DEF ItemInv, Overran
<1>10. Attempt(v) /\ Leads(v) => Leads(v)'
  <2> SUFFICES ASSUME Attempt(v), Leads(v) PROVE Leads(v)'
    OBVIOUS
  <2> DEFINE f == First(queue)
             q == Upserted(w.m, w.uuid)
  <2>1. Leads(v)
    OBVIOUS
  <2>2. f \in DOMAIN queue /\ \A j \in DOMAIN queue : f <= j
    BY <1>3, <2>1, FirstLeast DEF Leads
  <2>3. f \in D
    BY <2>1, <2>2 DEF Leads, Replaced
  <2>a. IsUpserted(q, w.m, w.uuid)
    BY UpsertedRows DEF QueueInv
  <2> HIDE DEF q
  <2>4. /\ DOMAIN q = D \cup {N} /\ q \in [DOMAIN q -> Row]
        /\ q[f].m = queue[f].m /\ q[f].owner = queue[f].owner /\ q[f].gen = queue[f].gen
        /\ q[f].lease = queue[f].lease
    BY <2>3, <2>a DEF IsUpserted
  <2>5. DOMAIN q \in SUBSET Nat /\ f \in DOMAIN q /\ \A j \in DOMAIN q : f <= j
    BY <1>3, <2>2, <2>3, <2>4
  <2>6. First(q) = f
    <3> HIDE DEF f
    <3> QED BY <2>5, FirstIs
  <2>7. ~Claimable(q)
    BY <2>1, <2>4, <2>6 DEF Claimable, Leads
  <2>8. queue' = q
    BY <2>7 DEF Claimed, q
  <2>9. DOMAIN q # {}
    BY <2>5
  <2> QED BY <2>1, <2>4, <2>6, <2>8, <2>9 DEF Leads
<1> QED BY <1>1, <1>5, <1>6, <1>8, <1>9, <1>10, <1>a, <1>b DEF ItemInv

\* The mutation whose caller is released is one that was queued.
LEMMA ReplacedTyped ==
    ASSUME TypeOK, NEW u
    PROVE  LET gone == {queue[i].m : i \in Replaced(u)}
           IN  (IF gone = {} THEN None ELSE CHOOSE m \in gone : TRUE) \in Mutation \cup {None}
<1> DEFINE gone == {queue[i].m : i \in Replaced(u)}
<1>1. gone \subseteq Mutation
  BY QueueTyped, RowTyped DEF Replaced, Collision
<1> HIDE DEF gone
<1>2. (IF gone = {} THEN None ELSE CHOOSE m \in gone : TRUE) \in Mutation \cup {None}
  <2>1. CASE gone # {}
    <3>1. (CHOOSE m \in gone : TRUE) \in gone
      BY <2>1
    <3> QED BY <1>1, <2>1, <3>1
  <2>2. CASE gone = {}
    BY <2>2
  <2> QED BY <2>1, <2>2
<1> QED BY <1>2 DEF gone

\* The answer to an enqueue, with the claim it made.
LEMMA EnqueueAnswer ==
    ASSUME QueueInv, NEW w \in work, EngineEnqueue(w), w.m \in Mutation, w.uuid \in Uuid
    PROVE  \E a \in Item :
             /\ Answer(w, a) /\ a.c = w.c /\ a.k = w.k /\ a.m = w.m /\ a.from = w.from
             /\ a.uuid = w.uuid
             /\ ~Claimable(Upserted(w.m, w.uuid)) => a.got = w.got
             /\ Claimable(Upserted(w.m, w.uuid)) =>
                  /\ a.got = Upserted(w.m, w.uuid)[First(Upserted(w.m, w.uuid))].m
                  /\ a.gen = Upserted(w.m, w.uuid)[First(Upserted(w.m, w.uuid))].gen + 1
                  /\ a.superseded =
                       Upserted(w.m, w.uuid)[First(Upserted(w.m, w.uuid))].superseded
<1> DEFINE q == Upserted(w.m, w.uuid)
           gone == {queue[i].m : i \in Replaced(w.uuid)}
           x == IF gone = {} THEN None ELSE CHOOSE m \in gone : TRUE
           b == WithClaim(w, q)
           a == [b EXCEPT !.replaced = x]
<1>1. Answer(w, a)
  BY Zenon DEF EngineEnqueue
<1>2. w \in Item
  BY ReturnTypes
<1>3. nextId \in Nat /\ DOMAIN queue \subseteq 1..nextId
  BY TypeParts DEF QueueInv, RowsTyped
<1>a. IsUpserted(q, w.m, w.uuid)
  BY UpsertedRows DEF QueueInv
<1>4. DOMAIN q = (DOMAIN queue \ Replaced(w.uuid)) \cup {nextId + 1} /\ q \in [DOMAIN q -> Row]
  <2> HIDE DEF q
  <2> QED BY <1>a DEF IsUpserted
<1>5. x \in Mutation \cup {None}
  BY ReplacedTyped DEF QueueInv
<1> HIDE DEF q, x
<1>6. nextId + 1 \in Nat /\ DOMAIN q \subseteq 1..(nextId + 1)
  BY <1>3, <1>4
<1>7. /\ b \in Item /\ b.c = w.c /\ b.k = w.k /\ b.m = w.m /\ b.from = w.from
      /\ b.uuid = w.uuid /\ (~Claimable(q) => b = w)
      /\ Claimable(q) => /\ b.got = q[First(q)].m /\ b.gen = q[First(q)].gen + 1
                         /\ b.superseded = q[First(q)].superseded
  BY <1>2, <1>4, <1>6, WithClaimFields
<1> HIDE DEF b
<1>8. /\ a.c = b.c /\ a.k = b.k /\ a.m = b.m /\ a.from = b.from /\ a.uuid = b.uuid
      /\ a.got = b.got /\ a.gen = b.gen /\ a.superseded = b.superseded
  BY <1>7 DEF Item
<1>9. a \in Item
  BY <1>5, <1>7 DEF Item
<1> HIDE DEF a
<1>10. /\ Answer(w, a) /\ a.c = w.c /\ a.k = w.k /\ a.m = w.m /\ a.from = w.from
       /\ a.uuid = w.uuid /\ (~Claimable(q) => a.got = w.got)
       /\ Claimable(q) => /\ a.got = q[First(q)].m /\ a.gen = q[First(q)].gen + 1
                          /\ a.superseded = q[First(q)].superseded
  BY <1>1, <1>7, <1>8
<1> QED BY <1>9, <1>10 DEF q

\* enqueue_optimistic_mutation().
LEMMA EnqueueInv ==
    ASSUME QueueInv, NEW w \in work, EngineEnqueue(w) PROVE QueueInv'
<1> DEFINE q == Upserted(w.m, w.uuid)
<1>1. /\ w.k = "enqueue" /\ w.st = "posted" /\ queue' = Claimed(q, w.c)
      /\ nextId' = nextId + 1 /\ newest' = [newest EXCEPT ![w.uuid] = w.m]
      /\ order' = [order EXCEPT ![w.m] = nextId + 1]
      /\ UNCHANGED <<alive, runner>>
      /\ UNCHANGED <<posted, executed, refused, late, overrun>>
      /\ UNCHANGED <<attemptInFlight, drainRunning, timer, live>>
      /\ UNCHANGED <<direct, faults, crashes, moves>>
  BY DEF EngineEnqueue, runner, outside, bounds
<1>2. w \in Item /\ w.m \in Mutation /\ w.c \in Client /\ Enqueues(w)
  BY <1>1, ReturnTypes DEF Enqueues
<1>3. w.uuid \in Uuid /\ w.got = None /\ order[w.m] = 0 /\ w.m \in posted
  BY <1>1, <1>2 DEF QueueInv, WorkInv, ItemInv
<1>4. Enqueued(w)
  BY <1>1, <1>2, <1>3, EnqueuedRows
<1>5. RowsTyped' /\ RowsInv'
  BY <1>1, <1>2, <1>3, <1>4, EnqueueRows
<1>6. PICK a \in Item :
        /\ Answer(w, a) /\ a.c = w.c /\ a.k = w.k /\ a.m = w.m /\ a.from = w.from
        /\ a.uuid = w.uuid /\ (~Claimable(q) => a.got = w.got)
        /\ Claimable(q) => /\ a.got = q[First(q)].m /\ a.gen = q[First(q)].gen + 1
                           /\ a.superseded = q[First(q)].superseded
  BY <1>2, <1>3, EnqueueAnswer
<1> DEFINE n == [a EXCEPT !.st = "done"]
<1>7. work' \subseteq (work \ {w}) \cup {n}
  BY <1>6 DEF Answer
<1>8. /\ n \in Item /\ n.c = w.c /\ n.k = w.k /\ n.m = w.m /\ n.uuid = w.uuid
      /\ n.st = "done" /\ n.got = a.got /\ n.gen = a.gen /\ n.superseded = a.superseded
  BY <1>6, StTyped
<1> HIDE DEF n
<1>9. TypeOK'
  <2>1. RunnerTyped' /\ BoundsTyped'
    BY <1>1, TypeParts DEF QueueInv, RunnerTyped, BoundsTyped
  <2>2. WorkTyped'
    BY <1>2, <1>7, <1>8, TypeParts DEF QueueInv, WorkTyped
  <2>3. PastTyped'
    <3>1. nextId + 1 \in Nat
      BY TypeParts DEF QueueInv, RowsTyped
    <3> QED BY <1>1, <1>2, <1>3, <3>1, TypeParts DEF QueueInv, PastTyped
  <2> QED BY <1>5, <2>1, <2>2, <2>3, TypePartsNext
<1>10. WorkInv'
  <2>1. /\ nextId \in Nat /\ nextId + 1 \in Nat /\ DOMAIN queue \subseteq 1..nextId
        /\ nextId + 1 \notin DOMAIN queue
    BY TypeParts, QueueTyped DEF QueueInv, RowsTyped
  <2>a. IsUpserted(q, w.m, w.uuid)
    BY <1>2, <1>3, UpsertedRows DEF QueueInv
  <2> HIDE DEF q
  <2>2. /\ DOMAIN q = (DOMAIN queue \ Replaced(w.uuid)) \cup {nextId + 1}
        /\ q \in [DOMAIN q -> Row] /\ q[nextId + 1] = NewRow(w.m, w.uuid)
        /\ \A i \in DOMAIN queue \ Replaced(w.uuid) :
             q[i].m = queue[i].m /\ q[i].gen = queue[i].gen
    BY <2>a DEF IsUpserted
  <2>3. DOMAIN q \subseteq 1..(nextId + 1)
    BY <2>1, <2>2
  <2>4. q[nextId + 1].m = w.m
    BY <2>2 DEF NewRow
  <2>5. \A i \in DOMAIN q : order'[q[i].m] = i
    <3>1. DOMAIN queue' = DOMAIN q /\ \A i \in DOMAIN q : queue'[i].m = q[i].m
      BY <1>1, <1>2, <2>1, <2>2, <2>3, ClaimedRows
    <3> QED BY <1>5, <3>1 DEF RowsInv, Ordered
  <2>6. /\ ItemInv(n)' /\ ~Enqueues(n) /\ (Holder(n) => Claimable(q))
        /\ Claimable(q) => Mut(n) = q[First(q)].m /\ n.gen = q[First(q)].gen + 1
    BY <1>1, <1>2, <1>3, <1>6, <1>8, <2>1, <2>2, <2>3, <2>5, ClaimedItem
  <2>7. \A v \in work \ {w} : ItemInv(v)'
    BY <1>1, <1>2, <1>3, <1>4, EnqueueItems DEF q
  <2>8. \A v \in work : Holder(v) => \A i \in DOMAIN q : q[i].m = Mut(v) => v.gen <= q[i].gen
    <3> SUFFICES ASSUME NEW v \in work, Holder(v), NEW i \in DOMAIN q, q[i].m = Mut(v)
                 PROVE  v.gen <= q[i].gen
      OBVIOUS
    <3>1. ItemInv(v)
      BY DEF QueueInv, WorkInv
    <3>2. Mut(v) # w.m
      BY <1>3, <3>1 DEF ItemInv
    <3>3. i \in DOMAIN queue \ Replaced(w.uuid)
      BY <2>2, <2>4, <3>2
    <3> QED BY <2>2, <3>1, <3>3 DEF ItemInv
  <2>9. \A v \in work \ {w} : Apart(v, n)
    BY <2>1, <2>2, <2>3, <2>6, <2>8, ClaimedApart
  <2> QED BY <1>7, <2>6, <2>7, <2>9, WorkSwap DEF QueueInv
<1>11. RunnerInv'
  BY <1>1, <1>6, AnswerRunner
<1> QED BY <1>5, <1>9, <1>10, <1>11 DEF QueueInv

-----------------------------------------------------------------------------
(* The theorems *)

\* Every step of a client, the engine, the network and time keeps the invariant.
LEMMA InvNext == QueueInv /\ [Next]_vars => QueueInv'
<1> SUFFICES ASSUME QueueInv, [Next]_vars PROVE QueueInv'
  OBVIOUS
<1>1. CASE UNCHANGED vars
  <2>1. /\ UNCHANGED <<queue, nextId, alive, work, posted, newest, order, direct>>
        /\ UNCHANGED <<attemptInFlight, drainRunning, timer, live>>
        /\ UNCHANGED <<executed, refused, late, overrun, faults, crashes, moves>>
    BY <1>1 DEF vars, runner, outside, bounds
  <2>2. Quiet
    BY <2>1 DEF Quiet
  <2>3. TypeOK'
    BY <2>1, TypeParts, TypePartsNext
    DEF QueueInv, RowsTyped, WorkTyped, RunnerTyped, PastTyped, BoundsTyped
  <2>4. WorkInv'
    BY <2>1, <2>2, ItemFrame, WorkShrinks DEF QueueInv, WorkInv
  <2>5. RunnerInv'
    BY <2>1 DEF QueueInv, RunnerInv, Awake
  <2> QED BY <2>1, <2>2, <2>3, <2>4, <2>5, RowsFrame, PastFrame DEF QueueInv
<1>2. CASE \E c \in Client : DrainQueue(c)
  BY <1>2, DrainInv
<1>3. CASE \E c \in Client : Crash(c)
  BY <1>3, CrashInv
<1>4. CASE \E c \in Client : \E m \in Mutation, u \in Uuid : PrepareMutation(c, m, u)
  BY <1>4, PrepareInv
<1>5. CASE EngineServes
  BY <1>5, EnqueueInv, ClaimInv, SettleInv DEF EngineServes
<1>6. CASE Returns
  BY <1>6, EnqueueReturnsInv, EnqueueFailsInv, ClaimReturnsInv, SettleReturnsInv,
     DiscardReturnsInv DEF Returns
<1>7. CASE Network
  BY <1>7, NetworkInv DEF Network
<1>8. CASE EngineMoves
  BY <1>8, MovesInv
<1>9. CASE LeaseExpires
  BY <1>9, LeaseInv
<1>10. CASE BackoffEnds
  BY <1>10, BackoffInv
<1>11. CASE ExecutedLate
  BY <1>11, LateInv
<1> QED BY <1>1, <1>2, <1>3, <1>4, <1>5, <1>6, <1>7, <1>8, <1>9, <1>10, <1>11 DEF Next

\* The inductive invariant holds throughout.
THEOREM QueueInvariant == Spec => []QueueInv
<1>1. Init => QueueInv
  BY InvInit
<1>2. QueueInv /\ [Next]_vars => QueueInv'
  BY InvNext
<1> QED BY <1>1, <1>2, PTL DEF Spec

\* Rows, calls and answers keep their types; above all an answer without a claim is
\* never routed (drainQueue() tests it before routeClaimedMutation()).
THEOREM TypeCorrect == Spec => []TypeOK
<1>1. QueueInv => TypeOK
  BY DEF QueueInv
<1> QED BY <1>1, QueueInvariant, PTL

\* Two requests of the queue overlap only once a lease has run out: until then, what a
\* live tab sends is the head, leased to this attempt (claim_next_mutation() and
\* claim_is_current()).
THEOREM LeasedHeadSent == Spec => []SendsLeasedHead
<1>1. QueueInv => SendsLeasedHead
  <2> SUFFICES ASSUME QueueInv, NEW w \in work, w.k = "net", <<w.m, w.gen>> \notin overrun
               PROVE  /\ DOMAIN queue # {} /\ queue[First(queue)].m = w.m
                      /\ queue[First(queue)].owner = w.c /\ queue[First(queue)].gen = w.gen
                      /\ queue[First(queue)].lease = "held"
    BY DEF SendsLeasedHead
  <2>1. (Leads(w) \/ Overran(w)) /\ Mut(w) = w.m
    BY DEF QueueInv, WorkInv, ItemInv, Attempt, Mut
  <2>2. ~Overran(w)
    BY <2>1 DEF Overran
  <2> QED BY <2>1, <2>2 DEF Leads
<1> QED BY <1>1, QueueInvariant, PTL

\* Superseded rows have an heir, a uuid has one row that is not superseded, and only
\* the head is leased (upsert_mutation_with_shadow()).
THEOREM HeirsExist == Spec => []HeirExists
<1>1. QueueInv => HeirExists
  BY DEF QueueInv, RowsInv
<1> QED BY <1>1, QueueInvariant, PTL

\* The newest intent for a uuid stays queued until the server has decided it, whatever
\* is replaced, superseded, or settled late (defer_optimistic_write() and the others).
THEOREM NewestKept == Spec => []NewestIntentKept
<1>1. QueueInv => NewestIntentKept
  BY DEF QueueInv, RowsInv
<1> QED BY <1>1, QueueInvariant, PTL

\* scheduleDrain(), attemptInFlight and drainRunning never leave a live tab asleep.
THEOREM RunnerWakes == Spec => []RunnerAwake
<1>1. QueueInv => RunnerAwake
  BY DEF QueueInv, RunnerInv, Awake, RunnerAwake
<1> QED BY <1>1, QueueInvariant, PTL

\* Nothing that waits in the queue has been overtaken, even where a lease ran out under
\* a request, or one that was given up is executed late: claim_next_mutation() takes
\* only the head, and upsert_mutation_with_shadow() appends.
THEOREM NoneOvertaken == Spec => []NothingOvertaken
<1>1. QueueInv => NothingOvertaken
  <2> SUFFICES ASSUME QueueInv, NEW i \in DOMAIN queue
               PROVE  /\ \A m \in executed : order[m] <= i
                      /\ \A w \in work \cup late : w.k = "net" => order[w.m] <= i
    BY DEF NothingOvertaken
  <2>1. \A m \in executed : order[m] <= i
    BY DEF QueueInv, RowsInv, PastInv, Ahead
  <2>2. \A w \in work : w.k = "net" => order[w.m] <= i
    BY SentAhead DEF Ahead
  <2>3. \A w \in late : order[w.m] <= i
    BY DEF QueueInv, RowsInv, PastInv, Ahead
  <2> QED BY <2>1, <2>2, <2>3
<1> QED BY <1>1, QueueInvariant, PTL

=============================================================================
