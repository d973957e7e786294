------------------------ MODULE CacheRequests_proofs ------------------------
(***************************************************************************)
(* What a page asks of the GraphQL cache is in exactly one place until it  *)
(* is answered, for any number of tabs, owners, failures and retries.      *)
(***************************************************************************)
EXTENDS CacheCoordinator_proofs, FiniteSetTheorems

USE DEF Kind, Action

-----------------------------------------------------------------------------
(* The inductive invariant *)

\* There is at most one message of kind k.
Once(q, k) == \A i, j \in DOMAIN q : q[i].kind = k /\ q[j].kind = k => i = j

\* A page that is about to be closed.
Closing(t) == Pending(down[t], "terminal") \/ Pending(down[t], "retire")

\* A tab whose page has not started.
Off(t) ==
    /\ up[t] = <<>> /\ down[t] = <<>>
    /\ t \notin tabs /\ t \notin pending /\ t \notin asked /\ answers[t] = 0

\* A page registers once, and stays registered while it neither leaves nor is told to.
Joins(t) ==
    /\ Once(up[t], "register") /\ Once(down[t], "registered")
    /\ Pending(up[t], "register") => page[t] = "starting" /\ t \notin pending /\ t \notin tabs
    /\ t \in pending => page[t] = "starting" /\ t \notin tabs
    /\ Pending(down[t], "registered") => page[t] = "starting" /\ t \in tabs
    /\ page[t] # "starting" => t \in tabs
    /\ ~Pending(up[t], "disconnect") /\ ~Pending(up[t], "navigate")

\* What it asked is in one place.
InUp(t)     == Pending(up[t], "request")
InQueue(t)  == t \in queue
InFlight(t) == <<t, epoch>> \in inFlight
InDown(t)   == Pending(down[t], "answer")
OnePlace(t) ==
    /\ Once(up[t], "request") /\ Once(down[t], "answer") /\ answers[t] \in {0, 1}
    /\ page[t] = "starting" =>
         ~InUp(t) /\ ~InQueue(t) /\ ~InFlight(t) /\ ~InDown(t) /\ answers[t] = 0
    /\ InUp(t) => ~InQueue(t) /\ ~InFlight(t) /\ ~InDown(t) /\ answers[t] = 0
    /\ InQueue(t) => ~InFlight(t) /\ ~InDown(t) /\ answers[t] = 0
    /\ InFlight(t) => ~InDown(t) /\ answers[t] = 0
    /\ InDown(t) => answers[t] = 0
    /\ InUp(t) \/ InQueue(t) \/ InFlight(t) \/ InDown(t) \/ answers[t] = 1 => t \in asked
    /\ t \in asked /\ page[t] # "starting" =>
         InUp(t) \/ InQueue(t) \/ InFlight(t) \/ InDown(t) \/ answers[t] = 1

AskTab(t) ==
    /\ page[t] = "off" => Off(t)
    /\ Live(t) <=> t \in alive
    /\ Live(t) /\ ~Closing(t) => Joins(t) /\ OnePlace(t)
AskInv == \A t \in Tab : AskTab(t)

-----------------------------------------------------------------------------
(* Messages of one kind in a port *)

\* Nothing is pending in an empty port.
LEMMA PendingNone == ASSUME NEW k PROVE ~Pending(<<>>, k) /\ Once(<<>>, k)
BY DEF Pending, Once

\* After something is appended ...
LEMMA PendingAppend ==
    ASSUME NEW q \in Seq(Message), NEW m \in Message, NEW k
    PROVE  /\ Pending(Append(q, m), k) <=> Pending(q, k) \/ m.kind = k
           /\ Once(q, k) /\ (m.kind = k => ~Pending(q, k)) => Once(Append(q, m), k)
<1> DEFINE r == Append(q, m)
<1>1. /\ Len(q) \in Nat /\ DOMAIN q = 1..Len(q) /\ DOMAIN r = 1..(Len(q) + 1)
      /\ r[Len(q) + 1] = m /\ \A i \in 1..Len(q) : r[i] = q[i]
  OBVIOUS
<1> HIDE DEF r
<1>2. Pending(r, k) <=> Pending(q, k) \/ m.kind = k
  BY <1>1 DEF Pending
<1>3. Once(q, k) /\ (m.kind = k => ~Pending(q, k)) => Once(r, k)
  BY <1>1 DEF Pending, Once
<1> QED BY <1>2, <1>3 DEF r

\* ... after the head is taken ...
LEMMA PendingTail ==
    ASSUME NEW q \in Seq(Message), q # <<>>, NEW k
    PROVE  /\ Pending(q, k) <=> Head(q).kind = k \/ Pending(Tail(q), k)
           /\ Once(q, k) => Once(Tail(q), k) /\ (Head(q).kind = k => ~Pending(Tail(q), k))
<1>0. /\ Tail(q) \in Seq(Message) /\ Len(Tail(q)) = Len(q) - 1 /\ Len(q) \in Nat /\ Len(q) > 0
      /\ \A i \in 1..Len(Tail(q)) : Tail(q)[i] = q[i + 1]
      /\ Head(q) = q[1] /\ DOMAIN q = 1..Len(q) /\ DOMAIN Tail(q) = 1..Len(Tail(q))
  OBVIOUS
<1> DEFINE r == Tail(q)
           h == Head(q)
<1>1. /\ Len(q) \in Nat /\ Len(q) > 0 /\ DOMAIN q = 1..Len(q) /\ DOMAIN r = 1..(Len(q) - 1)
      /\ h = q[1] /\ \A i \in 1..(Len(q) - 1) : r[i] = q[i + 1]
  BY <1>0
<1> HIDE DEF r, h
<1>2. Pending(q, k) => h.kind = k \/ Pending(r, k)
  <2> SUFFICES ASSUME NEW i \in 1..Len(q), q[i].kind = k, q[1].kind # k
               PROVE  \E j \in 1..(Len(q) - 1) : r[j].kind = k
    BY <1>1 DEF Pending
  <2>1. i # 1
    OBVIOUS
  <2>2. i - 1 \in 1..(Len(q) - 1) /\ (i - 1) + 1 = i
    BY <1>1, <2>1
  <2>3. r[i - 1] = q[i]
    BY <1>1, <2>2
  <2> QED BY <2>2, <2>3
<1>5. 1 \in DOMAIN q /\ \A i \in 1..(Len(q) - 1) : i + 1 \in DOMAIN q /\ i + 1 # 1
  BY <1>1
<1>3. h.kind = k \/ Pending(r, k) => Pending(q, k)
  BY <1>1, <1>5 DEF Pending
<1>4. Once(q, k) => Once(r, k) /\ (h.kind = k => ~Pending(r, k))
  <2> SUFFICES ASSUME Once(q, k)
               PROVE  Once(r, k) /\ (h.kind = k => ~Pending(r, k))
    OBVIOUS
  <2>1. ASSUME NEW i \in DOMAIN r, NEW j \in DOMAIN r, r[i].kind = k, r[j].kind = k
        PROVE  i = j
    <3>1. i + 1 \in DOMAIN q /\ j + 1 \in DOMAIN q /\ q[i + 1].kind = k /\ q[j + 1].kind = k
      BY <1>1, <1>5, <2>1
    <3>2. i + 1 = j + 1
      BY <3>1 DEF Once
    <3> QED BY <1>1, <3>2
  <2>2. ASSUME NEW i \in DOMAIN r, r[i].kind = k, h.kind = k
        PROVE  FALSE
    <3>1. i + 1 \in DOMAIN q /\ q[i + 1].kind = k /\ i + 1 # 1
      BY <1>1, <1>5, <2>2
    <3> QED BY <1>1, <1>5, <2>2, <3>1 DEF Once
  <2> QED BY <2>1, <2>2 DEF Once, Pending
<1> QED BY <1>2, <1>3, <1>4 DEF r, h

\* ... and in two sequences in a row.
LEMMA PendingJoin ==
    ASSUME NEW q \in Seq(Message), NEW p \in Seq(Message), NEW k
    PROVE  /\ q \o p \in Seq(Message)
           /\ Pending(q \o p, k) <=> Pending(q, k) \/ Pending(p, k)
           /\ Once(q, k) /\ Once(p, k) /\ ~(Pending(q, k) /\ Pending(p, k)) => Once(q \o p, k)
<1>0. /\ q \o p \in Seq(Message) /\ Len(q \o p) = Len(q) + Len(p)
      /\ Len(q) \in Nat /\ Len(p) \in Nat
      /\ DOMAIN q = 1..Len(q) /\ DOMAIN p = 1..Len(p) /\ DOMAIN (q \o p) = 1..(Len(q) + Len(p))
      /\ \A i \in 1..(Len(q) + Len(p)) :
            (q \o p)[i] = IF i <= Len(q) THEN q[i] ELSE p[i - Len(q)]
  OBVIOUS
<1> DEFINE r == q \o p
<1>1. /\ r \in Seq(Message) /\ Len(q) \in Nat /\ Len(p) \in Nat
      /\ DOMAIN q = 1..Len(q) /\ DOMAIN p = 1..Len(p) /\ DOMAIN r = 1..(Len(q) + Len(p))
      /\ \A i \in 1..(Len(q) + Len(p)) : r[i] = IF i <= Len(q) THEN q[i] ELSE p[i - Len(q)]
  BY <1>0
<1> HIDE DEF r
<1>2. /\ \A i \in 1..Len(q) : i \in DOMAIN r /\ r[i] = q[i]
      /\ \A i \in 1..Len(p) : i + Len(q) \in DOMAIN r /\ r[i + Len(q)] = p[i]
  <2>1. ASSUME NEW i \in 1..Len(q) PROVE i \in DOMAIN r /\ r[i] = q[i]
    BY <1>1
  <2>2. ASSUME NEW i \in 1..Len(p) PROVE i + Len(q) \in DOMAIN r /\ r[i + Len(q)] = p[i]
    <3>1. i + Len(q) \in 1..(Len(q) + Len(p)) /\ ~(i + Len(q) <= Len(q))
          /\ (i + Len(q)) - Len(q) = i
      BY <1>1
    <3> QED BY <1>1, <3>1
  <2> QED BY <2>1, <2>2
<1>3. \A i \in DOMAIN r : \/ i \in DOMAIN q /\ r[i] = q[i]
                          \/ i - Len(q) \in DOMAIN p /\ r[i] = p[i - Len(q)]
  BY <1>1
<1>4. Pending(r, k) <=> Pending(q, k) \/ Pending(p, k)
  BY <1>1, <1>2, <1>3 DEF Pending
<1>5. Once(q, k) /\ Once(p, k) /\ ~(Pending(q, k) /\ Pending(p, k)) => Once(r, k)
  <2> SUFFICES ASSUME Once(q, k), Once(p, k), ~(Pending(q, k) /\ Pending(p, k)),
                      NEW i \in DOMAIN r, NEW j \in DOMAIN r, r[i].kind = k, r[j].kind = k
               PROVE  i = j
    BY DEF Once
  <2>0. i \in Nat /\ j \in Nat
    BY <1>1
  <2>1. CASE i \in DOMAIN q /\ r[i] = q[i] /\ j \in DOMAIN q /\ r[j] = q[j]
    BY <2>1 DEF Once
  <2>2. CASE /\ i - Len(q) \in DOMAIN p /\ r[i] = p[i - Len(q)]
             /\ j - Len(q) \in DOMAIN p /\ r[j] = p[j - Len(q)]
    <3>1. i - Len(q) = j - Len(q)
      BY <2>2 DEF Once
    <3> QED BY <1>1, <2>0, <3>1
  <2>3. CASE Pending(q, k) /\ Pending(p, k)
    BY <2>3
  <2>4. \/ i \in DOMAIN q /\ r[i] = q[i] /\ (Pending(q, k))
        \/ i - Len(q) \in DOMAIN p /\ r[i] = p[i - Len(q)] /\ Pending(p, k)
    BY <1>3, Zenon DEF Pending
  <2>5. \/ j \in DOMAIN q /\ r[j] = q[j] /\ (Pending(q, k))
        \/ j - Len(q) \in DOMAIN p /\ r[j] = p[j - Len(q)] /\ Pending(p, k)
    BY <1>3, Zenon DEF Pending
  <2> QED BY <2>1, <2>2, <2>3, <2>4, <2>5, Zenon
<1> QED BY <1>1, <1>4, <1>5 DEF r

\* An optional message.
LEMMA PendingIf ==
    ASSUME NEW b, NEW m \in Message, NEW k
    PROVE  /\ If(b, m) \in Seq(Message) /\ Once(If(b, m), k)
           /\ Pending(If(b, m), k) <=> b /\ m.kind = k
<1>1. CASE b
  <2>1. If(b, m) = <<m>>
    BY <1>1 DEF If
  <2>2. <<m>> \in Seq(Message) /\ DOMAIN <<m>> = {1} /\ <<m>>[1] = m
    OBVIOUS
  <2>3. Once(<<m>>, k) /\ (Pending(<<m>>, k) <=> m.kind = k)
    BY <2>2 DEF Pending, Once
  <2> QED BY <1>1, <2>1, <2>2, <2>3, Zenon
<1>2. CASE ~b
  <2>1. If(b, m) = <<>> /\ <<>> \in Seq(Message)
    BY <1>2 DEF If
  <2> QED BY <1>2, <2>1, PendingNone, Zenon
<1> QED BY <1>1, <1>2

\* The same, of a sequence of at most one message.
LEMMA PendingOption ==
    ASSUME NEW q, NEW m \in Message, q = <<m>> \/ q = <<>>
    PROVE  /\ q \in Seq(Message)
           /\ \A k : Once(q, k) /\ (Pending(q, k) <=> q = <<m>> /\ m.kind = k)
<1>1. <<m>> \in Seq(Message) /\ <<>> \in Seq(Message) /\ DOMAIN <<m>> = {1} /\ <<m>>[1] = m
      /\ <<m>> # <<>>
  OBVIOUS
<1>2. ASSUME NEW k, q = <<m>>
      PROVE  Once(q, k) /\ (Pending(q, k) <=> m.kind = k)
  BY <1>1, <1>2 DEF Pending, Once
<1>3. ASSUME NEW k, q = <<>> PROVE Once(q, k) /\ ~Pending(q, k)
  BY <1>3, PendingNone
<1> QED BY <1>1, <1>2, <1>3

\* The messages that are sent.
LEMMA MsgKind ==
    ASSUME NEW e \in Nat
    PROVE  /\ Msg("register", 0) \in Message /\ Msg("register", 0).kind = "register"
           /\ Msg("request", 0) \in Message /\ Msg("request", 0).kind = "request"
           /\ Msg("registered", 0) \in Message /\ Msg("registered", 0).kind = "registered"
           /\ Msg("answer", 0) \in Message /\ Msg("answer", 0).kind = "answer"
           /\ Msg("terminal", 0) \in Message /\ Msg("terminal", 0).kind = "terminal"
           /\ Msg("terminate", e) \in Message /\ Msg("terminate", e).kind = "terminate"
           /\ Msg("retire", e) \in Message /\ Msg("retire", e).kind = "retire"
           /\ Msg("graceful", e) \in Message /\ Msg("graceful", e).kind = "graceful"
           /\ Msg("lost", e) \in Message /\ Msg("lost", e).kind = "lost"
           /\ Msg("attach", e) \in Message /\ Msg("attach", e).kind = "attach"
<1>1. \A k : Msg(k, 0).kind = k /\ Msg(k, e).kind = k
  BY DEF Msg
<1>2. /\ Msg("register", 0) \in Message /\ Msg("request", 0) \in Message
      /\ Msg("registered", 0) \in Message
  BY DEF Msg, Message
<1>3. Msg("answer", 0) \in Message /\ Msg("terminal", 0) \in Message
  BY DEF Msg, Message
<1>4. Msg("terminate", e) \in Message /\ Msg("retire", e) \in Message
  BY DEF Msg, Message
<1>5. /\ Msg("graceful", e) \in Message /\ Msg("lost", e) \in Message
      /\ Msg("attach", e) \in Message
  BY DEF Msg, Message
<1> QED BY <1>1, <1>2, <1>3, <1>4, <1>5

-----------------------------------------------------------------------------
(* A step of the coordinator, seen from a tab *)

\* It leaves the page alone, ...
Steady(s) ==
    /\ page'[s] = page[s] /\ (s \in alive' <=> s \in alive)
    /\ (s \in asked' <=> s \in asked) /\ answers'[s] = answers[s]

\* ... takes at most a message of the page that is no registration and no request, ...
Drops(s) ==
    \/ up'[s] = up[s]
    \/ /\ up[s] # <<>> /\ up'[s] = Tail(up[s])
       /\ Head(up[s]).kind \notin {"register", "request"}

\* ... posts n, ...
Hears(s, n) ==
    n \in Seq(Message) /\ down'[s] = IF Live(s) THEN down[s] \o n ELSE down[s]

\* ... and keeps the tab's request, routes it or answers it.
Moves(s, n) ==
    /\ s \in tabs' <=> s \in tabs
    /\ ~Pending(n, "registered") /\ Once(n, "answer")
    /\ \/ /\ ~Pending(n, "answer")
          /\ (s \in queue' <=> s \in queue)
          /\ (<<s, epoch'>> \in inFlight' <=> <<s, epoch>> \in inFlight)
       \/ /\ Pending(n, "answer")
          /\ (s \in queue' <=> s \in queue)
          /\ <<s, epoch>> \in inFlight /\ <<s, epoch'>> \notin inFlight'
       \/ /\ ~Pending(n, "answer")
          /\ s \in queue /\ s \notin queue' /\ <<s, epoch'>> \in inFlight'

\* Such a step adds nothing to what the page has sent.
LEMMA DropsPort ==
    ASSUME PortTypes, NEW s \in Tab, Drops(s)
    PROVE  /\ up[s] = <<>> => up'[s] = <<>>
           /\ \A k : Pending(up'[s], k) => Pending(up[s], k)
           /\ \A k : Once(up[s], k) => Once(up'[s], k)
           /\ \A k \in {"register", "request"} : Pending(up'[s], k) <=> Pending(up[s], k)
<1>1. CASE up'[s] = up[s]
  BY <1>1
<1>2. CASE /\ up[s] # <<>> /\ up'[s] = Tail(up[s])
           /\ Head(up[s]).kind \notin {"register", "request"}
  <2>1. up[s] \in Seq(Message)
    BY DEF PortTypes
  <2>2. \A k : /\ Pending(up[s], k) <=> Head(up[s]).kind = k \/ Pending(Tail(up[s]), k)
               /\ Once(up[s], k) => Once(Tail(up[s]), k)
    BY <1>2, <2>1, PendingTail
  <2> QED BY <1>2, <2>2
<1> QED BY <1>1, <1>2 DEF Drops

\* What is pending in the page's port after n is posted.
LEMMA HearsPort ==
    ASSUME PortTypes, NEW s \in Tab, NEW n, Hears(s, n), Live(s), NEW k
    PROVE  /\ Pending(down'[s], k) <=> Pending(down[s], k) \/ Pending(n, k)
           /\ Once(down[s], k) /\ Once(n, k) /\ ~(Pending(down[s], k) /\ Pending(n, k))
              => Once(down'[s], k)
<1>1. down[s] \in Seq(Message) /\ n \in Seq(Message) /\ down'[s] = down[s] \o n
  BY DEF PortTypes, Hears
<1> QED BY <1>1, PendingJoin

\* Nothing pending is pending at most once.
LEMMA NoneOnce == ASSUME NEW q, NEW k, ~Pending(q, k) PROVE Once(q, k)
BY DEF Pending, Once

\* Such a step keeps the invariant of the tab.
LEMMA Served ==
    ASSUME PortTypes, NEW s \in Tab, AskTab(s), Steady(s), Drops(s), NEW n, Hears(s, n),
           s \in tabs' => s \in tabs, s \in pending' <=> s \in pending,
           Live(s) /\ ~Closing(s) =>
              Pending(n, "terminal") \/ Pending(n, "retire") \/ Moves(s, n)
    PROVE  AskTab(s)'
<1>1. page[s] = "off" => Off(s)'
  <2> SUFFICES ASSUME page[s] = "off" PROVE Off(s)'
    OBVIOUS
  <2>1. Off(s) /\ ~Live(s)
    BY DEF AskTab, Live
  <2>2. up'[s] = <<>> /\ down'[s] = <<>>
    BY <2>1, DropsPort DEF Off, Hears
  <2> QED BY <2>1, <2>2 DEF Off, Steady
<1>2. (Live(s)' <=> Live(s)) /\ (Live(s)' <=> s \in alive')
  BY DEF AskTab, Steady, Live
<1>3. ASSUME Live(s), ~Closing(s)' PROVE Joins(s)' /\ OnePlace(s)'
  <2>1. \A k : Pending(down'[s], k) <=> Pending(down[s], k) \/ Pending(n, k)
    BY <1>3, HearsPort
  <2>2. ~Closing(s) /\ ~Pending(n, "terminal") /\ ~Pending(n, "retire")
    BY <1>3, <2>1 DEF Closing
  <2>3. Moves(s, n) /\ Joins(s) /\ OnePlace(s)
    BY <1>3, <2>2 DEF AskTab
  <2>4. Once(down'[s], "registered")
    BY <1>3, <2>3, HearsPort, NoneOnce DEF Moves, Joins
  <2>5. Pending(n, "answer") => ~Pending(down[s], "answer")
    BY <2>3 DEF Moves, OnePlace, InFlight, InDown
  <2>6. Once(down'[s], "answer")
    BY <1>3, <2>3, <2>5, HearsPort DEF Moves, OnePlace
  <2>7. Joins(s)'
    BY <2>1, <2>3, <2>4, DropsPort DEF Joins, Moves, Steady
  <2>8. OnePlace(s)'
    BY <2>1, <2>3, <2>6, DropsPort DEF OnePlace, Moves, Steady, InUp, InQueue, InFlight, InDown
  <2> QED BY <2>7, <2>8
<1> QED BY <1>1, <1>2, <1>3 DEF AskTab, Steady

-----------------------------------------------------------------------------
(* Steps of the pages *)

\* A tab no step concerns.
LEMMA Unmoved ==
    ASSUME PortTypes, NEW s \in Tab, AskTab(s), Steady(s), up'[s] = up[s], down'[s] = down[s],
           s \in tabs' <=> s \in tabs, s \in pending' <=> s \in pending,
           s \in queue' <=> s \in queue, <<s, epoch'>> \in inFlight' <=> <<s, epoch>> \in inFlight
    PROVE  AskTab(s)'
BY DEF AskTab, Steady, Live, Closing, Off, Joins, OnePlace, InUp, InQueue, InFlight, InDown

\* A page that is closed.
LEMMA Closed ==
    ASSUME CacheInv, AskInv, NEW t \in Tab, ClosePage(t), UNCHANGED <<core, router, history>>,
           \A s \in Tab \ {t} : up'[s] = up[s]
    PROVE  AskInv'
<1>1. /\ page' = [page EXCEPT ![t] = "closed"] /\ alive' = alive \ {t}
      /\ down' = [down EXCEPT ![t] = <<>>]
  BY DEF ClosePage
<1>2. PortTypes /\ page \in [Tab -> Page]
  BY DEF CacheInv, PageTypes
<1>3. ASSUME NEW s \in Tab, s # t PROVE AskTab(s)'
  <2>1. AskTab(s)
    BY DEF AskInv
  <2>2. Steady(s) /\ down'[s] = down[s]
    BY <1>1, <1>2, <1>3 DEF Steady, history, PortTypes
  <2> QED BY <1>2, <1>3, <2>1, <2>2, Unmoved DEF core, router
<1>4. AskTab(t)'
  <2>1. page'[t] = "closed" /\ t \notin alive'
    BY <1>1, <1>2
  <2> QED BY <2>1 DEF AskTab, Live
<1> QED BY <1>3, <1>4 DEF AskInv

\* A page that sends or takes a message that has no part in registering or asking.
Sent(t) ==
    /\ page'[t] = page[t] \/ (page[t] = "on" /\ page'[t] = "leaving")
    /\ \/ up'[t] = up[t]
       \/ \E m \in Message : /\ up'[t] = Append(up[t], m)
                             /\ m.kind \in {"graceful", "lost", "attach"}
    /\ \/ down'[t] = down[t]
       \/ /\ down[t] # <<>> /\ down'[t] = Tail(down[t])
          /\ Head(down[t]).kind \in {"become", "terminate"}

\* Such a message changes nothing of what the page has asked.
LEMMA SentKeeps ==
    ASSUME PortTypes, NEW t \in Tab, AskTab(t), Live(t), Sent(t), UNCHANGED <<alive, history>>,
           UNCHANGED <<core, router>>
    PROVE  AskTab(t)'
<1>0. up[t] \in Seq(Message) /\ down[t] \in Seq(Message)
  BY DEF PortTypes
<1>1. ASSUME NEW k \in {"register", "request", "disconnect", "navigate"}
      PROVE  (Pending(up'[t], k) <=> Pending(up[t], k)) /\ (Once(up[t], k) => Once(up'[t], k))
  <2>1. CASE up'[t] = up[t]
    BY <2>1
  <2>2. ASSUME NEW m \in Message, up'[t] = Append(up[t], m),
               m.kind \in {"graceful", "lost", "attach"}
        PROVE  (Pending(up'[t], k) <=> Pending(up[t], k)) /\ (Once(up[t], k) => Once(up'[t], k))
    <3>1. m.kind # k
      BY <2>2
    <3> QED BY <1>0, <2>2, <3>1, PendingAppend
  <2> QED BY <2>1, <2>2 DEF Sent
<1>2. \A k \in {"registered", "answer", "terminal", "retire"} :
         (Pending(down'[t], k) <=> Pending(down[t], k)) /\ (Once(down[t], k) => Once(down'[t], k))
  <2>1. CASE down'[t] = down[t]
    BY <2>1
  <2>2. CASE /\ down[t] # <<>> /\ down'[t] = Tail(down[t])
             /\ Head(down[t]).kind \in {"become", "terminate"}
    BY <1>0, <2>2, PendingTail
  <2> QED BY <2>1, <2>2 DEF Sent
<1>3. Live(t)' /\ (page'[t] = "starting" <=> page[t] = "starting") /\ page'[t] # "off"
  BY DEF Live, Sent
<1>4. (Closing(t)' <=> Closing(t)) /\ t \in alive'
  BY <1>2 DEF Closing, AskTab
<1>5. ASSUME ~Closing(t) PROVE Joins(t)' /\ OnePlace(t)'
  <2>1. Joins(t) /\ OnePlace(t)
    BY <1>5 DEF AskTab
  <2>2. Joins(t)'
    BY <1>1, <1>2, <1>3, <2>1 DEF Joins, core, router
  <2>3. OnePlace(t)'
    BY <1>1, <1>2, <1>3, <2>1 DEF OnePlace, InUp, InQueue, InFlight, InDown, core, history
  <2> QED BY <2>2, <2>3
<1> QED BY <1>3, <1>4, <1>5 DEF AskTab

\* Only the page that takes a step is concerned.
LEMMA OnePage ==
    ASSUME CacheInv, AskInv, NEW t \in Tab, UNCHANGED <<core, router>>,
           \A s \in Tab \ {t} : Steady(s) /\ up'[s] = up[s] /\ down'[s] = down[s],
           AskTab(t)'
    PROVE  AskInv'
<1>1. ASSUME NEW s \in Tab, s # t PROVE AskTab(s)'
  BY <1>1, Unmoved DEF AskInv, CacheInv, core, router
<1> QED BY <1>1 DEF AskInv

\* start(): the page registers.
LEMMA StartAsk == ASSUME CacheInv, AskInv, NEW t \in Tab, Start(t) PROVE AskInv'
<1>1. /\ page[t] = "off" /\ page' = [page EXCEPT ![t] = "starting"] /\ alive' = alive \cup {t}
      /\ up' = [up EXCEPT ![t] = Append(@, Msg("register", 0))]
      /\ UNCHANGED <<core, router, down, history>>
  BY DEF Start, Send
<1>2. page \in [Tab -> Page] /\ up \in [Tab -> Seq(Message)] /\ up[t] \in Seq(Message)
  BY DEF CacheInv, PageTypes, PortTypes
<1>3. \A s \in Tab \ {t} : Steady(s) /\ up'[s] = up[s] /\ down'[s] = down[s]
  BY <1>1, <1>2 DEF Steady, history
<1>4. Off(t) /\ t \notin queue /\ <<t, epoch>> \notin inFlight
  BY <1>1 DEF AskInv, AskTab, Off, CacheInv, CoordInv, RouteInv, InFlightHasOwner
<1>5. page'[t] = "starting" /\ t \in alive'
      /\ up'[t] = Append(<<>>, Msg("register", 0)) /\ down'[t] = <<>>
  BY <1>1, <1>2, <1>4 DEF Off
<1>0. Msg("register", 0) \in Message /\ Msg("register", 0).kind = "register" /\ <<>> \in Seq(Message)
  BY MsgKind
<1>6. ASSUME NEW k PROVE (Pending(up'[t], k) <=> k = "register") /\ Once(up'[t], k)
  <2>1. ~Pending(<<>>, k) /\ Once(<<>>, k)
    BY PendingNone
  <2>2. /\ Pending(Append(<<>>, Msg("register", 0)), k) <=>
               Pending(<<>>, k) \/ Msg("register", 0).kind = k
        /\ Once(<<>>, k) /\ (Msg("register", 0).kind = k => ~Pending(<<>>, k))
             => Once(Append(<<>>, Msg("register", 0)), k)
    BY <1>0, PendingAppend, Zenon
  <2> QED BY <1>0, <1>5, <2>1, <2>2
<1>7. \A k : Once(down'[t], k) /\ ~Pending(down'[t], k)
  BY <1>5, PendingNone
<1>8. Joins(t)' /\ OnePlace(t)'
  BY <1>1, <1>4, <1>5, <1>6, <1>7
  DEF Joins, OnePlace, InUp, InQueue, InFlight, InDown, Off, core, router, history
<1>9. AskTab(t)'
  BY <1>5, <1>8 DEF AskTab, Live
<1> QED BY <1>1, <1>3, <1>9, OnePage

\* postMessage(): the page asks, at once or when it is registered.
LEMMA AskAsk == ASSUME CacheInv, AskInv, NEW t \in Tab, Ask(t) PROVE AskInv'
<1>1. /\ Live(t) /\ t \notin asked /\ asked' = asked \cup {t}
      /\ up' = IF page[t] = "starting" THEN up
               ELSE [up EXCEPT ![t] = Append(@, Msg("request", 0))]
      /\ UNCHANGED <<core, router, pages, down, answers>>
  BY DEF Ask
<1>2. up \in [Tab -> Seq(Message)] /\ up[t] \in Seq(Message) /\ AskTab(t)
  BY DEF CacheInv, PortTypes, AskInv
<1>3. \A s \in Tab \ {t} : Steady(s) /\ up'[s] = up[s] /\ down'[s] = down[s]
  BY <1>1, <1>2 DEF Steady, pages
<1>4. Live(t)' /\ page'[t] = page[t] /\ page'[t] # "off" /\ t \in alive' /\ (Closing(t)' <=> Closing(t))
  BY <1>1, <1>2 DEF AskTab, Live, Closing, pages
<1>5. ASSUME ~Closing(t) PROVE Joins(t)' /\ OnePlace(t)'
  <2>1. Joins(t) /\ OnePlace(t)
    BY <1>1, <1>2, <1>5 DEF AskTab
  <2>2. CASE page[t] = "starting"
    <3>1. up' = up
      BY <1>1, <2>2
    <3>2. Joins(t)'
      BY <1>1, <2>1, <2>2, <3>1 DEF Joins, core, router, pages
    <3>3. OnePlace(t)'
      BY <1>1, <2>1, <2>2, <3>1 DEF OnePlace, InUp, InQueue, InFlight, InDown, core, pages
    <3> QED BY <3>2, <3>3
  <2>3. CASE page[t] # "starting"
    <3>1. up'[t] = Append(up[t], Msg("request", 0))
      BY <1>1, <1>2, <2>3
    <3>0. Msg("request", 0) \in Message /\ Msg("request", 0).kind = "request"
      BY MsgKind
    <3>2. ASSUME NEW k PROVE Pending(up'[t], k) <=> Pending(up[t], k) \/ k = "request"
      BY <1>2, <3>0, <3>1, PendingAppend
    <3>3. ASSUME NEW k
          PROVE  Once(up[t], k) /\ (k = "request" => ~Pending(up[t], k)) => Once(up'[t], k)
      BY <1>2, <3>0, <3>1, PendingAppend
    <3>4. Joins(t)'
      BY <1>1, <2>1, <3>2, <3>3 DEF Joins, core, router, pages
    <3>5. ~InUp(t) /\ ~InQueue(t) /\ ~InFlight(t) /\ ~InDown(t) /\ answers[t] = 0
      BY <1>1, <2>1 DEF OnePlace
    <3>6. OnePlace(t)'
      BY <1>1, <2>1, <2>3, <3>2, <3>3, <3>5
      DEF OnePlace, InUp, InQueue, InFlight, InDown, core, pages
    <3> QED BY <3>4, <3>6
  <2> QED BY <2>2, <2>3
<1>6. AskTab(t)'
  BY <1>4, <1>5 DEF AskTab
<1> QED BY <1>1, <1>3, <1>6, OnePage

\* A page that closes, in the ways its user or a failure closes it.
LEMMA LeavingAsk ==
    ASSUME CacheInv, AskInv, NEW t \in Tab,
           \/ GracefulTimeout(t) \/ Dispose(t) \/ Navigate(t) \/ TabCrash(t)
           \/ HearRetire(t) \/ HearTerminal(t)
    PROVE  AskInv'
<1>1. ClosePage(t) /\ UNCHANGED <<core, router, history>>
  BY DEF GracefulTimeout, Dispose, Navigate, TabCrash, HearRetire, HearTerminal, history
<1>2. up \in [Tab -> Seq(Message)]
  BY DEF CacheInv, PortTypes
<1>3. up' = up \/ \E m : up' = [up EXCEPT ![t] = Append(@, m)]
  BY DEF GracefulTimeout, Dispose, Navigate, TabCrash, HearRetire, HearTerminal, Send
<1>4. \A s \in Tab \ {t} : up'[s] = up[s]
  BY <1>2, <1>3
<1> QED BY <1>1, <1>4, Closed

\* A page sends or takes something else.
Sends(t) ==
    /\ page' = page \/ (page[t] = "on" /\ page' = [page EXCEPT ![t] = "leaving"])
    /\ \/ up' = up
       \/ \E m \in Message : /\ up' = [up EXCEPT ![t] = Append(@, m)]
                             /\ m.kind \in {"graceful", "lost", "attach"}
    /\ \/ down' = down
       \/ /\ down[t] # <<>> /\ down' = [down EXCEPT ![t] = Tail(@)]
          /\ Head(down[t]).kind \in {"become", "terminate"}

\* No request is concerned.
LEMMA SentAsk ==
    ASSUME CacheInv, AskInv, NEW t \in Tab, Live(t), UNCHANGED <<core, router, alive, history>>,
           Sends(t)
    PROVE  AskInv'
<1>1. page \in [Tab -> Page] /\ up \in [Tab -> Seq(Message)] /\ down \in [Tab -> Seq(Message)]
      /\ PortTypes /\ AskTab(t)
  BY DEF CacheInv, PageTypes, PortTypes, AskInv
<1>2. \A s \in Tab \ {t} : Steady(s)
  BY <1>1 DEF Steady, history, Sends
<1>3. \A s \in Tab \ {t} : up'[s] = up[s] /\ down'[s] = down[s]
  BY <1>1 DEF Sends
<1>4. Sent(t)
  <2>1. page'[t] = page[t] \/ (page[t] = "on" /\ page'[t] = "leaving")
    BY <1>1 DEF Sends
  <2>2. \/ up'[t] = up[t]
        \/ \E m \in Message : /\ up'[t] = Append(up[t], m)
                              /\ m.kind \in {"graceful", "lost", "attach"}
    BY <1>1 DEF Sends
  <2>3. \/ down'[t] = down[t]
        \/ /\ down[t] # <<>> /\ down'[t] = Tail(down[t])
           /\ Head(down[t]).kind \in {"become", "terminate"}
    BY <1>1 DEF Sends
  <2> QED BY <2>1, <2>2, <2>3 DEF Sent
<1>5. AskTab(t)'
  BY <1>1, <1>4, SentKeeps
<1> QED BY <1>2, <1>3, <1>5, OnePage

\* A page that hears it is registered sends what it kept.
LEMMA HearRegisteredAsk ==
    ASSUME CacheInv, AskInv, NEW t \in Tab, HearRegistered(t) PROVE AskInv'
<1>1. /\ Live(t) /\ down[t] # <<>> /\ Head(down[t]).kind = "registered"
      /\ down' = [down EXCEPT ![t] = Tail(@)] /\ page' = [page EXCEPT ![t] = "on"]
      /\ up' = IF t \in asked THEN [up EXCEPT ![t] = Append(@, Msg("request", 0))] ELSE up
      /\ UNCHANGED <<core, router, alive, history>>
  BY DEF HearRegistered, Hear, Heard
<1>2. /\ up \in [Tab -> Seq(Message)] /\ up[t] \in Seq(Message)
      /\ down \in [Tab -> Seq(Message)] /\ down[t] \in Seq(Message)
      /\ page \in [Tab -> Page] /\ AskTab(t)
  BY DEF CacheInv, PortTypes, PageTypes, AskInv
<1>3. \A s \in Tab \ {t} : Steady(s) /\ up'[s] = up[s] /\ down'[s] = down[s]
  BY <1>1, <1>2 DEF Steady, history
<1>4. page'[t] = "on" /\ t \in alive' /\ down'[t] = Tail(down[t])
  BY <1>1, <1>2 DEF AskTab
<1>5. \A k : /\ Pending(down[t], k) <=> k = "registered" \/ Pending(down'[t], k)
             /\ Once(down[t], k) =>
                  Once(down'[t], k) /\ (k = "registered" => ~Pending(down'[t], k))
  BY <1>1, <1>2, <1>4, PendingTail
<1>6. Closing(t)' <=> Closing(t)
  BY <1>5 DEF Closing
<1>7. ASSUME ~Closing(t) PROVE Joins(t)' /\ OnePlace(t)'
  <2>1. Joins(t) /\ OnePlace(t)
    BY <1>1, <1>2, <1>7 DEF AskTab
  <2>2. page[t] = "starting" /\ t \in tabs /\ ~Pending(down'[t], "registered")
    BY <1>5, <2>1 DEF Joins
  <2>3. ~InUp(t) /\ ~InQueue(t) /\ ~InFlight(t) /\ ~InDown(t) /\ answers[t] = 0
        /\ Once(down'[t], "answer") /\ ~Pending(up[t], "register") /\ t \notin pending
    BY <1>5, <2>1, <2>2 DEF OnePlace, Joins
  <2>4. CASE t \notin asked
    <3>1. up' = up
      BY <1>1, <2>4
    <3>2. Joins(t)'
      BY <1>1, <1>4, <1>5, <2>1, <2>2, <2>3, <3>1 DEF Joins, core, router
    <3>3. OnePlace(t)'
      BY <1>1, <1>4, <1>5, <2>1, <2>3, <2>4, <3>1
      DEF OnePlace, InUp, InQueue, InFlight, InDown, core, history
    <3> QED BY <3>2, <3>3
  <2>5. CASE t \in asked
    <3>1. up'[t] = Append(up[t], Msg("request", 0))
      BY <1>1, <1>2, <2>5
    <3>0. Msg("request", 0) \in Message /\ Msg("request", 0).kind = "request"
      BY MsgKind
    <3>2. ASSUME NEW k
          PROVE  /\ Pending(up'[t], k) <=> Pending(up[t], k) \/ k = "request"
                 /\ Once(up[t], k) /\ (k = "request" => ~Pending(up[t], k)) => Once(up'[t], k)
      BY <1>2, <3>0, <3>1, PendingAppend
    <3>3. Joins(t)'
      BY <1>1, <1>4, <1>5, <2>1, <2>2, <2>3, <3>2 DEF Joins, core, router
    <3>4. OnePlace(t)'
      BY <1>1, <1>4, <1>5, <2>1, <2>3, <2>5, <3>2
      DEF OnePlace, InUp, InQueue, InFlight, InDown, core, history
    <3> QED BY <3>3, <3>4
  <2> QED BY <2>4, <2>5
<1>8. AskTab(t)'
  BY <1>4, <1>6, <1>7 DEF AskTab, Live
<1> QED BY <1>1, <1>3, <1>8, OnePage

\* A page hears its answer.
LEMMA HearAnswerAsk ==
    ASSUME CacheInv, AskInv, NEW t \in Tab, HearAnswer(t) PROVE AskInv'
<1>1. /\ Live(t) /\ down[t] # <<>> /\ Head(down[t]).kind = "answer"
      /\ down' = [down EXCEPT ![t] = Tail(@)] /\ answers' = [answers EXCEPT ![t] = @ + 1]
      /\ UNCHANGED <<core, router, pages, up, asked>>
  BY DEF HearAnswer, Hear, Heard
<1>2. /\ down \in [Tab -> Seq(Message)] /\ down[t] \in Seq(Message)
      /\ answers \in [Tab -> Nat] /\ AskTab(t)
  BY DEF CacheInv, PortTypes, PageTypes, AskInv
<1>3. \A s \in Tab \ {t} : Steady(s) /\ up'[s] = up[s] /\ down'[s] = down[s]
  BY <1>1, <1>2 DEF Steady, pages
<1>4. answers'[t] = answers[t] + 1 /\ down'[t] = Tail(down[t])
  BY <1>1, <1>2
<1>5. \A k : /\ Pending(down[t], k) <=> k = "answer" \/ Pending(down'[t], k)
             /\ Once(down[t], k) =>
                  Once(down'[t], k) /\ (k = "answer" => ~Pending(down'[t], k))
  BY <1>1, <1>2, <1>4, PendingTail
<1>6. Live(t)' /\ page'[t] = page[t] /\ page'[t] # "off" /\ t \in alive' /\ (Closing(t)' <=> Closing(t))
  BY <1>1, <1>2, <1>5 DEF AskTab, Live, Closing, pages
<1>7. ASSUME ~Closing(t) PROVE Joins(t)' /\ OnePlace(t)'
  <2>1. Joins(t) /\ OnePlace(t)
    BY <1>1, <1>2, <1>7 DEF AskTab
  <2>2. /\ InDown(t) /\ ~InUp(t) /\ ~InQueue(t) /\ ~InFlight(t) /\ answers'[t] = 1
        /\ page[t] # "starting" /\ t \in asked /\ ~Pending(down'[t], "answer")
    BY <1>4, <1>5, <2>1 DEF OnePlace, InDown
  <2>3. Joins(t)'
    BY <1>1, <1>5, <1>6, <2>1 DEF Joins, core, router
  <2>4. OnePlace(t)'
    BY <1>1, <1>5, <1>6, <2>1, <2>2 DEF OnePlace, InUp, InQueue, InFlight, InDown, core
  <2> QED BY <2>3, <2>4
<1>8. AskTab(t)'
  BY <1>6, <1>7 DEF AskTab
<1> QED BY <1>1, <1>3, <1>8, OnePage

\* Every step of a page, of its user and of what fails.
LEMMA PageAsk ==
    ASSUME CacheInv, AskInv, NEW t \in Tab, User(t) \/ PageStep(t) \/ EngineStep(t) \/ Failure(t)
    PROVE  AskInv'
<1>0. /\ down \in [Tab -> Seq(Message)] /\ own[t] \in Nat /\ page \in [Tab -> Page]
      /\ \A e \in Nat : /\ Msg("graceful", e) \in Message /\ Msg("graceful", e).kind = "graceful"
                        /\ Msg("lost", e) \in Message /\ Msg("lost", e).kind = "lost"
                        /\ Msg("attach", e) \in Message /\ Msg("attach", e).kind = "attach"
  BY MsgKind DEF CacheInv, PortTypes, PageTypes
<1>1. CASE \/ GracefulTimeout(t) \/ Dispose(t) \/ Navigate(t) \/ TabCrash(t)
           \/ HearRetire(t) \/ HearTerminal(t)
  BY <1>1, LeavingAsk
<1>2. CASE DisposeGracefully(t)
  <2>1. /\ Live(t) /\ page[t] = "on" /\ page' = [page EXCEPT ![t] = "leaving"]
        /\ up' = [up EXCEPT ![t] = Append(@, Msg("graceful", own[t]))]
        /\ UNCHANGED <<core, router, alive, down, history>>
    BY <1>2 DEF DisposeGracefully, Live, Send
  <2>2. Sends(t)
    BY <1>0, <2>1 DEF Sends
  <2> QED BY <2>1, <2>2, SentAsk
<1>3. CASE HearBecome(t)
  <2>1. /\ Live(t) /\ down[t] # <<>> /\ Head(down[t]).kind = "become"
        /\ down' = [down EXCEPT ![t] = Tail(@)]
        /\ up' = [up EXCEPT ![t] = Append(@, Msg("attach", Head(down[t]).epoch))]
        /\ UNCHANGED <<core, router, page, alive, history>>
    BY <1>3 DEF HearBecome, Hear, Heard, Send
  <2>2. Head(down[t]).epoch \in Nat
    <3>1. Head(down[t]) \in Message
      BY <1>0, <2>1, PortTail
    <3> QED BY <3>1 DEF Message
  <2>3. \E m \in Message : /\ up' = [up EXCEPT ![t] = Append(@, m)]
                           /\ m.kind \in {"graceful", "lost", "attach"}
    BY <1>0, <2>1, <2>2
  <2>4. Sends(t)
    BY <2>1, <2>3 DEF Sends
  <2> QED BY <2>1, <2>4, SentAsk
<1>4. CASE HearTerminate(t)
  <2>1. /\ Live(t) /\ down[t] # <<>> /\ Head(down[t]).kind = "terminate"
        /\ down' = [down EXCEPT ![t] = Tail(@)]
        /\ UNCHANGED <<core, router, page, up, alive, history>>
    BY <1>4 DEF HearTerminate, Hear, Heard
  <2>2. Sends(t)
    BY <2>1 DEF Sends
  <2> QED BY <2>1, <2>2, SentAsk
<1>5. CASE WorkerError(t)
  <2>0. Live(t) /\ UNCHANGED <<core, router, history>>
    BY <1>5 DEF WorkerError, Live
  <2>1. CASE page[t] = "leaving"
    <3>1. ClosePage(t) /\ up' = up
      BY <1>5, <2>1 DEF WorkerError
    <3> QED BY <2>0, <3>1, Closed
  <2>2. CASE page[t] # "leaving"
    <3>1. /\ up' = [up EXCEPT ![t] = Append(@, Msg("lost", own[t]))]
          /\ UNCHANGED <<page, alive, down>>
      BY <1>5, <2>2 DEF WorkerError, Send
    <3>2. \E m \in Message : /\ up' = [up EXCEPT ![t] = Append(@, m)]
                             /\ m.kind \in {"graceful", "lost", "attach"}
      BY <1>0, <3>1
    <3>3. Sends(t)
      BY <3>1, <3>2 DEF Sends
    <3> QED BY <2>0, <3>1, <3>3, SentAsk
  <2> QED BY <2>1, <2>2
<1>6. CASE EngineStep(t) \/ EngineFails(t) \/ EngineHangs(t)
  <2>1. UNCHANGED <<core, router, pages, up, down, history>>
    BY <1>6 DEF EngineStep, EngineAssets, EngineGranted, EngineLocks, EngineReady, EngineAdmits,
       EngineDrains, EngineDrained, EngineResponds, EngineFails, EngineHangs, quiet
  <2>2. ASSUME NEW s \in Tab PROVE AskTab(s)'
    BY <2>1, Unmoved DEF AskInv, CacheInv, Steady, core, router, pages, history
  <2> QED BY <2>2 DEF AskInv
<1> QED
  BY <1>1, <1>2, <1>3, <1>4, <1>5, <1>6, StartAsk, AskAsk, HearRegisteredAsk, HearAnswerAsk
  DEF User, PageStep, Failure

-----------------------------------------------------------------------------
(* Steps of the coordinator *)

\* What postToTab() sends to a tab.
LEMMA PostHears ==
    ASSUME PortTypes, NEW s \in Tab, NEW T, NEW new, Post(T, new), new[s] \in Seq(Message)
    PROVE  Hears(s, IF s \in T THEN new[s] ELSE <<>>)
<1>1. down'[s] = IF s \in T /\ Live(s) THEN down[s] \o new[s] ELSE down[s]
  BY DEF Post
<1>2. down[s] \in Seq(Message) /\ <<>> \in Seq(Message) /\ down[s] \o <<>> = down[s]
  BY DEF PortTypes
<1>3. CASE s \in T
  BY <1>1, <1>3 DEF Hears
<1>4. CASE s \notin T
  BY <1>1, <1>2, <1>4 DEF Hears
<1> QED BY <1>3, <1>4

\* The same, as far as registrations, answers and ends go.
Like(n, m) ==
    \A k \in {"registered", "answer", "terminal", "retire"} :
        (Pending(n, k) <=> Pending(m, k)) /\ (Once(m, k) => Once(n, k))

\* What is posted to s when R is posted to.
Gets(s, R, first) == IF s \in R THEN first[s] ELSE <<>>

\* An election adds nothing of that to what is posted before it.
LEMMA ActivateHears ==
    ASSUME PortTypes, NEW s \in Tab, NEW T, NEW avoid, NEW a \in Action, NEW R, NEW first,
           Activate(T, avoid, a, R, first), first[s] \in Seq(Message), epoch \in Nat
    PROVE  \E n : Hears(s, n) /\ Like(n, Gets(s, R, first))
<1>1. CASE Post(R, first)
  <2>1. Hears(s, IF s \in R THEN first[s] ELSE <<>>)
    BY <1>1, PostHears
  <2>2. Like(Gets(s, R, first), Gets(s, R, first))
    BY DEF Like
  <2> QED BY <2>1, <2>2 DEF Gets
<1>2. ASSUME NEW c, Post(R, [t \in Tab |-> first[t] \o
                               If(t = c, [Msg("become", epoch + 1) EXCEPT !.act = a])])
      PROVE  \E n : Hears(s, n) /\ Like(n, Gets(s, R, first))
  <2> DEFINE m   == [Msg("become", epoch + 1) EXCEPT !.act = a]
             p   == If(s = c, m)
             new == [t \in Tab |-> first[t] \o If(t = c, m)]
  <2>1. m \in Message /\ m.kind = "become"
    BY DEF Msg, Message
  <2> HIDE DEF m
  <2>2. /\ p \in Seq(Message)
        /\ \A k : Once(p, k) /\ (Pending(p, k) => m.kind = k)
    BY <2>1, PendingIf
  <2>3. new[s] = first[s] \o p
    OBVIOUS
  <2> HIDE DEF p, new
  <2>4. new[s] \in Seq(Message)
    BY <2>2, <2>3, PendingJoin
  <2>5. Post(R, new)
    BY <1>2 DEF new, m
  <2>6. Hears(s, IF s \in R THEN new[s] ELSE <<>>)
    BY <2>4, <2>5, PostHears
  <2>7. Like(new[s], first[s])
    <3> SUFFICES ASSUME NEW k \in {"registered", "answer", "terminal", "retire"}
                 PROVE  /\ Pending(new[s], k) <=> Pending(first[s], k)
                        /\ Once(first[s], k) => Once(new[s], k)
      BY DEF Like
    <3>1. ~Pending(p, k) /\ Once(p, k)
      BY <2>1, <2>2
    <3> QED BY <2>2, <2>3, <3>1, PendingJoin
  <2>8. Like(IF s \in R THEN new[s] ELSE <<>>, IF s \in R THEN first[s] ELSE <<>>)
    <3>1. CASE s \in R
      BY <2>7, <3>1
    <3>2. CASE s \notin R
      BY <3>2 DEF Like
    <3> QED BY <3>1, <3>2
  <2> QED BY <2>6, <2>8 DEF Gets
<1> QED BY <1>1, <1>2 DEF Activate

\* A tab that is not registered waits for nothing.
LEMMA Unregistered ==
    ASSUME CacheInv, NEW s \in Tab, s \notin tabs
    PROVE  s \notin queue /\ \A e : <<s, e>> \notin inFlight
BY DEF CacheInv, CoordInv, RouteInv, InFlightHasOwner

\* A step that posts nothing and leaves the registrations and the requests alone.
LEMMA Passing ==
    ASSUME CacheInv, AskInv, NEW s \in Tab, Steady(s), Drops(s), down'[s] = down[s],
           UNCHANGED <<tabs, pending, queue, inFlight, epoch>>
    PROVE  AskTab(s)'
<1>1. PortTypes /\ AskTab(s) /\ down[s] \in Seq(Message) /\ <<>> \in Seq(Message)
      /\ down[s] \o <<>> = down[s]
  BY DEF CacheInv, AskInv, PortTypes
<1>2. Hears(s, <<>>)
  BY <1>1 DEF Hears
<1>3. Moves(s, <<>>)
  BY PendingNone DEF Moves
<1> QED BY <1>1, <1>2, <1>3, Served

\* The abrupt loss of an owner: what was routed to it is rejected, or all is over.
LEMMA LoseOwnerAsk ==
    ASSUME CacheInv, AskInv, NEW t \in Tab, NEW gone \in BOOLEAN, NEW e, IsOwner(t, e),
           LoseOwner(t, gone), gone => ~Live(t) \/ Closing(t),
           NEW s \in Tab, Steady(s), Drops(s), UNCHANGED pending
    PROVE  AskTab(s)'
<1> DEFINE g == attempts >= RetryLimit
           a == If(s = t, Msg("terminate", epoch))
           b == If(s \in Routed /\ ~(gone /\ s = t), Msg("answer", 0))
           c == If(g /\ ~(gone /\ s = t), Msg("terminal", 0))
           new == [r \in Tab |->
                     If(r = t, Msg("terminate", epoch))
                     \o If(r \in Routed /\ ~(gone /\ r = t), Msg("answer", 0))
                     \o If(g /\ ~(gone /\ r = t), Msg("terminal", 0))]
<1>1. /\ Post(tabs, new)
      /\ inFlight' = IF g THEN {} ELSE {p \in inFlight : p[2] # epoch}
      /\ tabs' = (IF gone THEN tabs \ {t} ELSE tabs) /\ epoch' = epoch
      /\ ~g => queue' = IF gone THEN queue \ {t} ELSE queue
      /\ queue' \subseteq queue
  BY DEF LoseOwner
<1>2. PortTypes /\ AskTab(s) /\ epoch \in Nat
  BY DEF CacheInv, AskInv, CoordInv, CoreTypes
<1>3. /\ a \in Seq(Message) /\ b \in Seq(Message) /\ c \in Seq(Message)
      /\ \A k : Pending(a, k) => k = "terminate"
      /\ \A k : Once(b, k) /\ (Pending(b, k) <=> (s \in Routed /\ ~(gone /\ s = t)) /\ k = "answer")
      /\ \A k : Pending(c, k) <=> (g /\ ~(gone /\ s = t)) /\ k = "terminal"
  <2> DEFINE ma == Msg("terminate", epoch)
             mb == Msg("answer", 0)
             mc == Msg("terminal", 0)
  <2>1. ma \in Message /\ ma.kind = "terminate" /\ mb \in Message /\ mb.kind = "answer"
        /\ mc \in Message /\ mc.kind = "terminal"
    BY <1>2, MsgKind
  <2>2. <<mb>> # <<>> /\ <<mc>> # <<>>
    OBVIOUS
  <2>3. a = <<ma>> \/ a = <<>>
    BY DEF If
  <2>4. b = IF s \in Routed /\ ~(gone /\ s = t) THEN <<mb>> ELSE <<>>
    BY DEF If
  <2>5. c = IF g /\ ~(gone /\ s = t) THEN <<mc>> ELSE <<>>
    BY DEF If
  <2> HIDE DEF a, b, c, ma, mb, mc, g
  <2>6. a \in Seq(Message) /\ \A k : Pending(a, k) => k = "terminate"
    BY <2>1, <2>3, PendingOption
  <2>7. /\ b \in Seq(Message)
        /\ \A k : Once(b, k) /\ (Pending(b, k) <=> (s \in Routed /\ ~(gone /\ s = t)) /\ k = "answer")
    <3>1. b = <<mb>> \/ b = <<>>
      BY <2>4
    <3>2. b \in Seq(Message) /\ \A k : Once(b, k) /\ (Pending(b, k) <=> b = <<mb>> /\ k = "answer")
      BY <2>1, <3>1, PendingOption
    <3> QED BY <2>2, <2>4, <3>2
  <2>8. /\ c \in Seq(Message)
        /\ \A k : Pending(c, k) <=> (g /\ ~(gone /\ s = t)) /\ k = "terminal"
    <3>1. c = <<mc>> \/ c = <<>>
      BY <2>5
    <3>2. c \in Seq(Message) /\ \A k : Pending(c, k) <=> c = <<mc>> /\ k = "terminal"
      BY <2>1, <3>1, PendingOption
    <3> QED BY <2>2, <2>5, <3>2
  <2> QED BY <2>6, <2>7, <2>8
<1>4. new[s] = (a \o b) \o c
  OBVIOUS
<1> HIDE DEF a, b, c, new, g
<1>5. a \o b \in Seq(Message) /\ new[s] \in Seq(Message)
  BY <1>3, <1>4, PendingJoin
<1>6. ASSUME NEW k PROVE Pending(new[s], k) <=> Pending(a, k) \/ Pending(b, k) \/ Pending(c, k)
  <2>1. Pending(a \o b, k) <=> Pending(a, k) \/ Pending(b, k)
    BY <1>3, PendingJoin
  <2>2. Pending((a \o b) \o c, k) <=> Pending(a \o b, k) \/ Pending(c, k)
    BY <1>3, <1>5, PendingJoin
  <2> QED BY <1>4, <2>1, <2>2
<1>7. Once(new[s], "answer")
  <2>1. Once(a, "answer") /\ Once(b, "answer") /\ Once(c, "answer")
    BY <1>3, NoneOnce
  <2>2. ~Pending(a, "answer") /\ ~Pending(c, "answer")
    BY <1>3
  <2>3. Once(a \o b, "answer")
    BY <1>3, <2>1, <2>2, PendingJoin
  <2>4. Once((a \o b) \o c, "answer")
    BY <1>3, <1>5, <2>1, <2>2, <2>3, PendingJoin
  <2> QED BY <1>4, <2>4
<1>8. PICK n : n = IF s \in tabs THEN new[s] ELSE <<>>
  OBVIOUS
<1>9. Hears(s, n)
  BY <1>1, <1>2, <1>5, <1>8, PostHears
<1>10. ASSUME Live(s), ~Closing(s) PROVE Pending(n, "terminal") \/ Moves(s, n)
  <2>1. ~(gone /\ s = t)
    BY <1>10
  <2>2. CASE s \notin tabs
    <3>1. s \notin queue /\ s \notin queue' /\ <<s, epoch>> \notin inFlight
          /\ <<s, epoch'>> \notin inFlight' /\ s \notin tabs'
      BY <1>1, <2>2, Unregistered
    <3>2. n = <<>>
      BY <1>8, <2>2
    <3> QED BY <2>2, <3>1, <3>2, PendingNone DEF Moves
  <2>3. CASE s \in tabs /\ g
    BY <1>3, <1>6, <1>8, <2>1, <2>3
  <2>4. CASE s \in tabs /\ ~g
    <3>1. n = new[s]
      BY <1>8, <2>4
    <3>2. /\ ~Pending(n, "registered") /\ Once(n, "answer")
          /\ Pending(n, "answer") <=> <<s, epoch>> \in inFlight
      <4>1. ~Pending(a, "registered") /\ ~Pending(b, "registered") /\ ~Pending(c, "registered")
        BY <1>3
      <4>2. ~Pending(a, "answer") /\ ~Pending(c, "answer")
            /\ (Pending(b, "answer") <=> s \in Routed)
        BY <1>3, <2>1
      <4>3. s \in Routed <=> <<s, epoch>> \in inFlight
        BY DEF Routed
      <4> QED BY <1>6, <1>7, <3>1, <4>1, <4>2, <4>3
    <3>3. <<s, epoch'>> \notin inFlight' /\ (s \in tabs' <=> s \in tabs)
          /\ (s \in queue' <=> s \in queue)
      BY <1>1, <2>1, <2>4
    <3> QED BY <3>2, <3>3 DEF Moves
  <2> QED BY <2>2, <2>3, <2>4
<1>11. s \in tabs' => s \in tabs
  BY <1>1
<1> QED BY <1>2, <1>9, <1>10, <1>11, Served

\* A tab is lost: it has gone, or was told to go.
LEMMA LoseTabAsk ==
    ASSUME CacheInv, AskInv, NEW t \in Tab, LoseTab(t), ~Live(t) \/ Closing(t),
           NEW s \in Tab, Steady(s), Drops(s), UNCHANGED pending
    PROVE  AskTab(s)'
<1>1. CASE IsOwner(t, epoch) /\ LoseOwner(t, TRUE)
  BY <1>1, LoseOwnerAsk
<1>2. CASE /\ Remove(t) /\ inFlight' = {p \in inFlight : p[1] # t}
           /\ UNCHANGED <<epoch, down>>
  <2>1. PortTypes /\ AskTab(s) /\ down[s] \in Seq(Message) /\ <<>> \in Seq(Message)
        /\ down[s] \o <<>> = down[s]
    BY DEF CacheInv, AskInv, PortTypes
  <2>2. Hears(s, <<>>)
    BY <1>2, <2>1 DEF Hears
  <2>3. s \in tabs' => s \in tabs
    BY <1>2 DEF Remove
  <2>4. ASSUME s # t PROVE Moves(s, <<>>)
    <3>1. (s \in tabs' <=> s \in tabs) /\ (s \in queue' <=> s \in queue)
          /\ (<<s, epoch'>> \in inFlight' <=> <<s, epoch>> \in inFlight)
      BY <1>2, <2>4 DEF Remove
    <3> QED BY <3>1, PendingNone DEF Moves
  <2> QED BY <2>1, <2>2, <2>3, <2>4, Served
<1> QED BY <1>1, <1>2 DEF LoseTab

\* The owner's epoch ends in peace: what was routed to it is answered.
LEMMA SucceedAsk ==
    ASSUME CacheInv, AskInv, NEW t \in Tab, NEW a \in Action, NEW last, Succeed(t, a, last),
           NEW e, IsOwner(t, e),
           NEW s \in Tab, Steady(s), Drops(s), UNCHANGED pending,
           last[s] \in Seq(Message), s # t => last[s] = <<>>,
           s = t => ~Live(t) \/ Closing(t) \/ Pending(last[s], "retire")
    PROVE  AskTab(s)'
<1> DEFINE first == [r \in Tab |-> If(r \in Routed, Msg("answer", 0)) \o last[r]]
           b == If(s \in Routed, Msg("answer", 0))
<1>1. /\ Remove(t) /\ inFlight' = {p \in inFlight : p[2] # epoch /\ p[1] # t}
      /\ Activate(tabs \ {t}, None, a, tabs, first)
  BY DEF Succeed
<1>2. PortTypes /\ AskTab(s) /\ epoch \in Nat /\ t \in tabs
  BY DEF CacheInv, AskInv, CoordInv, CoreTypes, RouteInv, IsOwner
<1>3. inFlight' = {}
  BY <1>1 DEF CacheInv, CoordInv, InFlightHasOwner
<1>4. /\ b \in Seq(Message)
      /\ \A k : Once(b, k) /\ (Pending(b, k) <=> s \in Routed /\ k = "answer")
  <2> DEFINE m == Msg("answer", 0)
  <2>1. m \in Message /\ m.kind = "answer" /\ <<m>> # <<>>
    BY MsgKind
  <2>2. b = IF s \in Routed THEN <<m>> ELSE <<>>
    BY DEF If
  <2> HIDE DEF b, m
  <2>3. b = <<m>> \/ b = <<>>
    BY <2>2
  <2>4. b \in Seq(Message) /\ \A k : Once(b, k) /\ (Pending(b, k) <=> b = <<m>> /\ k = "answer")
    BY <2>1, <2>3, PendingOption
  <2> QED BY <2>1, <2>2, <2>4
<1>5. first[s] = b \o last[s]
  OBVIOUS
<1> HIDE DEF b, first
<1>6. first[s] \in Seq(Message)
  BY <1>4, <1>5, PendingJoin
<1>7. PICK n : Hears(s, n) /\ Like(n, Gets(s, tabs, first))
  BY <1>1, <1>2, <1>6, ActivateHears
<1>8. s \in tabs' => s \in tabs
  BY <1>1 DEF Remove
<1>9. ASSUME Live(s), ~Closing(s) PROVE Pending(n, "retire") \/ Moves(s, n)
  <2>1. CASE s = t
    <3>1. Pending(first[s], "retire")
      BY <1>4, <1>5, <1>9, <2>1, PendingJoin
    <3> QED BY <1>2, <1>7, <2>1, <3>1 DEF Like, Gets
  <2>2. CASE s \notin tabs
    <3>1. s \notin queue /\ s \notin queue' /\ <<s, epoch>> \notin inFlight /\ s \notin tabs'
      BY <1>1, <2>2, Unregistered DEF Remove
    <3>2. Like(n, <<>>)
      BY <1>7, <2>2 DEF Gets
    <3> QED BY <1>3, <2>2, <3>1, <3>2, PendingNone DEF Moves, Like
  <2>3. CASE s # t /\ s \in tabs
    <3>1. last[s] = <<>> /\ Like(n, first[s])
      BY <1>7, <2>3 DEF Gets
    <3>0. \A k : ~Pending(last[s], k) /\ Once(last[s], k)
      BY <3>1, PendingNone
    <3>2. \A k : Once(first[s], k) /\ (Pending(first[s], k) <=> s \in Routed /\ k = "answer")
      BY <1>4, <1>5, <3>0, PendingJoin
    <3>3. /\ ~Pending(n, "registered") /\ Once(n, "answer")
          /\ Pending(n, "answer") <=> <<s, epoch>> \in inFlight
      BY <3>1, <3>2 DEF Like, Routed
    <3>4. <<s, epoch'>> \notin inFlight' /\ (s \in tabs' <=> s \in tabs)
          /\ (s \in queue' <=> s \in queue)
      BY <1>1, <1>3, <2>3 DEF Remove
    <3> QED BY <3>3, <3>4 DEF Moves
  <2> QED BY <2>1, <2>2, <2>3
<1> QED BY <1>2, <1>7, <1>8, <1>9, Served

\* What is taken from a port.
LEMMA TakenDrops ==
    ASSUME PortTypes, NEW t \in Tab, up[t] # <<>>, Taken(t), NEW s \in Tab
    PROVE  /\ s # t => up'[s] = up[s]
           /\ Head(up[t]).kind \notin {"register", "request"} => Drops(s)
BY DEF PortTypes, Taken, Drops

\* A page that says good-bye is not there any more.
LEMMA GoodBye ==
    ASSUME CacheInv, AskInv, NEW t \in Tab, up[t] # <<>>,
           Head(up[t]).kind \in {"disconnect", "navigate"}
    PROVE  ~Live(t) \/ Closing(t)
<1>1. up[t] \in Seq(Message) /\ AskTab(t)
  BY DEF CacheInv, PortTypes, AskInv
<1>2. Pending(up[t], Head(up[t]).kind)
  BY <1>1, PendingTail
<1> QED BY <1>1, <1>2 DEF AskTab, Joins

\* A page that is not registered yet has asked nothing.
LEMMA IgnoredAsk ==
    ASSUME CacheInv, AskInv, NEW t \in Tab, Ignored(t) PROVE AskInv'
<1>1. /\ up[t] # <<>> /\ Head(up[t]).kind # "register" /\ t \notin tabs /\ Taken(t)
      /\ UNCHANGED <<core, router, pages, down, history>>
  BY DEF Ignored
<1>2. PortTypes /\ up[t] \in Seq(Message) /\ AskTab(t)
  BY DEF CacheInv, PortTypes, AskInv
<1>3. ASSUME NEW s \in Tab PROVE Steady(s)
  BY <1>1 DEF Steady, pages, history
<1>4. ASSUME NEW s \in Tab, s # t PROVE AskTab(s)'
  BY <1>1, <1>2, <1>3, <1>4, TakenDrops, Unmoved DEF AskInv, core, router
<1>5. CASE Head(up[t]).kind # "request"
  <2>1. Drops(t)
    BY <1>1, <1>2, <1>5, TakenDrops
  <2> QED BY <1>1, <1>3, <1>4, <2>1, Passing DEF AskInv, core, router
<1>6. CASE Head(up[t]).kind = "request"
  <2>1. Pending(up[t], "request")
    BY <1>1, <1>2, <1>6, PendingTail
  <2>2. page[t] # "starting" \/ ~Live(t) \/ Closing(t)
    BY <1>2, <2>1 DEF AskTab, OnePlace, InUp
  <2>3. ~Live(t) \/ Closing(t)
    BY <1>1, <1>2, <2>2 DEF AskTab, Joins
  <2>4. page[t] # "off"
    BY <1>1, <1>2 DEF AskTab, Off
  <2>5. (Live(t)' <=> Live(t)) /\ (Closing(t)' <=> Closing(t)) /\ page'[t] # "off"
        /\ (Live(t)' <=> t \in alive')
    BY <1>1, <1>2, <2>4 DEF AskTab, Live, Closing, pages
  <2>6. AskTab(t)'
    BY <2>3, <2>5 DEF AskTab
  <2> QED BY <1>4, <2>6 DEF AskInv
<1> QED BY <1>5, <1>6

\* register(): the registration is under way ...
LEMMA RegisterAsk ==
    ASSUME CacheInv, AskInv, NEW t \in Tab, Register(t) PROVE AskInv'
<1>1. /\ up[t] # <<>> /\ Head(up[t]).kind = "register" /\ Taken(t)
      /\ pending' = pending \cup {t}
      /\ UNCHANGED <<core, pages, down, history>>
  BY DEF Register, From
<1>2. PortTypes /\ up[t] \in Seq(Message) /\ AskTab(t) /\ up'[t] = Tail(up[t])
  BY <1>1 DEF CacheInv, PortTypes, AskInv, Taken
<1>3. ASSUME NEW s \in Tab, s # t PROVE AskTab(s)'
  <2>1. Steady(s) /\ up'[s] = up[s] /\ (s \in pending' <=> s \in pending)
    BY <1>1, <1>2, <1>3, TakenDrops DEF Steady, pages, history
  <2> QED BY <1>1, <1>2, <2>1, Unmoved DEF AskInv, core
<1>4. page[t] # "off"
  BY <1>1, <1>2 DEF AskTab, Off
<1>5. (Live(t)' <=> Live(t)) /\ (Closing(t)' <=> Closing(t)) /\ page'[t] # "off"
      /\ (Live(t)' <=> t \in alive')
  BY <1>1, <1>2, <1>4 DEF AskTab, Live, Closing, pages
<1>6. ASSUME Live(t), ~Closing(t) PROVE Joins(t)' /\ OnePlace(t)'
  <2>1. Joins(t) /\ OnePlace(t)
    BY <1>2, <1>6 DEF AskTab
  <2>2. ASSUME NEW k
        PROVE  /\ Pending(up[t], k) <=> k = "register" \/ Pending(up'[t], k)
               /\ Once(up[t], k) =>
                     Once(up'[t], k) /\ (k = "register" => ~Pending(up'[t], k))
    BY <1>1, <1>2, PendingTail
  <2>3. /\ page[t] = "starting" /\ t \notin pending /\ t \notin tabs
        /\ ~Pending(up'[t], "register")
    BY <2>1, <2>2 DEF Joins
  <2>4. Joins(t)'
    BY <1>1, <2>1, <2>2, <2>3 DEF Joins, core, pages
  <2>5. OnePlace(t)'
    BY <1>1, <2>1, <2>2, <2>3 DEF OnePlace, InUp, InQueue, InFlight, InDown, core, pages, history
  <2> QED BY <2>4, <2>5
<1>7. AskTab(t)'
  BY <1>5, <1>6 DEF AskTab
<1> QED BY <1>3, <1>7 DEF AskInv

\* ... the page is told that it is registered, and perhaps that all is over.
LEMMA ToldRegistered ==
    ASSUME PortTypes, NEW t \in Tab, AskTab(t), t \in pending, Live(t), Steady(t),
           up'[t] = up[t], NEW n, Hears(t, n), t \in tabs', t \notin pending',
           t \in queue' <=> t \in queue, <<t, epoch'>> \in inFlight' <=> <<t, epoch>> \in inFlight,
           Once(n, "registered"), ~Pending(n, "answer")
    PROVE  AskTab(t)'
<1>1. ASSUME NEW k
      PROVE  /\ Pending(down'[t], k) <=> Pending(down[t], k) \/ Pending(n, k)
             /\ Once(down[t], k) /\ Once(n, k) /\ ~(Pending(down[t], k) /\ Pending(n, k))
                => Once(down'[t], k)
  BY HearsPort
<1>2. page'[t] # "off" /\ Live(t)' /\ t \in alive'
  BY DEF Live, Steady, AskTab
<1>3. ASSUME ~Closing(t)' PROVE Joins(t)' /\ OnePlace(t)'
  <2>1. ~Closing(t) /\ Joins(t) /\ OnePlace(t)
    BY <1>1, <1>3 DEF Closing, AskTab
  <2>2. /\ page[t] = "starting" /\ t \notin tabs /\ ~Pending(up[t], "register")
        /\ ~Pending(down[t], "registered")
    BY <2>1 DEF Joins
  <2>3. Once(down'[t], "registered") /\ Once(down'[t], "answer")
    BY <1>1, <2>1, <2>2, NoneOnce DEF Joins, OnePlace
  <2>4. Joins(t)'
    BY <1>1, <2>1, <2>2, <2>3 DEF Joins, Steady
  <2>5. OnePlace(t)'
    BY <1>1, <2>1, <2>2, <2>3 DEF OnePlace, InUp, InQueue, InFlight, InDown, Steady
  <2> QED BY <2>4, <2>5
<1> QED BY <1>2, <1>3 DEF AskTab

\* Two posts of different kinds.
LEMMA TwoPosts ==
    ASSUME NEW p \in Seq(Message), NEW q \in Seq(Message),
           \A k : Once(p, k) /\ Once(q, k) /\ ~(Pending(p, k) /\ Pending(q, k))
    PROVE  /\ p \o q \in Seq(Message)
           /\ \A k : Once(p \o q, k) /\ (Pending(p \o q, k) <=> Pending(p, k) \/ Pending(q, k))
<1>1. p \o q \in Seq(Message)
  BY PendingJoin
<1>2. ASSUME NEW k
      PROVE  Once(p \o q, k) /\ (Pending(p \o q, k) <=> Pending(p, k) \/ Pending(q, k))
  BY PendingJoin
<1> QED BY <1>1, <1>2

\* What a registration posts to s: its own tab is told, and everybody when all is over.
Told(s, t, f, p, q) ==
    /\ p = IF s = t THEN <<Msg("registered", 0)>> ELSE <<>>
    /\ q = IF f = "failed" THEN <<Msg("terminal", 0)>> ELSE <<>>
    /\ p \in Seq(Message) /\ p \o q \in Seq(Message)
    /\ \A k : Once(p, k) /\ (Pending(p, k) <=> s = t /\ k = "registered")
    /\ \A k : Once(p \o q, k)
    /\ \A k : Pending(p \o q, k) <=> \/ s = t /\ k = "registered"
                                     \/ f = "failed" /\ k = "terminal"

\* Such messages there are.
LEMMA RegisteredPosts ==
    ASSUME NEW s, NEW t, NEW f PROVE \E p, q : Told(s, t, f, p, q)
<1> DEFINE mr == Msg("registered", 0)
           mt == Msg("terminal", 0)
           p == IF s = t THEN <<mr>> ELSE <<>>
           q == IF f = "failed" THEN <<mt>> ELSE <<>>
<1>1. mr \in Message /\ mr.kind = "registered" /\ mt \in Message /\ mt.kind = "terminal"
      /\ <<mr>> # <<>> /\ <<mt>> # <<>>
  BY MsgKind
<1> HIDE DEF mr, mt
<1>2. (s = t <=> p = <<mr>>) /\ (p = <<mr>> \/ p = <<>>)
  BY <1>1
<1>3. (f = "failed" <=> q = <<mt>>) /\ (q = <<mt>> \/ q = <<>>)
  BY <1>1
<1> HIDE DEF p, q
<1>4. p \in Seq(Message) /\ \A k : Once(p, k) /\ (Pending(p, k) <=> p = <<mr>> /\ mr.kind = k)
  BY <1>1, <1>2, PendingOption
<1>5. q \in Seq(Message) /\ \A k : Once(q, k) /\ (Pending(q, k) <=> q = <<mt>> /\ mt.kind = k)
  BY <1>1, <1>3, PendingOption
<1>6. \A k : Once(p, k) /\ (Pending(p, k) <=> s = t /\ k = "registered")
  BY <1>1, <1>2, <1>4
<1>7. \A k : Once(q, k) /\ (Pending(q, k) <=> f = "failed" /\ k = "terminal")
  BY <1>1, <1>3, <1>5
<1>8. \A k : Once(p, k) /\ Once(q, k) /\ ~(Pending(p, k) /\ Pending(q, k))
  BY <1>6, <1>7
<1>9. /\ p \o q \in Seq(Message)
      /\ \A k : Once(p \o q, k) /\ (Pending(p \o q, k) <=> Pending(p, k) \/ Pending(q, k))
  BY <1>4, <1>5, <1>8, TwoPosts
<1>10. p = (IF s = t THEN <<Msg("registered", 0)>> ELSE <<>>)
       /\ q = (IF f = "failed" THEN <<Msg("terminal", 0)>> ELSE <<>>)
  BY DEF p, q, mr, mt
<1>11. ASSUME NEW k
       PROVE  Pending(p \o q, k) <=> \/ s = t /\ k = "registered"
                                     \/ f = "failed" /\ k = "terminal"
  <2>1. Pending(p \o q, k) <=> Pending(p, k) \/ Pending(q, k)
    BY <1>9
  <2>2. Pending(p, k) <=> s = t /\ k = "registered"
    BY <1>6
  <2>3. Pending(q, k) <=> f = "failed" /\ k = "terminal"
    BY <1>7
  <2> QED BY <2>1, <2>2, <2>3
<1>12. Told(s, t, f, p, q)
  BY <1>4, <1>6, <1>9, <1>10, <1>11 DEF Told
<1> QED BY <1>12

\* A tab is registered, or its page has gone meanwhile.
LEMMA RegisteredAsk ==
    ASSUME CacheInv, AskInv, NEW t \in Tab, Registered(t) PROVE AskInv'
<1>1. t \in pending /\ pending' = pending \ {t} /\ UNCHANGED <<pages, up, history>>
  BY DEF Registered
<1>2. PortTypes /\ AskTab(t) /\ epoch \in Nat /\ action \in Action
  BY DEF CacheInv, AskInv, CoordInv, CoreTypes
<1>3. ASSUME NEW s \in Tab
      PROVE  Steady(s) /\ up'[s] = up[s] /\ Drops(s) /\ AskTab(s)
             /\ (s # t => (s \in pending' <=> s \in pending))
  BY <1>1 DEF Steady, Drops, pages, history, AskInv
<1>4. page[t] # "off"
  BY <1>1, <1>2 DEF AskTab, Off
<1>5. CASE t \notin alive
  <2>1. UNCHANGED <<core, down>>
    BY <1>5 DEF Registered
  <2>2. ASSUME NEW s \in Tab, s # t PROVE AskTab(s)'
    BY <1>2, <1>3, <2>1, <2>2, Unmoved DEF core
  <2>3. page'[t] # "off" /\ ~Live(t)' /\ t \notin alive'
    BY <1>1, <1>2, <1>4, <1>5 DEF AskTab, Live, pages
  <2>4. AskTab(t)'
    BY <2>3 DEF AskTab
  <2> QED BY <2>2, <2>4 DEF AskInv
<1>6. CASE t \in alive
  <2>1. Live(t) /\ tabs' = tabs \cup {t} /\ UNCHANGED <<queue, inFlight>>
    BY <1>2, <1>6 DEF Registered, AskTab
  <2>2. CASE kind = "waiting"
    <3> DEFINE first == [s \in Tab |-> If(s = t, Msg("registered", 0))]
    <3>1. Activate(tabs', None, action, tabs', first)
      BY <1>6, <2>2 DEF Registered
    <3>2. inFlight = {}
      BY <2>2 DEF CacheInv, CoordInv, InFlightHasOwner
    <3> SUFFICES ASSUME NEW s \in Tab PROVE AskTab(s)'
      BY DEF AskInv
    <3>3. first[s] = IF s = t THEN <<Msg("registered", 0)>> ELSE <<>>
      BY DEF If
    <3> HIDE DEF first
    <3>4. /\ first[s] \in Seq(Message)
          /\ \A k : Once(first[s], k) /\ (Pending(first[s], k) <=> s = t /\ k = "registered")
      <4>1. PICK p, q : Told(s, t, "waiting", p, q)
        BY RegisteredPosts
      <4>2. first[s] = p
        BY <3>3, <4>1 DEF Told
      <4> QED BY <4>1, <4>2 DEF Told
    <3>5. PICK n : Hears(s, n) /\ Like(n, Gets(s, tabs', first))
      BY <1>2, <3>1, <3>4, ActivateHears
    <3>6. /\ ~Pending(n, "answer") /\ Once(n, "answer") /\ Once(n, "registered")
          /\ Pending(n, "registered") => s = t
      <4>1. CASE s \in tabs'
        <5>1. Like(n, first[s])
          BY <3>5, <4>1 DEF Gets
        <5> QED BY <3>4, <5>1 DEF Like
      <4>2. CASE s \notin tabs'
        <5>1. Like(n, <<>>)
          BY <3>5, <4>2 DEF Gets
        <5> QED BY <5>1, PendingNone DEF Like
      <4> QED BY <4>1, <4>2
    <3>7. CASE s = t
      BY <1>1, <1>2, <1>3, <2>1, <3>2, <3>5, <3>6, <3>7, ToldRegistered
    <3>8. CASE s # t
      <4>1. Moves(s, n) /\ (s \in tabs' => s \in tabs)
        BY <2>1, <3>2, <3>6, <3>8 DEF Moves
      <4> QED BY <1>2, <1>3, <3>5, <3>8, <4>1, Served
    <3> QED BY <3>7, <3>8
  <2>3. CASE kind # "waiting"
    <3> DEFINE new == [s \in Tab |-> If(s = t, Msg("registered", 0))
                                       \o If(kind = "failed", Msg("terminal", 0))]
    <3>1. Post(tabs', new) /\ epoch' = epoch
      BY <1>6, <2>3 DEF Registered
    <3> SUFFICES ASSUME NEW s \in Tab PROVE AskTab(s)'
      BY DEF AskInv
    <3>2. PICK p, q : Told(s, t, kind, p, q)
      BY RegisteredPosts
    <3>9. new[s] = p \o q
      <4>1. new[s] = If(s = t, Msg("registered", 0)) \o If(kind = "failed", Msg("terminal", 0))
        OBVIOUS
      <4>2. p = If(s = t, Msg("registered", 0))
        BY <3>2 DEF Told, If
      <4>3. q = If(kind = "failed", Msg("terminal", 0))
        BY <3>2 DEF Told, If
      <4> QED BY <4>1, <4>2, <4>3
    <3> HIDE DEF new
    <3>3. /\ new[s] \in Seq(Message)
          /\ \A k : Once(new[s], k)
          /\ \A k : Pending(new[s], k) => k = "terminal" \/ (s = t /\ k = "registered")
      <4>1. ASSUME NEW k
            PROVE  /\ Once(p \o q, k)
                   /\ Pending(p \o q, k) => k = "terminal" \/ (s = t /\ k = "registered")
        BY <3>2 DEF Told
      <4>2. p \o q \in Seq(Message)
        BY <3>2 DEF Told
      <4> QED BY <3>9, <4>1, <4>2
    <3>4. PICK n : n = IF s \in tabs' THEN new[s] ELSE <<>>
      OBVIOUS
    <3>5. Hears(s, n)
      BY <1>2, <3>1, <3>3, <3>4, PostHears
    <3>6. /\ ~Pending(n, "answer") /\ Once(n, "answer") /\ Once(n, "registered")
          /\ Pending(n, "registered") => s = t
      <4>1. CASE s \in tabs'
        BY <3>3, <3>4, <4>1
      <4>2. CASE s \notin tabs'
        BY <3>4, <4>2, PendingNone
      <4> QED BY <4>1, <4>2
    <3>7. CASE s = t
      BY <1>1, <1>2, <1>3, <2>1, <3>1, <3>5, <3>6, <3>7, ToldRegistered
    <3>8. CASE s # t
      <4>1. Moves(s, n) /\ (s \in tabs' => s \in tabs)
        BY <2>1, <3>1, <3>6, <3>8 DEF Moves
      <4> QED BY <1>2, <1>3, <3>5, <3>8, <4>1, Served
    <3> QED BY <3>7, <3>8
  <2> QED BY <2>2, <2>3
<1> QED BY <1>5, <1>6

\* A request is answered at once, routed or queued.
LEMMA RequestAsk ==
    ASSUME CacheInv, AskInv, NEW t \in Tab, Request(t) PROVE AskInv'
<1>1. /\ up[t] # <<>> /\ Head(up[t]).kind = "request" /\ t \in tabs /\ Taken(t)
      /\ UNCHANGED <<epoch, tabs, router, pages, history>>
  BY DEF Request, From
<1>2. PortTypes /\ up[t] \in Seq(Message) /\ AskTab(t) /\ up'[t] = Tail(up[t])
      /\ down \in [Tab -> Seq(Message)]
  BY <1>1 DEF CacheInv, PortTypes, AskInv, Taken
<1>3. \/ /\ Post({t}, [s \in Tab |-> <<Msg("answer", 0)>>]) /\ UNCHANGED <<queue, inFlight>>
      \/ inFlight' = inFlight \cup {<<t, epoch>>} /\ UNCHANGED <<queue, down>>
      \/ queue' = queue \cup {t} /\ UNCHANGED <<inFlight, down>>
  BY DEF Request
<1>4. ASSUME NEW s \in Tab, s # t PROVE AskTab(s)'
  <2>1. down'[s] = down[s]
    BY <1>2, <1>3, <1>4 DEF Post
  <2>2. (s \in queue' <=> s \in queue) /\ (<<s, epoch'>> \in inFlight' <=> <<s, epoch>> \in inFlight)
    BY <1>1, <1>3, <1>4
  <2>3. Steady(s) /\ up'[s] = up[s] /\ AskTab(s)
    BY <1>1, <1>2, <1>4, TakenDrops DEF Steady, pages, history, AskInv
  <2> QED BY <1>1, <1>2, <2>1, <2>2, <2>3, Unmoved DEF router
<1>5. page[t] # "off"
  BY <1>1, <1>2 DEF AskTab, Off
<1>6. page'[t] = page[t] /\ (Live(t)' <=> Live(t)) /\ (Live(t)' <=> t \in alive')
  BY <1>1, <1>2 DEF AskTab, Live, pages
<1>7. ASSUME Live(t)
      PROVE  \/ /\ UNCHANGED <<queue, inFlight>>
                /\ \A k : /\ Pending(down'[t], k) <=> Pending(down[t], k) \/ k = "answer"
                          /\ Once(down[t], k) /\ (k = "answer" => ~Pending(down[t], k))
                                => Once(down'[t], k)
             \/ inFlight' = inFlight \cup {<<t, epoch>>} /\ UNCHANGED <<queue, down>>
             \/ queue' = queue \cup {t} /\ UNCHANGED <<inFlight, down>>
  <2>1. CASE Post({t}, [s \in Tab |-> <<Msg("answer", 0)>>]) /\ UNCHANGED <<queue, inFlight>>
    <3> DEFINE m == Msg("answer", 0)
    <3>1. m \in Message /\ m.kind = "answer"
      BY MsgKind
    <3>2. down'[t] = down[t] \o <<m>>
      BY <1>7, <2>1 DEF Post
    <3> HIDE DEF m
    <3>3. <<m>> \in Seq(Message) /\ \A k : Once(<<m>>, k) /\ (Pending(<<m>>, k) <=> m.kind = k)
      BY <3>1, PendingOption
    <3>4. ASSUME NEW k
          PROVE  /\ Pending(down'[t], k) <=> Pending(down[t], k) \/ k = "answer"
                 /\ Once(down[t], k) /\ (k = "answer" => ~Pending(down[t], k))
                       => Once(down'[t], k)
      <4>1. down[t] \in Seq(Message)
        BY <1>2
      <4>2. /\ Pending(down[t] \o <<m>>, k) <=> Pending(down[t], k) \/ Pending(<<m>>, k)
            /\ Once(down[t], k) /\ Once(<<m>>, k) /\ ~(Pending(down[t], k) /\ Pending(<<m>>, k))
                 => Once(down[t] \o <<m>>, k)
        BY <3>3, <4>1, PendingJoin, Zenon
      <4>3. Once(<<m>>, k) /\ (Pending(<<m>>, k) <=> k = "answer")
        BY <3>1, <3>3
      <4> QED BY <3>2, <4>2, <4>3, Zenon
    <3> QED BY <2>1, <3>4
  <2> QED BY <1>3, <2>1
<1>8. ASSUME Live(t), ~Closing(t)' PROVE Joins(t)' /\ OnePlace(t)'
  <2>1. ~Closing(t)
    BY <1>7, <1>8 DEF Closing
  <2>2. Joins(t) /\ OnePlace(t)
    BY <1>2, <1>8, <2>1 DEF AskTab
  <2>3. ASSUME NEW k
        PROVE  /\ Pending(up[t], k) <=> k = "request" \/ Pending(up'[t], k)
               /\ Once(up[t], k) =>
                     Once(up'[t], k) /\ (k = "request" => ~Pending(up'[t], k))
    BY <1>1, <1>2, PendingTail
  <2>4. /\ InUp(t) /\ ~InQueue(t) /\ ~InFlight(t) /\ ~InDown(t) /\ answers[t] = 0
        /\ page[t] # "starting" /\ t \in asked /\ ~Pending(up'[t], "request")
    BY <2>2, <2>3 DEF OnePlace, InUp
  <2>5. /\ \A k \in {"registered", "answer"} : Once(down'[t], k)
        /\ Pending(down'[t], "registered") <=> Pending(down[t], "registered")
    BY <1>7, <1>8, <2>2, <2>4 DEF Joins, OnePlace, InDown
  <2>6. Joins(t)'
    BY <1>1, <1>6, <2>2, <2>3, <2>5 DEF Joins, router
  <2>7. OnePlace(t)'
    <3>1. /\ answers'[t] = 0 /\ t \in asked' /\ page'[t] # "starting" /\ ~InUp(t)'
          /\ Once(up'[t], "request") /\ Once(down'[t], "answer")
      BY <1>1, <1>6, <2>2, <2>3, <2>4, <2>5 DEF OnePlace, InUp, history
    <3>2. \/ InDown(t)' /\ ~InQueue(t)' /\ ~InFlight(t)'
          \/ ~InDown(t)' /\ InQueue(t)' /\ ~InFlight(t)'
          \/ ~InDown(t)' /\ ~InQueue(t)' /\ InFlight(t)'
      BY <1>1, <1>7, <1>8, <2>4 DEF InDown, InQueue, InFlight
    <3> QED BY <3>1, <3>2 DEF OnePlace
  <2> QED BY <2>6, <2>7
<1>9. AskTab(t)'
  BY <1>5, <1>6, <1>8 DEF AskTab
<1> QED BY <1>4, <1>9 DEF AskInv

\* A departure, a loss, a port.
LEMMA DepartureAsk ==
    ASSUME CacheInv, AskInv, NEW t \in Tab,
           \/ AttachEnginePort(t) \/ GracefulDeparture(t) \/ NavigationDeparture(t)
           \/ EngineLost(t) \/ DisconnectTab(t) \/ LockReleased(t)
    PROVE  AskInv'
<1> SUFFICES ASSUME NEW s \in Tab PROVE AskTab(s)'
  BY DEF AskInv
<1>0. PortTypes /\ AskTab(t)
  BY DEF CacheInv, AskInv
<1>1. Steady(s) /\ UNCHANGED pending
  BY DEF AttachEnginePort, GracefulDeparture, NavigationDeparture, EngineLost, DisconnectTab,
     LockReleased, Steady, pages, history, router
<1>2. CASE LockReleased(t)
  <2>1. LoseTab(t) /\ t \notin alive /\ Drops(s)
    BY <1>2 DEF LockReleased, Drops
  <2>2. ~Live(t)
    BY <1>0, <2>1 DEF AskTab
  <2> QED BY <1>1, <2>1, <2>2, LoseTabAsk
<1>3. CASE ~LockReleased(t)
  <2>1. /\ up[t] # <<>> /\ Taken(t)
        /\ Head(up[t]).kind \in {"attach", "graceful", "navigate", "lost", "disconnect"}
    BY <1>3 DEF AttachEnginePort, GracefulDeparture, NavigationDeparture, EngineLost,
       DisconnectTab, From
  <2>2. Drops(s)
    BY <1>0, <2>1, TakenDrops
  <2>3. CASE AttachEnginePort(t) \/ GracefulDeparture(t)
    <3>1. down'[s] = down[s] /\ UNCHANGED <<tabs, queue, inFlight, epoch>>
      BY <2>3 DEF AttachEnginePort, GracefulDeparture, core
    <3> QED BY <1>1, <2>2, <3>1, Passing
  <2>4. CASE NavigationDeparture(t)
    <3>1. ~Live(t) \/ Closing(t)
      BY <2>1, <2>4, GoodBye DEF NavigationDeparture, From
    <3>2. CASE IsOwner(t, Head(up[t]).epoch)
      <4> DEFINE a == IF kind = "activating" THEN action ELSE "open"
      <4>1. Succeed(t, a, Nothing) /\ a \in Action
        BY <2>4, <3>2 DEF NavigationDeparture, CacheInv, CoordInv, CoreTypes
      <4>2. Nothing[s] = <<>> /\ Nothing[s] \in Seq(Message)
        BY DEF Nothing
      <4> HIDE DEF a
      <4> QED BY <1>1, <2>2, <3>1, <3>2, <4>1, <4>2, SucceedAsk
    <3>3. CASE ~IsOwner(t, Head(up[t]).epoch)
      <4>1. down'[s] = down[s] /\ UNCHANGED <<tabs, queue, inFlight, epoch>>
        BY <2>4, <3>3 DEF NavigationDeparture, core
      <4> QED BY <1>1, <2>2, <4>1, Passing
    <3> QED BY <3>2, <3>3
  <2>5. CASE EngineLost(t)
    <3>1. CASE FailOwner(t, Head(up[t]).epoch)
      <4>1. IsOwner(t, Head(up[t]).epoch) /\ LoseOwner(t, FALSE)
        BY <3>1 DEF FailOwner
      <4> QED BY <1>1, <2>2, <4>1, LoseOwnerAsk
    <3>2. CASE UNCHANGED <<core, down>>
      <4>1. down'[s] = down[s] /\ UNCHANGED <<tabs, queue, inFlight, epoch>>
        BY <3>2 DEF core
      <4> QED BY <1>1, <2>2, <4>1, Passing
    <3> QED BY <2>5, <3>1, <3>2 DEF EngineLost
  <2>6. CASE DisconnectTab(t)
    <3>1. LoseTab(t) /\ Head(up[t]).kind = "disconnect"
      BY <2>6 DEF DisconnectTab, From
    <3>2. ~Live(t) \/ Closing(t)
      BY <2>1, <3>1, GoodBye
    <3> QED BY <1>1, <2>2, <3>1, <3>2, LoseTabAsk
  <2> QED BY <1>3, <2>3, <2>4, <2>5, <2>6
<1> QED BY <1>2, <1>3

\* Messages of the engine.
LEMMA EngineMessageAsk == ASSUME CacheInv, AskInv, EngineMessage PROVE AskInv'
<1> SUFFICES ASSUME NEW s \in Tab PROVE AskTab(s)'
  BY DEF AskInv
<1>0. PortTypes /\ AskTab(s) /\ owner \in tabs /\ owner \in Tab /\ epoch \in Nat
      /\ kind \in {"activating", "active", "draining"}
  BY DEF EngineMessage, AssetsReady, OwnerReady, EngineResponse, OwnerDrained, EngineFatal,
     FromEngine, CacheInv, AskInv, CoordInv, CoreTypes, RouteInv
<1>1. Steady(s) /\ UNCHANGED pending /\ Drops(s)
  BY DEF EngineMessage, AssetsReady, OwnerReady, EngineResponse, OwnerDrained, EngineFatal,
     Steady, Drops, pages, history, router
<1>2. CASE AssetsReady
  <2>1. down'[s] = down[s] /\ UNCHANGED <<tabs, queue, inFlight, epoch>>
    BY <1>2 DEF AssetsReady
  <2> QED BY <1>1, <2>1, Passing
<1>3. CASE OwnerReady
  <2>1. /\ down' = down /\ UNCHANGED <<tabs, epoch>> /\ queue' = {}
        /\ inFlight' = inFlight \cup (queue \X {epoch}) /\ kind = "activating"
    BY <1>3 DEF OwnerReady
  <2>2. inFlight = {}
    BY <2>1 DEF CacheInv, CoordInv, InFlightHasOwner
  <2>3. Hears(s, <<>>)
    BY <1>0, <2>1 DEF Hears, PortTypes
  <2>4. Moves(s, <<>>)
    <3>1. s \in queue <=> <<s, epoch'>> \in inFlight'
      BY <2>1, <2>2
    <3> QED BY <2>1, <2>2, <3>1, PendingNone DEF Moves
  <2> QED BY <1>0, <1>1, <2>1, <2>3, <2>4, Served
<1>4. CASE EngineResponse
  <2> DEFINE R == Head(eup[owner]).of \cap Routed
             m == Msg("answer", 0)
             new == [r \in Tab |-> <<m>>]
  <2>1. /\ inFlight' = inFlight \ (R \X {epoch}) /\ Post(tabs \cap R, new)
        /\ UNCHANGED <<tabs, epoch, queue>>
    BY <1>4 DEF EngineResponse
  <2>2. m \in Message /\ m.kind = "answer"
    BY MsgKind
  <2> HIDE DEF m
  <2>3. new[s] = <<m>> /\ <<m>> \in Seq(Message)
    BY <2>2
  <2>4. \A k : Once(<<m>>, k) /\ (Pending(<<m>>, k) <=> m.kind = k)
    BY <2>2, PendingOption
  <2>5. s \in R => <<s, epoch>> \in inFlight
    BY DEF Routed
  <2> HIDE DEF R, new
  <2>6. PICK n : n = IF s \in tabs \cap R THEN <<m>> ELSE <<>>
    OBVIOUS
  <2>7. Hears(s, n)
    BY <1>0, <2>1, <2>3, <2>6, PostHears
  <2>8. Moves(s, n)
    <3>1. CASE s \in tabs /\ s \in R
      <4>1. n = <<m>> /\ <<s, epoch>> \in inFlight /\ <<s, epoch'>> \notin inFlight'
        BY <2>1, <2>5, <2>6, <3>1
      <4>2. Pending(n, "answer") /\ Once(n, "answer") /\ ~Pending(n, "registered")
        BY <2>2, <2>4, <4>1
      <4> QED BY <2>1, <4>1, <4>2 DEF Moves
    <3>2. CASE s \in tabs /\ s \notin R
      <4>1. n = <<>> /\ (<<s, epoch'>> \in inFlight' <=> <<s, epoch>> \in inFlight)
        BY <2>1, <2>6, <3>2
      <4> QED BY <2>1, <4>1, PendingNone DEF Moves
    <3>3. CASE s \notin tabs
      <4>1. n = <<>> /\ <<s, epoch>> \notin inFlight /\ <<s, epoch'>> \notin inFlight'
        BY <2>1, <2>6, <3>3, Unregistered
      <4> QED BY <2>1, <4>1, PendingNone DEF Moves
    <3> QED BY <3>1, <3>2, <3>3
  <2> QED BY <1>0, <1>1, <2>1, <2>7, <2>8, Served
<1>5. CASE OwnerDrained
  <2> DEFINE last == [r \in Tab |-> If(r = owner, Msg("retire", epoch))]
             m == Msg("retire", epoch)
  <2>1. Succeed(owner, "open", last) /\ IsOwner(owner, epoch)
    BY <1>0, <1>5 DEF OwnerDrained, IsOwner
  <2>2. m \in Message /\ m.kind = "retire"
    BY <1>0, MsgKind
  <2>3. last[s] = IF s = owner THEN <<m>> ELSE <<>>
    BY DEF If
  <2> HIDE DEF last, m
  <2>4. last[s] = <<m>> \/ last[s] = <<>>
    BY <2>3
  <2>5. /\ last[s] \in Seq(Message)
        /\ Pending(last[s], "retire") <=> last[s] = <<m>>
    BY <2>2, <2>4, PendingOption
  <2>6. (s # owner => last[s] = <<>>) /\ (s = owner => Pending(last[s], "retire"))
    BY <2>3, <2>5
  <2> QED BY <1>0, <1>1, <2>1, <2>5, <2>6, SucceedAsk
<1>6. CASE EngineFatal
  <2>1. IsOwner(owner, epoch) /\ LoseOwner(owner, FALSE)
    BY <1>6 DEF EngineFatal, FailOwner
  <2> QED BY <1>0, <1>1, <2>1, LoseOwnerAsk
<1> QED BY <1>2, <1>3, <1>4, <1>5, <1>6 DEF EngineMessage

\* The next election after a loss, and the watchdogs.
LEMMA TimerAsk == ASSUME CacheInv, AskInv, Resume \/ Watchdog \/ FalseAlarm PROVE AskInv'
<1> SUFFICES ASSUME NEW s \in Tab PROVE AskTab(s)'
  BY DEF AskInv
<1>0. PortTypes /\ AskTab(s) /\ epoch \in Nat /\ action \in Action
  BY DEF CacheInv, AskInv, CoordInv, CoreTypes
<1>1. Steady(s) /\ UNCHANGED pending /\ Drops(s)
  BY DEF Resume, Watchdog, FalseAlarm, Steady, Drops, pages, history
<1>2. CASE Resume
  <2>1. /\ Activate(tabs, owner, action, tabs, Nothing) /\ kind = "resetting"
        /\ UNCHANGED <<tabs, queue, inFlight>>
    BY <1>2 DEF Resume
  <2>2. inFlight = {}
    BY <2>1 DEF CacheInv, CoordInv, InFlightHasOwner
  <2>3. Nothing[s] = <<>> /\ Nothing[s] \in Seq(Message)
    BY DEF Nothing
  <2>0. PICK first : first = Nothing
    OBVIOUS
  <2>8. Activate(tabs, owner, action, tabs, first) /\ first[s] \in Seq(Message)
    BY <2>0, <2>1, <2>3
  <2>4. PICK n : Hears(s, n) /\ Like(n, Gets(s, tabs, first))
    BY <1>0, <2>8, ActivateHears
  <2>5. Like(n, <<>>)
    BY <2>0, <2>3, <2>4 DEF Gets
  <2>6. ~Pending(n, "registered") /\ ~Pending(n, "answer") /\ Once(n, "answer")
    BY <2>5, PendingNone, NoneOnce DEF Like
  <2>7. Moves(s, n)
    BY <2>1, <2>2, <2>6 DEF Moves
  <2> QED BY <1>0, <1>1, <2>1, <2>4, <2>7, Served
<1>3. CASE Watchdog \/ FalseAlarm
  <2>1. IsOwner(owner, epoch) /\ LoseOwner(owner, FALSE)
    BY <1>3 DEF Watchdog, FalseAlarm, FailOwner
  <2>2. owner \in Tab
    BY <2>1 DEF IsOwner, CacheInv, CoordInv, RouteInv, CoreTypes
  <2> QED BY <1>1, <2>1, <2>2, LoseOwnerAsk
<1> QED BY <1>2, <1>3

-----------------------------------------------------------------------------
(* The theorem *)

\* No page has started.
LEMMA AskInit == Init => AskInv
<1> SUFFICES ASSUME Init, NEW s \in Tab PROVE AskTab(s)
  BY DEF AskInv
<1>1. /\ page[s] = "off" /\ alive = {} /\ up[s] = <<>> /\ down[s] = <<>>
      /\ tabs = {} /\ pending = {} /\ asked = {} /\ answers[s] = 0
  BY DEF Init
<1> QED BY <1>1 DEF AskTab, Off, Live

\* Every step keeps the invariant.
LEMMA AskNext == CacheInv /\ AskInv /\ [Next]_vars => AskInv'
<1> SUFFICES ASSUME CacheInv, AskInv, [Next]_vars PROVE AskInv'
  OBVIOUS
<1>1. ASSUME NEW t \in Tab, TabMessage(t) PROVE AskInv'
  BY <1>1, RegisterAsk, RegisteredAsk, IgnoredAsk, RequestAsk, DepartureAsk DEF TabMessage
<1>2. CASE UNCHANGED vars
  <2>1. ASSUME NEW s \in Tab PROVE AskTab(s)'
    BY <1>2, Unmoved DEF AskInv, CacheInv, Steady, vars, core, router, pages, history
  <2> QED BY <2>1 DEF AskInv
<1> QED BY <1>1, <1>2, PageAsk, DepartureAsk, EngineMessageAsk, TimerAsk DEF Next

\* The inductive invariant holds in every reachable state.
THEOREM AskInvariant == Spec => []AskInv
BY AskInit, AskNext, CacheInvariant, PTL DEF Spec

\* In the invariant's states a request is in one place.
LEMMA OneOfThem ==
    ASSUME CacheInv, AskInv PROVE AnsweredOnce
<1> SUFFICES ASSUME NEW t \in Tab, t \in asked, Live(t), ~Pending(down[t], "terminal"),
                    ~Pending(down[t], "retire")
             PROVE  Cardinality(Places(t)) = 1
  BY DEF AnsweredOnce
<1>1. OnePlace(t)
  BY DEF AskInv, AskTab, Closing
<1>2. /\ Places(t) \subseteq {"page", "up", "queue", "inFlight", "down", "answered"}
      /\ "page" \in Places(t) <=> page[t] = "starting"
      /\ "up" \in Places(t) <=> InUp(t)
      /\ "queue" \in Places(t) <=> InQueue(t)
      /\ "inFlight" \in Places(t) <=> InFlight(t)
      /\ "down" \in Places(t) <=> InDown(t)
      /\ "answered" \in Places(t) <=> answers[t] = 1
  <2>1. Places(t) \subseteq {"page", "up", "queue", "inFlight", "down", "answered"}
    BY DEF Places
  <2>2. "page" \in Places(t) <=> page[t] = "starting"
    BY DEF Places
  <2>3. "up" \in Places(t) <=> InUp(t)
    BY DEF Places, InUp
  <2>4. "queue" \in Places(t) <=> InQueue(t)
    BY DEF Places, InQueue
  <2>5. "inFlight" \in Places(t) <=> InFlight(t)
    BY DEF Places, InFlight
  <2>6. "down" \in Places(t) <=> InDown(t)
    BY DEF Places, InDown
  <2>7. "answered" \in Places(t) <=> answers[t] = 1
    BY DEF Places
  <2> QED BY <2>1, <2>2, <2>3, <2>4, <2>5, <2>6, <2>7
<1>3. \/ Places(t) = {"page"} \/ Places(t) = {"up"} \/ Places(t) = {"queue"}
      \/ Places(t) = {"inFlight"} \/ Places(t) = {"down"} \/ Places(t) = {"answered"}
  <2>1. CASE page[t] = "starting"
    BY <1>1, <1>2, <2>1 DEF OnePlace
  <2>2. CASE page[t] # "starting" /\ InUp(t)
    BY <1>1, <1>2, <2>2 DEF OnePlace
  <2>3. CASE page[t] # "starting" /\ ~InUp(t) /\ InQueue(t)
    BY <1>1, <1>2, <2>3 DEF OnePlace
  <2>4. CASE page[t] # "starting" /\ ~InUp(t) /\ ~InQueue(t) /\ InFlight(t)
    BY <1>1, <1>2, <2>4 DEF OnePlace
  <2>5. CASE page[t] # "starting" /\ ~InUp(t) /\ ~InQueue(t) /\ ~InFlight(t) /\ InDown(t)
    BY <1>1, <1>2, <2>5 DEF OnePlace
  <2>6. CASE page[t] # "starting" /\ ~InUp(t) /\ ~InQueue(t) /\ ~InFlight(t) /\ ~InDown(t)
    BY <1>1, <1>2, <2>6 DEF OnePlace
  <2> QED BY <2>1, <2>2, <2>3, <2>4, <2>5, <2>6
<1> QED BY <1>3, FS_Singleton

\* What a live page asked is in exactly one place, from its own buffer through the
\* ports and the coordinator to its answer, however owners come and go: no request is
\* lost, none is answered twice (coordinator-core.ts: request(), engineReady(),
\* engineResponse(), transitionToAbruptLoss(); coordinator-page-adapter.ts:
\* postMessage()).
THEOREM EachRequestOnce == Spec => []AnsweredOnce
BY OneOfThem, CacheInvariant, AskInvariant, PTL

=============================================================================
