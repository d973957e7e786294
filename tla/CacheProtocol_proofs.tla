------------------------ MODULE CacheProtocol_proofs ------------------------
(***************************************************************************)
(* No message between coordinator, pages and engines of the GraphQL cache  *)
(* meets a receiver in a state that takes it for a protocol error, for any *)
(* number of tabs, owners, failures and retries.                           *)
(***************************************************************************)
EXTENDS CacheRequests_proofs

USE DEF Kind, Action

-----------------------------------------------------------------------------
(* The inductive invariant *)

\* A message of kind k and epoch e is under way.
Holds(q, k, e) == \E m \in Contents(q) : m.kind = k /\ m.epoch = e

\* t is the owner of the current epoch e; the epochs t has had.
Now(t, e) == Owning /\ owner = t /\ epoch = e
Took(t)   == ended[t] \cup {own[t]}

\* What a page is told about its engine, and which of it begins or ends an epoch.
Calls(m)  == m.kind \in {"become", "terminate"}
Orders(m) == m.kind \in {"become", "terminate", "retire"}

\* In any port, m may come before n: epochs begin and end in turn, a port is attached
\* once per epoch, what happens once is said once, and nothing is asked after a drain.
InOrder(m, n) ==
    /\ Calls(m) /\ Calls(n) =>
         \/ m.epoch < n.epoch
         \/ m.epoch = n.epoch /\ m.kind = "become" /\ n.kind = "terminate"
    /\ m.kind = "attach" /\ n.kind = "attach" => m.epoch # n.epoch
    /\ m.kind \in {"register", "open", "assets", "ready"} => m.kind # n.kind
    /\ m.kind = "drain" => n.kind # "request"
Ordered(q) == \A i, j \in DOMAIN q : i < j => InOrder(q[i], q[j])

\* Pages to the coordinator: a page that has yet to be registered is not, a page that
\* navigates has gone, and an attached port is of an epoch the page has had, for
\* which there is no route yet.
Joining(t) == t \in tabs \/ t \in pending \/ Pending(up[t], "register")
Uplink(t) ==
    /\ Ordered(up[t]) /\ ~Pending(up[t], "drain")
    /\ Pending(up[t], "register") => t \notin pending
    /\ Pending(up[t], "register") \/ t \in pending => t \notin tabs
    /\ Pending(up[t], "navigate") => ~Live(t)
    /\ \A m \in Contents(up[t]) : m.kind = "attach" =>
         m.epoch \in Took(t) /\ m.epoch # 0 /\ (Now(t, m.epoch) => route = 0)
    /\ route # 0 /\ owner = t => epoch \in Took(t)

\* The coordinator to pages: an epoch begins after those the page has had, and ends
\* unless it is the current one; it ends after it began; a page that is to retire has
\* nothing else to expect.
Fits(t, m) ==
    /\ m.kind = "become" =>
         /\ \A e \in Took(t) : e < m.epoch
         /\ Now(t, m.epoch) \/ Holds(down[t], "terminate", m.epoch)
    /\ m.kind = "terminate" =>
         /\ Holds(down[t], "become", m.epoch) \/ m.epoch \in Took(t)
         /\ own[t] <= m.epoch /\ m.epoch <= epoch /\ ~(Owning /\ epoch = m.epoch)
    /\ m.kind = "retire" =>
         /\ own[t] = m.epoch /\ eng[t] = "drained" /\ ~Joining(t)
         /\ \A n \in Contents(down[t]) : ~Calls(n)

\* An engine that the coordinator does not count on any more will be told to go.
Leads(t) ==
    /\ own[t] # 0 =>
         /\ \A e \in ended[t] : e < own[t]
         /\ \/ Now(t, own[t])
            \/ Holds(down[t], "terminate", own[t])
            \/ Holds(down[t], "retire", own[t])
    /\ \A e \in ended[t] : e <= epoch
    /\ Owning /\ owner = t /\ Live(t) =>
         Holds(down[t], "become", epoch) \/ epoch \in Took(t)
    /\ \A m \in Contents(eup[t]) : m.kind = "drained" /\ Now(t, m.epoch) /\ Live(t) =>
         own[t] = m.epoch /\ eng[t] = "drained"

Script(t) ==
    /\ ~Live(t) => down[t] = <<>> /\ own[t] = 0
    /\ Ordered(down[t])
    /\ \A m \in Contents(down[t]) : Fits(t, m)
    /\ Leads(t)

\* The engine and its ports: there is one as long as the page has an epoch, it tells
\* the epoch it is of, and what it is told fits the state it is in.
Stuck == {"failed", "hung"}
Port(t) ==
    /\ own[t] = 0 <=> eng[t] = "none"
    /\ own[t] = 0 => edown[t] = <<>>
    /\ \A m \in Contents(eup[t]) :
         /\ own[t] # 0 => m.epoch = own[t]
         /\ own[t] = 0 => m.epoch \in ended[t] /\ \A e \in ended[t] : e <= m.epoch
    /\ Ordered(edown[t]) /\ Ordered(eup[t])
Runs(t) ==
    /\ Pending(edown[t], "open") => eng[t] \in Stuck \cup {"assets"}
    /\ Pending(eup[t], "assets") /\ own[t] # 0 =>
         eng[t] \in Stuck \cup {"assets"} /\ ~Pending(edown[t], "open")
    /\ Pending(edown[t], "request") => eng[t] \in Stuck \cup {"ready"}
    /\ Pending(eup[t], "ready") /\ own[t] # 0 =>
         eng[t] \in Stuck \cup {"ready", "draining", "drained"}

\* The engine of the current epoch and the coordinator's phase, and what it has told
\* the coordinator.
Phase(t) ==
    Owning /\ own[t] = epoch =>
        /\ eng[t] = "loading" => kind = "activating" /\ ~granted
        /\ Pending(edown[t], "open") => granted
        /\ eng[t] \in {"granted", "opening", "ready", "draining", "drained"} => granted
        /\ eng[t] \in {"granted", "opening"} => kind = "activating"
        /\ Pending(edown[t], "drain") \/ eng[t] \in {"draining", "drained"} => kind = "draining"
        /\ kind \in {"active", "draining"} => eng[t] \in Stuck \cup {"ready", "draining", "drained"}
Mail(t) ==
    Owning /\ owner = t => \A m \in Contents(eup[t]) : m.epoch = epoch =>
        /\ m.kind = "assets" => kind = "activating" /\ ~granted
        /\ m.kind = "ready" => kind = "activating" /\ granted
        /\ m.kind = "drained" => kind = "draining"
Works(t) == Port(t) /\ Runs(t) /\ Phase(t) /\ Mail(t)

ProtocolInv ==
    /\ granted => route # 0
    /\ \A t \in Tab : Uplink(t) /\ Script(t) /\ Works(t)

-----------------------------------------------------------------------------
(* Order within a port *)

\* An empty port.
LEMMA NoneOrdered == Ordered(<<>>) /\ Contents(<<>>) = {}
BY DEF Ordered, Contents

\* A message of a kind is one of the contents.
LEMMA PendingIs ==
    ASSUME NEW q, NEW k
    PROVE  Pending(q, k) <=> \E m \in Contents(q) : m.kind = k
BY DEF Pending, Contents

\* Something is appended.
LEMMA OrderAppend ==
    ASSUME NEW q \in Seq(Message), NEW m \in Message, Ordered(q),
           \A n \in Contents(q) : InOrder(n, m)
    PROVE  Ordered(Append(q, m))
<1>1. Len(Append(q, m)) = Len(q) + 1 /\ Len(q) \in Nat
      /\ (\A i \in 1..Len(q) : Append(q, m)[i] = q[i])
      /\ Append(q, m)[Len(q) + 1] = m
      /\ DOMAIN q = 1..Len(q) /\ DOMAIN Append(q, m) = 1..(Len(q) + 1)
  OBVIOUS
<1>2. ASSUME NEW i \in DOMAIN Append(q, m), NEW j \in DOMAIN Append(q, m), i < j
      PROVE  InOrder(Append(q, m)[i], Append(q, m)[j])
  <2>1. i \in 1..Len(q)
    BY <1>1, <1>2
  <2>2. CASE j = Len(q) + 1
    <3>1. q[i] \in Contents(q)
      BY <1>1, <2>1 DEF Contents
    <3> QED BY <1>1, <2>1, <2>2, <3>1
  <2>3. CASE j # Len(q) + 1
    <3>1. j \in 1..Len(q)
      BY <1>1, <2>3
    <3>2. InOrder(q[i], q[j])
      BY <1>1, <1>2, <2>1, <3>1 DEF Ordered
    <3> QED BY <1>1, <2>1, <3>1, <3>2
  <2> QED BY <2>2, <2>3
<1> QED BY <1>2 DEF Ordered

\* The head is taken: everything else was behind it.
LEMMA OrderTail ==
    ASSUME NEW q \in Seq(Message), q # <<>>
    PROVE  /\ Contents(q) = {Head(q)} \cup Contents(Tail(q))
           /\ Head(q) \in Message /\ Tail(q) \in Seq(Message)
           /\ Ordered(q) => Ordered(Tail(q)) /\ \A m \in Contents(Tail(q)) : InOrder(Head(q), m)
<1>1. /\ Tail(q) \in Seq(Message) /\ Len(Tail(q)) = Len(q) - 1 /\ Len(q) \in Nat /\ Len(q) > 0
      /\ \A i \in 1..Len(Tail(q)) : Tail(q)[i] = q[i + 1]
      /\ Head(q) = q[1] /\ DOMAIN q = 1..Len(q) /\ DOMAIN Tail(q) = 1..Len(Tail(q))
  OBVIOUS
<1>2. Head(q) \in Message /\ Head(q) \in Contents(q) /\ Contents(Tail(q)) \subseteq Contents(q)
  BY <1>1, Taking
<1>3. ASSUME NEW i \in DOMAIN q PROVE q[i] \in {Head(q)} \cup Contents(Tail(q))
  <2>1. CASE i = 1
    BY <1>1, <2>1
  <2>2. CASE i # 1
    <3>1. i - 1 \in 1..Len(Tail(q)) /\ (i - 1) + 1 = i
      BY <1>1, <2>2
    <3>2. Tail(q)[i - 1] = q[i]
      BY <1>1, <3>1
    <3> QED BY <1>1, <3>1, <3>2 DEF Contents
  <2> QED BY <2>1, <2>2
<1>4. Contents(q) = {Head(q)} \cup Contents(Tail(q))
  BY <1>2, <1>3 DEF Contents
<1>5. ASSUME Ordered(q), NEW i \in DOMAIN Tail(q)
      PROVE  InOrder(Head(q), Tail(q)[i])
  <2>1. i + 1 \in DOMAIN q /\ 1 \in DOMAIN q /\ 1 < i + 1 /\ Tail(q)[i] = q[i + 1]
    BY <1>1
  <2>2. InOrder(q[1], q[i + 1])
    BY <1>5, <2>1 DEF Ordered
  <2> QED BY <1>1, <2>1, <2>2
<1>6. ASSUME Ordered(q), NEW i \in DOMAIN Tail(q), NEW j \in DOMAIN Tail(q), i < j
      PROVE  InOrder(Tail(q)[i], Tail(q)[j])
  <2>1. /\ i + 1 \in DOMAIN q /\ j + 1 \in DOMAIN q /\ i + 1 < j + 1
        /\ Tail(q)[i] = q[i + 1] /\ Tail(q)[j] = q[j + 1]
    BY <1>1, <1>6
  <2>2. InOrder(q[i + 1], q[j + 1])
    BY <1>6, <2>1 DEF Ordered
  <2> QED BY <2>1, <2>2
<1>7. Ordered(q) => Ordered(Tail(q))
  BY <1>6 DEF Ordered
<1>8. Ordered(q) => \A m \in Contents(Tail(q)) : InOrder(Head(q), m)
  BY <1>5 DEF Contents
<1> QED BY <1>1, <1>2, <1>4, <1>7, <1>8

\* Two in a row.
LEMMA OrderJoin ==
    ASSUME NEW q \in Seq(Message), NEW r \in Seq(Message)
    PROVE  /\ q \o r \in Seq(Message) /\ Contents(q \o r) = Contents(q) \cup Contents(r)
           /\ Ordered(q) /\ Ordered(r) /\ (\A m \in Contents(q), n \in Contents(r) : InOrder(m, n))
                => Ordered(q \o r)
<1>1. /\ q \o r \in Seq(Message)
      /\ Len(q) \in Nat /\ Len(r) \in Nat
      /\ DOMAIN q = 1..Len(q) /\ DOMAIN r = 1..Len(r) /\ DOMAIN (q \o r) = 1..(Len(q) + Len(r))
      /\ \A i \in 1..(Len(q) + Len(r)) :
            (q \o r)[i] = IF i <= Len(q) THEN q[i] ELSE r[i - Len(q)]
  OBVIOUS
<1>2. PICK w : w = q \o r
  OBVIOUS
<1>3. /\ w \in Seq(Message) /\ DOMAIN w = 1..(Len(q) + Len(r))
      /\ \A i \in 1..(Len(q) + Len(r)) : i <= Len(q) => i \in DOMAIN q /\ w[i] = q[i]
      /\ \A i \in 1..(Len(q) + Len(r)) : ~(i <= Len(q)) => i - Len(q) \in DOMAIN r /\ w[i] = r[i - Len(q)]
  BY <1>1, <1>2
<1>4. Contents(w) \subseteq Contents(q) \cup Contents(r)
  BY <1>2, Joined
<1>5. ASSUME NEW i \in DOMAIN q PROVE q[i] \in Contents(w)
  <2>1. i \in 1..(Len(q) + Len(r)) /\ i <= Len(q)
    BY <1>1
  <2> QED BY <1>3, <2>1 DEF Contents
<1>6. ASSUME NEW i \in DOMAIN r PROVE r[i] \in Contents(w)
  <2>1. Len(q) + i \in 1..(Len(q) + Len(r)) /\ ~(Len(q) + i <= Len(q))
        /\ (Len(q) + i) - Len(q) = i
    BY <1>1
  <2>2. w[Len(q) + i] = r[i]
    BY <1>3, <2>1
  <2> QED BY <1>3, <2>1, <2>2 DEF Contents
<1>7. Contents(q) \cup Contents(r) \subseteq Contents(w)
  BY <1>5, <1>6 DEF Contents
<1>8. ASSUME Ordered(q), Ordered(r), \A m \in Contents(q), n \in Contents(r) : InOrder(m, n),
             NEW i \in DOMAIN w, NEW j \in DOMAIN w, i < j
      PROVE  InOrder(w[i], w[j])
  <2>0. i \in 1..(Len(q) + Len(r)) /\ j \in 1..(Len(q) + Len(r))
    BY <1>3
  <2>1. CASE j <= Len(q)
    <3>1. i <= Len(q)
      BY <1>1, <1>8, <2>0, <2>1
    <3>2. i \in DOMAIN q /\ j \in DOMAIN q /\ w[i] = q[i] /\ w[j] = q[j]
      BY <1>3, <2>0, <2>1, <3>1
    <3> QED BY <1>8, <3>2 DEF Ordered
  <2>2. CASE ~(j <= Len(q)) /\ i <= Len(q)
    <3>1. i \in DOMAIN q /\ j - Len(q) \in DOMAIN r /\ w[i] = q[i] /\ w[j] = r[j - Len(q)]
      BY <1>3, <2>0, <2>2
    <3>2. q[i] \in Contents(q) /\ r[j - Len(q)] \in Contents(r)
      BY <3>1 DEF Contents
    <3> QED BY <1>8, <3>1, <3>2
  <2>3. CASE ~(j <= Len(q)) /\ ~(i <= Len(q))
    <3>1. i - Len(q) \in DOMAIN r /\ j - Len(q) \in DOMAIN r
          /\ w[i] = r[i - Len(q)] /\ w[j] = r[j - Len(q)]
      BY <1>3, <2>0, <2>3
    <3>2. i - Len(q) < j - Len(q)
      BY <1>1, <1>8, <2>0
    <3> QED BY <1>8, <3>1, <3>2 DEF Ordered
  <2> QED BY <2>1, <2>2, <2>3
<1>9. Ordered(q) /\ Ordered(r) /\ (\A m \in Contents(q), n \in Contents(r) : InOrder(m, n))
        => Ordered(w)
  BY <1>8 DEF Ordered
<1> QED BY <1>1, <1>2, <1>4, <1>7, <1>9

-----------------------------------------------------------------------------
(* What the coordinator posts: news that is no order, or one order *)

News(m)   == m.kind \in {"registered", "answer", "terminal"}
Silent(n) == n \in Seq(Message) /\ \A m \in Contents(n) : News(m)
Brings(n, k, e) ==
    /\ n \in Seq(Message) /\ Ordered(n) /\ Holds(n, k, e)
    /\ \A m \in Contents(n) : News(m) \/ (m.kind = k /\ m.epoch = e)

\* News may come anywhere.
LEMMA NewsInOrder == ASSUME NEW m, NEW n, News(n) PROVE InOrder(m, n)
BY DEF News, InOrder, Calls

\* So may anything come after news.
LEMMA AfterNews == ASSUME NEW m, NEW n, News(m) PROVE InOrder(m, n)
BY DEF News, InOrder, Calls

\* News alone is in order.
LEMMA SilentOrdered == ASSUME NEW n, Silent(n) PROVE Ordered(n)
<1>1. ASSUME NEW i \in DOMAIN n, NEW j \in DOMAIN n PROVE InOrder(n[i], n[j])
  BY NewsInOrder DEF Silent, Contents
<1> QED BY <1>1 DEF Ordered

\* Optional news, and news in a row.
LEMMA SilentNone == Silent(<<>>)
BY NoneOrdered DEF Silent

\* An optional message that is news.
LEMMA SilentIf == ASSUME NEW b, NEW m \in Message, News(m) PROVE Silent(If(b, m))
BY Optional DEF Silent

\* Nothing is said.
LEMMA SilentNot == ASSUME NEW b, NEW m \in Message, ~b PROVE Silent(If(b, m))
BY Optional DEF Silent

\* News in a row.
LEMMA SilentJoin == ASSUME NEW p, NEW q, Silent(p), Silent(q) PROVE Silent(p \o q)
BY OrderJoin DEF Silent

\* An order alone, ...
LEMMA BringsIf ==
    ASSUME NEW b, NEW m \in Message, NEW k, NEW e, b, m.kind = k, m.epoch = e
    PROVE  Brings(If(b, m), k, e)
<1>1. If(b, m) = <<m>>
  BY DEF If
<1>2. <<m>> \in Seq(Message) /\ DOMAIN <<m>> = 1..1 /\ <<m>>[1] = m
  OBVIOUS
<1>3. PICK w : w = <<m>>
  OBVIOUS
<1>4. w \in Seq(Message) /\ DOMAIN w = 1..1 /\ w[1] = m
  BY <1>2, <1>3
<1>5. Contents(w) = {m} /\ Ordered(w)
  BY <1>4 DEF Contents, Ordered
<1> QED BY <1>1, <1>3, <1>4, <1>5 DEF Brings, Holds

\* ... before news and after it.
LEMMA BringsJoin ==
    ASSUME NEW p, NEW q, NEW k, NEW e,
           (Brings(p, k, e) /\ Silent(q)) \/ (Silent(p) /\ Brings(q, k, e))
    PROVE  Brings(p \o q, k, e)
<1>1. p \in Seq(Message) /\ q \in Seq(Message) /\ Ordered(p) /\ Ordered(q)
  BY SilentOrdered DEF Brings, Silent
<1>2. \A m \in Contents(p), n \in Contents(q) : InOrder(m, n)
  BY NewsInOrder, AfterNews DEF Brings, Silent
<1>3. p \o q \in Seq(Message) /\ Contents(p \o q) = Contents(p) \cup Contents(q)
      /\ Ordered(p \o q)
  BY <1>1, <1>2, OrderJoin
<1>4. PICK w : w = p \o q
  OBVIOUS
<1>5. w \in Seq(Message) /\ Contents(w) = Contents(p) \cup Contents(q) /\ Ordered(w)
  BY <1>3, <1>4
<1>6. Brings(w, k, e)
  BY <1>5 DEF Brings, Silent, Holds
<1> QED BY <1>4, <1>6

\* What a live page has in its port after that.
LEMMA HearsAll ==
    ASSUME PortTypes, NEW s \in Tab, NEW n, Hears(s, n), Live(s)
    PROVE  Contents(down'[s]) = Contents(down[s]) \cup Contents(n)
BY OrderJoin DEF Hears, PortTypes

\* News keeps the order.
LEMMA HearsSilent ==
    ASSUME PortTypes, NEW s \in Tab, NEW n, Hears(s, n), Live(s), Silent(n), Ordered(down[s])
    PROVE  Ordered(down'[s])
<1>1. \A m \in Contents(down[s]), x \in Contents(n) : InOrder(m, x)
  BY NewsInOrder DEF Silent
<1>2. down[s] \in Seq(Message) /\ n \in Seq(Message) /\ Ordered(n)
  BY SilentOrdered DEF PortTypes, Silent
<1>3. Ordered(down[s] \o n)
  BY <1>1, <1>2, OrderJoin
<1> QED BY <1>3 DEF Hears

\* An order keeps it when it is in turn.
LEMMA HearsOrder ==
    ASSUME PortTypes, NEW s \in Tab, NEW n, Hears(s, n), Live(s), NEW k, NEW e,
           k \in {"become", "terminate", "retire"}, Brings(n, k, e), Ordered(down[s]),
           k # "retire" => \A m \in Contents(down[s]) : Calls(m) =>
               \/ m.epoch < e
               \/ m.epoch = e /\ m.kind = "become" /\ k = "terminate"
    PROVE  Ordered(down'[s])
<1>1. ASSUME NEW m \in Contents(down[s]), NEW x \in Contents(n)
      PROVE  InOrder(m, x)
  <2>1. CASE News(x)
    BY <2>1, NewsInOrder
  <2>2. CASE x.kind = k /\ x.epoch = e
    BY <2>2 DEF InOrder, Calls
  <2> QED BY <2>1, <2>2 DEF Brings
<1>2. down[s] \in Seq(Message) /\ n \in Seq(Message) /\ Ordered(n)
  BY DEF PortTypes, Brings
<1>3. Ordered(down[s] \o n)
  BY <1>1, <1>2, OrderJoin
<1> QED BY <1>3 DEF Hears

-----------------------------------------------------------------------------
(* The script of a page, step by step *)

\* A step leaves the page alone, ...
PageKept(s) ==
    /\ Live(s)' <=> Live(s)
    /\ own'[s] = own[s] /\ ended'[s] = ended[s] /\ (eng[s] = "drained" => eng'[s] = "drained")
    /\ Joining(s)' => Joining(s)
    /\ \A m \in Contents(eup'[s]) : m.kind = "drained" =>
         m \in Contents(eup[s]) \/ (m.epoch = own[s] /\ eng'[s] = "drained")

\* ... tells it nothing of its engine, ...
DownKept(s) ==
    /\ ~Live(s) => down'[s] = down[s]
    /\ Ordered(down[s]) => Ordered(down'[s])
    /\ \A m : Orders(m) => (m \in Contents(down'[s]) <=> m \in Contents(down[s]))

\* ... and has the owner lost or elected elsewhere.
Elsewhere(s) ==
    /\ Owning /\ owner = s => Owning' /\ owner' = s /\ epoch' = epoch
    /\ Owning' /\ owner' = s => Owning /\ owner = s /\ epoch' = epoch
    /\ epoch' \in Nat /\ epoch' >= epoch
    /\ Owning' /\ epoch' = epoch => Owning

\* News leaves the orders alone.
LEMMA SilentDown ==
    ASSUME PortTypes, NEW s \in Tab, NEW n, Hears(s, n), Silent(n) PROVE DownKept(s)
<1>1. CASE ~Live(s)
  BY <1>1 DEF DownKept, Hears
<1>2. CASE Live(s)
  <2>1. Contents(down'[s]) = Contents(down[s]) \cup Contents(n)
    BY <1>2, HearsAll
  <2>2. Ordered(down[s]) => Ordered(down'[s])
    BY <1>2, HearsSilent
  <2>3. \A m : Orders(m) => m \notin Contents(n)
    BY DEF Silent, News, Orders
  <2> QED BY <1>2, <2>1, <2>2, <2>3 DEF DownKept
<1> QED BY <1>1, <1>2

\* Messages have epochs.
LEMMA MessageEpochs ==
    ASSUME NEW q \in Seq(Message) PROVE \A m \in Contents(q) : m \in Message /\ m.epoch \in Nat
<1>1. \A i \in DOMAIN q : q[i] \in Message
  OBVIOUS
<1> QED BY <1>1 DEF Contents, Message

\* Types and bounds of a tab's state.
LEMMA Facts ==
    ASSUME CacheInv, NEW s \in Tab
    PROVE  /\ PortTypes /\ epoch \in Nat /\ own[s] \in Nat /\ ended[s] \subseteq Nat
           /\ up[s] \in Seq(Message) /\ down[s] \in Seq(Message)
           /\ eup[s] \in Seq(Message) /\ edown[s] \in Seq(Message)
           /\ \A m \in Contents(up[s]) : m.epoch \in Nat
           /\ \A m \in Contents(down[s]) : m.epoch \in Nat
           /\ \A m \in Contents(eup[s]) : m.epoch \in Nat /\ m.epoch <= epoch
           /\ own[s] <= epoch /\ (own[s] = epoch /\ epoch # 0 => owner = s)
           /\ Owning => epoch # 0 /\ owner \in tabs /\ owner \in Tab
           /\ \A m \in Contents(down[s]) : m.kind = "become" => m.epoch # 0 /\ m.epoch <= epoch
<1>1. /\ PortTypes /\ epoch \in Nat /\ own[s] \in Nat /\ ended[s] \subseteq Nat
      /\ tabs \subseteq Tab
  BY DEF CacheInv, CoordInv, CoreTypes, PageTypes
<1>2. /\ up[s] \in Seq(Message) /\ down[s] \in Seq(Message)
      /\ eup[s] \in Seq(Message) /\ edown[s] \in Seq(Message)
  BY <1>1 DEF PortTypes
<1>3. /\ \A m \in Contents(up[s]) : m.epoch \in Nat
      /\ \A m \in Contents(down[s]) : m.epoch \in Nat
      /\ \A m \in Contents(eup[s]) : m.epoch \in Nat
  BY <1>2, MessageEpochs
<1>4. /\ own[s] <= epoch /\ (own[s] = epoch /\ epoch # 0 => owner = s)
      /\ Owning => epoch # 0
      /\ \A m \in Contents(eup[s]) : m.epoch <= epoch
      /\ \A m \in Contents(down[s]) : m.kind = "become" => m.epoch # 0 /\ m.epoch <= epoch
  BY DEF CacheInv, WipeInv, EpochsOwned, DutyKept, DutyDone, ElectionsFresh
<1>5. Owning => owner \in tabs
  BY DEF CacheInv, CoordInv, RouteInv, Owning
<1> QED BY <1>1, <1>2, <1>3, <1>4, <1>5

\* Nothing of this concerns the page.
LEMMA ScriptKept ==
    ASSUME CacheInv, NEW s \in Tab, Script(s), PageKept(s), DownKept(s), Elsewhere(s)
    PROVE  Script(s)'
<1>0. epoch \in Nat /\ own[s] \in Nat /\ ended[s] \subseteq Nat /\ down[s] \in Seq(Message)
      /\ \A m \in Contents(down[s]) : m.epoch \in Nat
  BY Facts
<1>1. Took(s)' = Took(s) /\ own'[s] = own[s] /\ ended'[s] = ended[s]
  BY DEF Took, PageKept
<1>2. ASSUME NEW k \in {"become", "terminate", "retire"}, NEW e
      PROVE  Holds(down'[s], k, e) <=> Holds(down[s], k, e)
  BY DEF DownKept, Holds, Orders
<1>3. ASSUME NEW e PROVE Now(s, e)' <=> Now(s, e)
  BY DEF Elsewhere, Now
<1>4. ASSUME NEW m \in Contents(down'[s]) PROVE Fits(s, m)'
  <2>1. CASE ~Orders(m)
    BY <2>1 DEF Fits, Orders
  <2>2. CASE Orders(m)
    <3>1. m \in Contents(down[s]) /\ Fits(s, m) /\ m.epoch \in Nat
      BY <1>0, <2>2 DEF DownKept, Script
    <3>2. CASE m.kind = "become"
      BY <1>1, <1>2, <1>3, <3>1, <3>2 DEF Fits
    <3>3. CASE m.kind = "terminate"
      <4>1. Holds(down'[s], "become", m.epoch) \/ m.epoch \in Took(s)'
        BY <1>1, <1>2, <3>1, <3>3 DEF Fits
      <4>2. own'[s] <= m.epoch /\ m.epoch <= epoch' /\ ~(Owning' /\ epoch' = m.epoch)
        BY <1>0, <1>1, <3>1, <3>3 DEF Fits, Elsewhere
      <4> QED BY <3>3, <4>1, <4>2 DEF Fits
    <3>4. CASE m.kind = "retire"
      <4>1. own[s] = m.epoch /\ eng[s] = "drained" /\ ~Joining(s)
            /\ \A n \in Contents(down[s]) : ~Calls(n)
        BY <3>1, <3>4 DEF Fits
      <4>2. \A n \in Contents(down'[s]) : ~Calls(n)
        BY <4>1 DEF DownKept, Calls, Orders
      <4> QED BY <3>4, <4>1, <4>2 DEF Fits, PageKept
    <3> QED BY <2>2, <3>2, <3>3, <3>4 DEF Orders
  <2> QED BY <2>1, <2>2
<1>5. Leads(s)'
  <2>0. Leads(s)
    BY DEF Script
  <2>1. own'[s] # 0 =>
          /\ \A e \in ended'[s] : e < own'[s]
          /\ \/ Now(s, own[s])'
             \/ Holds(down'[s], "terminate", own[s])
             \/ Holds(down'[s], "retire", own[s])
    BY <1>1, <1>2, <1>3, <2>0 DEF Leads
  <2>2. \A e \in ended'[s] : e <= epoch'
    BY <1>0, <1>1, <2>0 DEF Leads, Elsewhere
  <2>3. Owning' /\ owner' = s /\ Live(s)' => Holds(down'[s], "become", epoch') \/ epoch' \in Took(s)'
    BY <1>1, <1>2, <2>0 DEF Leads, Elsewhere, PageKept
  <2>4. ASSUME NEW m \in Contents(eup'[s]), m.kind = "drained", Now(s, m.epoch)', Live(s)'
        PROVE  own'[s] = m.epoch /\ eng'[s] = "drained"
    BY <1>1, <1>3, <2>0, <2>4 DEF Leads, PageKept
  <2> QED BY <1>1, <2>1, <2>2, <2>3, <2>4 DEF Leads
<1>6. ~Live(s)' => down'[s] = <<>> /\ own'[s] = 0
  BY <1>1 DEF Script, PageKept, DownKept
<1>7. Ordered(down'[s])
  BY DEF Script, DownKept
<1> QED BY <1>4, <1>5, <1>6, <1>7 DEF Script

\* A page that has gone.
LEMMA ScriptGone ==
    ASSUME NEW s \in Tab, ~Live(s)', down'[s] = <<>>, own'[s] = 0,
           \A e \in ended'[s] : e <= epoch'
    PROVE  Script(s)'
<1>1. Ordered(down'[s]) /\ Contents(down'[s]) = {}
  BY NoneOrdered
<1>2. Leads(s)'
  BY DEF Leads
<1> QED BY <1>1, <1>2 DEF Script

\* The owner is lost: it will be told that its epoch is over.
LEMMA ScriptLost ==
    ASSUME CacheInv, NEW s \in Tab, Script(s), PageKept(s), Owning, owner = s, ~Owning',
           epoch' = epoch, NEW n, Hears(s, n), Brings(n, "terminate", epoch)
    PROVE  Script(s)'
<1>0. epoch \in Nat /\ own[s] \in Nat /\ ended[s] \subseteq Nat /\ PortTypes
      /\ (\A m \in Contents(down[s]) : m.epoch \in Nat) /\ own[s] <= epoch
  BY Facts
<1>1. Took(s)' = Took(s) /\ own'[s] = own[s] /\ ended'[s] = ended[s]
  BY DEF Took, PageKept
<1>2. Leads(s)
  BY DEF Script
<1>3. CASE ~Live(s)
  <2>1. down'[s] = <<>> /\ own'[s] = 0 /\ ~Live(s)'
    BY <1>1, <1>3 DEF Script, Hears, PageKept
  <2> QED BY <1>1, <1>2, <2>1, ScriptGone DEF Leads
<1>4. CASE Live(s)
  <2>1. Contents(down'[s]) = Contents(down[s]) \cup Contents(n)
    BY <1>0, <1>4, HearsAll
  <2>2. ASSUME NEW m \in Contents(down[s]), Calls(m)
        PROVE  m.epoch < epoch \/ (m.epoch = epoch /\ m.kind = "become")
    <3>1. Fits(s, m) /\ m.epoch \in Nat
      BY <1>0 DEF Script
    <3>2. CASE m.kind = "terminate"
      BY <1>0, <3>1, <3>2 DEF Fits
    <3>3. CASE m.kind = "become"
      <4>1. m.epoch <= epoch
        BY <3>3 DEF CacheInv, WipeInv, ElectionsFresh
      <4> QED BY <1>0, <3>1, <3>3, <4>1
    <3> QED BY <2>2, <3>2, <3>3 DEF Calls
  <2>3. Ordered(down'[s])
    BY <1>0, <1>4, <2>2, HearsOrder DEF Script
  <2>4. ASSUME NEW k, NEW e PROVE Holds(down[s], k, e) => Holds(down'[s], k, e)
    BY <2>1 DEF Holds
  <2>5. Holds(down'[s], "terminate", epoch)
    BY <2>1 DEF Brings, Holds
  <2>6. ASSUME NEW m \in Contents(down'[s]) PROVE Fits(s, m)'
    <3>1. CASE m \in Contents(down[s])
      <4>1. Fits(s, m) /\ m.epoch \in Nat
        BY <1>0, <3>1 DEF Script
      <4>2. CASE m.kind = "become"
        BY <1>1, <2>4, <2>5, <4>1, <4>2 DEF Fits, Now
      <4>3. CASE m.kind = "terminate"
        BY <1>1, <2>4, <4>1, <4>3 DEF Fits
      <4>4. CASE m.kind = "retire"
        <5>1. ~Joining(s)
          BY <4>1, <4>4 DEF Fits
        <5>2. s \in tabs
          BY DEF CacheInv, CoordInv, RouteInv, Owning
        <5> QED BY <5>1, <5>2 DEF Joining
      <4> QED BY <4>2, <4>3, <4>4 DEF Fits
    <3>2. CASE News(m)
      BY <3>2 DEF News, Fits
    <3>3. CASE m.kind = "terminate" /\ m.epoch = epoch
      <4>1. Holds(down[s], "become", epoch) \/ epoch \in Took(s)
        BY <1>2, <1>4 DEF Leads
      <4>2. Holds(down'[s], "become", m.epoch) \/ m.epoch \in Took(s)'
        BY <1>1, <2>4, <3>3, <4>1
      <4>3. own'[s] <= m.epoch /\ m.epoch <= epoch' /\ ~(Owning' /\ epoch' = m.epoch)
        BY <1>0, <1>1, <3>3
      <4> QED BY <3>3, <4>2, <4>3 DEF Fits
    <3> QED BY <2>1, <3>1, <3>2, <3>3 DEF Brings
  <2>7. Leads(s)'
    <3>1. own'[s] # 0 =>
            /\ \A e \in ended'[s] : e < own'[s]
            /\ Holds(down'[s], "terminate", own[s]) \/ Holds(down'[s], "retire", own[s])
      BY <1>1, <1>2, <2>4, <2>5 DEF Leads, Now
    <3>2. \A e \in ended'[s] : e <= epoch'
      BY <1>1, <1>2 DEF Leads
    <3> QED BY <1>1, <3>1, <3>2 DEF Leads, Now
  <2> QED BY <1>4, <2>3, <2>6, <2>7 DEF Script, PageKept
<1> QED BY <1>3, <1>4

\* The page is elected: it will be told, after all that it has been told before.
LEMMA ScriptElected ==
    ASSUME CacheInv, NEW s \in Tab, Script(s), PageKept(s), ~(Owning /\ owner = s), Owning',
           owner' = s, epoch' = epoch + 1, Joining(s)',
           NEW n, Hears(s, n), Brings(n, "become", epoch + 1)
    PROVE  Script(s)'
<1>0. epoch \in Nat /\ own[s] \in Nat /\ ended[s] \subseteq Nat /\ PortTypes
      /\ (\A m \in Contents(down[s]) : m.epoch \in Nat) /\ own[s] <= epoch
  BY Facts
<1>1. Took(s)' = Took(s) /\ own'[s] = own[s] /\ ended'[s] = ended[s]
  BY DEF Took, PageKept
<1>2. Leads(s)
  BY DEF Script
<1>3. CASE ~Live(s)
  <2>1. down'[s] = <<>> /\ own'[s] = 0 /\ ~Live(s)'
    BY <1>1, <1>3 DEF Script, Hears, PageKept
  <2>2. \A e \in ended'[s] : e <= epoch'
    BY <1>0, <1>1, <1>2 DEF Leads
  <2> QED BY <2>1, <2>2, ScriptGone
<1>4. CASE Live(s)
  <2>1. Contents(down'[s]) = Contents(down[s]) \cup Contents(n)
    BY <1>0, <1>4, HearsAll
  <2>2. ASSUME NEW m \in Contents(down[s]), Calls(m)
        PROVE  m.epoch < epoch + 1
    <3>1. m.epoch <= epoch
      BY <2>2, Facts DEF Script, Fits, Calls
    <3> QED BY <1>0, <3>1
  <2>3. Ordered(down'[s])
    BY <1>0, <1>4, <2>2, HearsOrder DEF Script
  <2>4. ASSUME NEW k, NEW e PROVE Holds(down[s], k, e) => Holds(down'[s], k, e)
    BY <2>1 DEF Holds
  <2>5. Holds(down'[s], "become", epoch')
    BY <2>1 DEF Brings, Holds
  <2>6. ASSUME NEW m \in Contents(down'[s]) PROVE Fits(s, m)'
    <3>1. CASE m \in Contents(down[s])
      <4>1. Fits(s, m) /\ m.epoch \in Nat
        BY <1>0, <3>1 DEF Script
      <4>2. CASE m.kind = "become"
        BY <1>1, <2>4, <4>1, <4>2 DEF Fits, Now
      <4>3. CASE m.kind = "terminate"
        <5>1. Holds(down'[s], "become", m.epoch) \/ m.epoch \in Took(s)'
          BY <1>1, <2>4, <4>1, <4>3 DEF Fits
        <5>2. own'[s] <= m.epoch /\ m.epoch <= epoch' /\ ~(Owning' /\ epoch' = m.epoch)
          BY <1>0, <1>1, <4>1, <4>3 DEF Fits
        <5> QED BY <4>3, <5>1, <5>2 DEF Fits
      <4>4. CASE m.kind = "retire"
        BY <4>1, <4>4 DEF Fits, PageKept
      <4> QED BY <4>2, <4>3, <4>4 DEF Fits
    <3>2. CASE News(m)
      BY <3>2 DEF News, Fits
    <3>3. CASE m.kind = "become" /\ m.epoch = epoch + 1
      <4>1. \A e \in Took(s)' : e < m.epoch
        BY <1>0, <1>1, <1>2, <3>3 DEF Took, Leads
      <4>2. Now(s, m.epoch)'
        BY <3>3 DEF Now
      <4> QED BY <3>3, <4>1, <4>2 DEF Fits
    <3> QED BY <2>1, <3>1, <3>2, <3>3 DEF Brings
  <2>7. Leads(s)'
    <3>1. own'[s] # 0 =>
            /\ \A e \in ended'[s] : e < own'[s]
            /\ Holds(down'[s], "terminate", own[s]) \/ Holds(down'[s], "retire", own[s])
      BY <1>1, <1>2, <2>4 DEF Leads, Now
    <3>2. \A e \in ended'[s] : e <= epoch'
      BY <1>0, <1>1, <1>2 DEF Leads
    <3>3. ASSUME NEW m \in Contents(eup'[s]), m.kind = "drained", Now(s, m.epoch)'
          PROVE  FALSE
      <4>1. m \in Contents(eup[s]) \/ m.epoch = own[s]
        BY <3>3 DEF PageKept
      <4>2. m.epoch <= epoch /\ m.epoch = epoch + 1
        BY <1>0, <3>3, <4>1, Facts DEF Now
      <4> QED BY <1>0, <4>2
    <3> QED BY <1>1, <2>5, <3>1, <3>2, <3>3 DEF Leads
  <2> QED BY <1>4, <2>3, <2>6, <2>7 DEF Script, PageKept
<1> QED BY <1>3, <1>4

\* The owner has drained: it will be told to retire, and nothing else any more.
LEMMA ScriptRetires ==
    ASSUME CacheInv, NEW s \in Tab, Script(s), PageKept(s), Owning, owner = s,
           ~(Owning' /\ owner' = s), epoch' \in Nat, epoch' >= epoch,
           ~Joining(s)', Live(s) => own[s] = epoch /\ eng[s] = "drained",
           NEW n, Hears(s, n), Brings(n, "retire", epoch)
    PROVE  Script(s)'
<1>0. epoch \in Nat /\ own[s] \in Nat /\ ended[s] \subseteq Nat /\ PortTypes
      /\ (\A m \in Contents(down[s]) : m.epoch \in Nat) /\ own[s] <= epoch
  BY Facts
<1>1. Took(s)' = Took(s) /\ own'[s] = own[s] /\ ended'[s] = ended[s]
  BY DEF Took, PageKept
<1>2. Leads(s)
  BY DEF Script
<1>3. CASE ~Live(s)
  <2>1. down'[s] = <<>> /\ own'[s] = 0 /\ ~Live(s)'
    BY <1>1, <1>3 DEF Script, Hears, PageKept
  <2>2. \A e \in ended'[s] : e <= epoch'
    BY <1>0, <1>1, <1>2 DEF Leads
  <2> QED BY <2>1, <2>2, ScriptGone
<1>4. CASE Live(s)
  <2>0. own[s] = epoch /\ eng[s] = "drained" /\ eng'[s] = "drained"
    BY <1>4 DEF PageKept
  <2>1. Contents(down'[s]) = Contents(down[s]) \cup Contents(n)
    BY <1>0, <1>4, HearsAll
  <2>2. ASSUME NEW m \in Contents(down[s]) PROVE ~Calls(m)
    <3>1. Fits(s, m) /\ m.epoch \in Nat
      BY <1>0 DEF Script
    <3>2. m.kind # "terminate"
      BY <1>0, <2>0, <3>1 DEF Fits
    <3>3. m.kind # "become"
      <4>1. m.kind = "become" => m.epoch <= epoch
        BY Facts
      <4>2. m.kind = "become" => own[s] < m.epoch
        BY <3>1 DEF Fits, Took
      <4> QED BY <1>0, <2>0, <3>1, <4>1, <4>2
    <3> QED BY <3>2, <3>3 DEF Calls
  <2>3. Ordered(down'[s])
    BY <1>0, <1>4, HearsOrder DEF Script
  <2>4. Holds(down'[s], "retire", epoch)
    BY <2>1 DEF Brings, Holds
  <2>5. \A m \in Contents(down'[s]) : ~Calls(m)
    BY <2>1, <2>2 DEF Brings, News, Calls
  <2>6. ASSUME NEW m \in Contents(down'[s]) PROVE Fits(s, m)'
    <3>1. CASE m.kind = "retire"
      <4>1. m.epoch = own[s]
        <5>1. CASE m \in Contents(down[s])
          BY <3>1, <5>1 DEF Script, Fits
        <5>2. CASE m \in Contents(n)
          BY <2>0, <3>1, <5>2 DEF Brings, News
        <5> QED BY <2>1, <5>1, <5>2
      <4> QED BY <1>1, <2>0, <2>5, <3>1, <4>1 DEF Fits
    <3>2. CASE m.kind # "retire"
      BY <2>5, <3>2 DEF Fits, Calls
    <3> QED BY <3>1, <3>2
  <2>7. Leads(s)'
    <3>1. \A e \in ended'[s] : e <= epoch'
      BY <1>0, <1>1, <1>2 DEF Leads
    <3>2. own[s] # 0 => \A e \in ended[s] : e < own[s]
      BY <1>2 DEF Leads
    <3> QED BY <1>1, <2>0, <2>4, <3>1, <3>2 DEF Leads, Now
  <2> QED BY <1>4, <2>3, <2>6, <2>7 DEF Script, PageKept
<1> QED BY <1>3, <1>4

-----------------------------------------------------------------------------
(* Steps of the page *)

SameOwner == UNCHANGED <<kind, owner, epoch>>

\* The same owner of the same epoch.
LEMMA SameElsewhere ==
    ASSUME SameOwner, epoch \in Nat, NEW s PROVE Elsewhere(s)
BY DEF SameOwner, Elsewhere, Owning

\* A page that hears something else.
LEMMA TailDown ==
    ASSUME PortTypes, NEW s \in Tab, Live(s), down[s] # <<>>, ~Orders(Head(down[s])),
           down'[s] = Tail(down[s])
    PROVE  DownKept(s)
<1>1. down[s] \in Seq(Message)
  BY DEF PortTypes
<1>2. /\ Contents(down[s]) = {Head(down[s])} \cup Contents(Tail(down[s]))
      /\ Ordered(down[s]) => Ordered(Tail(down[s]))
  BY <1>1, OrderTail
<1> QED BY <1>2 DEF DownKept

\* The page begins.
LEMMA StartScript ==
    ASSUME CacheInv, AskInv, ProtocolInv, NEW t \in Tab, Start(t) PROVE Script(t)'
<1>1. page[t] = "off" /\ page' = [page EXCEPT ![t] = "starting"]
      /\ UNCHANGED <<kind, owner, epoch, own, ended, eng, eup, down>>
  BY DEF Start, core, engines, eports
<1>2. down[t] = <<>> /\ t \notin tabs
  BY <1>1 DEF AskInv, AskTab, Off
<1>3. Script(t) /\ own[t] = 0
  BY <1>1 DEF ProtocolInv, Script, Live
<1>4. ~(Owning /\ owner = t)
  BY <1>2, Facts
<1>5. Live(t)'
  <2>1. page'[t] = "starting"
    BY <1>1 DEF CacheInv, PageTypes
  <2> QED BY <2>1 DEF Live
<1>6. Ordered(down'[t]) /\ Contents(down'[t]) = {}
  BY <1>1, <1>2, NoneOrdered
<1>7. Leads(t)'
  <2>1. own'[t] = 0 /\ ~(Owning' /\ owner' = t) /\ ended' = ended /\ epoch' = epoch
    BY <1>1, <1>3, <1>4 DEF Owning
  <2>2. \A e \in ended[t] : e <= epoch
    BY <1>3 DEF Script, Leads
  <2> QED BY <2>1, <2>2 DEF Leads, Now
<1> QED BY <1>5, <1>6, <1>7 DEF Script

\* The page closes.
LEMMA CloseScript ==
    ASSUME CacheInv, ProtocolInv, NEW t \in Tab, ClosePage(t), SameOwner
    PROVE  Script(t)' /\ ~Live(t)' /\ own'[t] = 0 /\ eng'[t] = "none" /\ edown'[t] = <<>>
<1>1. /\ page \in [Tab -> Page] /\ down \in [Tab -> Seq(Message)] /\ own \in [Tab -> Nat]
      /\ ended \in [Tab -> SUBSET Nat] /\ eng \in [Tab -> Engine]
      /\ edown \in [Tab -> Seq(Message)]
  BY DEF CacheInv, PageTypes, PortTypes
<1>2. page'[t] = "closed" /\ down'[t] = <<>> /\ own'[t] = 0 /\ eng'[t] = "none"
      /\ edown'[t] = <<>> /\ ended'[t] \subseteq ended[t] \cup {own[t]}
  BY <1>1 DEF ClosePage, OwnerGone, EngineGone
<1>3. Leads(t) /\ own[t] <= epoch /\ epoch' = epoch
  BY Facts DEF ProtocolInv, Script, SameOwner
<1>4. \A e \in ended'[t] : e <= epoch'
  BY <1>2, <1>3 DEF Leads
<1>5. ~Live(t)'
  BY <1>2 DEF Live
<1> QED BY <1>2, <1>4, <1>5, ScriptGone

\* The worker fails, and the page says so.
LEMMA DropScript ==
    ASSUME CacheInv, ProtocolInv, NEW t \in Tab, OwnerGone(t), SameOwner, eng[t] # "drained",
           UNCHANGED <<page, down, eup>>
    PROVE  Script(t)'
<1>0. epoch \in Nat /\ own[t] \in Nat /\ ended[t] \subseteq Nat /\ own[t] <= epoch
      /\ \A m \in Contents(down[t]) : m.epoch \in Nat /\ (m.kind = "become" => m.epoch # 0)
  BY Facts
<1>1. own'[t] = 0 /\ ended'[t] = IF own[t] = 0 THEN ended[t] ELSE ended[t] \cup {own[t]}
  BY DEF OwnerGone, CacheInv, PageTypes
<1>2. Script(t) /\ Leads(t) /\ (Live(t)' <=> Live(t)) /\ Owning' = Owning
  BY DEF ProtocolInv, Script, Live, SameOwner, Owning
<1>3. Took(t) \subseteq Took(t)' /\ Took(t)' \subseteq Took(t) \cup {0}
  BY <1>1 DEF Took
<1>4. \A e : Now(t, e)' = Now(t, e)
  BY <1>2 DEF Now, SameOwner
<1>5. ASSUME NEW m \in Contents(down[t]) PROVE Fits(t, m)'
  <2>1. Fits(t, m) /\ m.epoch \in Nat
    BY <1>0, <1>2 DEF Script
  <2>2. CASE m.kind = "become"
    <3>1. \A e \in Took(t)' : e < m.epoch
      BY <1>0, <1>3, <2>1, <2>2 DEF Fits
    <3>2. Now(t, m.epoch)' \/ Holds(down[t], "terminate", m.epoch)
      BY <1>4, <2>1, <2>2 DEF Fits
    <3> QED BY <2>2, <3>1, <3>2 DEF Fits
  <2>3. CASE m.kind = "terminate"
    <3>1. Holds(down[t], "become", m.epoch) \/ m.epoch \in Took(t)'
      BY <1>3, <2>1, <2>3 DEF Fits
    <3>2. own'[t] <= m.epoch /\ m.epoch <= epoch' /\ ~(Owning' /\ epoch' = m.epoch)
      BY <1>1, <1>2, <2>1, <2>3 DEF Fits, SameOwner
    <3> QED BY <2>3, <3>1, <3>2 DEF Fits
  <2>4. CASE m.kind = "retire"
    BY <2>1, <2>4 DEF Fits
  <2> QED BY <2>2, <2>3, <2>4 DEF Fits
<1>6. Leads(t)'
  <2>1. \A e \in ended'[t] : e <= epoch'
    BY <1>0, <1>1, <1>2 DEF Leads, SameOwner
  <2>2. Owning' /\ owner' = t /\ Live(t)' => Holds(down[t], "become", epoch') \/ epoch' \in Took(t)'
    BY <1>2, <1>3 DEF Leads, SameOwner
  <2>3. ASSUME NEW m \in Contents(eup[t]), m.kind = "drained", Now(t, m.epoch)', Live(t)'
        PROVE  FALSE
    BY <1>2, <1>4, <2>3 DEF Leads
  <2> QED BY <1>1, <2>1, <2>2, <2>3 DEF Leads
<1> QED BY <1>1, <1>2, <1>5, <1>6 DEF Script

\* What is left in the port when its head is heard.
LEMMA HeardPort ==
    ASSUME CacheInv, ProtocolInv, NEW t \in Tab, NEW k, Hear(t, k), Heard(t)
    PROVE  /\ Contents(down[t]) = {Head(down[t])} \cup Contents(down'[t])
           /\ Head(down[t]).kind = k /\ Head(down[t]).epoch \in Nat /\ Fits(t, Head(down[t]))
           /\ Ordered(down'[t]) /\ \A m \in Contents(down'[t]) : InOrder(Head(down[t]), m)
           /\ \A m \in Contents(down'[t]) : m.epoch \in Nat /\ Fits(t, m)
<1>1. down[t] \in Seq(Message) /\ down[t] # <<>> /\ down'[t] = Tail(down[t]) /\ Head(down[t]).kind = k
  BY DEF CacheInv, PortTypes, Hear, Heard
<1>2. Script(t)
  BY DEF ProtocolInv
<1>3. /\ Contents(down[t]) = {Head(down[t])} \cup Contents(down'[t])
      /\ Ordered(down'[t]) /\ \A m \in Contents(down'[t]) : InOrder(Head(down[t]), m)
  BY <1>1, <1>2, OrderTail DEF Script
<1>4. \A m \in Contents(down[t]) : m.epoch \in Nat /\ Fits(t, m)
  BY <1>2, Facts DEF Script
<1> QED BY <1>1, <1>3, <1>4

\* The page becomes the owner.
LEMMA BecomeScript ==
    ASSUME CacheInv, ProtocolInv, NEW t \in Tab, HearBecome(t) PROVE Script(t)'
<1> DEFINE h == Head(down[t])
<1>0. /\ epoch \in Nat /\ ended[t] \subseteq Nat
      /\ (Owning => epoch # 0)
      /\ \A m \in Contents(down[t]) : m.kind = "become" => m.epoch # 0
  BY Facts
<1>1. /\ Live(t) /\ own[t] = 0 /\ own'[t] = h.epoch /\ ended' = ended
      /\ eup'[t] = <<>> /\ UNCHANGED <<page, kind, owner, epoch>>
  BY DEF HearBecome, Hear, CacheInv, PageTypes, PortTypes, core
<1>2. /\ Contents(down[t]) = {h} \cup Contents(down'[t])
      /\ h.kind = "become" /\ h.epoch \in Nat /\ Fits(t, h)
      /\ Ordered(down'[t]) /\ \A m \in Contents(down'[t]) : InOrder(h, m)
      /\ \A m \in Contents(down'[t]) : m.epoch \in Nat /\ Fits(t, m)
  BY HeardPort DEF HearBecome
<1> HIDE DEF h
<1>3. h.epoch # 0 /\ Took(t) = ended[t] \cup {0} /\ Took(t)' = ended[t] \cup {h.epoch}
  BY <1>0, <1>1, <1>2 DEF Took
<1>4. Live(t)' /\ Owning' = Owning /\ epoch' = epoch /\ owner' = owner /\ Leads(t)
      /\ \A e : Now(t, e)' = Now(t, e)
  BY <1>1 DEF Live, Owning, Now, ProtocolInv, Script
<1>5. ASSUME NEW e PROVE Holds(down[t], "terminate", e) => Holds(down'[t], "terminate", e)
  BY <1>2 DEF Holds
<1>6. ASSUME NEW e PROVE Holds(down[t], "become", e) => Holds(down'[t], "become", e) \/ e = h.epoch
  BY <1>2 DEF Holds
<1>7. ASSUME NEW m \in Contents(down'[t]) PROVE Fits(t, m)'
  <2>1. Fits(t, m) /\ m.epoch \in Nat /\ InOrder(h, m)
    BY <1>2
  <2>2. CASE m.kind = "become"
    <3>1. h.epoch < m.epoch
      BY <1>2, <2>1, <2>2 DEF InOrder, Calls
    <3>2. \A e \in Took(t)' : e < m.epoch
      BY <1>3, <2>1, <2>2, <3>1 DEF Fits
    <3>3. Now(t, m.epoch)' \/ Holds(down'[t], "terminate", m.epoch)
      BY <1>4, <1>5, <2>1, <2>2 DEF Fits
    <3> QED BY <2>2, <3>2, <3>3 DEF Fits
  <2>3. CASE m.kind = "terminate"
    <3>1. h.epoch <= m.epoch
      BY <1>2, <2>1, <2>3 DEF InOrder, Calls
    <3>2. Holds(down'[t], "become", m.epoch) \/ m.epoch \in Took(t)'
      BY <1>2, <1>3, <1>6, <2>1, <2>3, <3>1 DEF Fits
    <3>3. own'[t] <= m.epoch /\ m.epoch <= epoch' /\ ~(Owning' /\ epoch' = m.epoch)
      BY <1>1, <1>4, <2>1, <2>3, <3>1 DEF Fits
    <3> QED BY <2>3, <3>2, <3>3 DEF Fits
  <2>4. CASE m.kind = "retire"
    BY <1>2, <2>1, <2>4 DEF Fits, Calls
  <2> QED BY <2>2, <2>3, <2>4 DEF Fits
<1>8. Leads(t)'
  <2>1. /\ \A e \in ended'[t] : e < own'[t]
        /\ Now(t, own[t])' \/ Holds(down'[t], "terminate", own'[t])
    BY <1>1, <1>2, <1>3, <1>4, <1>5 DEF Fits
  <2>2. \A e \in ended'[t] : e <= epoch'
    BY <1>1, <1>4 DEF Leads
  <2>3. Owning' /\ owner' = t => Holds(down'[t], "become", epoch') \/ epoch' \in Took(t)'
    BY <1>0, <1>1, <1>3, <1>4, <1>6 DEF Leads
  <2>4. Contents(eup'[t]) = {}
    BY <1>1, NoneOrdered
  <2> QED BY <2>1, <2>2, <2>3, <2>4 DEF Leads
<1> QED BY <1>2, <1>4, <1>7, <1>8 DEF Script

\* Its epoch is over.
LEMMA TerminateScript ==
    ASSUME CacheInv, ProtocolInv, NEW t \in Tab, HearTerminate(t) PROVE Script(t)'
<1> DEFINE h == Head(down[t])
<1>0. /\ epoch \in Nat /\ own[t] \in Nat /\ ended[t] \subseteq Nat /\ own[t] <= epoch
      /\ \A m \in Contents(down[t]) : m.kind = "become" => m.epoch # 0
  BY Facts
<1>1. /\ Live(t) /\ UNCHANGED <<page, kind, owner, epoch>> /\ eup' = eup
      /\ \/ /\ own[t] = h.epoch /\ own'[t] = 0
            /\ ended'[t] = IF own[t] = 0 THEN ended[t] ELSE ended[t] \cup {own[t]}
         \/ own[t] # h.epoch /\ h.epoch \in ended[t] /\ UNCHANGED <<own, ended, eng>>
  BY DEF HearTerminate, Hear, CacheInv, PageTypes, core, OwnerGone, EngineGone, engines, eports
<1>2. /\ Contents(down[t]) = {h} \cup Contents(down'[t])
      /\ h.kind = "terminate" /\ h.epoch \in Nat /\ Fits(t, h)
      /\ Ordered(down'[t]) /\ \A m \in Contents(down'[t]) : InOrder(h, m)
      /\ \A m \in Contents(down'[t]) : m.epoch \in Nat /\ Fits(t, m)
  BY HeardPort DEF HearTerminate
<1> HIDE DEF h
<1>3. Took(t) \subseteq Took(t)' /\ Took(t)' \subseteq Took(t) \cup {0}
  BY <1>1 DEF Took
<1>4. Live(t)' /\ Owning' = Owning /\ epoch' = epoch /\ owner' = owner /\ Leads(t)
      /\ \A e : Now(t, e)' = Now(t, e)
  BY <1>1 DEF Live, Owning, Now, ProtocolInv, Script
<1>5. ASSUME NEW e PROVE Holds(down[t], "terminate", e) => Holds(down'[t], "terminate", e) \/ e = h.epoch
  BY <1>2 DEF Holds
<1>6. ASSUME NEW e, NEW k, k # "terminate" PROVE Holds(down[t], k, e) => Holds(down'[t], k, e)
  BY <1>2, <1>6 DEF Holds
<1>7. ASSUME NEW m \in Contents(down'[t]) PROVE Fits(t, m)'
  <2>1. Fits(t, m) /\ m.epoch \in Nat /\ InOrder(h, m) /\ m \in Contents(down[t])
    BY <1>2
  <2>2. CASE m.kind = "become"
    <3>1. h.epoch < m.epoch
      BY <1>2, <2>1, <2>2 DEF InOrder, Calls
    <3>2. \A e \in Took(t)' : e < m.epoch
      BY <1>0, <1>3, <2>1, <2>2 DEF Fits
    <3>3. Now(t, m.epoch)' \/ Holds(down'[t], "terminate", m.epoch)
      BY <1>2, <1>4, <1>5, <2>1, <2>2, <3>1 DEF Fits
    <3> QED BY <2>2, <3>2, <3>3 DEF Fits
  <2>3. CASE m.kind = "terminate"
    <3>1. Holds(down'[t], "become", m.epoch) \/ m.epoch \in Took(t)'
      BY <1>3, <1>6, <2>1, <2>3 DEF Fits
    <3>2. own'[t] <= m.epoch /\ m.epoch <= epoch' /\ ~(Owning' /\ epoch' = m.epoch)
      BY <1>1, <1>4, <2>1, <2>3 DEF Fits
    <3> QED BY <2>3, <3>1, <3>2 DEF Fits
  <2>4. CASE m.kind = "retire"
    BY <1>2, <2>1, <2>4 DEF Fits, Calls
  <2> QED BY <2>2, <2>3, <2>4 DEF Fits
<1>8. Leads(t)'
  <2>1. own'[t] # 0 =>
          /\ \A e \in ended'[t] : e < own'[t]
          /\ \/ Now(t, own[t])'
             \/ Holds(down'[t], "terminate", own'[t])
             \/ Holds(down'[t], "retire", own'[t])
    <3>1. CASE own'[t] = 0
      BY <3>1
    <3>2. CASE own'[t] # 0
      <4>1. own[t] # h.epoch /\ own'[t] = own[t] /\ ended'[t] = ended[t]
        BY <1>1, <3>2
      <4> QED BY <1>4, <1>5, <1>6, <3>2, <4>1 DEF Leads
    <3> QED BY <3>1, <3>2
  <2>2. \A e \in ended'[t] : e <= epoch'
    BY <1>0, <1>1, <1>4 DEF Leads
  <2>3. Owning' /\ owner' = t => Holds(down'[t], "become", epoch') \/ epoch' \in Took(t)'
    BY <1>1, <1>3, <1>4, <1>6 DEF Leads
  <2>4. ASSUME NEW m \in Contents(eup'[t]), m.kind = "drained", Now(t, m.epoch)'
        PROVE  own'[t] = m.epoch /\ eng'[t] = "drained"
    <3>1. own[t] = m.epoch /\ eng[t] = "drained" /\ Owning /\ epoch = m.epoch
      BY <1>1, <1>4, <2>4 DEF Leads, Now
    <3>2. own[t] # h.epoch
      BY <1>2, <3>1 DEF Fits
    <3> QED BY <1>1, <3>1, <3>2
  <2> QED BY <2>1, <2>2, <2>3, <2>4 DEF Leads
<1> QED BY <1>2, <1>4, <1>7, <1>8 DEF Script

-----------------------------------------------------------------------------
(* The way up, step by step *)

\* A step takes a message of the page or adds one that neither registers nor leaves
\* nor attaches an engine, ...
Marked == {"register", "navigate", "attach", "drain"}
UpKept(s) ==
    /\ Ordered(up[s]) => Ordered(up'[s])
    /\ \A m \in Contents(up'[s]) : m \in Contents(up[s]) \/ m.kind \notin Marked

\* ... registers nobody, forgets no epoch and attaches no engine.
WayKept(s) ==
    /\ \A e \in Took(s) : e # 0 => e \in Took(s)'
    /\ Live(s)' => Live(s)
    /\ (s \in tabs' => s \in tabs) /\ (s \in pending' => s \in pending)
    /\ \A e : Now(s, e)' => Now(s, e) \/ (e = epoch + 1)
    /\ route' # 0 /\ owner' = s => route # 0 /\ owner = s /\ epoch' = epoch

\* Nothing of this concerns the way up.
LEMMA UplinkKept ==
    ASSUME CacheInv, ProtocolInv, NEW s \in Tab, UpKept(s), WayKept(s) PROVE Uplink(s)'
<1>0. /\ Uplink(s) /\ epoch \in Nat /\ own[s] \in Nat /\ ended[s] \subseteq Nat /\ own[s] <= epoch
      /\ (\A m \in Contents(up[s]) : m.epoch \in Nat)
      /\ \A e \in ended[s] : e <= epoch
  BY Facts DEF ProtocolInv, Script, Leads
<1>1. ASSUME NEW k \in Marked, Pending(up'[s], k) PROVE Pending(up[s], k)
  BY <1>1, PendingIs DEF UpKept
<1>2. Ordered(up'[s]) /\ ~Pending(up'[s], "drain")
  BY <1>0, <1>1 DEF Uplink, UpKept, Marked
<1>3. /\ Pending(up'[s], "register") => s \notin pending'
      /\ Pending(up'[s], "register") \/ s \in pending' => s \notin tabs'
      /\ Pending(up'[s], "navigate") => ~Live(s)'
  BY <1>0, <1>1 DEF Uplink, WayKept, Marked
<1>4. ASSUME NEW m \in Contents(up'[s]), m.kind = "attach"
      PROVE  m.epoch \in Took(s)' /\ m.epoch # 0 /\ (Now(s, m.epoch)' => route' = 0)
  <2>1. m \in Contents(up[s])
    BY <1>4 DEF UpKept, Marked
  <2>2. m.epoch \in Took(s) /\ m.epoch # 0 /\ (Now(s, m.epoch) => route = 0) /\ m.epoch \in Nat
    BY <1>0, <1>4, <2>1 DEF Uplink
  <2>3. m.epoch \in Took(s)'
    BY <2>2 DEF WayKept
  <2>4. ASSUME Now(s, m.epoch)', route' # 0 PROVE FALSE
    <3>1. route # 0
      BY <2>4 DEF WayKept, Now
    <3>2. m.epoch = epoch + 1
      BY <2>2, <2>4, <3>1 DEF WayKept
    <3> QED BY <1>0, <2>2, <3>2 DEF Took
  <2> QED BY <2>2, <2>3, <2>4
<1>5. route' # 0 /\ owner' = s => epoch' \in Took(s)'
  <2>1. route # 0 => epoch # 0
    BY <1>0 DEF CacheInv, CoordInv, RouteInv
  <2> QED BY <1>0, <2>1 DEF Uplink, WayKept
<1> QED BY <1>2, <1>3, <1>4, <1>5 DEF Uplink

\* Nothing happens to the port, its head is taken, or something is added.
LEMMA UpSame == ASSUME NEW s, up'[s] = up[s] PROVE UpKept(s)
BY DEF UpKept

\* The head is taken.
LEMMA UpTaken ==
    ASSUME PortTypes, NEW s \in Tab, up[s] # <<>>, up'[s] = Tail(up[s]) PROVE UpKept(s)
BY OrderTail DEF UpKept, PortTypes

\* Something is added.
LEMMA UpAdded ==
    ASSUME PortTypes, NEW s \in Tab, Uplink(s), NEW m \in Message, m.kind \notin Marked,
           m.kind \in {"request", "graceful", "lost", "disconnect"},
           up'[s] = Append(up[s], m)
    PROVE  UpKept(s)
<1>1. up[s] \in Seq(Message) /\ Ordered(up[s]) /\ \A n \in Contents(up[s]) : n.kind # "drain"
  BY PendingIs DEF PortTypes, Uplink
<1>2. Contents(Append(up[s], m)) = Contents(up[s]) \cup {m}
  BY <1>1, Appended
<1>3. \A n \in Contents(up[s]) : InOrder(n, m)
  BY <1>1 DEF InOrder, Calls
<1>4. Ordered(Append(up[s], m))
  BY <1>1, <1>3, OrderAppend
<1> QED BY <1>2, <1>4 DEF UpKept

\* The page begins with its registration.
LEMMA StartUp ==
    ASSUME CacheInv, AskInv, ProtocolInv, NEW t \in Tab, Start(t) PROVE Uplink(t)'
<1> DEFINE m == Msg("register", 0)
<1>1. page[t] = "off" /\ UNCHANGED <<kind, owner, epoch, tabs, pending, route, own, ended>>
      /\ up'[t] = Append(up[t], m)
  BY DEF Start, core, router, Send, CacheInv, PortTypes
<1>2. up[t] = <<>> /\ t \notin tabs /\ t \notin pending
  BY <1>1 DEF AskInv, AskTab, Off
<1>3. m \in Message /\ m.kind = "register"
  BY MsgKind
<1> HIDE DEF m
<1>4. up[t] \in Seq(Message) /\ Contents(up[t]) = {} /\ Ordered(up[t])
  BY <1>2, NoneOrdered DEF CacheInv, PortTypes
<1>5. Contents(up'[t]) = {m} /\ Ordered(up'[t])
  BY <1>1, <1>3, <1>4, Appended, OrderAppend
<1>6. \A k : Pending(up'[t], k) => k = "register"
  BY <1>3, <1>5, PendingIs
<1>7. ~(Owning /\ owner = t)
  BY <1>2, Facts
<1>8. route' # 0 => ~(owner' = t)
  BY <1>1, <1>7 DEF CacheInv, CoordInv, RouteInv, Owning
<1> QED BY <1>1, <1>2, <1>3, <1>5, <1>6, <1>8 DEF Uplink

\* A page that navigates has gone.
LEMMA NavigateUp ==
    ASSUME CacheInv, ProtocolInv, NEW t \in Tab, Navigate(t), ~Live(t)' PROVE Uplink(t)'
<1> DEFINE m == Msg("navigate", own[t])
<1>1. UNCHANGED <<kind, owner, epoch, tabs, pending, route>>
      /\ up'[t] = Append(up[t], m) /\ OwnerGone(t)
  BY DEF Navigate, core, router, Send, CacheInv, PortTypes, ClosePage
<1>2. m \in Message /\ m.kind = "navigate"
  BY Facts DEF Msg, Message
<1> HIDE DEF m
<1>3. up[t] \in Seq(Message) /\ Uplink(t) /\ own \in [Tab -> Nat] /\ ended \in [Tab -> SUBSET Nat]
  BY DEF CacheInv, PortTypes, ProtocolInv, PageTypes
<1>4. \A n \in Contents(up[t]) : InOrder(n, m)
  BY <1>2 DEF InOrder, Calls
<1>5. Contents(up'[t]) = Contents(up[t]) \cup {m} /\ Ordered(up'[t])
  BY <1>1, <1>2, <1>3, <1>4, Appended, OrderAppend DEF Uplink
<1>6. \A k : Pending(up'[t], k) => k = "navigate" \/ Pending(up[t], k)
  BY <1>2, <1>5, PendingIs
<1>7. Took(t) \subseteq Took(t)'
  BY <1>1, <1>3 DEF Took, OwnerGone
<1>8. \A e : Now(t, e)' = Now(t, e)
  BY <1>1 DEF Now, Owning
<1> QED BY <1>1, <1>2, <1>3, <1>5, <1>6, <1>7, <1>8 DEF Uplink

\* The engine's port is attached: there is no route to an earlier engine any more.
LEMMA BecomeUp ==
    ASSUME CacheInv, ProtocolInv, NEW t \in Tab, HearBecome(t) PROVE Uplink(t)'
<1> DEFINE h == Head(down[t])
           m == Msg("attach", h.epoch)
<1>1. UNCHANGED <<kind, owner, epoch, tabs, pending, route, page>>
      /\ up'[t] = Append(up[t], m) /\ own[t] = 0 /\ own'[t] = h.epoch /\ ended' = ended
  BY DEF HearBecome, core, router, Send, CacheInv, PortTypes, PageTypes
<1>2. Fits(t, h) /\ h.kind = "become" /\ h.epoch \in Nat /\ h \in Contents(down[t]) /\ Live(t)
  BY HeardPort DEF HearBecome, Hear
<1>3. m \in Message /\ m.kind = "attach" /\ m.epoch = h.epoch
  BY <1>2 DEF Msg, Message
<1> HIDE DEF h, m
<1>4. up[t] \in Seq(Message) /\ Uplink(t) /\ h.epoch # 0 /\ ended[t] \subseteq Nat
  BY <1>2, Facts DEF ProtocolInv
<1>5. \A e \in Took(t) : e < h.epoch
  BY <1>2 DEF Fits
<1>6. \A n \in Contents(up[t]) : InOrder(n, m)
  <2> SUFFICES ASSUME NEW n \in Contents(up[t]) PROVE InOrder(n, m)
    OBVIOUS
  <2>1. n.kind = "attach" => n.epoch \in Took(t) /\ n.epoch \in Nat
    BY <1>4, Facts DEF Uplink
  <2>2. n.kind = "attach" => n.epoch # m.epoch
    BY <1>2, <1>3, <1>5, <2>1
  <2> QED BY <1>3, <2>2 DEF InOrder, Calls
<1>7. Contents(up'[t]) = Contents(up[t]) \cup {m} /\ Ordered(up'[t])
  BY <1>1, <1>3, <1>4, <1>6, Appended, OrderAppend DEF Uplink
<1>8. \A k : Pending(up'[t], k) => k = "attach" \/ Pending(up[t], k)
  BY <1>3, <1>7, PendingIs
<1>9. Took(t) = ended[t] \cup {0} /\ Took(t)' = ended[t] \cup {h.epoch}
  BY <1>1 DEF Took
<1>10. \A e : Now(t, e)' = Now(t, e)
  BY <1>1 DEF Now, Owning
<1>11. Now(t, h.epoch) => route = 0
  BY <1>2, <1>4, <1>5 DEF Uplink, Now
<1>12. ASSUME NEW n \in Contents(up'[t]), n.kind = "attach"
       PROVE  n.epoch \in Took(t)' /\ n.epoch # 0 /\ (Now(t, n.epoch)' => route' = 0)
  <2>1. CASE n = m
    BY <1>1, <1>3, <1>4, <1>9, <1>10, <1>11, <2>1
  <2>2. CASE n \in Contents(up[t])
    BY <1>1, <1>4, <1>9, <1>10, <1>12, <2>2 DEF Uplink
  <2> QED BY <1>7, <2>1, <2>2
<1>13. route' # 0 /\ owner' = t => epoch' \in Took(t)'
  <2>1. route # 0 => epoch # 0
    BY Facts DEF CacheInv, CoordInv, RouteInv, Owning
  <2> QED BY <1>1, <1>4, <1>9, <2>1 DEF Uplink
<1>14. ~Pending(up[t], "navigate")
  BY <1>2, <1>4 DEF Uplink
<1> QED BY <1>1, <1>4, <1>7, <1>8, <1>12, <1>13, <1>14 DEF Uplink

\* The registration is taken, ...
LEMMA RegisterUp ==
    ASSUME CacheInv, ProtocolInv, NEW t \in Tab, Register(t) PROVE Uplink(t)'
<1> DEFINE h == Head(up[t])
<1>1. /\ UNCHANGED <<kind, owner, epoch, tabs, route, page, own, ended>>
      /\ up[t] # <<>> /\ h.kind = "register" /\ up'[t] = Tail(up[t])
      /\ pending' = pending \cup {t}
  BY DEF Register, From, Taken, core, pages, CacheInv, PortTypes
<1>2. up[t] \in Seq(Message) /\ Uplink(t) /\ Ordered(up[t])
  BY Facts DEF ProtocolInv, Uplink
<1>3. /\ Contents(up[t]) = {h} \cup Contents(up'[t]) /\ Ordered(up'[t])
      /\ \A m \in Contents(up'[t]) : InOrder(h, m)
  BY <1>1, <1>2, OrderTail
<1> HIDE DEF h
<1>4. \A m \in Contents(up'[t]) : m.kind # "register"
  BY <1>1, <1>3 DEF InOrder
<1>5. ~Pending(up'[t], "register") /\ \A k : Pending(up'[t], k) => Pending(up[t], k)
  BY <1>3, <1>4, PendingIs
<1>6. Pending(up[t], "register")
  BY <1>1, <1>3, PendingIs
<1>7. (\A e : Now(t, e)' = Now(t, e)) /\ Took(t)' = Took(t) /\ Live(t)' = Live(t)
  BY <1>1 DEF Now, Owning, Took, Live
<1> QED BY <1>1, <1>2, <1>3, <1>5, <1>6, <1>7 DEF Uplink

\* ... and the tab is registered or not.
LEMMA RegisteredUp ==
    ASSUME CacheInv, ProtocolInv, NEW t \in Tab, Registered(t),
           \A e : Now(t, e)' => Now(t, e) \/ e = epoch + 1
    PROVE  Uplink(t)'
<1>1. /\ UNCHANGED <<route, page, own, ended, up>>
      /\ t \in pending /\ pending' = pending \ {t}
  BY DEF Registered, pages
<1>2. Uplink(t) /\ epoch \in Nat /\ own[t] \in Nat /\ ended[t] \subseteq Nat /\ own[t] <= epoch
      /\ \A e \in ended[t] : e <= epoch
  BY Facts DEF ProtocolInv, Script, Leads
<1>3. Took(t)' = Took(t) /\ Live(t)' = Live(t)
  BY <1>1 DEF Took, Live
<1>4. ASSUME NEW m \in Contents(up[t]), m.kind = "attach"
      PROVE  Now(t, m.epoch)' => route = 0
  <2>1. m.epoch \in Took(t) /\ m.epoch <= epoch /\ m.epoch \in Nat
    BY <1>2, <1>4, Facts DEF Uplink, Took
  <2>2. m.epoch # epoch + 1
    BY <1>2, <2>1
  <2> QED BY <1>2, <1>4, <2>2 DEF Uplink
<1>5. ~Pending(up[t], "register")
  BY <1>1, <1>2 DEF Uplink
<1>6. route' # 0 /\ owner' = t => epoch' \in Took(t)
  <2>1. CASE UNCHANGED <<owner, epoch>>
    BY <1>1, <1>2, <2>1 DEF Uplink
  <2>2. CASE kind = "waiting"
    BY <1>1, <2>2 DEF CacheInv, CoordInv, RouteInv
  <2> QED BY <2>1, <2>2 DEF Registered, core
<1> QED BY <1>1, <1>2, <1>3, <1>4, <1>5, <1>6 DEF Uplink

\* The port of the owner's engine is routed to; there is no second one of this epoch.
LEMMA AttachUp ==
    ASSUME CacheInv, ProtocolInv, NEW t \in Tab, AttachEnginePort(t), NEW s \in Tab
    PROVE  Uplink(s)'
<1> DEFINE h == Head(up[t])
<1>1. /\ UNCHANGED <<kind, owner, epoch, tabs, pending, page, own, ended>>
      /\ up[t] # <<>> /\ h.kind = "attach" /\ up'[t] = Tail(up[t])
      /\ \A r \in Tab : r # t => up'[r] = up[r]
      /\ route' = route \/ (IsOwner(t, h.epoch) /\ route' = epoch)
  BY DEF AttachEnginePort, From, Taken, core, pages, CacheInv, PortTypes
<1>2. up[t] \in Seq(Message) /\ Uplink(t) /\ Ordered(up[t]) /\ Uplink(s) /\ PortTypes
  BY Facts DEF ProtocolInv, Uplink
<1>3. /\ Contents(up[t]) = {h} \cup Contents(up'[t]) /\ Ordered(up'[t])
      /\ \A m \in Contents(up'[t]) : InOrder(h, m)
  BY <1>1, <1>2, OrderTail
<1> HIDE DEF h
<1>4. (\A r, e : Now(r, e)' = Now(r, e)) /\ (\A r : Took(r)' = Took(r)) /\ (\A r : Live(r)' = Live(r))
  BY <1>1 DEF Now, Owning, Took, Live
<1>5. CASE route' = route
  <2>1. UpKept(s)
    BY <1>1, <1>2, UpSame, UpTaken
  <2>2. WayKept(s)
    BY <1>1, <1>4, <1>5 DEF WayKept
  <2> QED BY <2>1, <2>2, UplinkKept
<1>6. CASE IsOwner(t, h.epoch) /\ route' = epoch
  <2>1. owner = t /\ epoch = h.epoch
    BY <1>6 DEF IsOwner
  <2>2. CASE s = t
    <3>1. \A k : Pending(up'[t], k) => Pending(up[t], k)
      BY <1>3, PendingIs
    <3>2. ASSUME NEW m \in Contents(up'[t]), m.kind = "attach"
          PROVE  m.epoch \in Took(t) /\ m.epoch # 0 /\ ~Now(t, m.epoch)
      <4>1. m.epoch # h.epoch
        BY <1>1, <1>3, <3>2 DEF InOrder
      <4> QED BY <1>2, <1>3, <2>1, <3>2, <4>1 DEF Uplink, Now
    <3>3. epoch \in Took(t)
      BY <1>1, <1>2, <1>3, <2>1 DEF Uplink
    <3> QED BY <1>1, <1>2, <1>3, <1>4, <2>2, <3>1, <3>2, <3>3 DEF Uplink
  <2>3. CASE s # t
    <3>1. up'[s] = up[s] /\ \A e : ~Now(s, e)
      BY <1>1, <2>1, <2>3 DEF Now
    <3> QED BY <1>1, <1>2, <1>4, <2>1, <2>3, <3>1 DEF Uplink
  <2> QED BY <2>2, <2>3
<1> QED BY <1>1, <1>5, <1>6

-----------------------------------------------------------------------------
(* The engine, step by step *)

\* A step leaves the engine alone, ...
EngineKept(s) == own'[s] = own[s] /\ ended'[s] = ended[s] /\ eng'[s] = eng[s] /\ edown'[s] = edown[s]

\* ... takes at most a message of it, ...
EupTaken(s) ==
    /\ Contents(eup'[s]) \subseteq Contents(eup[s])
    /\ Ordered(eup[s]) => Ordered(eup'[s])

\* ... and leaves the phase alone unless the epoch ends.
PhaseKept ==
    /\ epoch' \in Nat /\ epoch' >= epoch
    /\ Owning' /\ epoch' = epoch =>
         Owning /\ kind' = kind /\ granted' = granted /\ owner' = owner

\* Nothing of this concerns the engine.
LEMMA WorksKept ==
    ASSUME CacheInv, ProtocolInv, NEW s \in Tab, EngineKept(s), EupTaken(s), PhaseKept
    PROVE  Works(s)'
<1>0. /\ Works(s) /\ epoch \in Nat /\ own[s] \in Nat /\ own[s] <= epoch
      /\ \A m \in Contents(eup[s]) : m.epoch \in Nat /\ m.epoch <= epoch
  BY Facts DEF ProtocolInv
<1>1. \A k : Pending(eup'[s], k) => Pending(eup[s], k)
  BY PendingIs DEF EupTaken
<1>2. Port(s)'
  BY <1>0 DEF Works, Port, EngineKept, EupTaken
<1>3. Runs(s)'
  BY <1>0, <1>1 DEF Works, Runs, EngineKept
<1>4. Phase(s)'
  BY <1>0 DEF Works, Phase, EngineKept, PhaseKept
<1>5. Mail(s)'
  <2> SUFFICES ASSUME Owning', owner' = s, NEW m \in Contents(eup'[s]), m.epoch = epoch'
               PROVE  /\ m.kind = "assets" => kind' = "activating" /\ ~granted'
                      /\ m.kind = "ready" => kind' = "activating" /\ granted'
                      /\ m.kind = "drained" => kind' = "draining"
    BY DEF Mail
  <2>1. m \in Contents(eup[s]) /\ epoch' = epoch
    BY <1>0 DEF EupTaken, PhaseKept
  <2> QED BY <1>0, <2>1 DEF Works, Mail, PhaseKept
<1> QED BY <1>2, <1>3, <1>4, <1>5 DEF Works

\* The engine's port is left alone, or its head is taken.
LEMMA EupSame == ASSUME NEW s, eup'[s] = eup[s] PROVE EupTaken(s)
BY DEF EupTaken

\* The head is taken.
LEMMA EupTail ==
    ASSUME PortTypes, NEW s \in Tab, eup[s] # <<>>, eup'[s] = Tail(eup[s]) PROVE EupTaken(s)
BY OrderTail DEF EupTaken, PortTypes

\* The engine is terminated.
LEMMA GoneWorks ==
    ASSUME CacheInv, ProtocolInv, NEW t \in Tab, OwnerGone(t), EngineGone(t),
           UNCHANGED <<kind, granted, owner, epoch>>
    PROVE  Works(t)'
<1>0. /\ Works(t) /\ epoch \in Nat /\ own[t] \in Nat /\ ended[t] \subseteq Nat
      /\ (Owning => epoch # 0)
      /\ own[t] # 0 => \A e \in ended[t] : e < own[t]
  BY Facts DEF ProtocolInv, Script, Leads
<1>1. /\ own'[t] = 0 /\ ended'[t] = IF own[t] = 0 THEN ended[t] ELSE ended[t] \cup {own[t]}
      /\ eng'[t] = "none" /\ edown'[t] = <<>> /\ eup' = eup
  BY DEF OwnerGone, EngineGone, CacheInv, PageTypes, PortTypes
<1>2. Ordered(edown'[t]) /\ Contents(edown'[t]) = {} /\ \A k : ~Pending(edown'[t], k)
  BY <1>1, NoneOrdered, PendingIs
<1>3. Port(t)'
  <2>1. ASSUME NEW m \in Contents(eup[t])
        PROVE  m.epoch \in ended'[t] /\ \A e \in ended'[t] : e <= m.epoch
    <3>1. CASE own[t] = 0
      BY <1>0, <1>1, <3>1 DEF Works, Port
    <3>2. CASE own[t] # 0
      <4>1. m.epoch = own[t]
        BY <1>0, <3>2 DEF Works, Port
      <4> QED BY <1>0, <1>1, <3>2, <4>1
    <3> QED BY <3>1, <3>2
  <2> QED BY <1>0, <1>1, <1>2, <2>1 DEF Works, Port
<1>4. Runs(t)'
  BY <1>1, <1>2 DEF Runs
<1>5. Phase(t)'
  BY <1>0, <1>1 DEF Phase, Owning
<1>6. Mail(t)'
  BY <1>0, <1>1 DEF Works, Mail, Owning
<1> QED BY <1>3, <1>4, <1>5, <1>6 DEF Works

\* An engine is spawned.
LEMMA BecomeWorks ==
    ASSUME CacheInv, ProtocolInv, NEW t \in Tab, HearBecome(t) PROVE Works(t)'
<1> DEFINE h == Head(down[t])
<1>1. /\ own[t] = 0 /\ own'[t] = h.epoch /\ eng'[t] = "loading" /\ eup'[t] = <<>>
      /\ UNCHANGED <<edown, kind, granted, owner, epoch>>
  BY DEF HearBecome, CacheInv, PageTypes, PortTypes, core
<1>2. Fits(t, h) /\ h.kind = "become" /\ h.epoch \in Nat /\ h \in Contents(down[t])
  BY HeardPort DEF HearBecome
<1> HIDE DEF h
<1>3. h.epoch # 0 /\ Works(t) /\ Uplink(t) /\ (granted => route # 0)
  BY <1>2, Facts DEF ProtocolInv
<1>4. edown'[t] = <<>> /\ Contents(edown'[t]) = {} /\ Ordered(edown'[t])
      /\ Contents(eup'[t]) = {} /\ Ordered(eup'[t])
  BY <1>1, <1>3, NoneOrdered DEF Works, Port
<1>5. \A k : ~Pending(edown'[t], k) /\ ~Pending(eup'[t], k)
  BY <1>4, PendingIs
<1>6. Port(t)'
  BY <1>1, <1>3, <1>4 DEF Port
<1>7. Runs(t)'
  BY <1>5 DEF Runs
<1>8. Phase(t)'
  <2>1. ASSUME Owning, h.epoch = epoch PROVE kind = "activating" /\ ~granted
    <3>1. epoch # 0 /\ owner = t
      BY <1>2, <1>3, <2>1 DEF CacheInv, WipeInv, ElectionsFresh
    <3>2. epoch \notin Took(t)
      BY <1>2, <2>1 DEF Fits
    <3>3. route = 0
      BY <1>3, <3>1, <3>2 DEF Uplink
    <3>4. kind \in {"active", "draining"} => route = epoch
      BY DEF CacheInv, CoordInv, InFlightHasOwner
    <3> QED BY <1>3, <2>1, <3>1, <3>3, <3>4 DEF Owning
  <2>2. Owning' = Owning
    BY <1>1 DEF Owning
  <2> QED BY <1>1, <1>5, <2>1, <2>2 DEF Phase
<1>9. Mail(t)'
  BY <1>4 DEF Mail
<1> QED BY <1>6, <1>7, <1>8, <1>9 DEF Works

-----------------------------------------------------------------------------
(* Steps of the engine *)

\* The engine tells the coordinator something of its epoch ...
LEMMA Tells ==
    ASSUME CacheInv, ProtocolInv, NEW t \in Tab, own[t] # 0, NEW m \in Message,
           m.epoch = own[t], Tell(t, m), UNCHANGED own, UNCHANGED ended,
           m.kind \in {"assets", "ready", "response", "drained", "fatal"},
           m.kind \in {"assets", "ready"} => ~Pending(eup[t], m.kind)
    PROVE  /\ Contents(eup'[t]) = Contents(eup[t]) \cup {m} /\ Ordered(eup'[t])
           /\ \A n \in Contents(eup'[t]) : n.epoch = own'[t]
           /\ \A k : Pending(eup'[t], k) => Pending(eup[t], k) \/ k = m.kind
<1>1. eup[t] \in Seq(Message) /\ eup'[t] = Append(eup[t], m)
  BY DEF Tell, CacheInv, PortTypes
<1>2. Ordered(eup[t]) /\ \A n \in Contents(eup[t]) : n.epoch = own[t]
  BY DEF ProtocolInv, Works, Port
<1>3. \A n \in Contents(eup[t]) : InOrder(n, m)
  BY PendingIs DEF InOrder, Calls
<1>4. Contents(eup'[t]) = Contents(eup[t]) \cup {m} /\ Ordered(eup'[t])
  BY <1>1, <1>2, <1>3, Appended, OrderAppend
<1>5. \A k : Pending(eup'[t], k) => Pending(eup[t], k) \/ k = m.kind
  BY <1>4, PendingIs
<1> QED BY <1>2, <1>4, <1>5

\* ... or hears something of the coordinator.
LEMMA EngineHearing ==
    ASSUME CacheInv, ProtocolInv, NEW t \in Tab, NEW k, EngineHears(t, k), EngineHeard(t)
    PROVE  /\ edown[t] # <<>> /\ Pending(edown[t], k) /\ Ordered(edown'[t])
           /\ \A x : Pending(edown'[t], x) => Pending(edown[t], x)
           /\ k = "open" => ~Pending(edown'[t], "open")
           /\ k = "drain" => ~Pending(edown'[t], "request")
<1>1. edown[t] \in Seq(Message) /\ edown[t] # <<>> /\ edown'[t] = Tail(edown[t])
      /\ Head(edown[t]).kind = k /\ Ordered(edown[t])
  BY DEF EngineHears, EngineHeard, CacheInv, PortTypes, ProtocolInv, Works, Port
<1>2. /\ Contents(edown[t]) = {Head(edown[t])} \cup Contents(edown'[t])
      /\ Ordered(edown'[t]) /\ \A m \in Contents(edown'[t]) : InOrder(Head(edown[t]), m)
  BY <1>1, OrderTail
<1>3. /\ k = "open" => \A m \in Contents(edown'[t]) : m.kind # "open"
      /\ k = "drain" => \A m \in Contents(edown'[t]) : m.kind # "request"
  BY <1>1, <1>2 DEF InOrder
<1> QED BY <1>1, <1>2, <1>3, PendingIs

\* The coordinator does not notice a step of an engine.
LEMMA EngineQuiet ==
    ASSUME CacheInv, ProtocolInv, NEW t \in Tab, UNCHANGED quiet, eng[t] # "none"
    PROVE  /\ own' = own /\ ended' = ended /\ kind' = kind /\ granted' = granted
           /\ owner' = owner /\ epoch' = epoch /\ Owning' = Owning /\ own[t] # 0
           /\ own[t] \in Nat /\ eng \in [Tab -> Engine]
           /\ Port(t) /\ Runs(t) /\ Phase(t) /\ Mail(t)
<1>1. UNCHANGED <<own, ended, kind, granted, owner, epoch>>
  BY DEF quiet, core, pages
<1>2. Works(t) /\ own[t] \in Nat
  BY Facts DEF ProtocolInv
<1>3. eng \in [Tab -> Engine]
  BY DEF CacheInv, PageTypes
<1> QED BY <1>1, <1>2, <1>3 DEF Works, Port, Owning

\* What becomes of a port that keeps to the epoch.
LEMMA PortStep ==
    ASSUME NEW t \in Tab, Port(t), own' = own, ended' = ended, own[t] # 0, eng'[t] # "none",
           Ordered(edown'[t]), Ordered(eup'[t]),
           \A m \in Contents(eup'[t]) : m.epoch = own[t]
    PROVE  Port(t)'
BY DEF Port

\* The assets are loaded.
LEMMA AssetsWorks ==
    ASSUME CacheInv, ProtocolInv, NEW t \in Tab, EngineAssets(t) PROVE Works(t)'
<1> DEFINE m == Msg("assets", own[t])
<1>1. eng[t] = "loading" /\ UNCHANGED <<quiet, edown>> /\ Tell(t, m) /\ Become(t, "assets")
  BY DEF EngineAssets
<1>2. /\ own' = own /\ ended' = ended /\ kind' = kind /\ granted' = granted
      /\ owner' = owner /\ epoch' = epoch /\ Owning' = Owning /\ own[t] # 0
      /\ own[t] \in Nat /\ eng'[t] = "assets" /\ Port(t) /\ Runs(t) /\ Phase(t) /\ Mail(t)
  BY <1>1, EngineQuiet DEF Become
<1>3. m \in Message /\ m.kind = "assets" /\ m.epoch = own[t]
  BY <1>2 DEF Msg, Message
<1> HIDE DEF m
<1>4. ~Pending(edown[t], "open") /\ ~Pending(edown[t], "request")
      /\ ~Pending(eup[t], "assets") /\ ~Pending(eup[t], "ready")
  BY <1>1, <1>2 DEF Runs, Stuck
<1>5. /\ Contents(eup'[t]) = Contents(eup[t]) \cup {m} /\ Ordered(eup'[t])
      /\ \A n \in Contents(eup'[t]) : n.epoch = own'[t]
      /\ \A k : Pending(eup'[t], k) => Pending(eup[t], k) \/ k = m.kind
  BY <1>1, <1>2, <1>3, <1>4, Tells
<1>6. Port(t)'
  BY <1>1, <1>2, <1>5, PortStep DEF Port
<1>7. Runs(t)'
  BY <1>1, <1>2, <1>3, <1>4, <1>5 DEF Runs
<1>8. Owning /\ own[t] = epoch => kind = "activating" /\ ~granted
  BY <1>1, <1>2 DEF Phase
<1>9. Phase(t)'
  BY <1>1, <1>2, <1>4, <1>8 DEF Phase
<1>10. Mail(t)'
  BY <1>2, <1>3, <1>5, <1>8 DEF Mail
<1> QED BY <1>6, <1>7, <1>9, <1>10 DEF Works

\* The database is open.
LEMMA ReadyWorks ==
    ASSUME CacheInv, ProtocolInv, NEW t \in Tab, EngineReady(t) PROVE Works(t)'
<1> DEFINE m == Msg("ready", own[t])
<1>1. eng[t] = "opening" /\ UNCHANGED <<quiet, edown>> /\ Tell(t, m) /\ Become(t, "ready")
  BY DEF EngineReady
<1>2. /\ own' = own /\ ended' = ended /\ kind' = kind /\ granted' = granted
      /\ owner' = owner /\ epoch' = epoch /\ Owning' = Owning /\ own[t] # 0
      /\ own[t] \in Nat /\ eng'[t] = "ready" /\ Port(t) /\ Runs(t) /\ Phase(t) /\ Mail(t)
  BY <1>1, EngineQuiet DEF Become
<1>3. m \in Message /\ m.kind = "ready" /\ m.epoch = own[t]
  BY <1>2 DEF Msg, Message
<1> HIDE DEF m
<1>4. ~Pending(edown[t], "open") /\ ~Pending(edown[t], "request")
      /\ ~Pending(eup[t], "assets") /\ ~Pending(eup[t], "ready")
  BY <1>1, <1>2 DEF Runs, Stuck
<1>5. /\ Contents(eup'[t]) = Contents(eup[t]) \cup {m} /\ Ordered(eup'[t])
      /\ \A n \in Contents(eup'[t]) : n.epoch = own'[t]
      /\ \A k : Pending(eup'[t], k) => Pending(eup[t], k) \/ k = m.kind
  BY <1>1, <1>2, <1>3, <1>4, Tells
<1>6. Port(t)'
  BY <1>1, <1>2, <1>5, PortStep DEF Port
<1>7. Runs(t)'
  BY <1>1, <1>2, <1>3, <1>4, <1>5 DEF Runs
<1>8. Owning /\ own[t] = epoch => kind = "activating" /\ granted
  BY <1>1, <1>2 DEF Phase
<1>9. Phase(t)'
  BY <1>1, <1>2, <1>4, <1>8 DEF Phase
<1>10. Mail(t)'
  BY <1>2, <1>3, <1>5, <1>8 DEF Mail
<1> QED BY <1>6, <1>7, <1>9, <1>10 DEF Works

\* It is closed again.
LEMMA DrainedWorks ==
    ASSUME CacheInv, ProtocolInv, NEW t \in Tab, EngineDrained(t) PROVE Works(t)'
<1> DEFINE m == Msg("drained", own[t])
<1>1. eng[t] = "draining" /\ UNCHANGED <<quiet, edown>> /\ Tell(t, m) /\ Become(t, "drained")
  BY DEF EngineDrained
<1>2. /\ own' = own /\ ended' = ended /\ kind' = kind /\ granted' = granted
      /\ owner' = owner /\ epoch' = epoch /\ Owning' = Owning /\ own[t] # 0
      /\ own[t] \in Nat /\ eng'[t] = "drained" /\ Port(t) /\ Runs(t) /\ Phase(t) /\ Mail(t)
  BY <1>1, EngineQuiet DEF Become
<1>3. m \in Message /\ m.kind = "drained" /\ m.epoch = own[t]
  BY <1>2 DEF Msg, Message
<1> HIDE DEF m
<1>4. ~Pending(edown[t], "open") /\ ~Pending(edown[t], "request") /\ ~Pending(eup[t], "assets")
  BY <1>1, <1>2 DEF Runs, Stuck
<1>5. /\ Contents(eup'[t]) = Contents(eup[t]) \cup {m} /\ Ordered(eup'[t])
      /\ \A n \in Contents(eup'[t]) : n.epoch = own'[t]
      /\ \A k : Pending(eup'[t], k) => Pending(eup[t], k) \/ k = m.kind
  BY <1>1, <1>2, <1>3, Tells
<1>6. Port(t)'
  BY <1>1, <1>2, <1>5, PortStep DEF Port
<1>7. Runs(t)'
  BY <1>1, <1>2, <1>3, <1>4, <1>5 DEF Runs
<1>8. Owning /\ own[t] = epoch => kind = "draining" /\ granted
  BY <1>1, <1>2 DEF Phase
<1>9. Phase(t)'
  BY <1>1, <1>2, <1>4, <1>8 DEF Phase
<1>10. Mail(t)'
  BY <1>2, <1>3, <1>5, <1>8 DEF Mail
<1> QED BY <1>6, <1>7, <1>9, <1>10 DEF Works

\* A request is answered, or the engine fails: whatever else is said.
LEMMA SaysWorks ==
    ASSUME CacheInv, ProtocolInv, NEW t \in Tab, eng[t] # "none", UNCHANGED <<quiet, edown>>,
           NEW m \in Message, m.kind \in {"response", "fatal"}, m.epoch = own[t], Tell(t, m),
           eng'[t] \in {eng[t], "failed"}
    PROVE  Works(t)'
<1>2. /\ own' = own /\ ended' = ended /\ kind' = kind /\ granted' = granted
      /\ owner' = owner /\ epoch' = epoch /\ Owning' = Owning /\ own[t] # 0
      /\ own[t] \in Nat /\ Port(t) /\ Runs(t) /\ Phase(t) /\ Mail(t)
  BY EngineQuiet
<1>5. /\ Contents(eup'[t]) = Contents(eup[t]) \cup {m} /\ Ordered(eup'[t])
      /\ \A n \in Contents(eup'[t]) : n.epoch = own'[t]
      /\ \A k : Pending(eup'[t], k) => Pending(eup[t], k) \/ k = m.kind
  BY <1>2, Tells
<1>6. Port(t)'
  BY <1>2, <1>5, PortStep DEF Port
<1>7. Runs(t)'
  BY <1>2, <1>5 DEF Runs, Stuck
<1>8. Phase(t)'
  BY <1>2 DEF Phase, Stuck
<1>9. Mail(t)'
  BY <1>2, <1>5 DEF Mail
<1> QED BY <1>6, <1>7, <1>8, <1>9 DEF Works

\* The engine may open the database, admits a request or begins to drain.
LEMMA HearsWorks ==
    ASSUME CacheInv, ProtocolInv, NEW t \in Tab,
           EngineGranted(t) \/ EngineAdmits(t) \/ EngineDrains(t)
    PROVE  Works(t)'
<1>1. PICK k \in {"open", "request", "drain"} :
        /\ EngineHears(t, k) /\ EngineHeard(t) /\ UNCHANGED <<quiet, eup>>
        /\ \/ k = "open" /\ eng[t] = "assets" /\ Become(t, "granted")
           \/ k = "request" /\ eng[t] = "ready" /\ eng' = eng
           \/ k = "drain" /\ eng[t] = "ready" /\ Become(t, "draining")
  BY DEF EngineGranted, EngineAdmits, EngineDrains
<1>2. /\ own' = own /\ ended' = ended /\ kind' = kind /\ granted' = granted
      /\ owner' = owner /\ epoch' = epoch /\ Owning' = Owning /\ own[t] # 0
      /\ own[t] \in Nat /\ Port(t) /\ Runs(t) /\ Phase(t) /\ Mail(t) /\ eng \in [Tab -> Engine]
  BY <1>1, EngineQuiet
<1>3. /\ Pending(edown[t], k) /\ Ordered(edown'[t])
      /\ \A x : Pending(edown'[t], x) => Pending(edown[t], x)
      /\ k = "open" => ~Pending(edown'[t], "open")
      /\ k = "drain" => ~Pending(edown'[t], "request")
  BY <1>1, EngineHearing
<1>4. \/ k = "open" /\ eng[t] = "assets" /\ eng'[t] = "granted"
      \/ k = "request" /\ eng[t] = "ready" /\ eng'[t] = "ready"
      \/ k = "drain" /\ eng[t] = "ready" /\ eng'[t] = "draining"
  BY <1>1, <1>2 DEF Become
<1>5. Port(t)'
  BY <1>1, <1>2, <1>3, <1>4, PortStep DEF Port
<1>6. Runs(t)'
  BY <1>1, <1>2, <1>3, <1>4 DEF Runs, Stuck
<1>7. Phase(t)'
  BY <1>1, <1>2, <1>3, <1>4 DEF Phase, Stuck, Owning
<1>8. Mail(t)'
  BY <1>1, <1>2 DEF Mail
<1> QED BY <1>5, <1>6, <1>7, <1>8 DEF Works

\* The engine takes the owner lock, or hangs.
LEMMA SilentWorks ==
    ASSUME CacheInv, ProtocolInv, NEW t \in Tab, EngineLocks(t) \/ EngineHangs(t)
    PROVE  Works(t)'
<1>1. /\ UNCHANGED <<quiet, eup, edown>>
      /\ \/ eng[t] = "granted" /\ Become(t, "opening")
         \/ eng[t] \in {"loading", "granted", "opening", "ready", "draining"} /\ Become(t, "hung")
  BY DEF EngineLocks, EngineHangs, eports
<1>2. /\ own' = own /\ ended' = ended /\ kind' = kind /\ granted' = granted
      /\ owner' = owner /\ epoch' = epoch /\ Owning' = Owning /\ own[t] # 0
      /\ own[t] \in Nat /\ Port(t) /\ Runs(t) /\ Phase(t) /\ Mail(t) /\ eng \in [Tab -> Engine]
  BY <1>1, EngineQuiet
<1>3. (eng[t] = "granted" /\ eng'[t] = "opening") \/ eng'[t] = "hung"
  BY <1>1, <1>2 DEF Become
<1>4. Port(t)'
  BY <1>1, <1>2, <1>3 DEF Port
<1>5. Runs(t)'
  BY <1>1, <1>2, <1>3 DEF Runs, Stuck
<1>6. Phase(t)'
  BY <1>1, <1>2, <1>3 DEF Phase, Stuck
<1>7. Mail(t)'
  BY <1>1, <1>2 DEF Mail
<1> QED BY <1>4, <1>5, <1>6, <1>7 DEF Works

-----------------------------------------------------------------------------
(* What the coordinator sends to engines *)

\* Only the current engine hears of it.
LEMMA ToEnginePort ==
    ASSUME CacheInv, ProtocolInv, Owning, NEW m \in Message, ToEngine(m),
           m.kind \in {"open", "request", "drain"},
           own[owner] = epoch => /\ m.kind = "request" => ~Pending(edown[owner], "drain")
                                 /\ m.kind = "open" => ~Pending(edown[owner], "open"),
           NEW s \in Tab
    PROVE  /\ s # owner \/ own[s] # epoch => edown'[s] = edown[s]
           /\ s = owner /\ own[s] = epoch =>
                /\ Ordered(edown'[s])
                /\ \A k : Pending(edown'[s], k) <=> Pending(edown[s], k) \/ k = m.kind
<1>1. edown \in [Tab -> Seq(Message)] /\ edown[s] \in Seq(Message) /\ owner \in Tab
      /\ Ordered(edown[s])
  BY Facts DEF CacheInv, PortTypes, ProtocolInv, Works, Port
<1>2. CASE s # owner \/ own[s] # epoch
  BY <1>1, <1>2 DEF ToEngine
<1>3. CASE s = owner /\ own[s] = epoch
  <2>1. edown'[s] = Append(edown[s], m)
    BY <1>1, <1>3 DEF ToEngine
  <2>2. \A n \in Contents(edown[s]) : InOrder(n, m)
    BY <1>3, PendingIs DEF InOrder, Calls
  <2>3. Ordered(edown'[s]) /\ Contents(edown'[s]) = Contents(edown[s]) \cup {m}
    BY <1>1, <2>1, <2>2, Appended, OrderAppend
  <2>4. \A k : Pending(edown'[s], k) <=> Pending(edown[s], k) \/ k = m.kind
    BY <2>3, PendingIs
  <2> QED BY <1>3, <2>3, <2>4
<1> QED BY <1>2, <1>3

\* A tab that is not the owner has an older engine, if any.
LEMMA OtherEngine ==
    ASSUME CacheInv, Owning, NEW s \in Tab, s # owner PROVE own[s] # epoch
BY Facts

\* What the engine of an active owner can be.
LEMMA ActiveEngine ==
    ASSUME CacheInv, ProtocolInv, kind = "active", NEW s \in Tab, own[s] = epoch
    PROVE  /\ eng[s] \in Stuck \cup {"ready"} /\ ~Pending(edown[s], "drain")
           /\ \A m \in Contents(eup[s]) : m.kind \notin {"assets", "ready", "drained"}
<1>1. Phase(s) /\ Mail(s) /\ Port(s) /\ Owning /\ epoch # 0 /\ owner = s
  BY Facts DEF ProtocolInv, Works, Owning
<1>2. eng[s] \in Stuck \cup {"ready"} /\ ~Pending(edown[s], "drain")
  BY <1>1 DEF Phase
<1>3. \A m \in Contents(eup[s]) : m.kind \notin {"assets", "ready", "drained"}
  BY <1>1 DEF Mail, Port
<1> QED BY <1>2, <1>3

\* A request is sent to the engine of an active owner.
LEMMA RequestWorks ==
    ASSUME CacheInv, ProtocolInv, kind = "active", NEW m \in Message, m.kind = "request",
           ToEngine(m), UNCHANGED <<kind, owner, epoch, granted, own, ended, eng, eup>>,
           NEW s \in Tab
    PROVE  Works(s)'
<1>1. Owning /\ epoch \in Nat /\ owner \in Tab /\ epoch # 0
  BY Facts DEF Owning
<1>2. own[owner] = epoch => ~Pending(edown[owner], "drain")
  BY <1>1, ActiveEngine
<1>3. /\ s # owner \/ own[s] # epoch => edown'[s] = edown[s]
      /\ s = owner /\ own[s] = epoch =>
           /\ Ordered(edown'[s])
           /\ \A k : Pending(edown'[s], k) <=> Pending(edown[s], k) \/ k = "request"
  BY <1>1, <1>2, ToEnginePort
<1>4. PhaseKept
  BY <1>1 DEF PhaseKept, Owning
<1>5. CASE s # owner \/ own[s] # epoch
  BY <1>3, <1>4, <1>5, EupSame, WorksKept DEF EngineKept
<1>6. CASE s = owner /\ own[s] = epoch
  <2>1. eng[s] \in Stuck \cup {"ready"} /\ Works(s)
    BY <1>6, ActiveEngine DEF ProtocolInv
  <2>2. Port(s)'
    BY <1>1, <1>3, <1>6, <2>1 DEF Works, Port
  <2>3. Runs(s)'
    BY <1>3, <1>6, <2>1 DEF Works, Runs
  <2>4. Phase(s)'
    BY <1>3, <1>6, <2>1 DEF Works, Phase, Owning
  <2>5. Mail(s)'
    BY <2>1 DEF Works, Mail, Owning
  <2> QED BY <2>2, <2>3, <2>4, <2>5 DEF Works
<1> QED BY <1>5, <1>6

\* The active owner is to drain.
LEMMA DrainWorks ==
    ASSUME CacheInv, ProtocolInv, kind = "active", kind' = "draining", NEW m \in Message,
           m.kind = "drain", ToEngine(m), UNCHANGED <<owner, epoch, granted, own, ended, eng, eup>>,
           NEW s \in Tab
    PROVE  Works(s)'
<1>1. Owning /\ epoch \in Nat /\ owner \in Tab /\ epoch # 0 /\ granted
  BY Facts DEF Owning, CacheInv, CoordInv, InFlightHasOwner
<1>3. /\ s # owner \/ own[s] # epoch => edown'[s] = edown[s]
      /\ s = owner /\ own[s] = epoch =>
           /\ Ordered(edown'[s])
           /\ \A k : Pending(edown'[s], k) <=> Pending(edown[s], k) \/ k = "drain"
  BY <1>1, ToEnginePort
<1>4. Works(s) /\ \A x \in Contents(eup[s]) : x.epoch \in Nat
  BY Facts DEF ProtocolInv
<1>5. CASE own[s] # epoch
  <2>1. edown'[s] = edown[s]
    BY <1>3, <1>5
  <2>2. Port(s)' /\ Runs(s)'
    BY <1>4, <2>1 DEF Works, Port, Runs
  <2>3. Phase(s)'
    BY <1>5 DEF Phase
  <2>4. Mail(s)'
    BY <1>1, <1>4 DEF Works, Mail, Owning
  <2> QED BY <2>2, <2>3, <2>4 DEF Works
<1>6. CASE own[s] = epoch
  <2>0. s = owner
    BY <1>1, <1>6, OtherEngine
  <2>1. eng[s] \in Stuck \cup {"ready"} /\ \A x \in Contents(eup[s]) : x.kind \notin {"assets", "ready"}
    BY <1>6, ActiveEngine
  <2>2. Port(s)'
    BY <1>1, <1>3, <1>4, <1>6, <2>0 DEF Works, Port
  <2>3. Runs(s)'
    BY <1>3, <1>4, <1>6, <2>0 DEF Works, Runs
  <2>4. Phase(s)'
    BY <1>1, <1>3, <1>4, <1>6, <2>0, <2>1 DEF Works, Phase, Owning, Stuck
  <2>5. Mail(s)'
    BY <2>1 DEF Mail
  <2> QED BY <2>2, <2>3, <2>4, <2>5 DEF Works
<1> QED BY <1>5, <1>6

\* The message of the engine that the coordinator handles, and what is behind it.
LEMMA EngineSays ==
    ASSUME CacheInv, ProtocolInv, NEW k, FromEngine(k), EngineTaken
    PROVE  /\ Owning /\ owner \in Tab /\ epoch # 0 /\ Pending(eup[owner], k)
           /\ \E h \in Contents(eup[owner]) :
                /\ h.kind = k /\ h.epoch = epoch
                /\ \A m \in Contents(eup'[owner]) : m \in Contents(eup[owner]) /\ InOrder(h, m)
           /\ Ordered(eup'[owner]) /\ \A s \in Tab : EupTaken(s)
<1>1. Owning /\ owner \in Tab /\ epoch # 0 /\ PortTypes /\ eup[owner] # <<>>
      /\ Head(eup[owner]).kind = k /\ Head(eup[owner]).epoch = epoch
  <2>1. route # 0 /\ Owning
    BY DEF FromEngine, CacheInv, CoordInv, RouteInv, Owning
  <2>2. owner \in tabs /\ tabs \subseteq Tab /\ epoch # 0
    BY <2>1 DEF CacheInv, CoordInv, RouteInv, Owning, CoreTypes, WipeInv, DutyKept
  <2> QED BY <2>1, <2>2 DEF FromEngine, CacheInv
<1>2. eup \in [Tab -> Seq(Message)] /\ eup[owner] \in Seq(Message) /\ Ordered(eup[owner])
  BY <1>1 DEF PortTypes, ProtocolInv, Works, Port
<1>3. eup'[owner] = Tail(eup[owner]) /\ \A s \in Tab : s # owner => eup'[s] = eup[s]
  BY <1>1, <1>2 DEF EngineTaken
<1>4. /\ Contents(eup[owner]) = {Head(eup[owner])} \cup Contents(eup'[owner])
      /\ Ordered(eup'[owner]) /\ \A m \in Contents(eup'[owner]) : InOrder(Head(eup[owner]), m)
  BY <1>1, <1>2, <1>3, OrderTail
<1>5. \A s \in Tab : EupTaken(s)
  BY <1>1, <1>3, EupSame, EupTail
<1>6. Pending(eup[owner], k)
  BY <1>1, <1>4, PendingIs
<1> QED BY <1>1, <1>4, <1>5, <1>6

\* The owner may open the database.
LEMMA GrantWorks ==
    ASSUME CacheInv, ProtocolInv, AssetsReady, NEW s \in Tab PROVE Works(s)'
<1> DEFINE m == Msg("open", epoch)
<1>1. /\ FromEngine("assets") /\ kind = "activating" /\ ~granted /\ EngineTaken /\ granted' = TRUE
      /\ ToEngine(m) /\ UNCHANGED <<kind, owner, epoch, own, ended, eng>>
  BY DEF AssetsReady, pages, engines
<1>2. /\ Owning /\ owner \in Tab /\ epoch # 0 /\ Pending(eup[owner], "assets")
      /\ Ordered(eup'[owner]) /\ EupTaken(s)
  BY <1>1, EngineSays
<1>3. PICK h \in Contents(eup[owner]) :
        /\ h.kind = "assets" /\ h.epoch = epoch
        /\ \A n \in Contents(eup'[owner]) : n \in Contents(eup[owner]) /\ InOrder(h, n)
  BY <1>1, EngineSays
<1>4. Works(s) /\ Works(owner) /\ epoch \in Nat /\ own[s] \in Nat
      /\ \A n \in Contents(eup[s]) : n.epoch \in Nat
  BY <1>2, Facts DEF ProtocolInv
<1>5. own[owner] = epoch => eng[owner] \in Stuck \cup {"assets"} /\ ~Pending(edown[owner], "open")
  BY <1>2, <1>4 DEF Works, Runs
<1>6. m \in Message /\ m.kind = "open"
  BY <1>4 DEF Msg, Message
<1> HIDE DEF m
<1>7. /\ s # owner \/ own[s] # epoch => edown'[s] = edown[s]
      /\ s = owner /\ own[s] = epoch =>
           /\ Ordered(edown'[s])
           /\ \A k : Pending(edown'[s], k) <=> Pending(edown[s], k) \/ k = "open"
  BY <1>1, <1>2, <1>5, <1>6, ToEnginePort
<1>8. \A k : Pending(eup'[s], k) => Pending(eup[s], k)
  BY <1>2, PendingIs DEF EupTaken
<1>9. \A n \in Contents(eup'[owner]) : n.kind # "assets"
  BY <1>3 DEF InOrder
<1>10. Mail(s)'
  <2> SUFFICES ASSUME s = owner, NEW n \in Contents(eup'[s]), n.epoch = epoch
               PROVE  n.kind \notin {"assets", "ready", "drained"}
    BY <1>1 DEF Mail, Owning
  <2> QED BY <1>1, <1>2, <1>3, <1>4, <1>9 DEF Works, Mail
<1>11. CASE own[s] # epoch
  <2>1. edown'[s] = edown[s]
    BY <1>7, <1>11
  <2>2. Port(s)' /\ Runs(s)'
    BY <1>1, <1>2, <1>4, <1>8, <2>1 DEF Works, Port, Runs, EupTaken
  <2>3. Phase(s)'
    BY <1>1, <1>11 DEF Phase
  <2> QED BY <1>10, <2>2, <2>3 DEF Works
<1>12. CASE own[s] = epoch
  <2>0. s = owner /\ ~Pending(eup'[s], "assets")
    BY <1>2, <1>9, <1>12, OtherEngine, PendingIs
  <2>1. Port(s)'
    BY <1>1, <1>2, <1>4, <1>7, <1>12, <2>0 DEF Works, Port, EupTaken
  <2>2. Runs(s)'
    BY <1>1, <1>4, <1>5, <1>7, <1>8, <1>12, <2>0 DEF Works, Runs
  <2>3. Phase(s)'
    BY <1>1, <1>4, <1>5, <1>7, <1>12, <2>0 DEF Works, Phase, Owning, Stuck
  <2> QED BY <1>10, <2>1, <2>2, <2>3 DEF Works
<1> QED BY <1>11, <1>12

\* The owner is ready, and what waited is sent to it.
LEMMA OwnerReadyWorks ==
    ASSUME CacheInv, ProtocolInv, OwnerReady, NEW s \in Tab PROVE Works(s)'
<1> DEFINE m == [Msg("request", epoch) EXCEPT !.of = queue]
<1>1. /\ FromEngine("ready") /\ kind = "activating" /\ granted /\ EngineTaken /\ kind' = "active"
      /\ ToEngine(m) \/ edown' = edown
      /\ UNCHANGED <<granted, owner, epoch, own, ended, eng>>
  BY DEF OwnerReady, pages, engines
<1>2. /\ Owning /\ owner \in Tab /\ epoch # 0 /\ Pending(eup[owner], "ready")
      /\ Ordered(eup'[owner]) /\ EupTaken(s)
  BY <1>1, EngineSays
<1>3. PICK h \in Contents(eup[owner]) :
        /\ h.kind = "ready" /\ h.epoch = epoch
        /\ \A n \in Contents(eup'[owner]) : n \in Contents(eup[owner]) /\ InOrder(h, n)
  BY <1>1, EngineSays
<1>4. Works(s) /\ Works(owner) /\ epoch \in Nat /\ own[s] \in Nat
      /\ \A n \in Contents(eup[s]) : n.epoch \in Nat
  BY <1>2, Facts DEF ProtocolInv
<1>5. own[owner] = epoch => eng[owner] \in Stuck \cup {"ready"} /\ ~Pending(edown[owner], "drain")
  BY <1>1, <1>2, <1>4 DEF Works, Runs, Phase, Stuck
<1>6. m \in Message /\ m.kind = "request"
  BY <1>4 DEF Msg, Message, CacheInv, CoordInv, CoreTypes
<1> HIDE DEF m
<1>7. /\ s # owner \/ own[s] # epoch => edown'[s] = edown[s]
      /\ s = owner /\ own[s] = epoch =>
           /\ Ordered(edown'[s])
           /\ \A k : Pending(edown'[s], k) => Pending(edown[s], k) \/ k = "request"
  <2>1. CASE ToEngine(m)
    BY <1>2, <1>5, <1>6, <2>1, ToEnginePort
  <2>2. CASE edown' = edown
    BY <1>4, <2>2 DEF Works, Port
  <2> QED BY <1>1, <2>1, <2>2
<1>8. \A k : Pending(eup'[s], k) => Pending(eup[s], k)
  BY <1>2, PendingIs DEF EupTaken
<1>9. \A n \in Contents(eup'[owner]) : n.kind # "ready"
  BY <1>3 DEF InOrder
<1>10. Mail(s)'
  <2> SUFFICES ASSUME s = owner, NEW n \in Contents(eup'[s]), n.epoch = epoch
               PROVE  n.kind \notin {"assets", "ready", "drained"}
    BY <1>1 DEF Mail, Owning
  <2> QED BY <1>1, <1>2, <1>3, <1>4, <1>9 DEF Works, Mail
<1>11. CASE own[s] # epoch
  <2>1. edown'[s] = edown[s]
    BY <1>7, <1>11
  <2>2. Port(s)' /\ Runs(s)'
    BY <1>1, <1>2, <1>4, <1>8, <2>1 DEF Works, Port, Runs, EupTaken
  <2>3. Phase(s)'
    BY <1>1, <1>11 DEF Phase
  <2> QED BY <1>10, <2>2, <2>3 DEF Works
<1>12. CASE own[s] = epoch
  <2>0. s = owner
    BY <1>2, <1>12, OtherEngine
  <2>1. Port(s)'
    BY <1>1, <1>2, <1>4, <1>7, <1>12, <2>0 DEF Works, Port, EupTaken
  <2>2. Runs(s)'
    BY <1>1, <1>4, <1>5, <1>7, <1>8, <1>12, <2>0 DEF Works, Runs, Stuck
  <2>3. Phase(s)'
    BY <1>1, <1>4, <1>5, <1>7, <1>12, <2>0 DEF Works, Phase, Owning, Stuck
  <2> QED BY <1>10, <2>1, <2>2, <2>3 DEF Works
<1> QED BY <1>11, <1>12

-----------------------------------------------------------------------------
(* Steps of one page and its engine *)

\* Nothing a tab or its engine sees is touched.
Apart(s) ==
    /\ page'[s] = page[s] /\ own'[s] = own[s] /\ ended'[s] = ended[s] /\ eng'[s] = eng[s]
    /\ up'[s] = up[s] /\ down'[s] = down[s] /\ eup'[s] = eup[s] /\ edown'[s] = edown[s]

\* A tab joins only by what it says.
LEMMA JoiningKept ==
    ASSUME NEW s, UpKept(s), s \in tabs' => s \in tabs, s \in pending' => s \in pending
    PROVE  Joining(s)' => Joining(s)
<1>1. Pending(up'[s], "register") => Pending(up[s], "register")
  BY PendingIs DEF UpKept, Marked
<1> QED BY <1>1 DEF Joining

\* What hears nothing keeps its messages.
LEMMA DownSame == ASSUME NEW s, down'[s] = down[s] PROVE DownKept(s)
BY DEF DownKept

\* The coordinator rests.
LEMMA Resting ==
    ASSUME CacheInv, UNCHANGED <<core, router>>, NEW s \in Tab
    PROVE  /\ Elsewhere(s) /\ PhaseKept /\ SameOwner /\ (granted' = granted) /\ (route' = route)
           /\ (Owning' = Owning) /\ (kind' = kind) /\ (owner' = owner) /\ (epoch' = epoch)
           /\ (tabs' = tabs) /\ (pending' = pending)
           /\ \A e : Now(s, e)' = Now(s, e)
<1>1. epoch \in Nat
  BY DEF CacheInv, CoordInv, CoreTypes
<1>2. UNCHANGED <<kind, owner, epoch, granted, route, tabs, pending>>
  BY DEF core, router
<1>3. SameOwner /\ Owning' = Owning
  BY <1>2 DEF SameOwner, Owning
<1>4. Elsewhere(s)
  BY <1>1, <1>3, SameElsewhere
<1>5. PhaseKept
  BY <1>1, <1>2, <1>3 DEF PhaseKept
<1> QED BY <1>2, <1>3, <1>4, <1>5 DEF Now

\* Other tabs notice nothing.
LEMMA ApartKept ==
    ASSUME CacheInv, ProtocolInv, UNCHANGED <<core, router>>, NEW s \in Tab, Apart(s)
    PROVE  Uplink(s)' /\ Script(s)' /\ Works(s)'
<1>1. /\ Elsewhere(s) /\ PhaseKept /\ route' = route /\ owner' = owner /\ epoch' = epoch
      /\ tabs' = tabs /\ pending' = pending /\ \A e : Now(s, e)' = Now(s, e)
  BY Resting
<1>2. UpKept(s) /\ Live(s)' = Live(s) /\ Took(s)' = Took(s)
  BY UpSame DEF Apart, Live, Took
<1>3. WayKept(s)
  BY <1>1, <1>2 DEF WayKept
<1>4. PageKept(s)
  BY <1>1, <1>2, JoiningKept DEF PageKept, Apart
<1>5. EngineKept(s) /\ EupTaken(s) /\ DownKept(s)
  BY EupSame, DownSame DEF EngineKept, Apart
<1>6. Script(s)
  BY DEF ProtocolInv
<1> QED BY <1>1, <1>2, <1>3, <1>4, <1>5, <1>6, UplinkKept, ScriptKept, WorksKept

\* So it is enough to look at one.
LEMMA OneTab ==
    ASSUME CacheInv, ProtocolInv, UNCHANGED <<core, router>>, NEW t \in Tab,
           \A s \in Tab : s # t => Apart(s), Uplink(t)', Script(t)', Works(t)'
    PROVE  ProtocolInv'
<1>1. ASSUME NEW s \in Tab PROVE Uplink(s)' /\ Script(s)' /\ Works(s)'
  BY ApartKept
<1>2. granted' = granted /\ route' = route
  BY DEF core, router
<1> QED BY <1>1, <1>2 DEF ProtocolInv

\* start().
LEMMA StartProtocol ==
    ASSUME CacheInv, AskInv, ProtocolInv, NEW t \in Tab, Start(t) PROVE ProtocolInv'
<1>1. /\ UNCHANGED <<core, router>> /\ own' = own /\ ended' = ended /\ eng' = eng
      /\ eup' = eup /\ edown' = edown /\ down' = down
      /\ \A s \in Tab : s # t => page'[s] = page[s] /\ up'[s] = up[s]
  BY DEF Start, Send, engines, eports, CacheInv, PageTypes, PortTypes
<1>2. \A s \in Tab : s # t => Apart(s)
  BY <1>1 DEF Apart
<1>3. EngineKept(t) /\ EupTaken(t)
  BY <1>1, EupSame DEF EngineKept
<1>4. Works(t)'
  BY <1>1, <1>3, Resting, WorksKept
<1> QED BY <1>1, <1>2, <1>4, StartUp, StartScript, OneTab

\* The page hears news, asks, or asks for a drain.
LEMMA PageSays ==
    ASSUME CacheInv, ProtocolInv, UNCHANGED <<core, router>>, NEW t \in Tab, Live(t)' <=> Live(t),
           own' = own, ended' = ended, eng' = eng, eup' = eup, edown' = edown,
           UpKept(t), DownKept(t),
           \A s \in Tab : s # t => page'[s] = page[s] /\ up'[s] = up[s] /\ down'[s] = down[s]
    PROVE  ProtocolInv'
<1>1. /\ Elsewhere(t) /\ PhaseKept /\ route' = route /\ owner' = owner /\ epoch' = epoch
      /\ tabs' = tabs /\ pending' = pending /\ \A e : Now(t, e)' = Now(t, e)
  BY Resting
<1>2. WayKept(t)
  BY <1>1 DEF WayKept, Took
<1>3. PageKept(t)
  BY <1>1, JoiningKept DEF PageKept
<1>4. EngineKept(t) /\ EupTaken(t) /\ Script(t)
  BY EupSame DEF EngineKept, ProtocolInv
<1>5. Uplink(t)' /\ Script(t)' /\ Works(t)'
  BY <1>1, <1>2, <1>3, <1>4, UplinkKept, ScriptKept, WorksKept
<1>6. \A s \in Tab : s # t => Apart(s)
  BY DEF Apart
<1> QED BY <1>5, <1>6, OneTab

\* postMessage(), dispose({graceful}), and news.
LEMMA SaysProtocol ==
    ASSUME CacheInv, ProtocolInv, NEW t \in Tab,
           Ask(t) \/ DisposeGracefully(t) \/ HearRegistered(t) \/ HearAnswer(t)
    PROVE  ProtocolInv'
<1>0. PortTypes /\ Uplink(t) /\ own[t] \in Nat /\ page \in [Tab -> Page]
  BY Facts DEF ProtocolInv, CacheInv, PageTypes
<1>1. /\ UNCHANGED <<core, router>> /\ own' = own /\ ended' = ended /\ eng' = eng
      /\ eup' = eup /\ edown' = edown
  BY DEF Ask, DisposeGracefully, HearRegistered, HearAnswer, pages, engines, eports
<1>2. Live(t)' <=> Live(t)
  BY <1>0 DEF Ask, DisposeGracefully, HearRegistered, HearAnswer, Hear, pages, Live
<1>3. \A s \in Tab : s # t => page'[s] = page[s] /\ up'[s] = up[s] /\ down'[s] = down[s]
  BY <1>0 DEF Ask, DisposeGracefully, HearRegistered, HearAnswer, pages, Heard, Send, PortTypes
<1>4. \/ up'[t] = up[t] \/ up'[t] = Append(up[t], Msg("request", 0))
      \/ up'[t] = Append(up[t], Msg("graceful", own[t]))
  BY <1>0 DEF Ask, DisposeGracefully, HearRegistered, HearAnswer, Send, PortTypes
<1>5. UpKept(t)
  <2>1. /\ Msg("request", 0) \in Message /\ Msg("request", 0).kind = "request"
        /\ Msg("graceful", own[t]) \in Message /\ Msg("graceful", own[t]).kind = "graceful"
    BY <1>0, MsgKind
  <2>2. CASE up'[t] = up[t]
    BY <2>2, UpSame
  <2>3. CASE up'[t] = Append(up[t], Msg("request", 0))
    BY <1>0, <2>1, <2>3, UpAdded DEF Marked
  <2>4. CASE up'[t] = Append(up[t], Msg("graceful", own[t]))
    BY <1>0, <2>1, <2>4, UpAdded DEF Marked
  <2> QED BY <1>4, <2>2, <2>3, <2>4
<1>6. DownKept(t)
  <2>1. CASE Ask(t) \/ DisposeGracefully(t)
    BY <2>1, DownSame DEF Ask, DisposeGracefully
  <2>2. CASE HearRegistered(t) \/ HearAnswer(t)
    <3>1. Live(t) /\ down[t] # <<>> /\ ~Orders(Head(down[t])) /\ down'[t] = Tail(down[t])
      BY <1>0, <2>2 DEF HearRegistered, HearAnswer, Hear, Heard, Orders, PortTypes
    <3> QED BY <1>0, <3>1, TailDown
  <2> QED BY <2>1, <2>2
<1> QED BY <1>1, <1>2, <1>3, <1>5, <1>6, PageSays

\* A page is closed.
LEMMA CloseProtocol ==
    ASSUME CacheInv, ProtocolInv, NEW t \in Tab, ClosePage(t), UNCHANGED <<core, router>>,
           \A s \in Tab : s # t => up'[s] = up[s],
           UpKept(t) \/ Navigate(t)
    PROVE  ProtocolInv'
<1>1. /\ Elsewhere(t) /\ PhaseKept /\ route' = route /\ owner' = owner /\ epoch' = epoch
      /\ tabs' = tabs /\ pending' = pending /\ (\A e : Now(t, e)' = Now(t, e)) /\ SameOwner
      /\ kind' = kind /\ granted' = granted
  BY Resting
<1>2. OwnerGone(t) /\ EngineGone(t)
  BY DEF ClosePage
<1>3. Script(t)' /\ ~Live(t)'
  BY <1>1, CloseScript
<1>4. Works(t)'
  BY <1>1, <1>2, GoneWorks
<1>5. \A e \in Took(t) : e # 0 => e \in Took(t)'
  BY <1>2 DEF OwnerGone, Took, CacheInv, PageTypes
<1>6. Uplink(t)'
  <2>1. CASE UpKept(t)
    BY <1>1, <1>3, <1>5, <2>1, UplinkKept DEF WayKept
  <2> QED BY <1>3, <2>1, NavigateUp
<1>7. ASSUME NEW s \in Tab, s # t PROVE Apart(s)
  BY <1>2, <1>7 DEF Apart, ClosePage, OwnerGone, EngineGone, CacheInv, PageTypes, PortTypes
<1> QED BY <1>3, <1>4, <1>6, <1>7, OneTab

\* dispose(), pagehide, a crash, retire-complete, a terminal coordinator.
LEMMA LeavingProtocol ==
    ASSUME CacheInv, ProtocolInv, NEW t \in Tab,
           \/ GracefulTimeout(t) \/ Dispose(t) \/ Navigate(t) \/ TabCrash(t)
           \/ HearRetire(t) \/ HearTerminal(t)
    PROVE  ProtocolInv'
<1>0. PortTypes /\ Uplink(t)
  BY Facts DEF ProtocolInv
<1>1. ClosePage(t) /\ UNCHANGED <<core, router>>
  BY DEF GracefulTimeout, Dispose, Navigate, TabCrash, HearRetire, HearTerminal
<1>2. \A s \in Tab : s # t => up'[s] = up[s]
  BY <1>0 DEF GracefulTimeout, Dispose, Navigate, TabCrash, HearRetire, HearTerminal, Send, PortTypes
<1>3. Navigate(t) \/ up'[t] = up[t] \/ up'[t] = Append(up[t], Msg("disconnect", 0))
  BY <1>0 DEF GracefulTimeout, Dispose, TabCrash, HearRetire, HearTerminal, Send, PortTypes
<1>4. Msg("disconnect", 0) \in Message /\ Msg("disconnect", 0).kind = "disconnect"
  BY DEF Msg, Message
<1>5. UpKept(t) \/ Navigate(t)
  <2>1. CASE up'[t] = up[t]
    BY <2>1, UpSame
  <2>2. CASE up'[t] = Append(up[t], Msg("disconnect", 0))
    BY <1>0, <1>4, <2>2, UpAdded DEF Marked
  <2> QED BY <1>3, <2>1, <2>2
<1> QED BY <1>1, <1>2, <1>5, CloseProtocol

\* An engine is terminated, its page stays.
LEMMA DropProtocol ==
    ASSUME CacheInv, ProtocolInv, NEW t \in Tab, OwnerGone(t), EngineGone(t),
           UNCHANGED <<core, router, page>>, Script(t)', UpKept(t),
           \A s \in Tab : s # t => up'[s] = up[s] /\ down'[s] = down[s]
    PROVE  ProtocolInv'
<1>1. /\ route' = route /\ owner' = owner /\ epoch' = epoch
      /\ tabs' = tabs /\ pending' = pending /\ (\A e : Now(t, e)' = Now(t, e))
      /\ kind' = kind /\ granted' = granted
  BY Resting
<1>2. Works(t)'
  BY <1>1, GoneWorks
<1>3. \A e \in Took(t) : e # 0 => e \in Took(t)'
  BY DEF OwnerGone, Took, CacheInv, PageTypes
<1>4. Live(t)' = Live(t)
  BY DEF Live
<1>5. Uplink(t)'
  BY <1>1, <1>3, <1>4, UplinkKept DEF WayKept
<1>6. ASSUME NEW s \in Tab, s # t PROVE Apart(s)
  BY <1>6 DEF Apart, OwnerGone, EngineGone, CacheInv, PageTypes, PortTypes
<1> QED BY <1>2, <1>5, <1>6, OneTab

\* worker.onerror.
LEMMA WorkerErrorProtocol ==
    ASSUME CacheInv, ProtocolInv, NEW t \in Tab, WorkerError(t) PROVE ProtocolInv'
<1>0. PortTypes /\ Uplink(t) /\ own[t] \in Nat
  BY Facts DEF ProtocolInv
<1>1. CASE page[t] = "leaving"
  <2>1. ClosePage(t) /\ UNCHANGED <<core, router>> /\ up' = up
    BY <1>1 DEF WorkerError
  <2>2. UpKept(t)
    BY <2>1, UpSame
  <2> QED BY <2>1, <2>2, CloseProtocol
<1>2. CASE page[t] # "leaving"
  <2>1. /\ OwnerGone(t) /\ EngineGone(t) /\ UNCHANGED <<core, router, page, down>>
        /\ Send(t, Msg("lost", own[t])) /\ eng[t] # "drained"
    BY <1>2 DEF WorkerError
  <2>2. up'[t] = Append(up[t], Msg("lost", own[t])) /\ \A s \in Tab : s # t => up'[s] = up[s]
    BY <1>0, <2>1 DEF Send, PortTypes
  <2>3. Msg("lost", own[t]) \in Message /\ Msg("lost", own[t]).kind = "lost"
    BY <1>0, MsgKind
  <2>4. UpKept(t)
    BY <1>0, <2>2, <2>3, UpAdded DEF Marked
  <2>5. SameOwner /\ UNCHANGED <<page, down, eup>>
    BY <2>1, Resting DEF EngineGone
  <2>6. Script(t)'
    BY <2>1, <2>5, DropScript
  <2> QED BY <2>1, <2>2, <2>4, <2>6, DropProtocol
<1> QED BY <1>1, <1>2

\* become-owner.
LEMMA HearBecomeProtocol ==
    ASSUME CacheInv, ProtocolInv, NEW t \in Tab, HearBecome(t) PROVE ProtocolInv'
<1>1. ASSUME NEW s \in Tab, s # t PROVE Apart(s)
  BY <1>1 DEF HearBecome, Heard, Send, Apart, CacheInv, PageTypes, PortTypes
<1>2. UNCHANGED <<core, router>>
  BY DEF HearBecome
<1> QED BY <1>1, <1>2, BecomeUp, BecomeScript, BecomeWorks, OneTab

\* terminate-engine.
LEMMA HearTerminateProtocol ==
    ASSUME CacheInv, ProtocolInv, NEW t \in Tab, HearTerminate(t) PROVE ProtocolInv'
<1>1. /\ UNCHANGED <<core, router, page, up>> /\ Heard(t)
      /\ \/ OwnerGone(t) /\ EngineGone(t)
         \/ UNCHANGED <<own, ended, engines, eports>>
  BY DEF HearTerminate
<1>2. \A s \in Tab : s # t => up'[s] = up[s] /\ down'[s] = down[s]
  BY <1>1 DEF Heard, CacheInv, PortTypes
<1>3. UpKept(t) /\ Script(t)'
  BY <1>1, UpSame, TerminateScript
<1>4. CASE OwnerGone(t) /\ EngineGone(t)
  BY <1>1, <1>2, <1>3, <1>4, DropProtocol
<1>5. CASE UNCHANGED <<own, ended, engines, eports>>
  <2>1. own' = own /\ ended' = ended /\ eng' = eng /\ eup' = eup /\ edown' = edown
    BY <1>5 DEF engines, eports
  <2>2. /\ PhaseKept /\ route' = route /\ owner' = owner /\ epoch' = epoch
        /\ tabs' = tabs /\ pending' = pending /\ (\A e : Now(t, e)' = Now(t, e))
    BY <1>1, Resting
  <2>3. WayKept(t)
    BY <1>1, <2>1, <2>2 DEF WayKept, Took, Live
  <2>4. EngineKept(t) /\ EupTaken(t)
    BY <2>1, EupSame DEF EngineKept
  <2>5. Uplink(t)' /\ Works(t)'
    BY <1>3, <2>2, <2>3, <2>4, UplinkKept, WorksKept
  <2>6. \A s \in Tab : s # t => Apart(s)
    BY <1>1, <1>2, <2>1 DEF Apart
  <2> QED BY <1>1, <1>3, <2>5, <2>6, OneTab
<1> QED BY <1>1, <1>4, <1>5

\* The engine works, hears or says something: only what it says of a drain matters to
\* the page.
LEMMA EngineProtocol ==
    ASSUME CacheInv, ProtocolInv, NEW t \in Tab, UNCHANGED quiet, Works(t)',
           \A s \in Tab : s # t => eng'[s] = eng[s] /\ eup'[s] = eup[s] /\ edown'[s] = edown[s],
           eng[t] = "drained" => eng'[t] = "drained",
           \/ eup' = eup
           \/ \E m \in Message : /\ Tell(t, m) /\ m.epoch = own[t]
                                 /\ m.kind = "drained" => eng'[t] = "drained"
    PROVE  ProtocolInv'
<1>1. UNCHANGED <<core, router>> /\ page' = page /\ own' = own /\ ended' = ended
      /\ up' = up /\ down' = down
  BY DEF quiet, pages
<1>2. /\ Elsewhere(t) /\ route' = route /\ owner' = owner /\ epoch' = epoch
      /\ tabs' = tabs /\ pending' = pending /\ \A e : Now(t, e)' = Now(t, e)
  BY <1>1, Resting
<1>3. UpKept(t) /\ DownKept(t) /\ Live(t)' = Live(t)
  BY <1>1, UpSame, DownSame DEF Live
<1>4. WayKept(t)
  BY <1>1, <1>2, <1>3 DEF WayKept, Took
<1>5. \A m \in Contents(eup'[t]) : m.kind = "drained" =>
         m \in Contents(eup[t]) \/ (m.epoch = own[t] /\ eng'[t] = "drained")
  <2>1. CASE eup' = eup
    BY <2>1
  <2>2. CASE eup' # eup
    <3>1. PICK m \in Message : Tell(t, m) /\ m.epoch = own[t]
                               /\ (m.kind = "drained" => eng'[t] = "drained")
      BY <2>2
    <3>2. eup[t] \in Seq(Message) /\ eup'[t] = Append(eup[t], m)
      BY <3>1 DEF Tell, CacheInv, PortTypes
    <3>3. Contents(eup'[t]) = Contents(eup[t]) \cup {m}
      BY <3>2, Appended
    <3> QED BY <3>1, <3>3
  <2> QED BY <2>1, <2>2
<1>6. PageKept(t)
  BY <1>1, <1>2, <1>3, <1>5, JoiningKept DEF PageKept
<1>7. Script(t)
  BY DEF ProtocolInv
<1>8. Uplink(t)' /\ Script(t)'
  BY <1>2, <1>3, <1>4, <1>6, <1>7, UplinkKept, ScriptKept
<1>9. \A s \in Tab : s # t => Apart(s)
  BY <1>1 DEF Apart
<1> QED BY <1>1, <1>8, <1>9, OneTab

\* Every step of an engine.
LEMMA EngineStepProtocol ==
    ASSUME CacheInv, ProtocolInv, NEW t \in Tab,
           EngineStep(t) \/ EngineFails(t) \/ EngineHangs(t)
    PROVE  ProtocolInv'
<1>0. own[t] \in Nat /\ PageTypes /\ PortTypes
  BY Facts DEF CacheInv
<1>1. CASE EngineAssets(t)
  <2>1. Msg("assets", own[t]) \in Message /\ Msg("assets", own[t]).kind = "assets"
        /\ Msg("assets", own[t]).epoch = own[t]
    BY <1>0 DEF Msg, Message
  <2>2. Works(t)'
    BY <1>1, AssetsWorks
  <2>3. UNCHANGED quiet /\ Tell(t, Msg("assets", own[t])) /\ eng[t] # "drained"
        /\ \A s \in Tab : s # t => eng'[s] = eng[s] /\ eup'[s] = eup[s] /\ edown'[s] = edown[s]
    BY <1>0, <1>1 DEF EngineAssets, Become, Tell, PageTypes, PortTypes
  <2> QED BY <2>1, <2>2, <2>3, EngineProtocol
<1>2. CASE EngineReady(t)
  <2>1. Msg("ready", own[t]) \in Message /\ Msg("ready", own[t]).kind = "ready"
        /\ Msg("ready", own[t]).epoch = own[t]
    BY <1>0 DEF Msg, Message
  <2>2. Works(t)'
    BY <1>2, ReadyWorks
  <2>3. UNCHANGED quiet /\ Tell(t, Msg("ready", own[t])) /\ eng[t] # "drained"
        /\ \A s \in Tab : s # t => eng'[s] = eng[s] /\ eup'[s] = eup[s] /\ edown'[s] = edown[s]
    BY <1>0, <1>2 DEF EngineReady, Become, Tell, PageTypes, PortTypes
  <2> QED BY <2>1, <2>2, <2>3, EngineProtocol
<1>3. CASE EngineDrained(t)
  <2>1. Msg("drained", own[t]) \in Message /\ Msg("drained", own[t]).kind = "drained"
        /\ Msg("drained", own[t]).epoch = own[t]
    BY <1>0 DEF Msg, Message
  <2>2. Works(t)'
    BY <1>3, DrainedWorks
  <2>3. UNCHANGED quiet /\ Tell(t, Msg("drained", own[t])) /\ eng'[t] = "drained"
        /\ \A s \in Tab : s # t => eng'[s] = eng[s] /\ eup'[s] = eup[s] /\ edown'[s] = edown[s]
    BY <1>0, <1>3 DEF EngineDrained, Become, Tell, PageTypes, PortTypes
  <2> QED BY <2>1, <2>2, <2>3, EngineProtocol
<1>4. ASSUME NEW r \in Tab, EngineResponds(t, r) PROVE ProtocolInv'
  <2> DEFINE m == [Msg("response", own[t]) EXCEPT !.of = {r}]
  <2>1. m \in Message /\ m.kind = "response" /\ m.epoch = own[t]
    BY <1>0 DEF Msg, Message
  <2>2. UNCHANGED <<quiet, edown>> /\ Tell(t, m) /\ eng[t] \notin {"drained", "none"} /\ eng' = eng
        /\ \A s \in Tab : s # t => eng'[s] = eng[s] /\ eup'[s] = eup[s] /\ edown'[s] = edown[s]
    BY <1>0, <1>4 DEF EngineResponds, Tell, PageTypes, PortTypes
  <2> HIDE DEF m
  <2>3. Works(t)'
    BY <2>1, <2>2, SaysWorks
  <2> QED BY <2>1, <2>2, <2>3, EngineProtocol
<1>5. CASE EngineFails(t)
  <2> DEFINE m == Msg("fatal", own[t])
  <2>1. m \in Message /\ m.kind = "fatal" /\ m.epoch = own[t]
    BY <1>0 DEF Msg, Message
  <2>2. UNCHANGED <<quiet, edown>> /\ Tell(t, m) /\ eng[t] \notin {"drained", "none"}
        /\ eng'[t] = "failed"
        /\ \A s \in Tab : s # t => eng'[s] = eng[s] /\ eup'[s] = eup[s] /\ edown'[s] = edown[s]
    BY <1>0, <1>5 DEF EngineFails, Become, Tell, PageTypes, PortTypes
  <2> HIDE DEF m
  <2>3. Works(t)'
    BY <2>1, <2>2, SaysWorks
  <2> QED BY <2>1, <2>2, <2>3, EngineProtocol
<1>6. CASE EngineGranted(t) \/ EngineAdmits(t) \/ EngineDrains(t)
  <2>1. Works(t)'
    BY <1>6, HearsWorks
  <2>2. UNCHANGED quiet /\ eup' = eup /\ eng[t] # "drained"
        /\ \A s \in Tab : s # t => eng'[s] = eng[s] /\ eup'[s] = eup[s] /\ edown'[s] = edown[s]
    BY <1>0, <1>6 DEF EngineGranted, EngineAdmits, EngineDrains, Become, EngineHeard, PageTypes, PortTypes
  <2> QED BY <2>1, <2>2, EngineProtocol
<1>7. CASE EngineLocks(t) \/ EngineHangs(t)
  <2>1. Works(t)'
    BY <1>7, SilentWorks
  <2>2. UNCHANGED quiet /\ eup' = eup /\ eng[t] # "drained"
        /\ \A s \in Tab : s # t => eng'[s] = eng[s] /\ eup'[s] = eup[s] /\ edown'[s] = edown[s]
    BY <1>0, <1>7 DEF EngineLocks, EngineHangs, Become, eports, PageTypes
  <2> QED BY <2>1, <2>2, EngineProtocol
<1> QED BY <1>1, <1>2, <1>3, <1>4, <1>5, <1>6, <1>7 DEF EngineStep

\* Every step of a page and its engine.
LEMMA PageProtocol ==
    ASSUME CacheInv, AskInv, ProtocolInv, NEW t \in Tab,
           User(t) \/ PageStep(t) \/ EngineStep(t) \/ Failure(t)
    PROVE  ProtocolInv'
BY StartProtocol, SaysProtocol, LeavingProtocol, WorkerErrorProtocol, HearBecomeProtocol,
   HearTerminateProtocol, EngineStepProtocol DEF User, PageStep, Failure

-----------------------------------------------------------------------------
(* What the coordinator posts when an owner is lost and when one is elected *)

\* transitionToAbruptLoss(): the lost owner is told to terminate its engine, the others
\* get news.
LEMMA LoseOwnerTold ==
    ASSUME CacheInv, NEW t \in tabs, NEW gone, LoseOwner(t, gone), NEW s \in Tab
    PROVE  \E n : /\ Hears(s, n)
                  /\ s # t => Silent(n)
                  /\ s = t => Brings(n, "terminate", epoch)
<1> DEFINE g == attempts >= RetryLimit
           a == If(s = t, Msg("terminate", epoch))
           b == If(s \in Routed /\ ~(gone /\ s = t), Msg("answer", 0))
           c == If(g /\ ~(gone /\ s = t), Msg("terminal", 0))
           new == [r \in Tab |->
                     If(r = t, Msg("terminate", epoch))
                     \o If(r \in Routed /\ ~(gone /\ r = t), Msg("answer", 0))
                     \o If(g /\ ~(gone /\ r = t), Msg("terminal", 0))]
<1>1. Post(tabs, new)
  BY DEF LoseOwner
<1>2. PortTypes /\ epoch \in Nat
  BY Facts
<1>3. /\ Msg("terminate", epoch) \in Message /\ Msg("terminate", epoch).kind = "terminate"
      /\ Msg("terminate", epoch).epoch = epoch
      /\ Msg("answer", 0) \in Message /\ News(Msg("answer", 0))
      /\ Msg("terminal", 0) \in Message /\ News(Msg("terminal", 0))
  BY <1>2 DEF Msg, Message, News
<1>4. Silent(b) /\ Silent(c)
  BY <1>3, SilentIf
<1>5. (s # t => Silent(a)) /\ (s = t => Brings(a, "terminate", epoch))
  BY <1>3, SilentNot, BringsIf
<1>6. new[s] = (a \o b) \o c
  OBVIOUS
<1> HIDE DEF a, b, c, new, g
<1>7. s # t => Silent(new[s])
  BY <1>4, <1>5, <1>6, SilentJoin
<1>8. s = t => Brings(new[s], "terminate", epoch)
  BY <1>4, <1>5, <1>6, BringsJoin
<1>9. new[s] \in Seq(Message)
  BY <1>7, <1>8 DEF Silent, Brings
<1>10. Hears(s, IF s \in tabs THEN new[s] ELSE <<>>)
  BY <1>1, <1>2, <1>9, PostHears
<1>11. CASE s \in tabs
  BY <1>7, <1>8, <1>10, <1>11
<1>12. CASE s \notin tabs
  BY <1>10, <1>12, SilentNone
<1> QED BY <1>11, <1>12

\* Nobody is elected, or c is.
Nobody     == kind' = "waiting" /\ owner' = owner /\ epoch' = epoch
Elected(c) == kind' = "activating" /\ owner' = c /\ epoch' = epoch + 1

\* activateNext() to a tab that gets news besides.
LEMMA ActivateNews ==
    ASSUME PortTypes, epoch \in Nat, NEW s \in Tab, NEW T, NEW avoid, NEW a \in Action, NEW R,
           NEW first, Activate(T, avoid, a, R, first), Silent(first[s]), T \subseteq R
    PROVE  \/ Nobody /\ \E n : Hears(s, n) /\ Silent(n)
           \/ \E c \in T : /\ Elected(c)
                           /\ \E n : /\ Hears(s, n)
                                     /\ s # c => Silent(n)
                                     /\ s = c => Brings(n, "become", epoch + 1)
<1>1. CASE Candidates(T, avoid) = {} /\ Nobody /\ Post(R, first)
  <2>1. first[s] \in Seq(Message)
    BY DEF Silent
  <2>2. Hears(s, IF s \in R THEN first[s] ELSE <<>>)
    BY <1>1, <2>1, PostHears
  <2> QED BY <1>1, <2>2, SilentNone
<1>2. ASSUME NEW c \in Candidates(T, avoid), Elected(c),
             Post(R, [t \in Tab |-> first[t] \o
                        If(t = c, [Msg("become", epoch + 1) EXCEPT !.act = a])])
      PROVE  /\ c \in T
             /\ \E n : /\ Hears(s, n)
                       /\ s # c => Silent(n)
                       /\ s = c => Brings(n, "become", epoch + 1)
  <2> DEFINE m   == [Msg("become", epoch + 1) EXCEPT !.act = a]
             p   == If(s = c, m)
             new == [t \in Tab |-> first[t] \o If(t = c, m)]
  <2>1. m \in Message /\ m.kind = "become" /\ m.epoch = epoch + 1
    BY DEF Msg, Message
  <2>2. Post(R, new)
    BY <1>2
  <2> HIDE DEF m
  <2>3. new[s] = first[s] \o p
    OBVIOUS
  <2>4. (s # c => Silent(p)) /\ (s = c => Brings(p, "become", epoch + 1))
    BY <2>1, SilentNot, BringsIf
  <2> HIDE DEF p, new
  <2>5. (s # c => Silent(new[s])) /\ (s = c => Brings(new[s], "become", epoch + 1))
    BY <2>3, <2>4, SilentJoin, BringsJoin
  <2>6. new[s] \in Seq(Message)
    BY <2>5 DEF Silent, Brings
  <2>7. Hears(s, IF s \in R THEN new[s] ELSE <<>>)
    BY <2>2, <2>6, PostHears
  <2>8. c \in T /\ c \in R
    BY <1>2, CandidateRegistered
  <2>9. CASE s \in R
    BY <2>5, <2>7, <2>8, <2>9
  <2>10. CASE s \notin R
    BY <2>7, <2>8, <2>10, SilentNone
  <2> QED BY <2>8, <2>9, <2>10
<1> QED BY <1>1, <1>2 DEF Activate, Nobody, Elected

\* activateNext() to a tab that is no candidate and is told to retire.
LEMMA ActivateRetires ==
    ASSUME PortTypes, epoch \in Nat, NEW s \in Tab, NEW T, NEW avoid, NEW a \in Action, NEW R,
           NEW first, Activate(T, avoid, a, R, first), Brings(first[s], "retire", epoch),
           s \in R, s \notin T
    PROVE  /\ Nobody \/ \E c \in T : Elected(c)
           /\ \E n : Hears(s, n) /\ Brings(n, "retire", epoch)
<1>1. CASE Candidates(T, avoid) = {} /\ Nobody /\ Post(R, first)
  <2>1. first[s] \in Seq(Message)
    BY DEF Brings
  <2>2. Hears(s, first[s])
    BY <1>1, <2>1, PostHears
  <2> QED BY <1>1, <2>2
<1>2. ASSUME NEW c \in Candidates(T, avoid), Elected(c),
             Post(R, [t \in Tab |-> first[t] \o
                        If(t = c, [Msg("become", epoch + 1) EXCEPT !.act = a])])
      PROVE  c \in T /\ \E n : Hears(s, n) /\ Brings(n, "retire", epoch)
  <2> DEFINE m   == [Msg("become", epoch + 1) EXCEPT !.act = a]
             p   == If(s = c, m)
             new == [t \in Tab |-> first[t] \o If(t = c, m)]
  <2>0. c \in T /\ s # c
    BY <1>2, CandidateRegistered
  <2>1. m \in Message
    BY DEF Msg, Message
  <2>2. Post(R, new)
    BY <1>2
  <2> HIDE DEF m
  <2>3. new[s] = first[s] \o p
    OBVIOUS
  <2>4. Silent(p)
    BY <2>0, <2>1, SilentNot
  <2> HIDE DEF p, new
  <2>5. Brings(new[s], "retire", epoch)
    BY <2>3, <2>4, BringsJoin
  <2>6. new[s] \in Seq(Message)
    BY <2>5 DEF Brings
  <2>7. Hears(s, new[s])
    BY <2>2, <2>6, PostHears
  <2> QED BY <2>0, <2>5, <2>7
<1> QED BY <1>1, <1>2 DEF Activate, Nobody, Elected

-----------------------------------------------------------------------------
(* Steps of the coordinator *)

\* Pages and engines stand still; t's messages are as they were, or some are taken.
Stands(s) ==
    /\ UNCHANGED <<pages, engines>>
    /\ UpKept(s) /\ EupTaken(s)
    /\ (s \in tabs' => s \in tabs) /\ (s \in pending' => s \in pending)

\* A page that stands still keeps what it has.
LEMMA StandsKept ==
    ASSUME NEW s, Stands(s)
    PROVE  /\ PageKept(s) /\ Live(s)' = Live(s) /\ Took(s)' = Took(s)
           /\ own' = own /\ ended' = ended /\ eng' = eng /\ page' = page
           /\ edown'[s] = edown[s] => EngineKept(s)
<1>1. own' = own /\ ended' = ended /\ eng' = eng /\ page' = page
  BY DEF Stands, pages, engines
<1>2. Live(s)' = Live(s) /\ Took(s)' = Took(s)
  BY <1>1 DEF Live, Took
<1>3. Joining(s)' => Joining(s)
  BY JoiningKept DEF Stands
<1>4. PageKept(s)
  BY <1>1, <1>2, <1>3 DEF PageKept, Stands, EupTaken
<1> QED BY <1>1, <1>2, <1>4 DEF EngineKept

\* Its messages to the coordinator, while no epoch but a new one begins.
LEMMA StandsUp ==
    ASSUME CacheInv, ProtocolInv, NEW s \in Tab, Stands(s),
           \A e : Now(s, e)' => Now(s, e) \/ (e = epoch + 1),
           route' # 0 /\ owner' = s => route # 0 /\ owner = s /\ epoch' = epoch
    PROVE  Uplink(s)'
<1>1. Live(s)' = Live(s) /\ Took(s)' = Took(s)
  BY StandsKept
<1>2. WayKept(s)
  BY <1>1 DEF WayKept, Stands
<1> QED BY <1>2, UplinkKept DEF Stands

\* An owner is lost.
LEMMA LossTab ==
    ASSUME CacheInv, ProtocolInv, NEW t \in Tab, NEW e, IsOwner(t, e), NEW gone \in BOOLEAN,
           LoseOwner(t, gone), NEW s \in Tab, UpKept(s), EupTaken(s),
           UNCHANGED <<pages, engines, pending, edown>>
    PROVE  Uplink(s)' /\ Script(s)' /\ Works(s)'
<1>1. /\ kind' \in {"failed", "resetting"} /\ owner' = owner /\ epoch' = epoch /\ route' = 0
      /\ tabs' \subseteq tabs
  BY DEF LoseOwner
<1>2. Owning /\ owner = t /\ t \in tabs
  BY DEF IsOwner, Owning, CacheInv, CoordInv, RouteInv
<1>3. ~Owning' /\ \A x : ~Now(s, x)'
  BY <1>1 DEF Owning, Now
<1>4. Stands(s) /\ epoch \in Nat /\ PortTypes /\ Script(s)
  BY <1>1, Facts DEF Stands, ProtocolInv
<1>5. Uplink(s)'
  BY <1>1, <1>3, <1>4, StandsUp
<1>6. PageKept(s) /\ EngineKept(s)
  BY <1>4, StandsKept
<1>7. PhaseKept
  BY <1>1, <1>3, <1>4 DEF PhaseKept
<1>8. Works(s)'
  BY <1>6, <1>7, WorksKept
<1>9. PICK n : Hears(s, n) /\ (s # t => Silent(n)) /\ (s = t => Brings(n, "terminate", epoch))
  BY <1>2, LoseOwnerTold
<1>10. CASE s = t
  BY <1>1, <1>2, <1>3, <1>4, <1>5, <1>6, <1>8, <1>9, <1>10, ScriptLost
<1>11. CASE s # t
  <2>1. DownKept(s)
    BY <1>4, <1>9, <1>11, SilentDown
  <2>2. Elsewhere(s)
    BY <1>1, <1>2, <1>3, <1>4, <1>11 DEF Elsewhere
  <2> QED BY <1>4, <1>5, <1>6, <1>8, <2>1, <2>2, ScriptKept
<1> QED BY <1>10, <1>11

\* The same for all tabs.
LEMMA LossProtocol ==
    ASSUME CacheInv, ProtocolInv, NEW t \in Tab, NEW e, IsOwner(t, e), NEW gone \in BOOLEAN,
           LoseOwner(t, gone), \A s \in Tab : UpKept(s) /\ EupTaken(s),
           UNCHANGED <<pages, engines, pending, edown>>
    PROVE  ProtocolInv'
<1>1. granted' = FALSE
  BY DEF LoseOwner
<1>2. \A s \in Tab : Uplink(s)' /\ Script(s)' /\ Works(s)'
  BY LossTab
<1> QED BY <1>1, <1>2 DEF ProtocolInv

\* A message is taken and the owner stays who it is.
LEMMA QuietProtocol ==
    ASSUME CacheInv, ProtocolInv, UNCHANGED <<pages, engines, kind, owner, epoch, granted, route>>,
           tabs' \subseteq tabs, pending' \subseteq pending, UNCHANGED edown,
           \A s \in Tab : UpKept(s) /\ EupTaken(s) /\ DownKept(s)
    PROVE  ProtocolInv'
<1>1. SameOwner /\ Owning' = Owning /\ epoch \in Nat
  BY DEF SameOwner, Owning, CacheInv, CoordInv, CoreTypes
<1>2. PhaseKept
  BY <1>1 DEF PhaseKept, SameOwner
<1>3. ASSUME NEW s \in Tab PROVE Uplink(s)' /\ Script(s)' /\ Works(s)'
  <2>1. Stands(s) /\ DownKept(s) /\ EupTaken(s) /\ Script(s) /\ Elsewhere(s)
    BY <1>1, SameElsewhere DEF Stands, ProtocolInv
  <2>2. \A e : Now(s, e)' = Now(s, e)
    BY <1>1 DEF Now, SameOwner
  <2>3. Uplink(s)'
    BY <1>1, <2>1, <2>2, StandsUp DEF SameOwner
  <2>4. PageKept(s) /\ EngineKept(s)
    BY <2>1, StandsKept
  <2> QED BY <1>2, <2>1, <2>3, <2>4, ScriptKept, WorksKept
<1> QED BY <1>3 DEF ProtocolInv

\* A message of a page is taken.
LEMMA TakenUp ==
    ASSUME PortTypes, NEW t \in Tab, up[t] # <<>>, Taken(t), NEW s \in Tab PROVE UpKept(s)
<1>1. s # t => up'[s] = up[s]
  BY TakenDrops
<1>2. s = t => up'[s] = Tail(up[s])
  BY DEF Taken, PortTypes
<1> QED BY <1>1, <1>2, UpSame, UpTaken

\* loseTab() of one that is not the owner.
LEMMA LoseTabProtocol ==
    ASSUME CacheInv, ProtocolInv, NEW t \in Tab, LoseTab(t), \A s \in Tab : UpKept(s),
           UNCHANGED <<pages, engines, pending, eports>>
    PROVE  ProtocolInv'
<1>1. eup' = eup /\ edown' = edown
  BY DEF eports
<1>2. \A s \in Tab : EupTaken(s)
  BY <1>1, EupSame
<1>3. CASE IsOwner(t, epoch) /\ LoseOwner(t, TRUE)
  BY <1>1, <1>2, <1>3, LossProtocol
<1>4. CASE Remove(t) /\ UNCHANGED <<kind, owner, epoch, granted, route, down>>
  <2>1. tabs' \subseteq tabs
    BY <1>4 DEF Remove
  <2>2. \A s \in Tab : DownKept(s)
    BY <1>4, DownSame
  <2> QED BY <1>1, <1>2, <1>4, <2>1, <2>2, QuietProtocol
<1> QED BY <1>3, <1>4 DEF LoseTab

\* disconnect-tab, a released lock, engine-lost.
LEMMA LostProtocol ==
    ASSUME CacheInv, ProtocolInv, NEW t \in Tab,
           DisconnectTab(t) \/ LockReleased(t) \/ EngineLost(t)
    PROVE  ProtocolInv'
<1>0. PortTypes
  BY DEF CacheInv
<1>1. \A s \in Tab : UpKept(s)
  <2>1. CASE LockReleased(t)
    BY <2>1, UpSame DEF LockReleased
  <2>2. CASE DisconnectTab(t) \/ EngineLost(t)
    <3>1. up[t] # <<>> /\ Taken(t)
      BY <2>2 DEF DisconnectTab, EngineLost, From
    <3> QED BY <1>0, <3>1, TakenUp
  <2> QED BY <2>1, <2>2
<1>2. UNCHANGED <<pages, engines, pending, eports>>
  BY DEF DisconnectTab, EngineLost, LockReleased
<1>3. CASE DisconnectTab(t) \/ LockReleased(t)
  BY <1>1, <1>2, <1>3, LoseTabProtocol DEF DisconnectTab, LockReleased
<1>4. CASE EngineLost(t)
  <2>1. eup' = eup /\ edown' = edown
    BY <1>2 DEF eports
  <2>2. \A s \in Tab : EupTaken(s)
    BY <2>1, EupSame
  <2>3. CASE FailOwner(t, Head(up[t]).epoch)
    BY <1>1, <1>2, <2>1, <2>2, <2>3, LossProtocol DEF FailOwner
  <2>4. CASE UNCHANGED <<core, route, down>>
    <3>1. UNCHANGED <<kind, owner, epoch, granted, tabs, route>>
      BY <2>4 DEF core
    <3>2. \A s \in Tab : DownKept(s)
      BY <2>4, DownSame
    <3> QED BY <1>1, <1>2, <2>1, <2>2, <3>1, <3>2, QuietProtocol
  <2> QED BY <1>4, <2>3, <2>4 DEF EngineLost
<1> QED BY <1>3, <1>4

\* The watchdogs.
LEMMA WatchdogProtocol ==
    ASSUME CacheInv, ProtocolInv, Watchdog \/ FalseAlarm PROVE ProtocolInv'
<1>1. FailOwner(owner, epoch) /\ UNCHANGED <<pending, pages, engines, up, eports>>
  BY DEF Watchdog, FalseAlarm
<1>2. IsOwner(owner, epoch) /\ LoseOwner(owner, FALSE)
  BY <1>1 DEF FailOwner
<1>3. owner \in Tab
  BY <1>2 DEF IsOwner, CacheInv, CoordInv, RouteInv, CoreTypes
<1>4. eup' = eup /\ edown' = edown /\ up' = up
  BY <1>1 DEF eports
<1>5. \A s \in Tab : UpKept(s) /\ EupTaken(s)
  BY <1>4, UpSame, EupSame
<1> QED BY <1>1, <1>2, <1>3, <1>4, <1>5, LossProtocol

\* engine-fatal.
LEMMA FatalProtocol ==
    ASSUME CacheInv, ProtocolInv, EngineFatal PROVE ProtocolInv'
<1>1. FromEngine("fatal") /\ EngineTaken /\ FailOwner(owner, epoch)
      /\ UNCHANGED <<pending, pages, engines, up, edown>>
  BY DEF EngineFatal
<1>2. IsOwner(owner, epoch) /\ LoseOwner(owner, FALSE)
  BY <1>1 DEF FailOwner
<1>3. owner \in Tab /\ \A s \in Tab : EupTaken(s)
  BY <1>1, EngineSays
<1>4. \A s \in Tab : UpKept(s)
  BY <1>1, UpSame
<1> QED BY <1>1, <1>2, <1>3, <1>4, LossProtocol

\* One is elected, or nobody: what a tab that was not the owner makes of it.
LEMMA ElectionScript ==
    ASSUME CacheInv, NEW s \in Tab, Script(s), PageKept(s), ~(Owning /\ owner = s),
           NEW T, NEW avoid, NEW a \in Action, NEW R, NEW first,
           Activate(T, avoid, a, R, first), Silent(first[s]), T \subseteq R, T \subseteq tabs'
    PROVE  Script(s)'
<1>0. PortTypes /\ epoch \in Nat
  BY Facts
<1>1. CASE Nobody /\ \E n : Hears(s, n) /\ Silent(n)
  <2>1. DownKept(s)
    BY <1>0, <1>1, SilentDown
  <2>2. Elsewhere(s)
    BY <1>0, <1>1 DEF Elsewhere, Nobody, Owning
  <2> QED BY <2>1, <2>2, ScriptKept
<1>2. ASSUME NEW c \in T, Elected(c), NEW n, Hears(s, n), s # c => Silent(n),
             s = c => Brings(n, "become", epoch + 1)
      PROVE  Script(s)'
  <2>1. CASE s = c
    <3>1. Owning' /\ owner' = s /\ epoch' = epoch + 1 /\ Joining(s)'
      BY <1>2, <2>1 DEF Elected, Owning, Joining
    <3> QED BY <1>2, <2>1, <3>1, ScriptElected
  <2>2. CASE s # c
    <3>1. DownKept(s)
      BY <1>0, <1>2, <2>2, SilentDown
    <3>2. Elsewhere(s)
      BY <1>0, <1>2, <2>2 DEF Elsewhere, Elected, Owning
    <3> QED BY <3>1, <3>2, ScriptKept
  <2> QED BY <2>1, <2>2
<1> QED BY <1>0, <1>1, <1>2, ActivateNews

\* An election begins a new epoch, or there is none.
LEMMA ElectionPhase ==
    ASSUME CacheInv, NEW T, NEW avoid, NEW a, NEW R, NEW first, Activate(T, avoid, a, R, first)
    PROVE  /\ PhaseKept /\ granted' = FALSE
           /\ epoch' \in Nat /\ epoch' >= epoch
           /\ \A r, e : Now(r, e)' => e = epoch + 1
           /\ \A r : Owning' /\ owner' = r => r \in T
<1>1. epoch \in Nat
  BY DEF CacheInv, CoordInv, CoreTypes
<1>2. Nobody \/ \E c \in T : Elected(c)
  BY CandidateRegistered DEF Activate, Nobody, Elected
<1>3. granted' = FALSE
  BY DEF Activate
<1> QED BY <1>1, <1>2, <1>3 DEF PhaseKept, Nobody, Elected, Owning, Now

\* resumeAfterLoss().
LEMMA ResumeProtocol ==
    ASSUME CacheInv, ProtocolInv, Resume PROVE ProtocolInv'
<1>1. /\ Activate(tabs, owner, action, tabs, Nothing) /\ kind = "resetting"
      /\ UNCHANGED <<tabs, pending, route, pages, engines, up, eports>>
  BY DEF Resume
<1>2. action \in Action /\ eup' = eup /\ edown' = edown /\ ~Owning /\ route = 0
  BY <1>1 DEF eports, Owning, CacheInv, CoordInv, CoreTypes, RouteInv
<1>3. /\ PhaseKept /\ granted' = FALSE /\ \A r, e : Now(r, e)' => e = epoch + 1
  BY <1>1, ElectionPhase
<1>4. ASSUME NEW s \in Tab PROVE Uplink(s)' /\ Script(s)' /\ Works(s)'
  <2>1. UpKept(s) /\ EupTaken(s) /\ Script(s)
    BY <1>1, <1>2, UpSame, EupSame DEF ProtocolInv
  <2>2. Stands(s)
    BY <1>1, <2>1 DEF Stands
  <2>3. PageKept(s) /\ EngineKept(s)
    BY <1>2, <2>2, StandsKept
  <2>4. Uplink(s)'
    BY <1>1, <1>2, <1>3, <2>2, StandsUp
  <2>5. Works(s)'
    BY <1>3, <2>1, <2>3, WorksKept
  <2>6. Silent(Nothing[s])
    BY SilentNone DEF Nothing
  <2>7. Script(s)'
    BY <1>1, <1>2, <2>1, <2>3, <2>6, ElectionScript
  <2> QED BY <2>4, <2>5, <2>7
<1> QED BY <1>3, <1>4 DEF ProtocolInv

\* register(), before the probe.
LEMMA RegisterProtocol ==
    ASSUME CacheInv, ProtocolInv, NEW t \in Tab, Register(t) PROVE ProtocolInv'
<1>1. /\ UNCHANGED <<core, route, pages, engines, down, eports>> /\ pending' = pending \cup {t}
      /\ up[t] # <<>> /\ Head(up[t]).kind = "register" /\ Taken(t)
  BY DEF Register, From
<1>2. /\ UNCHANGED <<kind, owner, epoch, granted, tabs>> /\ eup' = eup /\ edown' = edown
      /\ own' = own /\ ended' = ended /\ eng' = eng /\ page' = page
  BY <1>1 DEF core, eports, pages, engines
<1>3. SameOwner /\ Owning' = Owning /\ epoch \in Nat /\ PortTypes
  BY <1>2 DEF SameOwner, Owning, CacheInv, CoordInv, CoreTypes
<1>4. PhaseKept
  BY <1>2, <1>3 DEF PhaseKept
<1>5. ASSUME NEW s \in Tab PROVE Uplink(s)' /\ Script(s)' /\ Works(s)'
  <2>1. UpKept(s) /\ EupTaken(s) /\ EngineKept(s) /\ DownKept(s) /\ Elsewhere(s) /\ Script(s)
    BY <1>1, <1>2, <1>3, TakenUp, EupSame, DownSame, SameElsewhere DEF EngineKept, ProtocolInv
  <2>2. Live(s)' = Live(s) /\ Took(s)' = Took(s) /\ \A e : Now(s, e)' = Now(s, e)
    BY <1>2, <1>3 DEF Live, Took, Now
  <2>3. Works(s)'
    BY <1>4, <2>1, WorksKept
  <2>4. CASE s = t
    <3>1. Pending(up[t], "register")
      <4>1. up[t] \in Seq(Message)
        BY Facts
      <4> QED BY <1>1, <4>1, PendingTail
    <3>2. PageKept(s)
      BY <1>2, <2>2, <2>4, <3>1 DEF PageKept, Joining
    <3> QED BY <2>1, <2>3, <2>4, <3>2, RegisterUp, ScriptKept
  <2>5. CASE s # t
    <3>1. s \in pending' => s \in pending
      BY <1>1, <2>5
    <3>2. Stands(s)
      BY <1>1, <1>2, <2>1, <3>1 DEF Stands
    <3>3. Uplink(s)'
      BY <1>1, <1>2, <2>2, <3>2, StandsUp
    <3> QED BY <2>1, <2>3, <3>2, <3>3, StandsKept, ScriptKept
  <2> QED BY <2>4, <2>5
<1> QED BY <1>1, <1>2, <1>5 DEF ProtocolInv

\* register(), after the probe.
LEMMA RegisteredProtocol ==
    ASSUME CacheInv, ProtocolInv, NEW t \in Tab, Registered(t) PROVE ProtocolInv'
<1> DEFINE p == Msg("registered", 0)
           q == Msg("terminal", 0)
           first == [s \in Tab |-> If(s = t, p)]
           other == [s \in Tab |-> If(s = t, p) \o If(kind = "failed", q)]
<1>1. /\ UNCHANGED <<route, pages, engines, up, eports>> /\ t \in pending /\ pending' = pending \ {t}
      /\ \/ UNCHANGED <<core, down>>
         \/ /\ tabs' = tabs \cup {t} /\ kind = "waiting"
            /\ Activate(tabs', None, action, tabs', first)
         \/ /\ tabs' = tabs \cup {t} /\ kind # "waiting" /\ Post(tabs', other)
            /\ UNCHANGED <<kind, owner, epoch, action, granted>>
  BY DEF Registered
<1>2. /\ eup' = eup /\ edown' = edown /\ own' = own /\ ended' = ended /\ eng' = eng /\ page' = page
      /\ PortTypes /\ epoch \in Nat /\ action \in Action
  BY <1>1 DEF eports, pages, engines, CacheInv, CoordInv, CoreTypes
<1>3. p \in Message /\ q \in Message /\ News(p) /\ News(q)
  BY DEF Msg, Message, News
<1>4. ASSUME NEW s \in Tab PROVE Silent(first[s]) /\ Silent(other[s])
  BY <1>3, SilentIf, SilentJoin
<1> HIDE DEF p, q, first, other
<1>5. ASSUME NEW s \in Tab
      PROVE  /\ UpKept(s) /\ EupTaken(s) /\ EngineKept(s) /\ Script(s) /\ PageKept(s)
             /\ s # t => Stands(s)
  <2>1. UpKept(s) /\ EupTaken(s) /\ EngineKept(s) /\ Script(s)
    BY <1>1, <1>2, UpSame, EupSame DEF EngineKept, ProtocolInv
  <2>2. tabs' \subseteq tabs \cup {t}
    BY <1>1 DEF core
  <2>3. Joining(s)' => Joining(s)
    BY <1>1, <2>2 DEF Joining
  <2>4. Live(s)' = Live(s)
    BY <1>2 DEF Live
  <2>5. PageKept(s)
    BY <1>2, <2>3, <2>4 DEF PageKept
  <2>6. s # t => Stands(s)
    BY <1>1, <2>1, <2>2 DEF Stands
  <2> QED BY <2>1, <2>5, <2>6
<1>6. CASE kind = "waiting" /\ tabs' = tabs \cup {t} /\ Activate(tabs', None, action, tabs', first)
  <2>0. ~Owning /\ route = 0
    BY <1>6 DEF Owning, CacheInv, CoordInv, RouteInv
  <2>1. /\ PhaseKept /\ granted' = FALSE /\ \A r, e : Now(r, e)' => e = epoch + 1
    BY <1>6, ElectionPhase
  <2>2. ASSUME NEW s \in Tab PROVE Uplink(s)' /\ Script(s)' /\ Works(s)'
    <3>1. Works(s)'
      BY <1>5, <2>1, WorksKept
    <3>2. Script(s)'
      BY <1>2, <1>4, <1>5, <1>6, <2>0, ElectionScript
    <3>3. s # t => Stands(s)
      BY <1>5, <1>6
    <3>4. Uplink(s)'
      BY <1>1, <2>0, <2>1, <3>3, StandsUp, RegisteredUp
    <3> QED BY <3>1, <3>2, <3>4
  <2> QED BY <2>1, <2>2 DEF ProtocolInv
<1>7. CASE UNCHANGED <<core, down>>
      \/ (tabs' = tabs \cup {t} /\ Post(tabs', other) /\ UNCHANGED <<kind, owner, epoch, action, granted>>)
  <2>0. UNCHANGED <<kind, owner, epoch, granted>> /\ tabs' \subseteq tabs \cup {t}
    BY <1>7 DEF core
  <2>1. SameOwner /\ Owning' = Owning
    BY <2>0 DEF SameOwner, Owning
  <2>2. PhaseKept
    BY <1>2, <2>0, <2>1 DEF PhaseKept
  <2>3. ASSUME NEW s \in Tab PROVE Uplink(s)' /\ Script(s)' /\ Works(s)'
    <3>1. Works(s)'
      BY <1>5, <2>2, WorksKept
    <3>2. DownKept(s)
      <4>1. CASE UNCHANGED <<core, down>>
        BY <4>1, DownSame
      <4>2. CASE Post(tabs', other)
        <5>1. other[s] \in Seq(Message)
          BY <1>4 DEF Silent
        <5>2. Hears(s, IF s \in tabs' THEN other[s] ELSE <<>>)
          BY <1>2, <4>2, <5>1, PostHears
        <5>3. Silent(IF s \in tabs' THEN other[s] ELSE <<>>)
          BY <1>4, SilentNone
        <5> QED BY <1>2, <5>2, <5>3, SilentDown
      <4> QED BY <1>7, <4>1, <4>2
    <3>3. Script(s)'
      BY <1>2, <1>5, <2>1, <3>2, SameElsewhere, ScriptKept
    <3>4. \A e : Now(s, e)' = Now(s, e)
      BY <2>0, <2>1 DEF Now
    <3>5. s # t => Stands(s)
      BY <1>5, <2>0
    <3>6. Uplink(s)'
      BY <1>1, <2>0, <3>4, <3>5, StandsUp, RegisteredUp
    <3> QED BY <3>1, <3>3, <3>6
  <2>4. granted' => route' # 0
    BY <1>1, <2>0 DEF ProtocolInv
  <2> QED BY <2>3, <2>4 DEF ProtocolInv
<1> QED BY <1>1, <1>6, <1>7

\* The owner's engine is told something: the pages notice nothing.
LEMMA EngineTold ==
    ASSUME CacheInv, ProtocolInv, UNCHANGED <<pages, engines, owner, epoch, route, tabs, pending, down>>,
           Owning, Owning', granted' => route # 0,
           \A s \in Tab : UpKept(s) /\ EupTaken(s) /\ Works(s)'
    PROVE  ProtocolInv'
<1>1. epoch \in Nat
  BY DEF CacheInv, CoordInv, CoreTypes
<1>2. ASSUME NEW s \in Tab PROVE Uplink(s)' /\ Script(s)' /\ Works(s)'
  <2>1. Stands(s) /\ DownKept(s) /\ Script(s)
    BY DownSame DEF Stands, ProtocolInv
  <2>2. Elsewhere(s) /\ \A e : Now(s, e)' = Now(s, e)
    BY <1>1 DEF Elsewhere, Now
  <2>3. Uplink(s)'
    BY <2>1, <2>2, StandsUp
  <2> QED BY <2>1, <2>2, <2>3, StandsKept, ScriptKept
<1> QED BY <1>2 DEF ProtocolInv

\* cache-request.
LEMMA RequestProtocol ==
    ASSUME CacheInv, ProtocolInv, NEW t \in Tab, Request(t) PROVE ProtocolInv'
<1> DEFINE m == [Msg("request", epoch) EXCEPT !.of = {t}]
           new == [s \in Tab |-> <<Msg("answer", 0)>>]
<1>1. /\ UNCHANGED <<kind, owner, epoch, granted, tabs, router, pages, engines, eup>>
      /\ up[t] # <<>> /\ Taken(t)
      /\ \/ Post({t}, new) /\ edown' = edown
         \/ kind = "active" /\ ToEngine(m) /\ down' = down
         \/ edown' = edown /\ down' = down
  BY DEF Request, From
<1>2. /\ UNCHANGED <<route, pending, own, ended, eng>>
      /\ PortTypes /\ epoch \in Nat
  BY <1>1 DEF router, pages, engines, CacheInv, CoordInv, CoreTypes
<1>3. m \in Message /\ m.kind = "request"
  BY <1>2 DEF Msg, Message
<1>4. \A s \in Tab : UpKept(s) /\ EupTaken(s)
  BY <1>1, <1>2, TakenUp, EupSame
<1>5. ASSUME NEW s \in Tab PROVE Silent(new[s])
  <2>1. Msg("answer", 0) \in Message /\ News(Msg("answer", 0))
    BY DEF Msg, Message, News
  <2>2. Silent(If(TRUE, Msg("answer", 0)))
    BY <2>1, SilentIf
  <2> QED BY <2>2 DEF If
<1> HIDE DEF m, new
<1>6. CASE edown' = edown /\ (Post({t}, new) \/ down' = down)
  <2>1. ASSUME NEW s \in Tab PROVE DownKept(s)
    <3>1. CASE Post({t}, new)
      <4>1. Silent(IF s \in {t} THEN new[s] ELSE <<>>) /\ new[s] \in Seq(Message)
        BY <1>5, SilentNone DEF Silent
      <4>2. Hears(s, IF s \in {t} THEN new[s] ELSE <<>>)
        BY <1>2, <3>1, <4>1, PostHears
      <4> QED BY <1>2, <4>1, <4>2, SilentDown
    <3> QED BY <1>6, <3>1, DownSame
  <2>2. tabs' \subseteq tabs /\ pending' \subseteq pending
    BY <1>1, <1>2
  <2> QED BY <1>1, <1>2, <1>4, <1>6, <2>1, <2>2, QuietProtocol
<1>7. CASE kind = "active" /\ ToEngine(m) /\ down' = down
  <2>1. \A s \in Tab : Works(s)'
    BY <1>1, <1>2, <1>3, <1>7, RequestWorks
  <2>2. Owning /\ Owning' /\ (granted' => route # 0)
    BY <1>1, <1>7 DEF Owning, ProtocolInv
  <2> QED BY <1>1, <1>2, <1>4, <1>7, <2>1, <2>2, EngineTold
<1> QED BY <1>1, <1>6, <1>7

\* A message of a port that is not registered.
LEMMA IgnoredProtocol ==
    ASSUME CacheInv, ProtocolInv, NEW t \in Tab, Ignored(t) PROVE ProtocolInv'
<1>1. /\ UNCHANGED <<core, router, pages, engines, down, eports>>
      /\ up[t] # <<>> /\ Taken(t) /\ PortTypes
  BY DEF Ignored, CacheInv
<1>2. UNCHANGED <<kind, owner, epoch, granted, route, tabs, pending>> /\ eup' = eup /\ edown' = edown
  BY <1>1 DEF core, router, eports
<1>3. \A s \in Tab : UpKept(s) /\ EupTaken(s) /\ DownKept(s)
  BY <1>1, <1>2, TakenUp, EupSame, DownSame
<1> QED BY <1>1, <1>2, <1>3, QuietProtocol

\* attach-engine-port.
LEMMA AttachProtocol ==
    ASSUME CacheInv, ProtocolInv, NEW t \in Tab, AttachEnginePort(t) PROVE ProtocolInv'
<1>1. /\ UNCHANGED <<core, pending, pages, engines, down, eports>>
      /\ up[t] # <<>> /\ Taken(t) /\ PortTypes
      /\ route' = route \/ (Owning /\ route' = epoch)
  BY DEF AttachEnginePort, From, IsOwner, Owning, CacheInv
<1>2. UNCHANGED <<kind, owner, epoch, granted, tabs>> /\ eup' = eup /\ edown' = edown
  BY <1>1 DEF core, eports
<1>3. SameOwner /\ Owning' = Owning /\ epoch \in Nat /\ (Owning => epoch # 0)
  BY <1>2 DEF SameOwner, Owning, CacheInv, CoordInv, CoreTypes, WipeInv, DutyKept
<1>4. PhaseKept
  BY <1>2, <1>3 DEF PhaseKept
<1>5. ASSUME NEW s \in Tab PROVE Uplink(s)' /\ Script(s)' /\ Works(s)'
  <2>1. UpKept(s) /\ EupTaken(s) /\ DownKept(s) /\ Elsewhere(s) /\ Script(s)
    BY <1>1, <1>2, <1>3, TakenUp, EupSame, DownSame, SameElsewhere DEF ProtocolInv
  <2>2. Stands(s)
    BY <1>1, <1>2, <2>1 DEF Stands
  <2>3. PageKept(s) /\ EngineKept(s)
    BY <1>2, <2>2, StandsKept
  <2> QED BY <1>4, <2>1, <2>3, AttachUp, ScriptKept, WorksKept
<1>6. granted' => route' # 0
  BY <1>1, <1>2, <1>3 DEF ProtocolInv
<1> QED BY <1>5, <1>6 DEF ProtocolInv

\* graceful-departure.
LEMMA GracefulProtocol ==
    ASSUME CacheInv, ProtocolInv, NEW t \in Tab, GracefulDeparture(t) PROVE ProtocolInv'
<1> DEFINE m == Msg("drain", epoch)
<1>1. /\ UNCHANGED <<owner, epoch, granted, tabs, router, pages, engines, down, eup>>
      /\ up[t] # <<>> /\ Taken(t)
      /\ \/ kind = "active" /\ kind' = "draining" /\ ToEngine(m)
         \/ kind' = kind /\ edown' = edown
  BY DEF GracefulDeparture, From
<1>2. /\ UNCHANGED <<route, pending, own, ended, eng>>
      /\ PortTypes /\ epoch \in Nat
  BY <1>1 DEF router, pages, engines, CacheInv, CoordInv, CoreTypes
<1>3. m \in Message /\ m.kind = "drain"
  BY <1>2 DEF Msg, Message
<1>4. \A s \in Tab : UpKept(s) /\ EupTaken(s)
  BY <1>1, <1>2, TakenUp, EupSame
<1> HIDE DEF m
<1>5. CASE kind' = kind /\ edown' = edown
  <2>1. \A s \in Tab : DownKept(s)
    BY <1>1, DownSame
  <2> QED BY <1>1, <1>2, <1>4, <1>5, <2>1, QuietProtocol
<1>6. CASE kind = "active" /\ kind' = "draining" /\ ToEngine(m)
  <2>1. \A s \in Tab : Works(s)'
    BY <1>1, <1>2, <1>3, <1>6, DrainWorks
  <2>2. Owning /\ Owning' /\ (granted' => route # 0)
    BY <1>1, <1>6 DEF Owning, ProtocolInv
  <2> QED BY <1>1, <1>2, <1>4, <2>1, <2>2, EngineTold
<1> QED BY <1>1, <1>5, <1>6

\* assets-ready and ready.
LEMMA GrantProtocol ==
    ASSUME CacheInv, ProtocolInv, AssetsReady \/ OwnerReady PROVE ProtocolInv'
<1>1. /\ UNCHANGED <<owner, epoch, route, tabs, pending, pages, engines, up, down>>
      /\ FromEngine("assets") \/ FromEngine("ready")
      /\ EngineTaken /\ kind = "activating" /\ kind' \in {"activating", "active"}
  BY DEF AssetsReady, OwnerReady, router
<1>2. route # 0 /\ Owning /\ Owning'
  BY <1>1 DEF FromEngine, Owning
<1>3. \A s \in Tab : EupTaken(s) /\ UpKept(s)
  BY <1>1, EngineSays, UpSame
<1>4. \A s \in Tab : Works(s)'
  BY GrantWorks, OwnerReadyWorks
<1> QED BY <1>1, <1>2, <1>3, <1>4, EngineTold

\* The engine's answers.
LEMMA ResponseProtocol ==
    ASSUME CacheInv, ProtocolInv, EngineResponse PROVE ProtocolInv'
<1> DEFINE new == [s \in Tab |-> <<Msg("answer", 0)>>]
<1>1. /\ UNCHANGED <<kind, owner, epoch, granted, tabs, router, pages, engines, up, edown>>
      /\ FromEngine("response") /\ EngineTaken /\ \E T : Post(T, new)
  BY DEF EngineResponse
<1>2. UNCHANGED <<route, pending>> /\ PortTypes
  BY <1>1 DEF router, CacheInv
<1>3. \A s \in Tab : EupTaken(s) /\ UpKept(s)
  BY <1>1, EngineSays, UpSame
<1>4. ASSUME NEW s \in Tab PROVE Silent(new[s])
  <2>1. Msg("answer", 0) \in Message /\ News(Msg("answer", 0))
    BY DEF Msg, Message, News
  <2>2. Silent(If(TRUE, Msg("answer", 0)))
    BY <2>1, SilentIf
  <2> QED BY <2>2 DEF If
<1> HIDE DEF new
<1>5. ASSUME NEW s \in Tab PROVE DownKept(s)
  <2>1. PICK T : Post(T, new)
    BY <1>1
  <2>2. Silent(IF s \in T THEN new[s] ELSE <<>>) /\ new[s] \in Seq(Message)
    BY <1>4, SilentNone DEF Silent
  <2>3. Hears(s, IF s \in T THEN new[s] ELSE <<>>)
    BY <1>2, <2>1, <2>2, PostHears
  <2> QED BY <1>2, <2>2, <2>3, SilentDown
<1> QED BY <1>1, <1>2, <1>3, <1>5, QuietProtocol

\* The owner's epoch ends in peace: the page has gone, or it has drained and is told to
\* retire; the other pages get news, and one of them the next epoch.
LEMMA SucceedProtocol ==
    ASSUME CacheInv, ProtocolInv, NEW t \in Tab, IsOwner(t, epoch), NEW a \in Action,
           NEW last, Succeed(t, a, last), UNCHANGED <<pages, engines, pending, edown>>,
           \A s \in Tab : UpKept(s) /\ EupTaken(s),
           \A s \in Tab : s # t => Silent(last[s]),
           \/ ~Live(t) /\ Silent(last[t])
           \/ Brings(last[t], "retire", epoch) /\ (Live(t) => own[t] = epoch /\ eng[t] = "drained")
    PROVE  ProtocolInv'
<1> DEFINE first == [s \in Tab |-> If(s \in Routed, Msg("answer", 0)) \o last[s]]
<1>1. /\ route' = 0 /\ tabs' = tabs \ {t} /\ Activate(tabs \ {t}, None, a, tabs, first)
  BY DEF Succeed, Remove
<1>2. Owning /\ owner = t /\ t \in tabs /\ PortTypes /\ epoch \in Nat
  BY Facts DEF IsOwner, Owning
<1>3. ASSUME NEW s \in Tab
      PROVE  /\ Silent(last[s]) => Silent(first[s])
             /\ Brings(last[s], "retire", epoch) => Brings(first[s], "retire", epoch)
  <2> DEFINE b == If(s \in Routed, Msg("answer", 0))
  <2>1. Msg("answer", 0) \in Message /\ News(Msg("answer", 0))
    BY DEF Msg, Message, News
  <2>2. Silent(b)
    BY <2>1, SilentIf
  <2>3. first[s] = b \o last[s]
    OBVIOUS
  <2> HIDE DEF b, first
  <2> QED BY <2>2, <2>3, SilentJoin, BringsJoin
<1> HIDE DEF first
<1>4. /\ PhaseKept /\ granted' = FALSE /\ epoch' \in Nat /\ epoch' >= epoch
      /\ \A r, e : Now(r, e)' => e = epoch + 1
      /\ \A r : Owning' /\ owner' = r => r \in tabs \ {t}
  BY <1>1, ElectionPhase
<1>5. ASSUME NEW s \in Tab PROVE Uplink(s)' /\ Script(s)' /\ Works(s)'
  <2>1. Stands(s) /\ Script(s) /\ Uplink(s) /\ EupTaken(s)
    BY <1>1 DEF Stands, ProtocolInv
  <2>2. PageKept(s) /\ EngineKept(s) /\ Live(s)' = Live(s) /\ own' = own /\ ended' = ended
    BY <2>1, StandsKept
  <2>3. Uplink(s)'
    BY <1>1, <1>4, <2>1, StandsUp
  <2>4. Works(s)'
    BY <1>4, <2>1, <2>2, WorksKept
  <2>5. CASE s # t
    <3>1. Silent(first[s])
      BY <1>3, <2>5
    <3>2. tabs \ {t} \subseteq tabs /\ tabs \ {t} \subseteq tabs'
      BY <1>1
    <3>3. Script(s)'
      BY <1>1, <1>2, <2>1, <2>2, <2>5, <3>1, <3>2, ElectionScript
    <3> QED BY <2>3, <2>4, <3>3
  <2>6. CASE s = t /\ ~Live(t) /\ Silent(last[t])
    <3>1. Silent(first[t])
      BY <1>3, <2>6
    <3>2. \E n : Hears(t, n)
      BY <1>1, <1>2, <3>1, ActivateNews
    <3>3. down'[t] = down[t]
      BY <2>6, <3>2 DEF Hears
    <3>4. down[t] = <<>> /\ own[t] = 0 /\ ended[t] \subseteq Nat /\ \A e \in ended[t] : e <= epoch
      BY <2>1, <2>6, Facts DEF Script, Leads
    <3>5. \A e \in ended'[t] : e <= epoch'
      BY <1>2, <1>4, <2>2, <3>4
    <3>6. Script(t)'
      BY <2>2, <2>6, <3>3, <3>4, <3>5, ScriptGone
    <3> QED BY <2>3, <2>4, <2>6, <3>6
  <2>7. CASE s = t /\ Brings(last[t], "retire", epoch)
             /\ (Live(t) => own[t] = epoch /\ eng[t] = "drained")
    <3>1. Brings(first[t], "retire", epoch) /\ t \notin tabs \ {t}
      BY <1>3, <2>7
    <3>2. PICK n : Hears(t, n) /\ Brings(n, "retire", epoch)
      <4>1. PICK T : T = tabs \ {t}
        OBVIOUS
      <4>2. Activate(T, None, a, tabs, first) /\ t \notin T
        BY <1>1, <3>1, <4>1
      <4>3. \E n : Hears(t, n) /\ Brings(n, "retire", epoch)
        BY <1>2, <3>1, <4>2, ActivateRetires
      <4> QED BY <4>3
    <3>3. t \notin pending /\ ~Pending(up[t], "register")
      BY <1>2, <2>1, <2>7 DEF Uplink
    <3>4. ~Pending(up'[t], "register")
      BY <3>3, PendingIs DEF UpKept, Marked
    <3>5. ~Joining(t)'
      BY <1>1, <3>3, <3>4 DEF Joining
    <3>6. ~(Owning' /\ owner' = t)
      BY <1>4, <3>1
    <3>7. Script(t)'
      BY <1>2, <1>4, <2>1, <2>2, <2>7, <3>2, <3>5, <3>6, ScriptRetires
    <3> QED BY <2>3, <2>4, <2>7, <3>7
  <2> QED BY <2>5, <2>6, <2>7
<1> QED BY <1>4, <1>5 DEF ProtocolInv

\* navigation-departure: the page has gone.
LEMMA NavigationProtocol ==
    ASSUME CacheInv, ProtocolInv, NEW t \in Tab, NavigationDeparture(t) PROVE ProtocolInv'
<1> DEFINE a == IF kind = "activating" THEN action ELSE "open"
<1>1. /\ UNCHANGED <<pending, pages, engines, eports>>
      /\ up[t] # <<>> /\ Head(up[t]).kind = "navigate" /\ Taken(t) /\ PortTypes
      /\ \/ IsOwner(t, Head(up[t]).epoch) /\ Succeed(t, a, Nothing)
         \/ UNCHANGED <<core, route, down>>
  BY DEF NavigationDeparture, From, CacheInv
<1>2. eup' = eup /\ edown' = edown
  BY <1>1 DEF eports
<1>3. \A s \in Tab : UpKept(s) /\ EupTaken(s)
  BY <1>1, <1>2, TakenUp, EupSame
<1>4. CASE IsOwner(t, Head(up[t]).epoch) /\ Succeed(t, a, Nothing)
  <2>1. IsOwner(t, epoch) /\ a \in Action
    BY <1>4 DEF IsOwner, CacheInv, CoordInv, CoreTypes
  <2>2. up[t] \in Seq(Message) /\ Uplink(t)
    BY Facts DEF ProtocolInv
  <2>3. Pending(up[t], "navigate")
    BY <1>1, <2>2, PendingTail
  <2>4. ~Live(t)
    BY <2>2, <2>3 DEF Uplink
  <2>5. \A s \in Tab : Silent(Nothing[s])
    BY SilentNone DEF Nothing
  <2> HIDE DEF a
  <2> QED BY <1>1, <1>2, <1>3, <1>4, <2>1, <2>4, <2>5, SucceedProtocol
<1>5. CASE UNCHANGED <<core, route, down>>
  <2>1. UNCHANGED <<kind, owner, epoch, granted, tabs, route>>
    BY <1>5 DEF core
  <2>2. \A s \in Tab : DownKept(s)
    BY <1>5, DownSame
  <2> QED BY <1>1, <1>2, <1>3, <2>1, <2>2, QuietProtocol
<1> QED BY <1>1, <1>4, <1>5

\* drained: the page is told to retire.
LEMMA DrainedProtocol ==
    ASSUME CacheInv, ProtocolInv, OwnerDrained PROVE ProtocolInv'
<1> DEFINE m == Msg("retire", epoch)
           last == [s \in Tab |-> If(s = owner, m)]
<1>1. /\ UNCHANGED <<pending, pages, engines, up, edown>>
      /\ FromEngine("drained") /\ kind = "draining" /\ EngineTaken /\ Succeed(owner, "open", last)
  BY DEF OwnerDrained
<1>2. /\ Owning /\ owner \in Tab /\ \A s \in Tab : EupTaken(s) /\ UpKept(s)
  BY <1>1, EngineSays, UpSame
<1>3. PICK h \in Contents(eup[owner]) : h.kind = "drained" /\ h.epoch = epoch
  BY <1>1, EngineSays
<1>4. IsOwner(owner, epoch) /\ Now(owner, epoch) /\ epoch \in Nat
  BY <1>2, Facts DEF IsOwner, Owning, Now
<1>5. Live(owner) => own[owner] = epoch /\ eng[owner] = "drained"
  BY <1>2, <1>3, <1>4 DEF ProtocolInv, Script, Leads
<1>6. m \in Message /\ m.kind = "retire" /\ m.epoch = epoch
  BY <1>4 DEF Msg, Message
<1> HIDE DEF m
<1>7. (\A s \in Tab : s # owner => Silent(last[s])) /\ Brings(last[owner], "retire", epoch)
  BY <1>2, <1>6, SilentNot, BringsIf
<1> HIDE DEF last
<1> QED BY <1>1, <1>2, <1>4, <1>5, <1>7, SucceedProtocol

-----------------------------------------------------------------------------
(* The theorems *)

\* It holds when the SharedWorker starts, ...
LEMMA ProtocolInit == Init => ProtocolInv
<1> SUFFICES ASSUME Init PROVE ProtocolInv
  OBVIOUS
<1>1. ASSUME NEW t \in Tab PROVE Uplink(t) /\ Script(t) /\ Works(t)
  <2>1. /\ up[t] = <<>> /\ down[t] = <<>> /\ eup[t] = <<>> /\ edown[t] = <<>>
        /\ own[t] = 0 /\ ended[t] = {} /\ eng[t] = "none" /\ page[t] = "off"
        /\ kind = "waiting" /\ route = 0 /\ ~granted /\ t \notin tabs /\ t \notin pending
    BY DEF Init
  <2>2. /\ Ordered(up[t]) /\ Ordered(down[t]) /\ Ordered(eup[t]) /\ Ordered(edown[t])
        /\ Contents(up[t]) = {} /\ Contents(down[t]) = {} /\ Contents(eup[t]) = {}
        /\ \A k : ~Pending(up[t], k) /\ ~Pending(eup[t], k) /\ ~Pending(edown[t], k)
    BY <2>1, NoneOrdered, PendingNone
  <2>3. ~Owning /\ ~Live(t)
    BY <2>1 DEF Owning, Live
  <2>4. Uplink(t)
    BY <2>1, <2>2 DEF Uplink
  <2>5. Script(t)
    BY <2>1, <2>2, <2>3 DEF Script, Leads
  <2>6. Works(t)
    BY <2>1, <2>2, <2>3 DEF Works, Port, Runs, Phase, Mail
  <2> QED BY <2>4, <2>5, <2>6
<1>2. ~granted
  BY DEF Init
<1> QED BY <1>1, <1>2 DEF ProtocolInv

\* ... every message to the coordinator keeps it, ...
LEMMA CoordinatorProtocol ==
    ASSUME CacheInv, ProtocolInv,
           \/ \E t \in Tab : TabMessage(t) \/ LockReleased(t)
           \/ EngineMessage \/ Resume \/ Watchdog \/ FalseAlarm
    PROVE  ProtocolInv'
<1>1. ASSUME NEW t \in Tab, TabMessage(t) \/ LockReleased(t) PROVE ProtocolInv'
  BY <1>1, RegisterProtocol, RegisteredProtocol, IgnoredProtocol, RequestProtocol, AttachProtocol,
     GracefulProtocol, NavigationProtocol, LostProtocol DEF TabMessage
<1>2. CASE EngineMessage
  BY <1>2, GrantProtocol, ResponseProtocol, DrainedProtocol, FatalProtocol DEF EngineMessage
<1> QED BY <1>1, <1>2, ResumeProtocol, WatchdogProtocol

\* ... and so does every step.
LEMMA ProtocolNext == CacheInv /\ AskInv /\ ProtocolInv /\ [Next]_vars => ProtocolInv'
<1> SUFFICES ASSUME CacheInv, AskInv, ProtocolInv, [Next]_vars PROVE ProtocolInv'
  OBVIOUS
<1>1. CASE UNCHANGED vars
  <2>1. UNCHANGED <<core, router>> /\ \A s \in Tab : Apart(s)
    BY <1>1 DEF vars, pages, engines, eports, Apart
  <2>2. \A s \in Tab : Uplink(s)' /\ Script(s)' /\ Works(s)'
    BY <2>1, ApartKept
  <2>3. granted' = granted /\ route' = route
    BY <2>1 DEF core, router
  <2> QED BY <2>2, <2>3 DEF ProtocolInv
<1>2. ASSUME NEW t \in Tab, User(t) \/ PageStep(t) \/ EngineStep(t) \/ Failure(t)
      PROVE  ProtocolInv'
  BY <1>2, PageProtocol
<1>3. CASE \/ \E t \in Tab : TabMessage(t) \/ LockReleased(t)
           \/ EngineMessage \/ Resume \/ Watchdog \/ FalseAlarm
  BY <1>3, CoordinatorProtocol
<1> QED BY <1>1, <1>2, <1>3 DEF Next

\* In every port what begins an epoch comes before what ends it, an engine that is not
\* counted on any more is told to go, and the engine of the current epoch has said and heard
\* what fits the coordinator's phase, for any number of tabs, owners and failures.
THEOREM ProtocolInvariant == Spec => []ProtocolInv
<1>1. Spec => [](CacheInv /\ AskInv)
  BY CacheInvariant, AskInvariant, PTL
<1> QED BY <1>1, ProtocolInit, ProtocolNext, PTL DEF Spec

\* The page adapter is never told to become the owner while it has an engine or of an epoch
\* it has ended, to terminate an engine it never had, or to retire from another's epoch.
LEMMA PageUnsurprised ==
    ASSUME CacheInv, ProtocolInv, NEW t \in Tab
    PROVE  /\ Next1(down[t], "become") =>
                own[t] = 0 /\ \A e \in ended[t] : e < Head(down[t]).epoch
           /\ Next1(down[t], "terminate") => Head(down[t]).epoch \in ended[t] \cup {own[t]}
           /\ Next1(down[t], "retire") => Head(down[t]).epoch = own[t]
<1>1. CASE down[t] = <<>>
  BY <1>1 DEF Next1
<1>2. CASE down[t] # <<>>
  <2>1. PICK h : h = Head(down[t])
    OBVIOUS
  <2>2. /\ Script(t) /\ down[t] \in Seq(Message) /\ epoch \in Nat /\ own[t] \in Nat
        /\ \A m \in Contents(down[t]) : m.epoch \in Nat
        /\ \A m \in Contents(down[t]) : m.kind = "become" => m.epoch <= epoch
    BY Facts DEF ProtocolInv
  <2>3. /\ Contents(down[t]) = {h} \cup Contents(Tail(down[t]))
        /\ \A m \in Contents(Tail(down[t])) : InOrder(h, m)
    BY <1>2, <2>1, <2>2, OrderTail DEF Script
  <2>4. h \in Contents(down[t]) /\ Fits(t, h) /\ h.epoch \in Nat
    BY <2>2, <2>3 DEF Script
  <2>5. ASSUME h.kind = "become" PROVE own[t] = 0 /\ \A e \in ended[t] : e < h.epoch
    <3>1. own[t] < h.epoch /\ \A e \in ended[t] : e < h.epoch
      BY <2>4, <2>5 DEF Fits, Took
    <3>2. ~Now(t, own[t])
      BY <2>2, <2>4, <2>5, <3>1 DEF Now
    <3>3. ASSUME NEW m \in Contents(down[t]), m.kind = "terminate" PROVE m.epoch # own[t]
      <4>1. InOrder(h, m) /\ m.epoch \in Nat
        BY <2>2, <2>3, <2>5, <3>3
      <4>2. h.epoch < m.epoch \/ h.epoch = m.epoch
        BY <2>5, <3>3, <4>1 DEF InOrder, Calls
      <4> QED BY <2>2, <2>4, <3>1, <4>1, <4>2
    <3>4. ASSUME NEW m \in Contents(down[t]) PROVE m.kind # "retire"
      BY <2>2, <2>4, <2>5 DEF Script, Fits, Calls
    <3> QED BY <2>2, <3>1, <3>2, <3>3, <3>4 DEF Script, Leads, Holds
  <2>6. ASSUME h.kind = "terminate" PROVE h.epoch \in ended[t] \cup {own[t]}
    <3>1. ASSUME NEW m \in Contents(down[t]), m.kind = "become" PROVE m.epoch # h.epoch
      <4>1. InOrder(h, m) /\ m.epoch \in Nat
        BY <2>2, <2>3, <2>6, <3>1
      <4>2. h.epoch < m.epoch
        BY <2>6, <3>1, <4>1 DEF InOrder, Calls
      <4> QED BY <2>4, <4>1, <4>2
    <3>2. ~Holds(down[t], "become", h.epoch)
      BY <3>1 DEF Holds
    <3> QED BY <2>4, <2>6, <3>2 DEF Fits, Took
  <2>7. ASSUME h.kind = "retire" PROVE h.epoch = own[t]
    BY <2>4, <2>7 DEF Fits
  <2> QED BY <2>1, <2>5, <2>6, <2>7 DEF Next1
<1> QED BY <1>1, <1>2

\* The next message of a port is under way.
LEMMA NextPending ==
    ASSUME NEW q \in Seq(Message), NEW k, Next1(q, k)
    PROVE  Pending(q, k) /\ Head(q) \in Contents(q) /\ Head(q).kind = k
BY PendingTail, Taking DEF Next1

\* What the engine of a route says is of the current epoch and fits the phase.
LEMMA RouterUnsurprised ==
    ASSUME CacheInv, ProtocolInv, route # 0, eup[owner] # <<>>
    PROVE  /\ Head(eup[owner]).epoch = epoch
           /\ Next1(eup[owner], "assets") => kind = "activating" /\ ~granted
           /\ Next1(eup[owner], "ready") => kind = "activating" /\ granted
           /\ Next1(eup[owner], "drained") => kind = "draining"
<1>1. Owning
  BY DEF CacheInv, CoordInv, RouteInv, Owning
<1>2. owner \in Tab
  BY <1>1 DEF CacheInv, CoordInv, RouteInv, CoreTypes, Owning
<1>3. PICK h : h = Head(eup[owner])
  OBVIOUS
<1>4. /\ epoch \in Nat /\ own[owner] \in Nat /\ ended[owner] \subseteq Nat /\ own[owner] <= epoch
      /\ eup[owner] \in Seq(Message) /\ epoch # 0
      /\ \A m \in Contents(eup[owner]) : m.epoch \in Nat
  BY <1>1, <1>2, Facts
<1>5. h \in Contents(eup[owner])
  BY <1>3, <1>4, Taking
<1>6. Uplink(owner) /\ Script(owner) /\ Works(owner)
  BY <1>2 DEF ProtocolInv
<1>7. epoch \in ended[owner] \cup {own[owner]}
  BY <1>6 DEF Uplink, Took
<1>8. \A e \in ended[owner] : e <= epoch
  BY <1>6 DEF Script, Leads
<1>9. h.epoch = epoch
  <2>1. CASE own[owner] # 0
    <3>1. h.epoch = own[owner] /\ \A e \in ended[owner] : e < own[owner]
      BY <1>5, <1>6, <2>1 DEF Works, Port, Script, Leads
    <3> QED BY <1>4, <1>7, <3>1
  <2>2. CASE own[owner] = 0
    <3>1. h.epoch \in ended[owner] /\ \A e \in ended[owner] : e <= h.epoch
      BY <1>5, <1>6, <2>2 DEF Works, Port
    <3> QED BY <1>4, <1>7, <1>8, <2>2, <3>1
  <2> QED BY <2>1, <2>2
<1> QED BY <1>1, <1>3, <1>5, <1>6, <1>9 DEF Works, Mail, Next1

\* It rules out every surprise.
LEMMA Unsurprised == ASSUME CacheInv, ProtocolInv PROVE NoSurprise
<1>1. ASSUME NEW t \in Tab
      PROVE  /\ Next1(edown[t], "open") => eng[t] \in {"assets", "failed", "hung"}
             /\ Next1(edown[t], "request") => eng[t] \in {"ready", "failed", "hung"}
  <2>1. Works(t) /\ edown[t] \in Seq(Message)
    BY Facts DEF ProtocolInv
  <2> QED BY <2>1, NextPending DEF Works, Runs, Stuck
<1>2. ASSUME NEW t \in tabs, Next1(up[t], "attach"), IsOwner(t, Head(up[t]).epoch)
      PROVE  route = 0
  <2>1. t \in Tab
    BY DEF CacheInv, CoordInv, CoreTypes
  <2>2. Uplink(t) /\ up[t] \in Seq(Message)
    BY <2>1, Facts DEF ProtocolInv
  <2>3. Head(up[t]) \in Contents(up[t]) /\ Head(up[t]).kind = "attach"
    BY <1>2, <2>2, NextPending
  <2>4. Now(t, Head(up[t]).epoch)
    BY <1>2 DEF IsOwner, Now, Owning
  <2> QED BY <2>2, <2>3, <2>4 DEF Uplink
<1> QED BY <1>1, <1>2, PageUnsurprised, RouterUnsurprised DEF NoSurprise

\* No message meets a receiver in a state that takes it for a protocol error, whatever
\* owners come and go: become-owner, terminate-engine and retire-complete at the page
\* adapter, the open permission and requests at the engine runtime, the engine port and the
\* engine's messages at the router.
THEOREM NothingSurprises == Spec => []NoSurprise
<1>1. CacheInv /\ ProtocolInv => NoSurprise
  BY Unsurprised
<1> QED BY <1>1, CacheInvariant, ProtocolInvariant, PTL

=============================================================================
