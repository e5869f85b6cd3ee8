----------------------- MODULE MessageSessionsProofs ------------------------
(***************************************************************************)
(* Proofs about the engines that exchange messages: WebSocket and STOMP.   *)
(***************************************************************************)
EXTENDS MessageSessions, Accounts, Integers, TLAPS

\* ws_max_messages is absent, or a number.
LEMMA MessagesOption == MaxMessages = <<>> \/ \E n \in Nat : MaxMessages = <<n>>
BY MessageSessionsAssumption, Zenon

-----------------------------------------------------------------------------
(* The account of a worker.                                                *)
\* A fault that chaos selected is none or one.
LEMMA FaultLength == \A f \in SelectFault : Len(f) \in Nat
BY DEF SelectFault

\* The account after a step, by its figures.
Sums(i, s, c, d, m, j) ==
    /\ DOMAIN past' = DOMAIN NoPast /\ "fault" \in DOMAIN it'
    /\ i \in Nat /\ s \in Nat /\ c \in Nat /\ d \in Nat /\ m \in Nat /\ j \in Nat
    /\ past'.iterations = i /\ past'.selected = s /\ past'.cut = c /\ past'.dropped = d
    /\ report'.metrics = m /\ report'.injected = j

\* The account holds after a step whose figures add up.
LEMMA AccountSums ==
    ASSUME NEW i, NEW s, NEW c, NEW d, NEW m, NEW j, NEW l, NEW b, Sums(i, s, c, d, m, j),
           Len(it'.fault) = l, l \in Nat, pc' \in {"idle", "left"} => it'.fault = <<>>,
           b = IF pc' \in {"idle", "left"} THEN 0 ELSE 1,
           m + d + b = i, j + c + l = s
    PROVE  Accounted'
BY Zenon DEF Sums, Accounted, NoPast, FaultsAreReported, IterationsAreReported

\* Each of the steps that an engine may take keeps the account.
LEMMA AccountKept ==
    ASSUME Accounted, AccountStep
    PROVE  Accounted'
<1>0. PICK i \in Nat, s \in Nat, c \in Nat, d \in Nat, m \in Nat, j \in Nat, l \in Nat, b \in Nat :
         /\ past.iterations = i /\ past.selected = s /\ past.cut = c /\ past.dropped = d
         /\ report.metrics = m /\ report.injected = j /\ Len(it.fault) = l
         /\ j + c + l = s /\ m + d + b = i
         /\ pc \in {"idle", "left"} => l = 0 /\ b = 0
         /\ pc \notin {"idle", "left"} => b = 1
  <2> DEFINE busy == IF pc \in {"idle", "left"} THEN 0 ELSE 1
  <2>1. busy \in Nat /\ (pc \in {"idle", "left"} => busy = 0) /\ (pc \notin {"idle", "left"} => busy = 1)
    OBVIOUS
  <2>2. report.metrics + past.dropped + busy = past.iterations
    BY Zenon DEF Accounted, IterationsAreReported
  <2>3. pc \in {"idle", "left"} => Len(it.fault) = 0
    BY DEF Accounted
  <2> HIDE DEF busy
  <2> QED BY <2>1, <2>2, <2>3, ZenonT(40) DEF Accounted, FaultsAreReported
<1>00. NoIteration.fault = <<>> /\ "fault" \in DOMAIN NoIteration /\ Len(<<>>) = 0
         /\ DOMAIN past = DOMAIN NoPast
  BY Zenon DEF NoIteration, Accounted
<1>1. CASE Goes
  <2>1. b = IF pc' \in {"idle", "left"} THEN 0 ELSE 1
    BY <1>0, <1>1, Zenon DEF Goes
  <2>2. Sums(i, s, c, d, m, j)
    BY <1>0, <1>00, <1>1, Zenon DEF Goes, Sums, SamePast
  <2>3. Len(it'.fault) = l /\ (pc' \in {"idle", "left"} => it'.fault = <<>>)
    BY <1>0, <1>1, Zenon DEF Goes, Accounted
  <2> QED BY <1>0, <2>1, <2>2, <2>3, AccountSums, ZenonT(40)
<1>2. ASSUME NEW f \in SelectFault, Begins(f) PROVE Accounted'
  <2>1. PICK n \in Nat : Len(f) = n
    BY FaultLength, Zenon
  <2>2. /\ past'.iterations = i + 1 /\ past'.selected = s + n /\ past'.cut = c
        /\ past'.dropped = d /\ DOMAIN past' = DOMAIN past
    BY <1>0, <1>2, <2>1, Zenon DEF Begins, Begun, Accounted, NoPast
  <2>3. 1 = IF pc' \in {"idle", "left"} THEN 0 ELSE 1
    BY <1>2, Zenon DEF Begins
  <2>4. Sums(i + 1, s + n, c, d, m, j)
    BY <1>0, <1>00, <1>2, <2>2 DEF Begins, Sums
  <2>5. m + d + 1 = i + 1 /\ j + c + n = s + n
    BY <1>0, <1>2 DEF Begins
  <2>6. Len(it'.fault) = n /\ pc' \notin {"idle", "left"}
    BY <1>2, <2>1, Zenon DEF Begins
  <2> QED BY <2>1, <2>3, <2>4, <2>5, <2>6, AccountSums, Zenon
<1>7. ASSUME NEW x \in Nat, NEW y \in Nat, NEW u \in Nat, NEW v \in Nat, NEW p \in Nat, NEW q \in Nat,
             past'.iterations = x, past'.selected = y, past'.cut = u, past'.dropped = v,
             DOMAIN past' = DOMAIN past,
             pc' \in {"idle", "left"}, it' = NoIteration, report'.metrics = p, report'.injected = q,
             p + v = x, q + u = y
      PROVE  Accounted'
  <2>1. Sums(x, y, u, v, p, q)
    BY <1>7, <1>00, Zenon DEF Sums
  <2>2. 0 = IF pc' \in {"idle", "left"} THEN 0 ELSE 1
    BY <1>7, Zenon
  <2>3. p + v + 0 = x /\ q + u + 0 = y
    BY <1>7
  <2> QED BY <1>00, <1>7, <2>1, <2>2, <2>3, AccountSums
<1>3. ASSUME NEW f \in SelectFault, EndsAtOnce(f) PROVE Accounted'
  <2>1. PICK n \in Nat : Len(f) = n
    BY FaultLength, Zenon
  <2>2. /\ past'.iterations = i + 1 /\ past'.selected = s + n /\ past'.cut = c
        /\ past'.dropped = d /\ DOMAIN past' = DOMAIN past
    BY <1>0, <1>3, <2>1, Zenon DEF EndsAtOnce, Begun, Accounted, NoPast
  <2>3. pc \in {"idle", "left"} /\ pc' = "idle" /\ it' = NoIteration /\ report'.metrics = m + 1
          /\ report'.injected = j + n
    BY <1>0, <1>3, <2>1, Zenon DEF EndsAtOnce, Reports
  <2>4. m + 1 + d = i + 1 /\ j + n + c = s + n
    BY <1>0, <2>3
  <2> QED BY <1>7, <2>2, <2>3, <2>4
<1>4. CASE Finishes
  <2>1. pc \notin {"idle", "left"} /\ pc' = "idle" /\ it' = NoIteration /\ SamePast
    BY <1>4, Zenon DEF Finishes, Reports
  <2>2. report'.metrics = m + 1 /\ report'.injected = j + l
    BY <1>0, <1>4, Zenon DEF Finishes, Reports
  <2>3. m + 1 + d = i /\ j + l + c = s
    BY <1>0, <2>1
  <2>4. /\ past'.iterations = i /\ past'.selected = s /\ past'.cut = c
        /\ past'.dropped = d /\ DOMAIN past' = DOMAIN past
    BY <1>0, <2>1, Zenon DEF SamePast
  <2> QED BY <1>7, <2>1, <2>2, <2>3, <2>4
<1>5. CASE IsCut
  <2>1. /\ past'.iterations = i /\ past'.selected = s /\ past'.cut = c + l
        /\ past'.dropped = d /\ DOMAIN past' = DOMAIN past
    BY <1>0, <1>00, <1>5, Zenon DEF IsCut, NoPast
  <2>2. pc \notin {"idle", "left"} /\ pc' = "idle" /\ it' = NoIteration /\ report'.metrics = m + 1
          /\ report'.injected = j
    BY <1>0, <1>00, <1>5 DEF IsCut, Reports
  <2>3. m + 1 + d = i /\ j + (c + l) = s
    BY <1>0, <2>2
  <2> QED BY <1>7, <2>1, <2>2, <2>3
<1>6. CASE Leaves
  <2>1. /\ past'.iterations = i /\ past'.selected = s /\ past'.cut = c + l
        /\ past'.dropped = d + b /\ DOMAIN past' = DOMAIN past
    BY <1>0, <1>00, <1>6, Zenon DEF Leaves, NoPast
  <2>2. pc' = "left" /\ it' = NoIteration /\ report'.metrics = m /\ report'.injected = j
    BY <1>0, <1>6, Zenon DEF Leaves
  <2>3. m + (d + b) = i /\ j + (c + l) = s
    BY <1>0
  <2> QED BY <1>7, <2>1, <2>2, <2>3
<1>8. ASSUME NEW f \in SelectFault, Selects(f) PROVE Accounted'
  <2>1. PICK n \in Nat : Len(f) = n
    BY FaultLength, Zenon
  <2>2. l = 0 /\ b = 1
    BY <1>0, <1>00, <1>8, Zenon DEF Selects
  <2>3. /\ past'.iterations = i /\ past'.selected = s + n /\ past'.cut = c
        /\ past'.dropped = d /\ DOMAIN past' = DOMAIN past
    BY <1>0, <1>8, <2>1, Zenon DEF Selects
  <2>4. CASE Reports(f)
    <3>1. pc' = "idle" /\ it' = NoIteration /\ report'.metrics = m + 1 /\ report'.injected = j + n
      BY <1>0, <2>1, <2>4, Zenon DEF Reports
    <3>2. m + 1 + d = i /\ j + n + c = s + n
      BY <1>0, <2>2
    <3>3. m + 1 \in Nat /\ j + n \in Nat /\ s + n \in Nat /\ pc' \in {"idle", "left"}
      BY <3>1
    <3> QED BY <1>7, <2>3, <3>1, <3>2, <3>3, Zenon
  <2>5. CASE pc' \notin {"idle", "left"} /\ "fault" \in DOMAIN it' /\ it'.fault = f /\ report' = report
    <3>1. Sums(i, s + n, c, d, m, j) /\ Len(it'.fault) = n
      BY <1>0, <1>00, <2>1, <2>3, <2>5 DEF Sums
    <3>2. m + d + 1 = i /\ j + c + n = s + n /\ 1 = IF pc' \in {"idle", "left"} THEN 0 ELSE 1
      BY <1>0, <2>2, <2>5
    <3> QED BY <2>1, <2>5, <3>1, <3>2, AccountSums, Zenon
  <2> QED BY <1>8, <2>4, <2>5, Zenon DEF Selects
<1> QED BY <1>1, <1>2, <1>3, <1>4, <1>5, <1>6, <1>8, Zenon DEF AccountStep

\* A worker that has done nothing.
LEMMA AccountStarts ==
    ASSUME pc = "idle", it = NoIteration, report.metrics = 0, report.injected = 0, past = NoPast
    PROVE  Accounted
BY DEF NoIteration, NoPast, Accounted, FaultsAreReported, IterationsAreReported

-----------------------------------------------------------------------------
(* WebSocket.                                                              *)

\* What a peer may have put on the way.
WsFrame == [kind : {"reply", "ping", "pong", "close", "eof", "error"}, n : Nat]

\* The replies in the inbox q are b + 1, ..., r in this order.
WsOrder(q, b, r) ==
    /\ b <= r
    /\ \A i \in 1 .. Len(q) : q[i].kind = "reply" => b < q[i].n /\ q[i].n <= r
    /\ \A i, j \in 1 .. Len(q) : i < j /\ q[i].kind = "reply" /\ q[j].kind = "reply" => q[i].n < q[j].n
    /\ \A m \in b + 1 .. r : \E i \in 1 .. Len(q) : q[i].kind = "reply" /\ q[i].n = m

\* The replies that the iterations of the connection have taken or will not miss.
WsTaken == peer.wire - truth.abandoned - (IF pc = "read" THEN 1 ELSE 0)

\* The shape of the session, of what is on the way, and of what happened.
WsType ==
    /\ DOMAIN session = DOMAIN WebSocket!NewSession("persistent")
    /\ session.role \in WebSocket!Roles /\ session.sent \in Nat /\ session.written \in Nat
    /\ DOMAIN peer = DOMAIN WebSocket!NewPeer
    /\ peer.inbox \in Seq(WsFrame) /\ peer.wire \in Nat /\ peer.replied \in Nat
    /\ DOMAIN truth = DOMAIN WebSocket!NewTruth
    /\ truth.abandoned \in Nat /\ truth.uncounted \in Nat

\* A session that persists: it counts what it wrote, its cap is not reached when it sends, and
\* the replies on the way are those to the frames no iteration has taken the reply of.
WsPersistent ==
    /\ pc # "left" => peer.wire = session.sent + truth.uncounted
    /\ pc = "send" /\ MaxMessages # <<>> => session.sent < Larger(1, MaxMessages[1])
    /\ pc \in {"send", "read"} => session.open
    /\ session.open => WsOrder(peer.inbox, WsTaken, peer.replied)

\* The invariant of the engine: where each role can be, that a dead connection is closed, that
\* every answer was in step, and the state of a session that persists.
WsInv ==
    /\ WsType
    /\ pc = "send" => session.role = "persistent"
    /\ pc \in {"feed", "flush"} => session.role = "publisher"
    /\ pc = "reply" => session.role \in {"handshake", "ping_pong", "stream"}
    /\ truth.dead => ~session.open
    /\ truth.inStep
    /\ session.role = "persistent" => WsPersistent
    /\ WebSocket!BudgetIsKept

\* Nothing is on the way on a new connection.
LEMMA WsOrderEmpty == WsOrder(<<>>, 0, 0)
BY DEF WsOrder

\* Reading a control frame leaves the replies in order.
LEMMA WsOrderSkips ==
    ASSUME NEW q \in Seq(WsFrame), NEW b \in Int, NEW r \in Nat, WsOrder(q, b, r), q # <<>>, q[1].kind # "reply"
    PROVE  WsOrder(Tail(q), b, r)
<1>1. /\ Len(Tail(q)) = Len(q) - 1 /\ Len(q) \in Nat
      /\ \A i \in 1 .. Len(Tail(q)) : Tail(q)[i] = q[i + 1] /\ i + 1 \in 1 .. Len(q)
  OBVIOUS
<1>2. ASSUME NEW m \in b + 1 .. r
      PROVE  \E i \in 1 .. Len(Tail(q)) : Tail(q)[i].kind = "reply" /\ Tail(q)[i].n = m
  <2>1. PICK i \in 1 .. Len(q) : q[i].kind = "reply" /\ q[i].n = m
    BY Zenon DEF WsOrder
  <2>2. i # 1 /\ i - 1 \in 1 .. Len(Tail(q)) /\ Tail(q)[i - 1] = q[i]
    BY <1>1, <2>1
  <2> QED BY <2>1, <2>2, Zenon
<1>3. \A i, j \in 1 .. Len(Tail(q)) : i < j /\ Tail(q)[i].kind = "reply" /\ Tail(q)[j].kind = "reply"
        => Tail(q)[i].n < Tail(q)[j].n
  BY <1>1 DEF WsOrder
<1> QED BY <1>1, <1>2, <1>3 DEF WsOrder

\* The first reply that is read is the next one, and those behind it stay in order.
LEMMA WsOrderTakes ==
    ASSUME NEW q \in Seq(WsFrame), NEW b \in Int, NEW r \in Nat, WsOrder(q, b, r), q # <<>>, q[1].kind = "reply"
    PROVE  q[1].n = b + 1 /\ WsOrder(Tail(q), b + 1, r)
<1>1. /\ Len(Tail(q)) = Len(q) - 1 /\ Len(q) \in Nat /\ 1 \in 1 .. Len(q)
      /\ \A i \in 1 .. Len(Tail(q)) : Tail(q)[i] = q[i + 1] /\ i + 1 \in 1 .. Len(q)
      /\ \A i \in 1 .. Len(q) : q[i].n \in Nat
  <2>1. \A i \in 1 .. Len(q) : q[i] \in WsFrame
    OBVIOUS
  <2>2. \A f \in WsFrame : f.n \in Nat
    BY Zenon DEF WsFrame
  <2> QED BY <2>1, <2>2
<1>2. b < q[1].n /\ q[1].n <= r /\ b + 1 \in b + 1 .. r
  BY <1>1 DEF WsOrder
<1>3. q[1].n = b + 1
  <2>1. PICK i \in 1 .. Len(q) : q[i].kind = "reply" /\ q[i].n = b + 1
    BY <1>2, Zenon DEF WsOrder
  <2>2. CASE i = 1
    BY <2>1, <2>2, Zenon
  <2>3. CASE i > 1
    <3>1. q[1].n < q[i].n
      BY <1>1, <2>1, <2>3, Zenon DEF WsOrder
    <3> QED BY <1>1, <1>2, <2>1, <3>1
  <2> QED BY <2>2, <2>3
<1>4. ASSUME NEW m \in b + 2 .. r
      PROVE  \E i \in 1 .. Len(Tail(q)) : Tail(q)[i].kind = "reply" /\ Tail(q)[i].n = m
  <2>0. m \in b + 1 .. r
    OBVIOUS
  <2>1. PICK i \in 1 .. Len(q) : q[i].kind = "reply" /\ q[i].n = m
    BY <2>0, Zenon DEF WsOrder
  <2>2. i # 1 /\ i - 1 \in 1 .. Len(Tail(q)) /\ Tail(q)[i - 1] = q[i]
    BY <1>1, <1>3, <2>1
  <2> QED BY <2>1, <2>2, Zenon
<1>5. \A i, j \in 1 .. Len(Tail(q)) : i < j /\ Tail(q)[i].kind = "reply" /\ Tail(q)[j].kind = "reply"
        => Tail(q)[i].n < Tail(q)[j].n
  BY <1>1 DEF WsOrder
<1>6. \A i \in 1 .. Len(Tail(q)) : Tail(q)[i].kind = "reply" => b + 1 < Tail(q)[i].n /\ Tail(q)[i].n <= r
  <2> SUFFICES ASSUME NEW i \in 1 .. Len(Tail(q)), Tail(q)[i].kind = "reply"
               PROVE  b + 1 < Tail(q)[i].n /\ Tail(q)[i].n <= r
    OBVIOUS
  <2>1. Tail(q)[i] = q[i + 1] /\ i + 1 \in 1 .. Len(q) /\ 1 < i + 1
    BY <1>1
  <2>2. q[1].n < q[i + 1].n /\ q[i + 1].n <= r
    BY <1>1, <2>1, Zenon DEF WsOrder
  <2> QED BY <1>3, <2>1, <2>2, Zenon
<1>7. b + 1 <= r /\ b + 2 = (b + 1) + 1
  BY <1>2
<1> QED BY <1>3, <1>4, <1>5, <1>6, <1>7, Zenon DEF WsOrder

\* A frame that arrives keeps the order, if a reply is the next one that the peer owes.
LEMMA WsOrderAppends ==
    ASSUME NEW q \in Seq(WsFrame), NEW b \in Int, NEW r \in Nat, NEW s \in Nat, WsOrder(q, b, r),
           NEW x \in WsFrame,
           IF x.kind = "reply" THEN x.n = r + 1 /\ s = r + 1 ELSE s = r
    PROVE  WsOrder(Append(q, x), b, s)
<1>1. /\ Len(q) \in Nat /\ Len(Append(q, x)) = Len(q) + 1 /\ Append(q, x)[Len(q) + 1] = x
      /\ \A i \in 1 .. Len(q) : Append(q, x)[i] = q[i] /\ q[i].n \in Nat
      /\ x.n \in Nat
  <2>1. \A i \in 1 .. Len(q) : q[i] \in WsFrame
    OBVIOUS
  <2>2. \A f \in WsFrame : f.n \in Nat
    BY Zenon DEF WsFrame
  <2> QED BY <2>1, <2>2
<1> DEFINE a == Append(q, x)
<1> HIDE DEF a
<1>2. /\ Len(a) = Len(q) + 1 /\ a[Len(q) + 1] = x /\ \A i \in 1 .. Len(q) : a[i] = q[i]
  BY <1>1, Zenon DEF a
<1>3. ASSUME NEW i \in 1 .. Len(a), a[i].kind = "reply" PROVE b < a[i].n /\ a[i].n <= s
  <2>1. CASE i \in 1 .. Len(q)
    BY <1>1, <1>2, <1>3, <2>1 DEF WsOrder
  <2>2. CASE i = Len(q) + 1
    BY <1>1, <1>2, <1>3, <2>2 DEF WsOrder
  <2> QED BY <1>1, <1>2, <2>1, <2>2
<1>4. ASSUME NEW i \in 1 .. Len(a), NEW j \in 1 .. Len(a), i < j, a[i].kind = "reply", a[j].kind = "reply"
      PROVE  a[i].n < a[j].n
  <2>1. i \in 1 .. Len(q)
    BY <1>1, <1>2, <1>4
  <2>2. CASE j \in 1 .. Len(q)
    BY <1>2, <1>4, <2>1, <2>2, Zenon DEF WsOrder
  <2>3. CASE j = Len(q) + 1
    BY <1>1, <1>2, <1>4, <2>1, <2>3 DEF WsOrder
  <2> QED BY <1>1, <1>2, <2>2, <2>3
<1>5. ASSUME NEW m \in b + 1 .. s PROVE \E i \in 1 .. Len(a) : a[i].kind = "reply" /\ a[i].n = m
  <2>1. CASE m \in b + 1 .. r
    <3>1. PICK i \in 1 .. Len(q) : q[i].kind = "reply" /\ q[i].n = m
      BY <2>1, Zenon DEF WsOrder
    <3> QED BY <1>1, <1>2, <3>1
  <2>2. CASE m > r
    BY <1>1, <1>2, <2>2
  <2> QED BY <2>1, <2>2
<1>6. b <= s
  BY DEF WsOrder
<1> QED BY <1>3, <1>4, <1>5, <1>6, Zenon DEF WsOrder, a

\* The engine starts in its invariant.
LEMMA WsStarts == WebSocket!Init => WsInv
<1> SUFFICES ASSUME WebSocket!Init PROVE WsInv
  OBVIOUS
<1>1. PICK r \in WebSocket!Roles : session = WebSocket!NewSession(r)
  BY Zenon DEF WebSocket!Init
<1>2. /\ pc = "idle" /\ truth = WebSocket!NewTruth
      /\ peer = [up |-> FALSE, inbox |-> <<>>, wire |-> 0, replied |-> 0]
  BY Zenon DEF WebSocket!Init, WebSocket!NewPeer
<1>3. WsType
  BY <1>1, <1>2 DEF WsType, WebSocket!NewSession, WebSocket!NewTruth, WebSocket!NewPeer
<1>4. ~session.open /\ session.sent = 0
  BY <1>1, Zenon DEF WebSocket!NewSession
<1>5. WsPersistent
  BY <1>2, <1>4 DEF WsPersistent, WebSocket!NewTruth
<1>6. WebSocket!BudgetIsKept
  BY <1>2, MessagesOption DEF WebSocket!BudgetIsKept, WebSocket!Larger, WebSocket!NewTruth
<1> QED BY <1>2, <1>3, <1>4, <1>5, <1>6, Zenon DEF WsInv, WebSocket!NewTruth

\* A step of a session that is not persistent.
LEMMA WsOthers ==
    ASSUME WsType', session'.role # "persistent", pc' # "send",
           pc' \in {"feed", "flush"} => session'.role = "publisher",
           pc' = "reply" => session'.role \in {"handshake", "ping_pong", "stream"},
           truth'.dead => ~session'.open,
           truth'.inStep
    PROVE  WsInv'
BY Zenon DEF WsInv, WebSocket!BudgetIsKept

\* A step of a persistent session that does not write.
LEMMA WsQuiet ==
    ASSUME WsInv, WsType', session.role = "persistent", session'.role = "persistent",
           pc' \notin {"feed", "flush", "reply"}, truth'.dead => ~session'.open, truth'.inStep, WsPersistent',
           peer'.wire = peer.wire, truth'.uncounted >= truth.uncounted
    PROVE  WsInv'
<1>1. WebSocket!BudgetIsKept'
  BY MessagesOption DEF WsInv, WsType, WebSocket!BudgetIsKept, WebSocket!Larger
<1> QED BY <1>1, Zenon DEF WsInv

\* An iteration begins.
LEMMA WsBegins == ASSUME WsInv, NEW f, WebSocket!PersistentBegin(f) \/ WebSocket!StatelessBegin(f)
                         \/ WebSocket!HalfBegin
                  PROVE  WsInv'
<1>1. UNCHANGED <<session, peer, truth>> /\ pc = "idle" /\ pc' \in {"idle", "connect"}
  BY Zenon DEF WebSocket!PersistentBegin, WebSocket!StatelessBegin, WebSocket!HalfBegin, WebSocket!EndAtOnce,
         WebSocket!End,
     WebSocket!MayBegin
<1> QED BY <1>1, Zenon DEF WsInv, WsType, WsPersistent, WsTaken, WebSocket!BudgetIsKept

\* The fields of the state.
LEMMA WsFields ==
    ASSUME WsType
    PROVE  /\ DOMAIN session = {"role", "open", "sent", "pings", "pongs", "written", "flushed"}
           /\ DOMAIN peer = {"up", "inbox", "wire", "replied"}
           /\ DOMAIN truth = {"inStep", "abandoned", "uncounted", "dead", "pings"}
           /\ session.sent \in Nat /\ session.written \in Nat /\ peer.inbox \in Seq(WsFrame)
                /\ peer.wire \in Nat
           /\ peer.replied \in Nat /\ truth.abandoned \in Nat /\ truth.uncounted \in Nat /\ WsTaken \in Int
BY DEF WsType, WsTaken, WebSocket!NewSession, WebSocket!NewPeer, WebSocket!NewTruth

\* An iteration finds its connection, or connects, or fails to.
LEMMA WsConnects ==
    ASSUME WsInv, WebSocket!StillConnected \/ WebSocket!Reconnect \/ WebSocket!ReconnectFails
    PROVE  WsInv'
<1> USE WsFields, MessagesOption
<1>1. CASE WebSocket!StillConnected
  <2>1. UNCHANGED <<session, peer, truth>> /\ pc = "connect" /\ pc' = "send" /\ session.role = "persistent"
          /\ session.open
    BY <1>1, Zenon DEF WebSocket!StillConnected
  <2>2. MaxMessages # <<>> => session.sent < Larger(1, MaxMessages[1])
    BY <1>1 DEF WebSocket!StillConnected, WebSocket!IsMaxReached, Larger, WsInv
  <2>3. WsPersistent'
    BY <2>1, <2>2, Zenon DEF WsInv, WsPersistent, WsTaken
  <2> QED BY <2>1, <2>3, Zenon DEF WsInv, WsType, WebSocket!BudgetIsKept
<1>2. CASE WebSocket!Reconnect
  <2>1. /\ pc' = "send" /\ session.role = "persistent" /\ truth' = WebSocket!Reborn
        /\ peer' = WebSocket!NewPeer /\ session' = [session EXCEPT !.open = TRUE, !.sent = 0]
    BY <1>2, Zenon DEF WebSocket!Reconnect
  <2>2. /\ DOMAIN session' = DOMAIN session /\ session'.role = "persistent" /\ session'.open
             /\ session'.sent = 0
        /\ session'.written = session.written
    BY <2>1, Zenon DEF WsInv
  <2>3. /\ DOMAIN truth' = DOMAIN WebSocket!NewTruth /\ truth'.abandoned = 0 /\ truth'.uncounted = 0
             /\ ~truth'.dead
        /\ truth'.inStep
    BY <2>1, Zenon DEF WebSocket!Reborn, WebSocket!NewTruth
  <2>4. peer'.inbox = <<>> /\ peer'.wire = 0 /\ peer'.replied = 0
    BY <2>1, Zenon DEF WebSocket!NewPeer
  <2>5. WsType'
    BY <2>1, <2>2, <2>3, <2>4 DEF WsInv, WsType, WebSocket!Roles
  <2>6. WsPersistent'
    BY <2>1, <2>2, <2>3, <2>4, WsOrderEmpty DEF WsPersistent, WsTaken, Larger
  <2>7. WebSocket!BudgetIsKept'
    BY <2>3, <2>4 DEF WebSocket!BudgetIsKept, WebSocket!Larger
  <2> QED BY <2>1, <2>2, <2>3, <2>5, <2>6, <2>7, Zenon DEF WsInv
<1>3. CASE WebSocket!ReconnectFails
  <2>1. UNCHANGED <<session, peer, truth>> /\ pc = "connect" /\ pc' = "idle"
    BY <1>3, Zenon DEF WebSocket!ReconnectFails, WebSocket!End
  <2> QED BY <2>1, Zenon DEF WsInv, WsType, WsPersistent, WsTaken, WebSocket!BudgetIsKept
<1> QED BY <1>1, <1>2, <1>3, Zenon

\* A message is written, or its write fails, or the deadline drops it.
LEMMA WsSends ==
    ASSUME WsInv, WebSocket!Send \/ WebSocket!SendFails \/ WebSocket!CutInSend
    PROVE  WsInv'
<1> USE WsFields, MessagesOption
<1>0. pc = "send" /\ session.role = "persistent" /\ WsPersistent /\ WsType /\ session.open /\ ~truth.dead
        /\ truth.inStep
  BY Zenon DEF WsInv, WsPersistent, WebSocket!Send, WebSocket!SendFails, WebSocket!CutInSend
<1>1. CASE WebSocket!Send
  <2>1. /\ pc' = "read" /\ UNCHANGED truth /\ peer' = [peer EXCEPT !.wire = peer.wire + 1]
        /\ session' = [session EXCEPT !.sent = session.sent + 1, !.pings = 0, !.pongs = 0]
    BY <1>1, Zenon DEF WebSocket!Send, WebSocket!Sent
  <2>2. /\ DOMAIN session' = DOMAIN session /\ session'.role = session.role /\ session'.open = session.open
        /\ session'.sent = session.sent + 1 /\ session'.written = session.written
    BY <1>0, <2>1, Zenon
  <2>3. /\ DOMAIN peer' = DOMAIN peer /\ peer'.inbox = peer.inbox /\ peer'.wire = peer.wire + 1
        /\ peer'.replied = peer.replied
    BY <1>0, <2>1, Zenon
  <2>4. WsType'
    BY <1>0, <2>1, <2>2, <2>3 DEF WsType
  <2>5. WsTaken' = WsTaken
    BY <1>0, <2>1, <2>3 DEF WsTaken
  <2>6. WsPersistent'
    BY <1>0, <2>1, <2>2, <2>3, <2>5 DEF WsPersistent
  <2>7. WebSocket!BudgetIsKept'
    BY <1>0, <2>1, <2>2, <2>3 DEF WebSocket!BudgetIsKept, WebSocket!Larger, Larger, WsPersistent
  <2> QED BY <1>0, <2>1, <2>2, <2>4, <2>6, <2>7, Zenon DEF WsInv
<1>2. CASE WebSocket!SendFails
  <2>1. /\ pc' = "idle" /\ UNCHANGED peer /\ session' = [session EXCEPT !.open = FALSE]
        /\ truth' = [truth EXCEPT !.dead = TRUE]
    BY <1>2, Zenon DEF WebSocket!SendFails, WebSocket!End
  <2>2. /\ DOMAIN session' = DOMAIN session /\ session'.role = session.role /\ ~session'.open
        /\ session'.sent = session.sent /\ session'.written = session.written
    BY <1>0, <2>1, Zenon
  <2>3. /\ DOMAIN truth' = DOMAIN truth /\ truth'.inStep /\ truth'.abandoned = truth.abandoned
        /\ truth'.uncounted = truth.uncounted
    BY <1>0, <2>1, Zenon
  <2>4. WsType'
    BY <1>0, <2>1, <2>2, <2>3, Zenon DEF WsType
  <2>5. WsPersistent'
    BY <1>0, <2>1, <2>2, <2>3, Zenon DEF WsPersistent
  <2> QED BY <1>0, <2>1, <2>2, <2>3, <2>4, <2>5, WsQuiet
<1>3. CASE WebSocket!CutInSend
  <2>1. /\ pc' = "idle" /\ UNCHANGED session /\ peer' = [peer EXCEPT !.wire = peer.wire + 1]
        /\ truth' = [truth EXCEPT !.uncounted = truth.uncounted + 1, !.abandoned = truth.abandoned + 1]
    BY <1>3, Zenon DEF WebSocket!CutInSend, WebSocket!Sent, WebSocket!CutShort, WebSocket!End
  <2>2. /\ DOMAIN peer' = DOMAIN peer /\ peer'.inbox = peer.inbox /\ peer'.wire = peer.wire + 1
        /\ peer'.replied = peer.replied
    BY <1>0, <2>1, Zenon
  <2>3. /\ DOMAIN truth' = DOMAIN truth /\ truth'.inStep = truth.inStep
             /\ truth'.abandoned = truth.abandoned + 1
        /\ truth'.uncounted = truth.uncounted + 1 /\ truth'.dead = truth.dead
    BY <1>0, <2>1, Zenon
  <2>4. WsType'
    BY <1>0, <2>1, <2>2, <2>3 DEF WsType
  <2>5. WsTaken' = WsTaken
    BY <1>0, <2>1, <2>2, <2>3 DEF WsTaken
  <2>6. WsPersistent'
    BY <1>0, <2>1, <2>2, <2>3, <2>5 DEF WsPersistent
  <2>7. WebSocket!BudgetIsKept'
    BY <1>0, <2>1, <2>2, <2>3 DEF WsInv, WebSocket!BudgetIsKept, WebSocket!Larger
  <2> QED BY <1>0, <2>1, <2>2, <2>3, <2>4, <2>6, <2>7, Zenon DEF WsInv
<1> QED BY <1>1, <1>2, <1>3, Zenon

\* A frame is read.
LEMMA WsTakes ==
    ASSUME WsType, WebSocket!MayRead, peer' = WebSocket!Take
    PROVE  /\ DOMAIN peer' = DOMAIN peer /\ peer'.inbox = Tail(peer.inbox) /\ peer'.inbox \in Seq(WsFrame)
           /\ peer'.wire = peer.wire /\ peer'.replied = peer.replied
           /\ peer.inbox # <<>> /\ WebSocket!Received = peer.inbox[1]
<1>1. peer.inbox \in Seq(WsFrame) /\ peer.inbox # <<>> /\ WebSocket!Received = peer.inbox[1]
  BY WsFields DEF WebSocket!MayRead, WebSocket!Received
<1>2. Tail(peer.inbox) \in Seq(WsFrame)
  BY <1>1
<1>3. peer' = [peer EXCEPT !.inbox = Tail(peer.inbox)]
  BY Zenon DEF WebSocket!Take
<1> QED BY <1>1, <1>2, <1>3, WsFields, Zenon

\* A persistent session reads: a control frame, an answer, the end, or nothing in time.
LEMMA WsReads ==
    ASSUME WsInv, session.role = "persistent",
           \/ \E kind \in {"ping", "pong"} : WebSocket!ReadControl(kind)
           \/ WebSocket!ReadAnswer \/ WebSocket!ReadEnds \/ WebSocket!ReadTimesOut
    PROVE  WsInv'
<1> USE WsFields
<1>0. pc = "read" /\ WsPersistent /\ WsType /\ session.open /\ ~truth.dead /\ truth.inStep
      /\ WsOrder(peer.inbox, WsTaken, peer.replied) /\ peer.wire = session.sent + truth.uncounted
  BY Zenon DEF WsInv, WsPersistent, WebSocket!ReadControl, WebSocket!ReadAnswer, WebSocket!ReadEnds,
         WebSocket!ReadTimesOut
<1>1. ASSUME NEW kind \in {"ping", "pong"}, WebSocket!ReadControl(kind) PROVE WsInv'
  <2>1. /\ pc' = "read" /\ UNCHANGED session /\ peer' = WebSocket!Take /\ WebSocket!MayRead
        /\ WebSocket!Received.kind = kind
        /\ \E n : truth' = [truth EXCEPT !.pings = n]
    BY <1>0, <1>1, Zenon DEF WebSocket!ReadControl
  <2>2. /\ DOMAIN truth' = DOMAIN truth /\ truth'.inStep = truth.inStep /\ truth'.abandoned = truth.abandoned
        /\ truth'.uncounted = truth.uncounted /\ truth'.dead = truth.dead
    BY <1>0, <2>1, Zenon
  <2>3. WsType'
    BY <1>0, <2>1, <2>2, WsTakes, Zenon DEF WsType
  <2>4. WsTaken' = WsTaken
    BY <1>0, <2>1, <2>2, WsTakes, Zenon DEF WsTaken
  <2>5. WsOrder(peer'.inbox, WsTaken, peer'.replied)
    <3>1. /\ peer'.inbox = Tail(peer.inbox) /\ peer'.replied = peer.replied /\ peer.inbox # <<>>
          /\ peer.inbox[1].kind # "reply"
      BY <1>0, <1>1, <2>1, WsTakes, Zenon
    <3> QED BY <1>0, <3>1, WsOrderSkips
  <2>6. WsPersistent'
    BY <1>0, <2>1, <2>2, <2>4, <2>5, WsTakes, Zenon DEF WsPersistent
  <2> QED BY <1>0, <2>1, <2>2, <2>3, <2>6, WsTakes, WsQuiet
<1>2. CASE WebSocket!ReadAnswer
  <2>1. /\ pc' = "idle" /\ peer' = WebSocket!Take /\ WebSocket!MayRead /\ WebSocket!Received.kind = "reply"
        /\ session' = [session EXCEPT !.pings = it.pings, !.pongs = it.pongs]
        /\ truth' = [truth EXCEPT !.inStep = truth.inStep /\ peer.wire = WebSocket!Received.n + truth.abandoned]
    BY <1>2, Zenon DEF WebSocket!ReadAnswer, WebSocket!End
  <2>2. peer.inbox[1].n = WsTaken + 1 /\ WsOrder(Tail(peer.inbox), WsTaken + 1, peer.replied)
    BY <1>0, <2>1, WsTakes, WsOrderTakes, Zenon
  <2>3. (truth.inStep /\ peer.wire = WebSocket!Received.n + truth.abandoned) = TRUE
    <3>1. WebSocket!Received.n = WsTaken + 1
      BY <1>0, <2>1, <2>2, WsTakes, Zenon
    <3>2. WsTaken = peer.wire - truth.abandoned - 1
      BY <1>0, Zenon DEF WsTaken
    <3>3. peer.wire = WebSocket!Received.n + truth.abandoned
      BY <1>0, <3>1, <3>2, SMTT(30)
    <3> QED BY <1>0, <3>3, Zenon
  <2>4. /\ DOMAIN truth' = DOMAIN truth /\ truth'.inStep /\ truth'.abandoned = truth.abandoned
        /\ truth'.uncounted = truth.uncounted /\ truth'.dead = truth.dead
    BY <1>0, <2>1, <2>3, Zenon
  <2>5. /\ DOMAIN session' = DOMAIN session /\ session'.role = session.role /\ session'.open = session.open
        /\ session'.sent = session.sent /\ session'.written = session.written
    BY <1>0, <2>1, Zenon
  <2>6. WsType'
    BY <1>0, <2>1, <2>4, <2>5, WsTakes, Zenon DEF WsType
  <2>7. WsTaken' = WsTaken + 1
    BY <1>0, <2>1, <2>4, WsTakes DEF WsTaken
  <2>8. WsPersistent'
    BY <1>0, <2>1, <2>2, <2>4, <2>5, <2>7, WsTakes, Zenon DEF WsPersistent
  <2> QED BY <1>0, <2>1, <2>4, <2>5, <2>6, <2>8, WsTakes, WsQuiet
<1>3. CASE WebSocket!ReadEnds
  <2>1. /\ pc' = "idle" /\ peer' = WebSocket!Take /\ WebSocket!MayRead
        /\ session' = [session EXCEPT !.open = FALSE, !.pings = it.pings, !.pongs = it.pongs]
        /\ truth' = [truth EXCEPT !.dead = TRUE]
    BY <1>3, Zenon DEF WebSocket!ReadEnds, WebSocket!End
  <2>2. /\ DOMAIN truth' = DOMAIN truth /\ truth'.inStep /\ truth'.abandoned = truth.abandoned
        /\ truth'.uncounted = truth.uncounted
    BY <1>0, <2>1, Zenon
  <2>3. /\ DOMAIN session' = DOMAIN session /\ session'.role = session.role /\ ~session'.open
        /\ session'.sent = session.sent /\ session'.written = session.written
    BY <1>0, <2>1, Zenon
  <2>4. WsType'
    BY <1>0, <2>1, <2>2, <2>3, WsTakes, Zenon DEF WsType
  <2>5. WsPersistent'
    BY <1>0, <2>1, <2>2, <2>3, WsTakes, Zenon DEF WsPersistent
  <2> QED BY <1>0, <2>1, <2>2, <2>3, <2>4, <2>5, WsTakes, WsQuiet
<1>4. CASE WebSocket!ReadTimesOut
  <2>1. /\ pc' = "idle" /\ session' = session /\ peer' = peer
             /\ truth' = [truth EXCEPT !.abandoned = truth.abandoned + 1]
    BY <1>4, Zenon DEF WebSocket!ReadTimesOut, WebSocket!End
  <2>2. /\ DOMAIN truth' = DOMAIN truth /\ truth'.inStep /\ truth'.abandoned = truth.abandoned + 1
        /\ truth'.uncounted = truth.uncounted /\ truth'.dead = truth.dead
    BY <1>0, <2>1, Zenon
  <2>3. WsType'
    BY <1>0, <2>1, <2>2 DEF WsType
  <2>4. WsTaken' = WsTaken
    BY <1>0, <2>1, <2>2 DEF WsTaken
  <2>5. WsPersistent'
    BY <1>0, <2>1, <2>2, <2>4, Zenon DEF WsPersistent
  <2> QED BY <1>0, <2>1, <2>2, <2>3, <2>5, WsQuiet
<1> QED BY <1>1, <1>2, <1>3, <1>4, Zenon

\* Publisher and subscriber.
LEMMA WsHalves ==
    ASSUME WsInv, session.role # "persistent",
           \/ \E f : WebSocket!HalfConnected(f)
           \/ WebSocket!HalfConnectFails \/ WebSocket!Feed \/ WebSocket!Flush \/ WebSocket!FlushFails
           \/ \E kind \in {"ping", "pong"} : WebSocket!ReadControl(kind)
           \/ \E stamped : WebSocket!Receive(stamped)
           \/ WebSocket!ReceiveEnds \/ WebSocket!ReceiveTimesOut
    PROVE  WsInv'
<1> USE WsFields
<1>0. WsType /\ truth.inStep /\ (truth.dead => ~session.open)
        /\ (pc \in {"feed", "flush"} => session.role = "publisher")
  BY Zenon DEF WsInv
<1>1. ASSUME NEW f, WebSocket!HalfConnected(f) PROVE WsInv'
  <2>1. /\ session.role \in {"publisher", "subscriber"} /\ pc' \in {"idle", "feed", "read"}
        /\ pc' = "feed" => session.role = "publisher"
    BY <1>1, Zenon DEF WebSocket!HalfConnected, WebSocket!End
  <2>2. CASE session.open
    <3>1. session' = session /\ peer' = peer /\ truth' = truth
      BY <1>1, <2>2, Zenon DEF WebSocket!HalfConnected
    <3> QED BY <1>0, <2>1, <3>1, WsOthers, Zenon DEF WsType
  <2>3. CASE ~session.open
    <3>1. session' = [WebSocket!NewSession(session.role) EXCEPT !.open = TRUE] /\ peer' = WebSocket!NewPeer
            /\ truth' = WebSocket!Reborn
      BY <1>1, <2>3, Zenon DEF WebSocket!HalfConnected
    <3>2. WsType' /\ session'.role = session.role /\ ~truth'.dead /\ truth'.inStep
      BY <1>0, <3>1 DEF WsType, WebSocket!NewSession, WebSocket!NewPeer, WebSocket!NewTruth, WebSocket!Reborn
    <3> QED BY <2>1, <3>2, WsOthers, Zenon
  <2> QED BY <2>2, <2>3, Zenon
<1>2. CASE WebSocket!HalfConnectFails
  <2>1. session' = session /\ peer' = peer /\ truth' = truth /\ pc' = "idle"
    BY <1>2, Zenon DEF WebSocket!HalfConnectFails, WebSocket!End
  <2> QED BY <1>0, <2>1, WsOthers, Zenon DEF WsType
<1>3. CASE WebSocket!Feed
  <2>1. session' = [session EXCEPT !.written = session.written + 1] /\ peer' = peer /\ truth' = truth
          /\ pc' = "flush" /\ pc = "feed"
    BY <1>3, Zenon DEF WebSocket!Feed
  <2>2. /\ DOMAIN session' = DOMAIN session /\ session'.role = session.role /\ session'.open = session.open
        /\ session'.sent = session.sent /\ session'.written = session.written + 1
    BY <1>0, <2>1, Zenon
  <2>3. WsType'
    BY <1>0, <2>1, <2>2 DEF WsType
  <2> QED BY <1>0, <2>1, <2>2, <2>3, WsOthers, Zenon
<1>4. CASE WebSocket!Flush
  <2>1. /\ session' = [session EXCEPT !.flushed = session.written]
             /\ peer' = [peer EXCEPT !.wire = session.written]
        /\ truth' = truth /\ pc' = "idle"
    BY <1>4, Zenon DEF WebSocket!Flush, WebSocket!End
  <2>2. /\ DOMAIN session' = DOMAIN session /\ session'.role = session.role /\ session'.open = session.open
        /\ session'.sent = session.sent /\ session'.written = session.written
    BY <1>0, <2>1, Zenon
  <2>3. /\ DOMAIN peer' = DOMAIN peer /\ peer'.inbox = peer.inbox /\ peer'.wire = session.written
        /\ peer'.replied = peer.replied
    BY <1>0, <2>1, Zenon
  <2>4. WsType'
    BY <1>0, <2>1, <2>2, <2>3, Zenon DEF WsType
  <2> QED BY <1>0, <2>1, <2>2, <2>4, WsOthers, Zenon
<1>5. CASE WebSocket!FlushFails
  <2>1. /\ session' = WebSocket!NewSession("publisher") /\ peer' = peer /\ truth' = [truth EXCEPT !.dead = TRUE]
        /\ pc' = "idle"
    BY <1>5, Zenon DEF WebSocket!FlushFails, WebSocket!End
  <2>2. /\ DOMAIN truth' = DOMAIN truth /\ truth'.inStep /\ truth'.abandoned = truth.abandoned
        /\ truth'.uncounted = truth.uncounted
    BY <1>0, <2>1, Zenon
  <2>3. WsType' /\ session'.role = "publisher" /\ ~session'.open
    BY <1>0, <2>1, <2>2, Zenon DEF WsType, WebSocket!NewSession, WebSocket!Roles
  <2> QED BY <2>1, <2>2, <2>3, WsOthers, Zenon
<1>6. ASSUME NEW kind, WebSocket!ReadControl(kind) PROVE WsInv'
  <2>1. /\ pc' = "read" /\ session' = session /\ peer' = WebSocket!Take /\ WebSocket!MayRead
        /\ \E n : truth' = [truth EXCEPT !.pings = n]
    BY <1>6, Zenon DEF WebSocket!ReadControl
  <2>2. /\ DOMAIN truth' = DOMAIN truth /\ truth'.inStep /\ truth'.abandoned = truth.abandoned
        /\ truth'.uncounted = truth.uncounted /\ truth'.dead = truth.dead
    BY <1>0, <2>1, Zenon
  <2>3. WsType'
    BY <1>0, <2>1, <2>2, WsTakes, Zenon DEF WsType
  <2> QED BY <1>0, <2>1, <2>2, <2>3, WsOthers, Zenon
<1>7. ASSUME NEW stamped, WebSocket!Receive(stamped) PROVE WsInv'
  <2>1. /\ pc' = "idle" /\ session' = session /\ truth' = truth /\ peer' = WebSocket!Take /\ WebSocket!MayRead
    BY <1>7, Zenon DEF WebSocket!Receive, WebSocket!End
  <2>2. WsType'
    BY <1>0, <2>1, WsTakes, Zenon DEF WsType
  <2> QED BY <1>0, <2>1, <2>2, WsOthers, Zenon
<1>8. CASE WebSocket!ReceiveEnds
  <2>1. /\ pc' = "idle" /\ session' = [session EXCEPT !.open = FALSE] /\ truth' = [truth EXCEPT !.dead = TRUE]
        /\ peer' = WebSocket!Take /\ WebSocket!MayRead
    BY <1>8, Zenon DEF WebSocket!ReceiveEnds, WebSocket!End
  <2>2. /\ DOMAIN truth' = DOMAIN truth /\ truth'.inStep /\ truth'.abandoned = truth.abandoned
        /\ truth'.uncounted = truth.uncounted
    BY <1>0, <2>1, Zenon
  <2>3. /\ DOMAIN session' = DOMAIN session /\ session'.role = session.role /\ ~session'.open
        /\ session'.sent = session.sent /\ session'.written = session.written
    BY <1>0, <2>1, Zenon
  <2>4. WsType'
    BY <1>0, <2>1, <2>2, <2>3, WsTakes, Zenon DEF WsType
  <2> QED BY <2>1, <2>2, <2>3, <2>4, WsOthers, Zenon
<1>9. CASE WebSocket!ReceiveTimesOut
  <2>1. session' = session /\ peer' = peer /\ truth' = truth /\ pc' = "idle"
    BY <1>9, Zenon DEF WebSocket!ReceiveTimesOut, WebSocket!End
  <2> QED BY <1>0, <2>1, WsOthers, Zenon DEF WsType
<1> QED BY <1>1, <1>2, <1>3, <1>4, <1>5, <1>6, <1>7, <1>8, <1>9, Zenon

\* The stateless modes.
LEMMA WsStateless ==
    ASSUME WsInv, session.role # "persistent",
           \/ WebSocket!HandshakeFails \/ WebSocket!Handshake \/ WebSocket!ReplyControl
           \/ WebSocket!Reply \/ WebSocket!ReplyTimesOut
    PROVE  WsInv'
<1> USE WsFields
<1>0. /\ WsType /\ truth.inStep /\ (truth.dead => ~session.open)
      /\ pc = "reply" => session.role \in {"handshake", "ping_pong", "stream"}
  BY Zenon DEF WsInv
<1>1. CASE WebSocket!HandshakeFails
  <2>1. session' = session /\ peer' = peer /\ truth' = truth /\ pc' = "idle"
    BY <1>1, Zenon DEF WebSocket!HandshakeFails, WebSocket!End
  <2> QED BY <1>0, <2>1, WsOthers, Zenon DEF WsType
<1>2. CASE WebSocket!Handshake
  <2>1. /\ session' = session /\ peer' = [WebSocket!NewPeer EXCEPT !.wire = 1] /\ truth' = WebSocket!Reborn
        /\ pc' \in {"idle", "reply"} /\ session.role \in {"handshake", "ping_pong", "stream"}
    BY <1>2, Zenon DEF WebSocket!Handshake, WebSocket!End, WebSocket!Stateless
  <2>2. WsType' /\ ~truth'.dead /\ truth'.inStep
    BY <1>0, <2>1 DEF WsType, WebSocket!NewPeer, WebSocket!NewTruth, WebSocket!Reborn
  <2> QED BY <1>0, <2>1, <2>2, WsOthers, Zenon
<1>3. CASE WebSocket!ReplyControl
  <2>1. /\ pc' = pc /\ pc = "reply" /\ session' = session /\ peer' = WebSocket!Take /\ WebSocket!MayRead
        /\ truth' = [truth EXCEPT !.pings = truth.pings + 1]
    BY <1>3, Zenon DEF WebSocket!ReplyControl
  <2>2. /\ DOMAIN truth' = DOMAIN truth /\ truth'.inStep /\ truth'.abandoned = truth.abandoned
        /\ truth'.uncounted = truth.uncounted /\ truth'.dead = truth.dead
    BY <1>0, <2>1, Zenon
  <2>3. WsType'
    BY <1>0, <2>1, <2>2, WsTakes, Zenon DEF WsType
  <2> QED BY <1>0, <2>1, <2>2, <2>3, WsOthers, Zenon
<1>4. CASE WebSocket!Reply
  <2> DEFINE p == WebSocket!Take
  <2>1. pc' = "idle" /\ session' = session /\ truth' = truth /\ WebSocket!MayRead
          /\ peer' = [p EXCEPT !.up = FALSE]
    BY <1>4, Zenon DEF WebSocket!Reply, WebSocket!End
  <2>2. /\ DOMAIN p = DOMAIN peer /\ p.inbox \in Seq(WsFrame) /\ p.wire = peer.wire /\ p.replied = peer.replied
    BY <1>0, <2>1 DEF WebSocket!Take, WebSocket!MayRead
  <2> HIDE DEF p
  <2>3. DOMAIN peer' = DOMAIN peer /\ peer'.inbox = p.inbox /\ peer'.wire = peer.wire
          /\ peer'.replied = peer.replied
    BY <1>0, <2>1, <2>2, Zenon
  <2>4. WsType'
    BY <1>0, <2>1, <2>2, <2>3, Zenon DEF WsType
  <2> QED BY <1>0, <2>1, <2>4, WsOthers, Zenon
<1>5. CASE WebSocket!ReplyTimesOut
  <2>1. pc' = "idle" /\ session' = session /\ truth' = truth /\ peer' = [peer EXCEPT !.up = FALSE]
    BY <1>5, Zenon DEF WebSocket!ReplyTimesOut, WebSocket!End
  <2>2. DOMAIN peer' = DOMAIN peer /\ peer'.inbox = peer.inbox /\ peer'.wire = peer.wire
          /\ peer'.replied = peer.replied
    BY <1>0, <2>1, Zenon
  <2>3. WsType'
    BY <1>0, <2>1, <2>2, Zenon DEF WsType
  <2> QED BY <1>0, <2>1, <2>3, WsOthers, Zenon
<1> QED BY <1>1, <1>2, <1>3, <1>4, <1>5, Zenon

\* The deadline, and the end of the worker.
LEMMA WsCut == ASSUME WsInv, WebSocket!Deadline \/ WebSocket!Shutdown PROVE WsInv'
<1> USE WsFields
<1>0. WsType /\ truth.inStep /\ (truth.dead => ~session.open)
  BY Zenon DEF WsInv
<1>1. CASE WebSocket!Deadline
  <2>1. /\ pc' = "idle" /\ session' = session /\ peer' = peer /\ pc # "left"
        /\ truth' = IF pc = "read" THEN [truth EXCEPT !.abandoned = truth.abandoned + 1] ELSE truth
    BY <1>1, Zenon DEF WebSocket!Deadline, WebSocket!CutShort, WebSocket!End
  <2>2. /\ DOMAIN truth' = DOMAIN truth /\ truth'.inStep /\ truth'.uncounted = truth.uncounted
             /\ truth'.dead = truth.dead
        /\ truth'.abandoned = truth.abandoned + IF pc = "read" THEN 1 ELSE 0
    BY <1>0, <2>1
  <2>3. WsType'
    BY <1>0, <2>1, <2>2 DEF WsType
  <2>4. WsTaken' = WsTaken
    BY <1>0, <2>1, <2>2 DEF WsTaken
  <2>5. WsPersistent => WsPersistent'
    BY <1>0, <2>1, <2>2, <2>4, Zenon DEF WsPersistent
  <2> QED BY <1>0, <2>1, <2>2, <2>3, <2>5, Zenon DEF WsInv, WebSocket!BudgetIsKept
<1>2. CASE WebSocket!Shutdown
  <2>1. pc' = "left" /\ session' = WebSocket!NewSession(session.role) /\ peer' = peer /\ truth' = truth
    BY <1>2, Zenon DEF WebSocket!Shutdown, WebSocket!Leave
  <2>2. WsType' /\ session'.role = session.role /\ ~session'.open
    BY <1>0, <2>1, Zenon DEF WsType, WebSocket!NewSession
  <2>3. WsPersistent'
    BY <2>1, <2>2, Zenon DEF WsPersistent
  <2> QED BY <1>0, <2>1, <2>2, <2>3, Zenon DEF WsInv, WebSocket!BudgetIsKept
<1> QED BY <1>1, <1>2, Zenon

\* The peer sends a frame.
LEMMA WsDelivers ==
    ASSUME WsInv, NEW frame \in WsFrame, NEW p, DOMAIN p = DOMAIN peer, p.inbox = peer.inbox,
           p.wire = peer.wire,
           p.replied \in Nat, peer' = [p EXCEPT !.inbox = Append(p.inbox, frame)],
           pc' = pc, session' = session, truth' = truth,
           session.role = "persistent" =>
              IF frame.kind = "reply" THEN frame.n = peer.replied + 1 /\ p.replied = peer.replied + 1
                                      ELSE p.replied = peer.replied
    PROVE  WsInv'
<1>0. WsType
  BY Zenon DEF WsInv
<1>1. /\ DOMAIN peer' = DOMAIN peer /\ peer'.inbox = Append(peer.inbox, frame) /\ peer'.wire = peer.wire
      /\ peer'.replied = p.replied
  BY <1>0, WsFields, Zenon
<1>2. peer'.inbox \in Seq(WsFrame)
  BY <1>0, <1>1, WsFields
<1>3. WsType'
  BY <1>0, <1>1, <1>2, Zenon DEF WsType
<1>4. WsTaken' = WsTaken
  BY <1>1, Zenon DEF WsTaken
<1>5. ASSUME session.role = "persistent", WsPersistent PROVE WsPersistent'
  <2>1. session.open => WsOrder(peer'.inbox, WsTaken, peer'.replied)
    BY <1>0, <1>1, <1>5, WsFields, WsOrderAppends, Zenon DEF WsPersistent
  <2> QED BY <1>1, <1>4, <1>5, <2>1, Zenon DEF WsPersistent
<1> QED BY <1>1, <1>3, <1>5, Zenon DEF WsInv, WebSocket!BudgetIsKept

\* The peer replies, speaks unasked or is lost.
LEMMA WsSpeaks ==
    ASSUME WsInv, \/ WebSocket!PeerReplies
                  \/ \E kind \in {"ping", "pong", "reply"} : WebSocket!PeerSpeaks(kind)
                  \/ \E kind \in {"close", "eof", "error"} : WebSocket!Lose(kind)
    PROVE  WsInv'
<1> USE WsFields
<1>0. WsType
  BY Zenon DEF WsInv
<1>1. CASE WebSocket!PeerReplies
  <2> DEFINE n == peer.replied + 1
             p == [peer EXCEPT !.replied = n]
             frame == Frame("reply", n)
  <2>1. peer' = [p EXCEPT !.inbox = Append(p.inbox, frame)] /\ pc' = pc /\ session' = session /\ truth' = truth
    BY <1>1, Zenon DEF WebSocket!PeerReplies, WebSocket!Deliver, WebSocket!Frame, Frame
  <2>2. n \in Nat
    BY <1>0
  <2>3. frame \in WsFrame /\ frame.kind = "reply" /\ frame.n = n
    BY <2>2, Zenon DEF Frame, WsFrame
  <2>4. DOMAIN p = DOMAIN peer /\ p.inbox = peer.inbox /\ p.wire = peer.wire /\ p.replied = n
    BY <1>0, Zenon
  <2> HIDE DEF p, frame
  <2> QED BY <2>1, <2>2, <2>3, <2>4, WsDelivers, Zenon
<1>2. ASSUME NEW kind \in {"ping", "pong", "reply"}, WebSocket!PeerSpeaks(kind) PROVE WsInv'
  <2> DEFINE frame == Frame(kind, 0)
  <2>1. /\ peer' = [peer EXCEPT !.inbox = Append(peer.inbox, frame)] /\ pc' = pc /\ session' = session
             /\ truth' = truth
        /\ kind = "reply" => session.role = "subscriber"
    BY <1>2, Zenon DEF WebSocket!PeerSpeaks, WebSocket!Volunteer, WebSocket!Deliver, WebSocket!Frame, Frame
  <2>2. frame \in WsFrame /\ frame.kind = kind
    BY Zenon DEF Frame, WsFrame
  <2> HIDE DEF frame
  <2> QED BY <1>0, <2>1, <2>2, WsDelivers, Zenon
<1>3. ASSUME NEW kind \in {"close", "eof", "error"}, WebSocket!Lose(kind) PROVE WsInv'
  <2> DEFINE p == [peer EXCEPT !.up = FALSE]
             frame == Frame(kind, 0)
  <2>1. peer' = [p EXCEPT !.inbox = Append(p.inbox, frame)] /\ pc' = pc /\ session' = session /\ truth' = truth
    BY <1>3, Zenon DEF WebSocket!Lose, WebSocket!Frame, Frame
  <2>2. frame \in WsFrame /\ frame.kind # "reply"
    BY Zenon DEF Frame, WsFrame
  <2>3. DOMAIN p = DOMAIN peer /\ p.inbox = peer.inbox /\ p.wire = peer.wire /\ p.replied = peer.replied
    BY <1>0, Zenon
  <2> HIDE DEF p, frame
  <2> QED BY <1>0, <2>1, <2>2, <2>3, WsDelivers, Zenon
<1> QED BY <1>1, <1>2, <1>3, Zenon

\* Every step of the engine keeps its invariant.
LEMMA WsInductive == WsInv /\ [WebSocket!Next]_loopVars => WsInv'
<1> SUFFICES ASSUME WsInv, [WebSocket!Next]_loopVars PROVE WsInv'
  OBVIOUS
<1>1. CASE \/ \E f \in WebSocket!SelectFault : WebSocket!PersistentBegin(f) \/ WebSocket!StatelessBegin(f)
           \/ WebSocket!HalfBegin
  BY <1>1, WsBegins, Zenon
<1>2. CASE WebSocket!StillConnected \/ WebSocket!Reconnect \/ WebSocket!ReconnectFails
  BY <1>2, WsConnects, Zenon
<1>3. CASE WebSocket!Send \/ WebSocket!SendFails \/ WebSocket!CutInSend
  BY <1>3, WsSends, Zenon
<1>4. CASE \E kind \in {"ping", "pong"} : WebSocket!ReadControl(kind)
  BY <1>4, WsReads, WsHalves, Zenon
<1>5. CASE WebSocket!ReadAnswer \/ WebSocket!ReadEnds \/ WebSocket!ReadTimesOut
  BY <1>5, WsReads, Zenon DEF WebSocket!ReadAnswer, WebSocket!ReadEnds, WebSocket!ReadTimesOut
<1>6. CASE \/ \E f \in WebSocket!SelectFault : WebSocket!HalfConnected(f)
           \/ WebSocket!HalfConnectFails \/ WebSocket!Feed \/ WebSocket!Flush \/ WebSocket!FlushFails
           \/ \E stamped \in BOOLEAN : WebSocket!Receive(stamped)
           \/ WebSocket!ReceiveEnds \/ WebSocket!ReceiveTimesOut
  <2>1. session.role # "persistent"
    BY <1>6, Zenon
      DEF WsInv, WebSocket!HalfConnected, WebSocket!HalfConnectFails, WebSocket!Feed, WebSocket!Flush,
       WebSocket!FlushFails, WebSocket!Receive, WebSocket!ReceiveEnds, WebSocket!ReceiveTimesOut
  <2> QED BY <1>6, <2>1, WsHalves, Zenon
<1>7. CASE \/ WebSocket!HandshakeFails \/ WebSocket!Handshake \/ WebSocket!ReplyControl
           \/ WebSocket!Reply \/ WebSocket!ReplyTimesOut
  <2>1. session.role # "persistent"
    BY <1>7, Zenon
      DEF WsInv, WebSocket!HandshakeFails, WebSocket!Handshake, WebSocket!ReplyControl, WebSocket!Reply,
       WebSocket!ReplyTimesOut, WebSocket!Stateless
  <2> QED BY <1>7, <2>1, WsStateless, Zenon
<1>8. CASE WebSocket!Deadline \/ WebSocket!Shutdown
  BY <1>8, WsCut, Zenon
<1>9. CASE \/ WebSocket!PeerReplies
           \/ \E kind \in {"ping", "pong", "reply"} : WebSocket!PeerSpeaks(kind)
           \/ \E kind \in {"close", "eof", "error"} : WebSocket!Lose(kind)
  BY <1>9, WsSpeaks, Zenon
<1>10. CASE UNCHANGED loopVars
  BY <1>10, Zenon DEF loopVars, WsInv, WsType, WsPersistent, WsTaken, WebSocket!BudgetIsKept
<1> QED
  BY <1>1, <1>2, <1>3, <1>4, <1>5, <1>6, <1>7, <1>8, <1>9, <1>10, Zenon DEF WebSocket!Next, WebSocket!Ends

\* What the invariant says of ws.rs.
LEMMA WsSafe == WsInv => WebSocket!NoCorpse /\ WebSocket!AnswersInStep /\ WebSocket!BudgetIsKept
BY Zenon DEF WsInv, WebSocket!NoCorpse, WebSocket!AnswersInStep

\* A publisher and a subscriber have no fault until they are connected.
HalfFaultless == pc = "connect" /\ session.role \in {"publisher", "subscriber"} => it.fault = <<>>

\* Every step of the engine is one of those that keep the account.
LEMMA WsAccounts ==
    Accounted /\ HalfFaultless /\ [WebSocket!Next]_loopVars => AccountStep /\ HalfFaultless'
<1> SUFFICES ASSUME Accounted, HalfFaultless, [WebSocket!Next]_loopVars PROVE AccountStep /\ HalfFaultless'
  OBVIOUS
<1>0. /\ DOMAIN past = {"iterations", "selected", "cut", "dropped", "losses", "connections", "frames"}
      /\ "fault" \in DOMAIN it
  BY Zenon DEF Accounted, NoPast
<1>1. ASSUME NEW f \in SelectFault, WebSocket!PersistentBegin(f) \/ WebSocket!StatelessBegin(f)
      PROVE  (Begins(f) \/ EndsAtOnce(f)) /\ HalfFaultless'
  BY <1>0, <1>1
     DEF WebSocket!PersistentBegin, WebSocket!StatelessBegin, WebSocket!Stateless, WebSocket!EndAtOnce,
         WebSocket!End,
         WebSocket!Add, WebSocket!MayBegin, WebSocket!Begun, WebSocket!Error, WebSocket!Builder,
         WebSocket!Counting,
         WebSocket!NoIteration, NoIteration, Begun, Begins, EndsAtOnce, Reports, HalfFaultless
<1>2. WebSocket!HalfBegin => Begins(<<>>) /\ HalfFaultless' /\ <<>> \in SelectFault
  BY <1>0
     DEF WebSocket!HalfBegin, WebSocket!MayBegin, WebSocket!Begun, Begun, Begins, HalfFaultless, SelectFault
<1>3. ASSUME NEW f \in SelectFault, WebSocket!HalfConnected(f) PROVE Selects(f) /\ HalfFaultless'
  <2>1. /\ DOMAIN past' = DOMAIN past /\ past'.iterations = past.iterations
             /\ past'.selected = past.selected + Len(f)
        /\ past'.cut = past.cut /\ past'.dropped = past.dropped
    BY <1>0, <1>3, Zenon DEF WebSocket!HalfConnected, WebSocket!Connected
  <2>2. CASE WebSocket!Is(f, "ConnectionDrop")
    BY <1>3, <2>1, <2>2
       DEF WebSocket!HalfConnected, WebSocket!End, WebSocket!Add, WebSocket!Error, WebSocket!Builder,
           WebSocket!NoIteration,
           NoIteration, Selects, Reports, HalfFaultless
  <2>3. CASE ~WebSocket!Is(f, "ConnectionDrop")
    BY <1>3, <2>1, <2>3 DEF WebSocket!HalfConnected, WebSocket!Counting, Selects, HalfFaultless
  <2> QED BY <2>2, <2>3, Zenon
<1>4. ASSUME NEW m, pc \notin {"idle", "left"}, WebSocket!End(m), m.fault = it.fault, past' = past
      PROVE  Finishes /\ HalfFaultless'
  BY <1>4, Zenon
     DEF WebSocket!End, WebSocket!Add, WebSocket!NoIteration, NoIteration, Finishes, Reports, SamePast,
         HalfFaultless
<1>5. WebSocket!ReconnectFails \/ WebSocket!HalfConnectFails \/ WebSocket!HandshakeFails \/ WebSocket!FlushFails
        \/ WebSocket!ReceiveEnds \/ WebSocket!ReceiveTimesOut => Finishes /\ HalfFaultless'
  <2>1. WebSocket!Error(it.fault).fault = it.fault /\ WebSocket!Error(<<>>).fault = <<>>
    BY Zenon DEF WebSocket!Error, WebSocket!Builder
  <2> QED
    BY <1>4, <2>1, Zenon
       DEF HalfFaultless, WebSocket!ReconnectFails, WebSocket!HalfConnectFails, WebSocket!HandshakeFails,
           WebSocket!FlushFails, WebSocket!ReceiveEnds, WebSocket!ReceiveTimesOut
<1>6. WebSocket!SendFails \/ WebSocket!ReadAnswer \/ WebSocket!ReadEnds \/ WebSocket!ReadTimesOut
        => Finishes /\ HalfFaultless'
  BY DEF WebSocket!SendFails, WebSocket!ReadAnswer, WebSocket!ReadEnds, WebSocket!ReadTimesOut,
         WebSocket!Exchange,
         WebSocket!Builder, WebSocket!End, WebSocket!Add, WebSocket!NoIteration, NoIteration, Finishes, Reports,
           SamePast, HalfFaultless
<1>7. WebSocket!Flush \/ (\E stamped \in BOOLEAN : WebSocket!Receive(stamped)) \/ WebSocket!Reply
        \/ WebSocket!ReplyTimesOut
        => Finishes /\ HalfFaultless'
  <2>2. ASSUME WebSocket!Flush PROVE Finishes /\ HalfFaultless'
    BY <2>2, Zenon
       DEF WebSocket!Flush, WebSocket!Builder, WebSocket!End, WebSocket!Add, WebSocket!NoIteration,
           NoIteration, Finishes,
           Reports, SamePast, HalfFaultless
  <2>3. ASSUME NEW stamped \in BOOLEAN, WebSocket!Receive(stamped) PROVE Finishes /\ HalfFaultless'
    BY <2>3, Zenon
       DEF WebSocket!Receive, WebSocket!Builder, WebSocket!End, WebSocket!Add, WebSocket!NoIteration,
           NoIteration, Finishes,
           Reports, SamePast, HalfFaultless
  <2>4. ASSUME WebSocket!Reply PROVE Finishes /\ HalfFaultless'
    BY <2>4, Zenon
       DEF WebSocket!Reply, WebSocket!Builder, WebSocket!End, WebSocket!Add, WebSocket!NoIteration,
           NoIteration, Finishes,
           Reports, SamePast, HalfFaultless
  <2>5. ASSUME WebSocket!ReplyTimesOut PROVE Finishes /\ HalfFaultless'
    BY <2>5, Zenon
       DEF WebSocket!ReplyTimesOut, WebSocket!Builder, WebSocket!End, WebSocket!Add, WebSocket!NoIteration,
           NoIteration, Finishes,
           Reports, SamePast, HalfFaultless
  <2> QED BY <2>2, <2>3, <2>4, <2>5, Zenon
<1>8. WebSocket!Handshake => (Finishes \/ Goes) /\ HalfFaultless'
  <2> SUFFICES ASSUME WebSocket!Handshake PROVE (Finishes \/ Goes) /\ HalfFaultless'
    OBVIOUS
  <2>1. HalfFaultless' /\ SamePast /\ pc = "connect"
    BY <1>0, Zenon
       DEF WebSocket!Handshake, WebSocket!Stateless, WebSocket!End, WebSocket!NoIteration, NoIteration,
           WebSocket!Connected,
           SamePast, HalfFaultless
  <2>2. CASE WebSocket!End([WebSocket!Builder(0, it.fault) EXCEPT !.status = 200])
    BY <2>1, <2>2, Zenon
       DEF WebSocket!Builder, WebSocket!End, WebSocket!Add, WebSocket!NoIteration, NoIteration, Reports,
           Finishes
  <2>3. CASE pc' = "reply" /\ it' = it /\ report' = report
    BY <1>0, <2>1, <2>3, Zenon DEF Goes
  <2> QED BY <2>1, <2>2, <2>3, Zenon DEF WebSocket!Handshake
<1>9. WebSocket!CutShort => IsCut /\ HalfFaultless'
  BY DEF WebSocket!CutShort, WebSocket!End, WebSocket!Add, WebSocket!Builder, WebSocket!NoIteration, IsCut,
         Reports,
         NoIteration, HalfFaultless
<1>10. WebSocket!Shutdown => Leaves /\ HalfFaultless'
  BY Zenon DEF WebSocket!Shutdown, WebSocket!Leave, Leaves, WebSocket!NoIteration, NoIteration, HalfFaultless
<1>11. WebSocket!StillConnected \/ WebSocket!Reconnect \/ WebSocket!Send \/ WebSocket!Feed
         \/ WebSocket!ReplyControl
         => Goes /\ HalfFaultless'
  BY <1>0
     DEF WebSocket!StillConnected, WebSocket!Reconnect, WebSocket!Send, WebSocket!Feed, WebSocket!ReplyControl,
         WebSocket!Connected, Goes, SamePast, HalfFaultless
<1>12. WebSocket!PeerReplies \/ UNCHANGED loopVars => Goes /\ HalfFaultless'
  BY <1>0, Zenon DEF WebSocket!PeerReplies, WebSocket!Deliver, loopVars, Goes, SamePast, HalfFaultless
<1>13. \A kind : WebSocket!ReadControl(kind) \/ WebSocket!PeerSpeaks(kind) \/ WebSocket!Lose(kind) => Goes
         /\ HalfFaultless'
  BY <1>0, Zenon
     DEF WebSocket!ReadControl, WebSocket!PeerSpeaks, WebSocket!Volunteer, WebSocket!Deliver, WebSocket!Lose,
         Goes, SamePast,
         HalfFaultless
<1> QED
  BY <1>1, <1>2, <1>3, <1>5, <1>6, <1>7, <1>8, <1>9, <1>10, <1>11, <1>12, <1>13, Zenon
     DEF AccountStep, WebSocket!Next, WebSocket!Deadline, WebSocket!CutInSend, WebSocket!SelectFault,
         SelectFault

\* The account of a worker that starts.
LEMMA WsAccountsStart == WebSocket!Init => Accounted /\ HalfFaultless
BY AccountStarts
   DEF WebSocket!Init, WebSocket!NoIteration, NoIteration, WebSocket!NoReport, WebSocket!NoPast, NoPast,
       HalfFaultless

-----------------------------------------------------------------------------
(* STOMP.                                                                  *)

\* What a broker may have put on the way.
StompFrame == [kind : {"CONNECTED", "RECEIPT", "MESSAGE", "ERROR", "close", "eof", "error"}, n : Nat]

\* The broker's side: what it has answered answers something it was sent.
StompPeer ==
    /\ DOMAIN peer = DOMAIN Stomp!NewPeer
    /\ peer.inbox \in Seq(StompFrame) /\ peer.sends \subseteq Nat /\ peer.owed \subseteq peer.sends
    /\ \A i \in 1 .. Len(peer.inbox) :
         /\ peer.inbox[i].kind = "CONNECTED" => peer.welcomed
         /\ peer.inbox[i].kind = "RECEIPT" => peer.inbox[i].n \in peer.sends

\* The invariant of the engine: it is connected where it sends or reads, and only once the
\* broker has welcomed it; receipts vouch for what was sent.
StompInv ==
    /\ DOMAIN session = DOMAIN Stomp!NewSession("produce", TRUE)
    /\ session.seq \in Nat /\ session.mode \in {"produce", "consume"}
    /\ StompPeer
    /\ DOMAIN truth = DOMAIN Stomp!NewTruth
    /\ DOMAIN past = DOMAIN NoPast
    /\ session.connected => peer.welcomed
    /\ pc \in {"send", "receipt", "subscribe", "message", "ack"} => session.connected
    /\ truth.vouched /\ Stomp!HandshakeFirst /\ Stomp!FreshBuffer

\* The engine starts in its invariant.
LEMMA StompStarts == Stomp!Init => StompInv
BY DEF Stomp!Init, Stomp!NewSession, Stomp!NewPeer, Stomp!NewTruth, Stomp!NoPast, NoPast, StompInv, StompPeer,
       Stomp!HandshakeFirst,
   Stomp!FreshBuffer

\* A frame is read.
LEMMA StompTakes ==
    ASSUME StompPeer, Stomp!MayRead, peer' = Stomp!Take
    PROVE  /\ StompPeer' /\ peer'.welcomed = peer.welcomed
           /\ Stomp!Received.kind = "CONNECTED" => peer.welcomed
           /\ \A n : Stomp!Received = Frame("RECEIPT", n) => n \in peer.sends
<1>1. DOMAIN peer = {"up", "inbox", "hello", "welcomed", "garbled", "sends", "owed", "subs"}
  BY Zenon DEF StompPeer, Stomp!NewPeer
<1>2. peer.inbox \in Seq(StompFrame) /\ peer.inbox # <<>> /\ Stomp!Received = peer.inbox[1]
        /\ 1 \in 1 .. Len(peer.inbox)
  BY DEF StompPeer, Stomp!MayRead, Stomp!Received
<1>3. /\ DOMAIN peer' = DOMAIN peer /\ peer'.inbox = Tail(peer.inbox)
      /\ peer'.welcomed = peer.welcomed /\ peer'.sends = peer.sends /\ peer'.owed = peer.owed
  BY <1>1, Zenon DEF Stomp!Take
<1>4. /\ Tail(peer.inbox) \in Seq(StompFrame)
      /\ \A i \in 1 .. Len(Tail(peer.inbox)) : i + 1 \in 1 .. Len(peer.inbox)
           /\ Tail(peer.inbox)[i] = peer.inbox[i + 1]
  BY <1>2
<1>5. StompPeer'
  BY <1>3, <1>4 DEF StompPeer
<1> QED BY <1>2, <1>3, <1>5 DEF StompPeer, Frame

\* The broker sends a frame.
LEMMA StompDelivers ==
    ASSUME StompPeer, NEW frame \in StompFrame, NEW p, DOMAIN p = DOMAIN peer, p.inbox = peer.inbox,
           p.sends = peer.sends,
           p.owed \subseteq peer.owed, peer.welcomed => p.welcomed,
           peer' = [p EXCEPT !.inbox = Append(p.inbox, frame)],
           frame.kind = "CONNECTED" => p.welcomed, frame.kind = "RECEIPT" => frame.n \in peer.sends
    PROVE  StompPeer' /\ (peer.welcomed => peer'.welcomed)
<1>1. DOMAIN peer = {"up", "inbox", "hello", "welcomed", "garbled", "sends", "owed", "subs"}
        /\ peer.inbox \in Seq(StompFrame)
  BY Zenon DEF StompPeer, Stomp!NewPeer
<1>2. /\ DOMAIN peer' = DOMAIN peer /\ peer'.inbox = Append(peer.inbox, frame) /\ peer'.sends = peer.sends
      /\ peer'.owed \subseteq peer.owed /\ (p.welcomed => peer'.welcomed)
  BY <1>1, Zenon
<1>3. /\ Append(peer.inbox, frame) \in Seq(StompFrame)
      /\ \A i \in 1 .. Len(Append(peer.inbox, frame)) :
           (i \in 1 .. Len(peer.inbox) /\ Append(peer.inbox, frame)[i] = peer.inbox[i])
             \/ Append(peer.inbox, frame)[i] = frame
  BY <1>1
<1> QED BY <1>2, <1>3, ZenonT(40) DEF StompPeer

\* Every step of the engine keeps its invariant.
LEMMA StompInductive == StompInv /\ [Stomp!Next]_loopVars => StompInv'
<1> SUFFICES ASSUME StompInv, [Stomp!Next]_loopVars PROVE StompInv'
  OBVIOUS
<1> USE DEF StompInv, Stomp!HandshakeFirst, Stomp!FreshBuffer
<1>0. /\ DOMAIN past = {"iterations", "selected", "cut", "dropped", "losses", "connections", "frames"}
      /\ DOMAIN session = {"mode", "confirm", "stream", "decoder", "connected", "ever", "reconnected",
           "subscribed", "last", "first", "seq"}
      /\ DOMAIN peer = {"up", "inbox", "hello", "welcomed", "garbled", "sends", "owed", "subs"}
      /\ DOMAIN truth = {"early", "vouched", "sessions", "taken", "acked"}
  BY Zenon DEF StompPeer, NoPast, Stomp!NewSession, Stomp!NewPeer, Stomp!NewTruth
<1>00. ASSUME peer' = peer PROVE StompPeer'
  BY <1>00, Zenon DEF StompPeer
<1>1. ASSUME NEW f, Stomp!Begin(f) PROVE StompInv'
  BY <1>0, <1>00, <1>1, ZenonT(40) DEF Stomp!Begin, Stomp!EndAtOnce, Stomp!End, Stomp!Reset, Stomp!Begun
<1>01. ASSUME NEW s, DOMAIN s = DOMAIN session, s.seq \in Nat, s.mode \in {"produce", "consume"},
              Stomp!Proceed(s)
       PROVE  /\ DOMAIN session' = DOMAIN session /\ session'.seq \in Nat /\ session'.mode = s.mode
              /\ session'.connected = s.connected /\ session'.stream = s.stream /\ session'.decoder = s.decoder
              /\ pc' \in {"send", "message", "subscribe"}
  <2>1. PICK n \in {0, 1} : session' = [s EXCEPT !.seq = s.seq + n]
    BY <1>01, Zenon DEF Stomp!Proceed
  <2>2. pc' \in {"send", "message", "subscribe"}
    BY <1>01, Zenon DEF Stomp!Proceed
  <2>3. s.seq + n \in Nat
    <3>1. s.seq \in Nat
      BY <1>01, Zenon
    <3>2. n \in Nat
      OBVIOUS
    <3> QED BY ONLY <3>1, <3>2
  <2> DEFINE m == s.seq + n
  <2> HIDE DEF m
  <2>4. session' = [s EXCEPT !.seq = m] /\ m \in Nat
    BY <2>1, <2>3, Zenon DEF m
  <2> QED BY <1>0, <1>01, <2>2, <2>4, Zenon
<1>2. CASE Stomp!StillConnected
  <2>1. Stomp!Proceed(session) /\ session.connected /\ UNCHANGED <<peer, past, truth>>
    BY <1>2, Zenon DEF Stomp!StillConnected
  <2> QED BY <1>0, <1>00, <1>01, <2>1, Zenon
<1>3. CASE Stomp!Dial
  <2>1. StompPeer'
    BY <1>3 DEF Stomp!Dial, Stomp!NewPeer, StompPeer
  <2>2. ~session'.connected /\ DOMAIN session' = DOMAIN session /\ session'.seq = session.seq
          /\ session'.mode = session.mode
        /\ session'.decoder = 0
    BY <1>0, <1>3, Zenon DEF Stomp!Dial
  <2>3. UNCHANGED truth /\ DOMAIN past' = DOMAIN past /\ pc' = "hello"
    BY <1>0, <1>3, Zenon DEF Stomp!Dial, Stomp!Connected
  <2> QED BY <2>1, <2>2, <2>3, Zenon
<1>4. CASE Stomp!Hello
  BY <1>0, <1>4, Zenon DEF Stomp!Hello, StompPeer, Stomp!Heard
<1>5. CASE Stomp!Welcome
  <2> DEFINE s == [Stomp!Decoded(session) EXCEPT !.reconnected = session.ever \/ session.reconnected,
    !.ever = TRUE,
                                                 !.connected = TRUE]
  <2>1. /\ DOMAIN s = DOMAIN session /\ s.seq = session.seq /\ s.mode = session.mode /\ s.connected
        /\ s.decoder = 0
    BY <1>0, Zenon DEF Stomp!Decoded
  <2>2. /\ Stomp!Proceed(s) /\ Stomp!MayRead /\ Stomp!Received.kind = "CONNECTED" /\ peer' = Stomp!Take
        /\ UNCHANGED past
    BY <1>0, <1>5, Zenon DEF Stomp!Welcome, Stomp!Decoded
  <2>3. DOMAIN truth' = DOMAIN truth /\ truth'.vouched /\ ~truth'.early
    BY <1>0, <1>5, Zenon DEF Stomp!Welcome
  <2> HIDE DEF s
  <2> QED BY <1>01, <2>1, <2>2, <2>3, StompTakes, Zenon
<1>6. CASE Stomp!Skip
  BY <1>0, <1>6, StompTakes, Zenon DEF Stomp!Skip, Stomp!Decoded
<1>7. CASE Stomp!ReadPart
  BY <1>0, <1>00, <1>7, Zenon DEF Stomp!ReadPart
<1>8. CASE Stomp!Send
  BY <1>0, <1>8, Zenon DEF Stomp!Send, StompPeer, Stomp!Heard, Stomp!End
<1>9. CASE Stomp!Receipt
  BY <1>0, <1>9, StompTakes, Zenon DEF Stomp!Receipt, Stomp!Decoded, Stomp!End, Stomp!Frame, Frame
<1>10. CASE Stomp!Subscribe
  BY <1>0, <1>10, Zenon DEF Stomp!Subscribe, StompPeer, Stomp!Heard
<1>11. CASE Stomp!Message
  BY <1>0, <1>11, StompTakes, Zenon DEF Stomp!Message, Stomp!Decoded, Stomp!End
<1>12. CASE Stomp!Ack
  BY <1>0, <1>00, <1>12, Zenon DEF Stomp!Ack, Stomp!End
<1>13. CASE Stomp!Fail
  BY <1>0, <1>00, <1>13, Zenon DEF Stomp!Fail, Stomp!End, Stomp!Reset
<1>14. ASSUME NEW part \in BOOLEAN, Stomp!CutInWrite(part) PROVE StompInv'
  BY <1>0, <1>14, ZenonT(40) DEF Stomp!CutInWrite, Stomp!Writing, StompPeer, Stomp!Heard, Stomp!CutShort, Stomp!End
<1>15. CASE Stomp!Deadline
  BY <1>0, <1>00, <1>15, Zenon DEF Stomp!Deadline, Stomp!CutShort, Stomp!End
<1>16. CASE Stomp!Shutdown
  BY <1>0, <1>00, <1>16, Zenon DEF Stomp!Shutdown, Stomp!Leave
<1>17. CASE Stomp!BrokerWelcomes
  <2> DEFINE p == [peer EXCEPT !.welcomed = TRUE]
             frame == Frame("CONNECTED", 0)
  <2>1. peer' = [p EXCEPT !.inbox = Append(p.inbox, frame)] /\ UNCHANGED <<pc, session, truth, past>>
    BY <1>17, Zenon DEF Stomp!BrokerWelcomes, Stomp!Deliver, Stomp!Frame, Frame
  <2>2. DOMAIN p = DOMAIN peer /\ p.inbox = peer.inbox /\ p.sends = peer.sends /\ p.owed = peer.owed
          /\ p.welcomed
    BY <1>0, Zenon
  <2>3. frame \in StompFrame /\ frame.kind = "CONNECTED"
    BY Zenon DEF Frame, StompFrame
  <2> HIDE DEF p, frame
  <2> QED BY <2>1, <2>2, <2>3, StompDelivers, Zenon
<1>18. CASE Stomp!BrokerConfirms
  <2>1. PICK n \in peer.owed : Stomp!Deliver(Frame("RECEIPT", n), [peer EXCEPT !.owed = peer.owed \ {n}])
    BY <1>18, Zenon DEF Stomp!BrokerConfirms, Stomp!Frame, Frame
  <2> DEFINE p == [peer EXCEPT !.owed = peer.owed \ {n}]
             frame == Frame("RECEIPT", n)
  <2>2. peer' = [p EXCEPT !.inbox = Append(p.inbox, frame)] /\ UNCHANGED <<pc, session, truth, past>>
    BY <1>18, <2>1, Zenon DEF Stomp!BrokerConfirms, Stomp!Deliver
  <2>3. DOMAIN p = DOMAIN peer /\ p.inbox = peer.inbox /\ p.sends = peer.sends /\ p.owed \subseteq peer.owed
          /\ p.welcomed = peer.welcomed
    BY <1>0, Zenon
  <2>4. frame \in StompFrame /\ frame.kind = "RECEIPT" /\ frame.n = n /\ n \in peer.sends
    BY Zenon DEF Frame, StompFrame, StompPeer
  <2> HIDE DEF p, frame
  <2> QED BY <2>2, <2>3, <2>4, StompDelivers, Zenon
<1>19. ASSUME NEW kind \in {"MESSAGE", "ERROR"}, Stomp!BrokerSpeaks(kind) PROVE StompInv'
  <2> DEFINE frame == Frame(kind, 0)
  <2>1. /\ peer' = [peer EXCEPT !.inbox = Append(peer.inbox, frame)] /\ UNCHANGED <<pc, session, truth>>
        /\ past' = [past EXCEPT !.frames = past.frames + 1]
    BY <1>19, Zenon DEF Stomp!BrokerSpeaks, Stomp!Volunteer, Stomp!Deliver, Stomp!Frame, Frame
  <2>2. frame \in StompFrame /\ frame.kind = kind /\ DOMAIN past' = DOMAIN past
          /\ past'.connections = past.connections
    BY <1>0, <2>1, Zenon DEF Frame, StompFrame
  <2> HIDE DEF frame
  <2> QED BY <2>1, <2>2, StompDelivers, Zenon
<1>20. ASSUME NEW kind \in {"close", "eof", "error"}, Stomp!Lose(kind) PROVE StompInv'
  <2> DEFINE p == [peer EXCEPT !.up = FALSE]
             frame == Frame(kind, 0)
  <2>1. /\ peer' = [p EXCEPT !.inbox = Append(p.inbox, frame)] /\ UNCHANGED <<pc, session, truth>>
        /\ past' = [past EXCEPT !.losses = past.losses + 1]
    BY <1>20, Zenon DEF Stomp!Lose, Stomp!Frame, Frame
  <2>2. frame \in StompFrame /\ frame.kind = kind /\ DOMAIN past' = DOMAIN past
          /\ past'.connections = past.connections
    BY <1>0, <2>1, Zenon DEF Frame, StompFrame
  <2>3. DOMAIN p = DOMAIN peer /\ p.inbox = peer.inbox /\ p.sends = peer.sends /\ p.owed = peer.owed
          /\ p.welcomed = peer.welcomed
    BY <1>0, Zenon
  <2> HIDE DEF p, frame
  <2> QED BY <2>1, <2>2, <2>3, StompDelivers, Zenon
<1>21. CASE UNCHANGED loopVars
  BY <1>00, <1>21, Zenon DEF loopVars
<1> QED
  BY <1>1, <1>2, <1>3, <1>4, <1>5, <1>6, <1>7, <1>8, <1>9, <1>10, <1>11, <1>12, <1>13, <1>14, <1>15, <1>16,
     <1>17,
     <1>18, <1>19, <1>20, <1>21, Zenon DEF Stomp!Next, Stomp!Ends

\* What the invariant says of stomp.rs.
LEMMA StompSafe == StompInv => Stomp!AnswersInStep /\ Stomp!HandshakeFirst /\ Stomp!FreshBuffer
BY Zenon DEF StompInv, Stomp!AnswersInStep

\* Every step of the engine is one of those that keep the account.
LEMMA StompAccounts == StompInv /\ Accounted /\ [Stomp!Next]_loopVars => AccountStep
<1> SUFFICES ASSUME StompInv, Accounted, [Stomp!Next]_loopVars PROVE AccountStep
  OBVIOUS
<1>0. /\ DOMAIN past = {"iterations", "selected", "cut", "dropped", "losses", "connections", "frames"}
      /\ "fault" \in DOMAIN it /\ session.mode \in {"produce", "consume"} /\ "mode" \in DOMAIN session
  BY Zenon DEF Accounted, NoPast, StompInv, Stomp!NewSession
<1>1. ASSUME NEW f \in SelectFault, Stomp!Begin(f) PROVE Begins(f) \/ EndsAtOnce(f)
  BY <1>0, <1>1
     DEF Stomp!Begin, Stomp!EndAtOnce, Stomp!End, Stomp!Add, Stomp!MayBegin, Stomp!Begun, Stomp!Builder,
         Stomp!NoIteration, NoIteration, Begun, Begins, EndsAtOnce, Reports
<1>2. ASSUME NEW m, pc \notin {"idle", "left"}, Stomp!End(m), m.fault = it.fault, past' = past PROVE Finishes
  BY <1>2, Zenon DEF Stomp!End, Stomp!Add, Stomp!NoIteration, NoIteration, Finishes, Reports, SamePast
<1>3. Stomp!SentMetric.fault = it.fault /\ Stomp!ErrorMetric.fault = it.fault
  BY Zenon DEF Stomp!SentMetric, Stomp!ErrorMetric, Stomp!Metric, Stomp!Builder
<1>4. \A t, i : Stomp!ReceivedMetric(t, i).fault = it.fault
  BY Zenon DEF Stomp!ReceivedMetric, Stomp!Metric, Stomp!Builder
<1>5. Stomp!Send => Finishes \/ Goes
  BY <1>0, <1>2, <1>3, Zenon DEF Stomp!Send, Goes, SamePast
<1>6. Stomp!Message => Finishes \/ Goes
  BY <1>0, <1>2, <1>4 DEF Stomp!Message, Goes, SamePast
<1>7. Stomp!Receipt \/ Stomp!Ack \/ Stomp!Fail => Finishes
  BY <1>2, <1>3, <1>4, Zenon DEF Stomp!Receipt, Stomp!Ack, Stomp!Fail
<1>8. Stomp!CutShort => IsCut
  BY DEF Stomp!CutShort, Stomp!End, Stomp!Add, Stomp!Builder, Stomp!NoIteration, IsCut, Reports, NoIteration
<1>9. Stomp!Shutdown => Leaves
  BY Zenon DEF Stomp!Shutdown, Stomp!Leave, Leaves, Stomp!NoIteration, NoIteration
<1>10. Stomp!StillConnected \/ Stomp!Dial \/ Stomp!Hello \/ Stomp!Welcome \/ Stomp!Subscribe => Goes
  BY <1>0, Zenon
     DEF Stomp!StillConnected, Stomp!Dial, Stomp!Hello, Stomp!Welcome, Stomp!Subscribe, Stomp!Proceed,
         Stomp!Connected, Stomp!Decoded,
         Goes, SamePast
<1>11. Stomp!Skip \/ Stomp!ReadPart \/ Stomp!BrokerWelcomes \/ Stomp!BrokerConfirms \/ UNCHANGED loopVars
         => Goes
  BY <1>0, Zenon
     DEF Stomp!Skip, Stomp!ReadPart, Stomp!BrokerWelcomes, Stomp!BrokerConfirms, Stomp!Deliver, loopVars, Goes,
         SamePast
<1>12. \A kind : Stomp!BrokerSpeaks(kind) \/ Stomp!Lose(kind) => Goes
  BY <1>0, Zenon DEF Stomp!BrokerSpeaks, Stomp!Volunteer, Stomp!Deliver, Stomp!Lose, Goes, SamePast
<1> QED
  BY <1>1, <1>5, <1>6, <1>7, <1>8, <1>9, <1>10, <1>11, <1>12, Zenon
     DEF AccountStep, Stomp!Next, Stomp!Deadline, Stomp!CutInWrite, Stomp!SelectFault, SelectFault

\* The iteration under way has reconnected, and will report it.
StompPending == session.reconnected /\ pc \notin {"idle", "left"}

\* The figures of the broker's protocol: a reconnect of the iteration under way is still to be
\* reported, if anything is.
StompCounted ==
    LET stomp == report.protocol.stomp IN
    /\ DOMAIN report.protocol = DOMAIN ProtocolDefault
    /\ stomp.reconnects \in Nat /\ stomp.received \in Nat
    /\ truth.sessions \in Nat /\ truth.taken \in Nat /\ truth.acked \in Nat
    /\ session.ever <=> truth.sessions > 0
    /\ pc \in {"ready", "hello", "welcome"} => ~session.reconnected
    /\ pc = "ack" => session.confirm
    /\ stomp.reconnects + (IF StompPending THEN 1 ELSE 0) <= Larger(truth.sessions, 1) - 1
    /\ stomp.received <= IF session.confirm THEN truth.acked ELSE truth.taken

\* A step that reports p reconnects and x messages received.
LEMMA StompCounts ==
    ASSUME StompCounted, NEW p \in {0, 1}, NEW x \in {0, 1},
           session'.ever = session.ever, session'.confirm = session.confirm, truth'.sessions = truth.sessions,
           DOMAIN report'.protocol = DOMAIN report.protocol,
           report'.protocol.stomp.reconnects = report.protocol.stomp.reconnects + p,
           report'.protocol.stomp.received = report.protocol.stomp.received + x,
           p = 1 => StompPending,
           (StompPending)' => StompPending /\ p = 0,
           pc' \in {"ready", "hello", "welcome"} => ~session'.reconnected, pc' = "ack" => session.confirm,
           truth'.taken \in Nat, truth'.acked \in Nat,
           truth'.taken >= truth.taken, truth'.acked >= truth.acked,
           x = 1 => IF session.confirm THEN truth'.acked = truth.acked + 1 ELSE truth'.taken = truth.taken + 1
    PROVE  StompCounted'
<1>0. PICK r \in Nat, v \in Nat, n \in Nat, t \in Nat, a \in Nat, t1 \in Nat, a1 \in Nat, q \in {0, 1} :
        /\ report.protocol.stomp.reconnects = r /\ report.protocol.stomp.received = v
        /\ truth.sessions = n /\ truth.taken = t /\ truth.acked = a /\ truth'.taken = t1 /\ truth'.acked = a1
        /\ q = IF StompPending THEN 1 ELSE 0
        /\ r + q <= Larger(n, 1) - 1
        /\ v <= IF session.confirm THEN a ELSE t
  BY Zenon DEF StompCounted
<1>1. PICK q1 \in {0, 1} : q1 = IF (StompPending)' THEN 1 ELSE 0
  OBVIOUS
<1>2. p + q1 <= q
  BY <1>0, <1>1
<1>3. (r + p) + q1 <= Larger(n, 1) - 1
  BY <1>0, <1>2 DEF Larger
<1>4. v + x <= IF session.confirm THEN a1 ELSE t1
  BY <1>0
<1>5. /\ report'.protocol.stomp.reconnects = r + p /\ report'.protocol.stomp.received = v + x
      /\ truth'.sessions = n /\ r + p \in Nat /\ v + x \in Nat
  BY <1>0
<1>6. /\ DOMAIN report'.protocol = DOMAIN ProtocolDefault /\ (session'.ever <=> n > 0)
  BY <1>0, Zenon DEF StompCounted
<1>7. (session'.confirm <=> session.confirm)
  OBVIOUS
<1> QED BY <1>0, <1>1, <1>3, <1>4, <1>5, <1>6, <1>7, Zenon DEF StompCounted, Larger, ProtocolDefault

\* Every step of the engine keeps its figures.
LEMMA StompCountsInductive == StompInv /\ StompCounted /\ [Stomp!Next]_loopVars => StompCounted'
<1> SUFFICES ASSUME StompInv, StompCounted, [Stomp!Next]_loopVars PROVE StompCounted'
  OBVIOUS
<1>0. /\ DOMAIN session = {"mode", "confirm", "stream", "decoder", "connected", "ever", "reconnected",
           "subscribed",
                           "last", "first", "seq"}
      /\ DOMAIN truth = {"early", "vouched", "sessions", "taken", "acked"}
      /\ DOMAIN report.protocol = DOMAIN ProtocolDefault /\ "stomp" \in DOMAIN ProtocolDefault
      /\ session.mode \in {"produce", "consume"}
      /\ report.protocol.stomp.reconnects \in Nat /\ report.protocol.stomp.received \in Nat
      /\ truth.sessions \in Nat /\ truth.taken \in Nat /\ truth.acked \in Nat
      /\ pc \in {"ready", "hello", "welcome"} => ~session.reconnected
      /\ pc = "ack" => session.confirm
  BY Zenon DEF StompInv, StompCounted, ProtocolDefault, Stomp!NewSession, Stomp!NewTruth
\* What a metric does to the figures.
<1>1. ASSUME NEW f, Stomp!End(Stomp!Builder(0, f)) PROVE report'.protocol = report.protocol /\ pc' = "idle"
  BY <1>1, Zenon DEF Stomp!End, Stomp!Add, Stomp!Builder, Stomp!NoSample, Stomp!RecordProtocol
<1>2. ASSUME NEW m, Stomp!End(m), m.sample.kind = "stomp"
      PROVE  /\ DOMAIN report'.protocol = DOMAIN report.protocol
             /\ report'.protocol.stomp.reconnects = report.protocol.stomp.reconnects + m.sample.reconnects
             /\ report'.protocol.stomp.received = report.protocol.stomp.received + m.sample.received
             /\ pc' = "idle"
  BY <1>0, <1>2, Zenon DEF Stomp!End, Stomp!Add, Stomp!RecordProtocol, Stomp!RecordStomp
<1>3. PICK p \in {0, 1} : p = IF session.reconnected THEN 1 ELSE 0
  OBVIOUS
<1>4. /\ Stomp!SentMetric.sample.kind = "stomp" /\ Stomp!ErrorMetric.sample.kind = "stomp"
      /\ Stomp!SentMetric.sample.reconnects = p /\ Stomp!ErrorMetric.sample.reconnects = p
      /\ Stomp!SentMetric.sample.received = 0 /\ Stomp!ErrorMetric.sample.received = 0
      /\ \A t, i : /\ Stomp!ReceivedMetric(t, i).sample.kind = "stomp"
           /\ Stomp!ReceivedMetric(t, i).sample.reconnects = p
                   /\ Stomp!ReceivedMetric(t, i).sample.received = 1
  BY <1>3, Zenon
     DEF Stomp!SentMetric, Stomp!ErrorMetric, Stomp!ReceivedMetric, Stomp!Metric, Stomp!Builder,
         Stomp!StompSample
\* A step without a metric of the protocol, and the end of an iteration.
<1>5. ASSUME report'.protocol = report.protocol, session'.ever = session.ever,
             session'.confirm = session.confirm,
             truth'.sessions = truth.sessions, truth'.taken = truth.taken, truth'.acked = truth.acked,
             (StompPending)' => StompPending, pc' \in {"ready", "hello", "welcome"} => ~session'.reconnected,
             pc' = "ack" => session.confirm
      PROVE  StompCounted'
  <2>1. /\ report'.protocol.stomp.reconnects = report.protocol.stomp.reconnects + 0
        /\ report'.protocol.stomp.received = report.protocol.stomp.received + 0
        /\ truth'.taken \in Nat /\ truth'.acked \in Nat /\ truth'.taken >= truth.taken
             /\ truth'.acked >= truth.acked
    BY <1>0, <1>5
  <2> QED BY <1>5, <2>1, StompCounts
<1>6. ASSUME NEW m, Stomp!End(m), m.sample.kind = "stomp", m.sample.reconnects = p,
             m.sample.received \in {0, 1},
             pc \notin {"idle", "left"},
             session'.ever = session.ever, session'.confirm = session.confirm, truth'.sessions = truth.sessions,
             truth'.taken \in Nat, truth'.acked \in Nat, truth'.taken >= truth.taken,
             truth'.acked >= truth.acked,
             m.sample.received = 1 =>
                 IF session.confirm THEN truth'.acked = truth.acked + 1 ELSE truth'.taken = truth.taken + 1
      PROVE  StompCounted'
  BY <1>2, <1>3, <1>6, StompCounts DEF StompPending
<1>06. ASSUME NEW m, Stomp!End(m), m.sample.kind = "stomp", m.sample.reconnects = p, m.sample.received = 0,
              pc \notin {"idle", "left"}, session'.ever = session.ever, session'.confirm = session.confirm,
              truth'.sessions = truth.sessions, truth'.taken = truth.taken, truth'.acked = truth.acked
       PROVE  StompCounted'
  <2>1. truth'.taken \in Nat /\ truth'.acked \in Nat /\ truth'.taken >= truth.taken
          /\ truth'.acked >= truth.acked
    BY <1>0, <1>06
  <2> QED BY <1>6, <1>06, <2>1
<1>7. ASSUME NEW f, Stomp!Begin(f) PROVE StompCounted'
  <2>1. session'.ever = session.ever /\ session'.confirm = session.confirm /\ truth' = truth
    BY <1>0, <1>7, Zenon DEF Stomp!Begin, Stomp!Reset
  <2>2. report'.protocol = report.protocol /\ (pc' = "idle" \/ (pc' = "ready" /\ ~session'.reconnected))
    BY <1>0, <1>1, <1>7, Zenon DEF Stomp!Begin, Stomp!EndAtOnce
  <2> QED BY <1>5, <2>1, <2>2, Zenon DEF StompPending
<1>8. CASE Stomp!StillConnected
  <2>1. session'.ever = session.ever /\ session'.confirm = session.confirm
          /\ session'.reconnected = session.reconnected
    BY <1>0, <1>8, Zenon DEF Stomp!StillConnected, Stomp!Proceed
  <2>2. pc = "ready" /\ pc' \in {"send", "message", "subscribe"} /\ report' = report /\ truth' = truth
    BY <1>0, <1>8, Zenon DEF Stomp!StillConnected, Stomp!Proceed
  <2> QED BY <1>5, <2>1, <2>2, Zenon DEF StompPending
<1>9. CASE Stomp!Dial \/ Stomp!Hello \/ Stomp!Skip \/ Stomp!ReadPart \/ Stomp!Subscribe
  <2>1. session'.ever = session.ever /\ session'.confirm = session.confirm
          /\ session'.reconnected = session.reconnected
    BY <1>0, <1>9, Zenon DEF Stomp!Dial, Stomp!Hello, Stomp!Skip, Stomp!ReadPart, Stomp!Subscribe, Stomp!Decoded
  <2>2. /\ report' = report /\ pc \notin {"idle", "left"} /\ pc' \in {pc, "hello", "welcome", "message"}
        /\ truth'.sessions = truth.sessions /\ truth'.taken = truth.taken /\ truth'.acked = truth.acked
        /\ pc' \in {"hello", "welcome"} => pc \in {"ready", "hello", "welcome"}
    BY <1>0, <1>9, Zenon DEF Stomp!Dial, Stomp!Hello, Stomp!Skip, Stomp!ReadPart, Stomp!Subscribe, Stomp!Reading
  <2> QED BY <1>0, <1>5, <2>1, <2>2, Zenon DEF StompPending
<1>10. CASE Stomp!Send
  <2>1. session' = session /\ truth'.sessions = truth.sessions /\ truth'.taken = truth.taken
          /\ truth'.acked = truth.acked
    BY <1>0, <1>10, Zenon DEF Stomp!Send
  <2>2. pc = "send" /\ (Stomp!End(Stomp!SentMetric) \/ (pc' = "receipt" /\ report' = report))
    BY <1>10, Zenon DEF Stomp!Send
  <2> QED BY <1>4, <1>5, <1>06, <2>1, <2>2, Zenon DEF StompPending
<1>010. CASE Stomp!Receipt \/ Stomp!Fail
  <2>1. /\ session'.ever = session.ever /\ session'.confirm = session.confirm
        /\ truth'.sessions = truth.sessions /\ truth'.taken = truth.taken /\ truth'.acked = truth.acked
    BY <1>0, <1>010, Zenon DEF Stomp!Receipt, Stomp!Fail, Stomp!Decoded, Stomp!Reset
  <2>2. pc \notin {"idle", "left"} /\ (Stomp!End(Stomp!SentMetric) \/ Stomp!End(Stomp!ErrorMetric))
    BY <1>010, Zenon DEF Stomp!Receipt, Stomp!Fail
  <2> QED BY <1>4, <1>06, <2>1, <2>2, Zenon
<1>11. CASE Stomp!Message
  <2>1. /\ session'.ever = session.ever /\ session'.confirm = session.confirm
             /\ session'.reconnected = session.reconnected
        /\ truth'.sessions = truth.sessions /\ truth'.acked = truth.acked /\ truth'.taken = truth.taken + 1
             /\ pc = "message"
    BY <1>0, <1>11, Zenon DEF Stomp!Message, Stomp!Decoded
  <2>2. truth'.taken \in Nat /\ truth'.acked \in Nat /\ truth'.taken >= truth.taken
          /\ truth'.acked >= truth.acked
    BY <1>0, <2>1
  <2>3. CASE session.confirm
    <3>1. pc' = "ack" /\ report' = report
      BY <1>11, <2>3, Zenon DEF Stomp!Message
    <3>2. /\ report'.protocol.stomp.reconnects = report.protocol.stomp.reconnects + 0
          /\ report'.protocol.stomp.received = report.protocol.stomp.received + 0
      BY <1>0, <3>1
    <3> QED BY <2>3, <2>1, <2>2, <3>1, <3>2, StompCounts DEF StompPending
  <2>4. CASE ~session.confirm
    <3>1. \E t, i : Stomp!End(Stomp!ReceivedMetric(t, i))
      BY <1>11, <2>4, Zenon DEF Stomp!Message
    <3> QED BY <1>4, <1>6, <2>1, <2>2, <2>4, <3>1, Zenon
  <2> QED BY <2>3, <2>4, Zenon
<1>011. CASE Stomp!Ack
  <2>1. session' = session /\ truth'.sessions = truth.sessions /\ truth'.taken = truth.taken
          /\ truth'.acked = truth.acked + 1
    BY <1>0, <1>011, Zenon DEF Stomp!Ack
  <2>2. truth'.taken \in Nat /\ truth'.acked \in Nat /\ truth'.taken >= truth.taken
          /\ truth'.acked >= truth.acked
    BY <1>0, <2>1
  <2>3. pc = "ack" /\ \E t, i : Stomp!End(Stomp!ReceivedMetric(t, i))
    BY <1>011, Zenon DEF Stomp!Ack
  <2>4. session.confirm
    BY <1>0, <2>3, Zenon
  <2> QED BY <1>4, <1>6, <2>1, <2>2, <2>3, <2>4, Zenon
<1>12. ASSUME Stomp!CutShort, session' = session, truth'.sessions = truth.sessions, truth'.taken = truth.taken,
              truth'.acked \in Nat, truth'.acked >= truth.acked
       PROVE  StompCounted'
  <2>1. /\ report'.protocol.stomp.reconnects = report.protocol.stomp.reconnects + 0
        /\ report'.protocol.stomp.received = report.protocol.stomp.received + 0
        /\ DOMAIN report'.protocol = DOMAIN report.protocol /\ pc' = "idle"
    BY <1>0, <1>1, <1>12 DEF Stomp!CutShort
  <2>2. truth'.taken \in Nat /\ truth'.taken >= truth.taken
    BY <1>0, <1>12
  <2> QED BY <1>12, <2>1, <2>2, StompCounts DEF StompPending
<1>13. ASSUME NEW part \in BOOLEAN, Stomp!CutInWrite(part) PROVE StompCounted'
  <2>1. PICK n \in {0, 1} : truth' = [truth EXCEPT !.acked = truth.acked + n]
    BY <1>13, Zenon DEF Stomp!CutInWrite
  <2>2. truth.acked + n \in Nat /\ truth.acked + n >= truth.acked
    BY <1>0
  <2>3. /\ truth'.sessions = truth.sessions /\ truth'.taken = truth.taken
        /\ truth'.acked \in Nat /\ truth'.acked >= truth.acked
    BY <1>0, <2>1, <2>2, Zenon
  <2> QED BY <1>12, <1>13, <2>3, Zenon DEF Stomp!CutInWrite
<1>14. CASE Stomp!Deadline
  <2>1. truth'.acked \in Nat /\ truth'.acked >= truth.acked
    BY <1>0, <1>14 DEF Stomp!Deadline
  <2> QED BY <1>12, <1>14, <2>1, Zenon DEF Stomp!Deadline
<1>014. CASE Stomp!Shutdown
  <2>1. session'.ever = session.ever /\ session'.confirm = session.confirm /\ report' = report
          /\ truth' = truth /\ pc' = "left"
    BY <1>0, <1>014, Zenon DEF Stomp!Shutdown, Stomp!Leave
  <2> QED BY <1>5, <2>1, Zenon DEF StompPending
<1>15. CASE \/ Stomp!BrokerWelcomes \/ Stomp!BrokerConfirms \/ UNCHANGED loopVars
            \/ \E kind : Stomp!BrokerSpeaks(kind) \/ Stomp!Lose(kind)
  <2>1. session' = session /\ report' = report /\ truth' = truth /\ pc' = pc
    BY <1>15, Zenon
     DEF Stomp!BrokerWelcomes, Stomp!BrokerConfirms, Stomp!BrokerSpeaks, Stomp!Volunteer, Stomp!Deliver,
         Stomp!Lose,
         loopVars
  <2> QED BY <1>0, <1>5, <2>1, Zenon DEF StompPending
<1>16. CASE Stomp!Welcome
  <2>1. /\ pc = "welcome" /\ report' = report
        /\ truth'.sessions = truth.sessions + 1 /\ truth'.taken = truth.taken /\ truth'.acked = truth.acked
    BY <1>0, <1>16, Zenon DEF Stomp!Welcome
  <2>2. PICK s : /\ s = [session EXCEPT !.decoder = 0, !.reconnected = session.ever \/ session.reconnected,
                                          !.ever = TRUE, !.connected = TRUE]
                 /\ Stomp!Proceed(s)
    BY <1>0, <1>16, Zenon DEF Stomp!Welcome, Stomp!Decoded
  <2>3. /\ s.ever = TRUE /\ s.confirm = session.confirm /\ s.mode = session.mode /\ DOMAIN s = DOMAIN session
        /\ s.reconnected => session.ever \/ session.reconnected
    BY <1>0, <2>2, Zenon
  <2>4. session'.ever = TRUE /\ session'.confirm = s.confirm /\ session'.reconnected = s.reconnected
    BY <1>0, <2>2, <2>3, Zenon DEF Stomp!Proceed
  <2>5. pc' \in {"send", "message", "subscribe"}
    BY <1>0, <2>2, <2>3, Zenon DEF Stomp!Proceed
  <2> HIDE DEF StompInv
  <2>6. session'.reconnected => session.ever
    <3>1. ~session.reconnected
      BY <1>0, <2>1, Zenon
    <3> QED BY <2>3, <2>4, <3>1, Zenon
  <2>7. PICK r \in Nat, v \in Nat, n \in Nat, t \in Nat, a \in Nat, q \in {0, 1} :
          /\ report.protocol.stomp.reconnects = r /\ report.protocol.stomp.received = v
          /\ truth.sessions = n /\ truth.taken = t /\ truth.acked = a
          /\ q = IF StompPending THEN 1 ELSE 0
          /\ r + q <= Larger(n, 1) - 1 /\ (session.ever <=> n > 0) /\ v <= IF session.confirm THEN a ELSE t
    BY Zenon DEF StompCounted
  <2>8. r + (IF session'.reconnected THEN 1 ELSE 0) <= Larger(n + 1, 1) - 1 /\ n + 1 > 0 /\ n + 1 \in Nat
    BY <2>6, <2>7 DEF Larger
  <2>9. (StompPending)' <=> session'.reconnected
    BY <2>5, Zenon DEF StompPending
  <2> QED BY <1>0, <2>1, <2>3, <2>4, <2>5, <2>7, <2>8, <2>9, Zenon DEF StompCounted
<1> QED
  BY <1>7, <1>8, <1>9, <1>10, <1>010, <1>11, <1>011, <1>13, <1>14, <1>014, <1>15, <1>16, Zenon DEF Stomp!Next

\* The account and the figures of a worker that starts.
LEMMA StompAccountsStart == Stomp!Init => Accounted /\ StompCounted
<1> SUFFICES ASSUME Stomp!Init PROVE Accounted /\ StompCounted
  OBVIOUS
<1>1. Accounted
  BY AccountStarts, Zenon DEF Stomp!Init, Stomp!NoIteration, NoIteration, Stomp!NoReport, Stomp!NoPast, NoPast
<1>2. /\ DOMAIN report.protocol = DOMAIN ProtocolDefault
      /\ report.protocol.stomp.reconnects = 0 /\ report.protocol.stomp.received = 0
  BY Zenon DEF Stomp!Init, Stomp!NoReport, Stomp!ProtocolDefault, ProtocolDefault, Stomp!StompDefault
<1>3. ~session.ever /\ session.confirm \in BOOLEAN /\ ~session.reconnected
      /\ truth.sessions = 0 /\ truth.taken = 0 /\ truth.acked = 0 /\ pc = "idle"
  BY DEF Stomp!Init, Stomp!NewSession, Stomp!NewTruth
<1> QED BY <1>1, <1>2, <1>3 DEF StompCounted, StompPending, Larger

\* The figures say what the report may claim of the broker.
LEMMA StompCountsAreTrue == StompCounted => Stomp!CountsAreTrue
<1> SUFFICES ASSUME StompCounted PROVE Stomp!CountsAreTrue
  OBVIOUS
<1>1. PICK b \in {0, 1} : b = IF StompPending THEN 1 ELSE 0
  OBVIOUS
<1>2. PICK t \in Nat : t = Larger(truth.sessions, 1) /\ Stomp!Larger(truth.sessions, 1) = t
  BY Zenon DEF StompCounted, Larger, Stomp!Larger
<1>3. report.protocol.stomp.reconnects + b <= t - 1
  BY <1>1, <1>2, Zenon DEF StompCounted
<1>4. report.protocol.stomp.reconnects \in Nat
  BY Zenon DEF StompCounted
<1>5. report.protocol.stomp.reconnects <= t - 1
  BY <1>3, <1>4
<1> QED BY <1>2, <1>5, Zenon DEF StompCounted, Stomp!CountsAreTrue
=============================================================================
