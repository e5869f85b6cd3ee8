------------------------ MODULE SharedSessionsProofs ------------------------
EXTENDS SharedSessions, Integers, FiniteSetTheorems, TLAPS

\* The workers at some of the places, and those that met a fault.
At(places) == {w \in Workers : pc[w] \in places}

\* The workers whose iteration met a fault.
Faulty == {w \in Workers : it[w].fault # <<>>}

\* The account of the workers, with the types it needs.
SharedAccounted ==
    /\ DOMAIN past = DOMAIN NoPast /\ past.selected \in Nat /\ past.cut \in Nat /\ report.injected \in Nat
    /\ pc = [w \in Workers |-> pc[w]] /\ it = [w \in Workers |-> it[w]]
    /\ \A w \in Workers : /\ "fault" \in DOMAIN it[w] /\ it[w].fault \in SelectFault
                          /\ pc[w] = "idle" => it[w].fault = <<>>
    /\ SharedFaultsAreReported

\* The instances count as the library does.
LEMMA SharedCardinality == \A S : H2!Cardinality(S) = Cardinality(S) /\ Db!Cardinality(S) = Cardinality(S)
BY Zenon DEF H2!Cardinality, Db!Cardinality, Cardinality

\* One worker joins a set of workers or leaves it.
LEMMA CountMoves ==
    ASSUME NEW w \in Workers, NEW S, NEW T, S \subseteq Workers, T \subseteq Workers,
           \A v \in Workers \ {w} : v \in S <=> v \in T
    PROVE  /\ Cardinality(Workers) \in Nat /\ Cardinality(S) \in Nat /\ Cardinality(T) \in Nat
           /\ Cardinality(S) <= Cardinality(Workers) /\ Cardinality(T) <= Cardinality(Workers)
           /\ w \in S /\ w \notin T => Cardinality(T) + 1 = Cardinality(S)
           /\ w \notin S /\ w \in T => Cardinality(T) = Cardinality(S) + 1
           /\ (w \in S <=> w \in T) => Cardinality(T) = Cardinality(S)
<1>1. IsFiniteSet(Workers) /\ IsFiniteSet(S) /\ IsFiniteSet(T)
  BY SharedSessionsAssumption, FS_Subset, Zenon
<1>2. Cardinality(Workers) \in Nat /\ Cardinality(S) \in Nat /\ Cardinality(T) \in Nat
  BY <1>1, FS_CardinalityType, Zenon
<1>3. Cardinality(S) <= Cardinality(Workers) /\ Cardinality(T) <= Cardinality(Workers)
  BY <1>1, FS_Subset, Zenon
<1>4. ASSUME w \in S, w \notin T PROVE Cardinality(T) + 1 = Cardinality(S)
  <2>1. S = T \cup {w}
    BY <1>4, Zenon
  <2>2. Cardinality(T \cup {w}) = Cardinality(T) + 1
    BY <1>1, <1>4, FS_AddElement, Zenon
  <2> QED BY <2>1, <2>2, Zenon
<1>5. ASSUME w \notin S, w \in T PROVE Cardinality(T) = Cardinality(S) + 1
  <2>1. T = S \cup {w}
    BY <1>5, Zenon
  <2>2. Cardinality(S \cup {w}) = Cardinality(S) + 1
    BY <1>1, <1>5, FS_AddElement, Zenon
  <2> QED BY <2>1, <2>2, Zenon
<1>6. ASSUME w \in S <=> w \in T PROVE Cardinality(T) = Cardinality(S)
  <2>1. S = T
    BY <1>6
  <2> QED BY <2>1, Zenon
<1> QED BY <1>2, <1>3, <1>4, <1>5, <1>6, Zenon

\* An iteration has one fault or none.
LEMMA OneFault == \A f \in SelectFault : Len(f) \in {0, 1} /\ Len(f) \in Nat /\ (Len(f) = 0 <=> f = <<>>)
BY DEF SelectFault

\* What is reported, cut or pending grows by as much as is selected, when f1 replaces f.
Balances(f, f1) ==
    report'.injected + past'.cut + Len(f1) + past.selected = report.injected + past.cut + Len(f) + past'.selected

\* The account balances after a step of one worker if its figures do.
LEMMA SharedSums ==
    ASSUME SharedAccounted, NEW w \in Workers, NEW at, NEW x, pc' = [pc EXCEPT ![w] = at],
           it' = [it EXCEPT ![w] = x],
           "fault" \in DOMAIN x, x.fault \in SelectFault, at = "idle" => x.fault = <<>>,
           DOMAIN past' = DOMAIN past,
           report'.injected \in Nat, past'.cut \in Nat, past'.selected \in Nat,
           Balances(it[w].fault, x.fault)
    PROVE  SharedAccounted'
<1>1. PICK j \in Nat, c \in Nat, s \in Nat, j1 \in Nat, c1 \in Nat, s1 \in Nat :
         /\ report.injected = j /\ past.cut = c /\ past.selected = s
         /\ report'.injected = j1 /\ past'.cut = c1 /\ past'.selected = s1
  BY Zenon DEF SharedAccounted
<1>2. PICK l \in Nat, l1 \in Nat :
         /\ Len(it[w].fault) = l /\ Len(x.fault) = l1 /\ l \in {0, 1} /\ l1 \in {0, 1}
         /\ l = 0 <=> it[w].fault = <<>>
         /\ l1 = 0 <=> x.fault = <<>>
  BY OneFault, Zenon DEF SharedAccounted
<1>3. /\ it = [v \in Workers |-> it[v]] /\ it'[w] = x /\ (\A v \in Workers \ {w} : it'[v] = it[v])
      /\ it' = [v \in Workers |-> it'[v]] /\ pc' = [v \in Workers |-> pc'[v]]
      /\ pc'[w] = at /\ (\A v \in Workers \ {w} : pc'[v] = pc[v])
  BY Zenon DEF SharedAccounted
<1>4. /\ Faulty \subseteq Workers /\ Faulty' \subseteq Workers
           /\ (\A v \in Workers \ {w} : v \in Faulty <=> v \in Faulty')
      /\ w \in Faulty <=> l = 1
      /\ w \in Faulty' <=> l1 = 1
  BY <1>2, <1>3 DEF Faulty
<1>5. PICK n \in Nat, n1 \in Nat : Cardinality(Faulty) = n /\ Cardinality(Faulty') = n1 /\ n1 + l = n + l1
  <2>1. Cardinality(Faulty) \in Nat /\ Cardinality(Faulty') \in Nat
    BY <1>4, CountMoves
  <2>2. CASE l = l1
    BY <1>4, <2>1, <2>2, CountMoves
  <2>3. CASE l = 1 /\ l1 = 0
    BY <1>4, <2>1, <2>3, CountMoves
  <2>4. CASE l = 0 /\ l1 = 1
    BY <1>4, <2>1, <2>4, CountMoves
  <2> QED BY <1>2, <2>2, <2>3, <2>4, Zenon
<1>6. j + c + n = s
  BY <1>1, <1>5, Zenon DEF SharedAccounted, SharedFaultsAreReported, Faulty
<1>7. j1 + c1 + n1 = s1
  <2>1. j1 + c1 + l1 + s = j + c + l + s1
    BY <1>1, <1>2, Zenon DEF Balances
  <2>2. s1 = j1 + c1 + l1 + n - l
    BY <1>6, <2>1
  <2>3. n1 = n + l1 - l
    BY <1>5
  <2> QED BY <2>2, <2>3
<1>8. SharedFaultsAreReported'
  BY <1>1, <1>5, <1>7, Zenon DEF SharedFaultsAreReported, Faulty
<1> QED BY <1>3, <1>8, Zenon DEF SharedAccounted

\* An iteration that begins keeps the account.
LEMMA SharedBegins ==
    ASSUME SharedAccounted, NEW w \in Workers, NEW at, NEW x, pc' = [pc EXCEPT ![w] = at],
           it' = [it EXCEPT ![w] = x],
           "fault" \in DOMAIN x, x.fault \in SelectFault, pc[w] = "idle", at # "idle", report' = report,
           DOMAIN past' = DOMAIN past, past'.cut = past.cut, past'.selected = past.selected + Len(x.fault)
    PROVE  SharedAccounted'
<1>1. PICK j \in Nat, c \in Nat, s \in Nat, k \in Nat :
        report.injected = j /\ past.cut = c /\ past.selected = s /\ Len(x.fault) = k
  BY OneFault, Zenon DEF SharedAccounted
<1>2. Len(it[w].fault) = 0
  BY OneFault, Zenon DEF SharedAccounted
<1>3. report'.injected = j /\ past'.cut = c /\ past'.selected = s + k
  BY <1>1, Zenon
<1>4. j + c + k + s = j + c + 0 + (s + k)
  OBVIOUS
<1>5. Balances(it[w].fault, x.fault)
  BY <1>1, <1>2, <1>3, <1>4, Zenon DEF Balances
<1>6. report'.injected \in Nat /\ past'.cut \in Nat /\ past'.selected \in Nat
  BY <1>3
<1> QED BY <1>5, <1>6, SharedSums, Zenon

\* So does one that ends as it begins, and reports the fault that ended it.
LEMMA SharedEndsAtOnce ==
    ASSUME SharedAccounted, NEW w \in Workers, pc' = [pc EXCEPT ![w] = "idle"],
           it' = [it EXCEPT ![w] = NoIteration],
           NEW f \in SelectFault, pc[w] = "idle", report'.injected = report.injected + Len(f),
           DOMAIN past' = DOMAIN past, past'.cut = past.cut, past'.selected = past.selected + Len(f)
    PROVE  SharedAccounted'
<1>1. PICK j \in Nat, c \in Nat, s \in Nat, k \in Nat :
        report.injected = j /\ past.cut = c /\ past.selected = s /\ Len(f) = k
  BY OneFault, Zenon DEF SharedAccounted
<1>2. /\ Len(it[w].fault) = 0 /\ NoIteration.fault = <<>> /\ "fault" \in DOMAIN NoIteration
      /\ Len(NoIteration.fault) = 0 /\ NoIteration.fault \in SelectFault
  BY OneFault, Zenon DEF SharedAccounted, NoIteration, SelectFault
<1>3. report'.injected = j + k /\ past'.cut = c /\ past'.selected = s + k
  BY <1>1, Zenon
<1>4. (j + k) + c + 0 + s = j + c + 0 + (s + k)
  OBVIOUS
<1>5. Balances(it[w].fault, NoIteration.fault)
  BY <1>1, <1>2, <1>3, <1>4, Zenon DEF Balances
<1>6. report'.injected \in Nat /\ past'.cut \in Nat /\ past'.selected \in Nat
  BY <1>3
<1> QED BY <1>2, <1>5, <1>6, SharedSums, Zenon

\* The other steps of a worker: the iteration goes on; it ends, and reports its fault; or the
\* deadline drops it.
LEMMA SharedKept ==
    ASSUME SharedAccounted, NEW w \in Workers, NEW at, NEW x, pc' = [pc EXCEPT ![w] = at],
           it' = [it EXCEPT ![w] = x],
           "fault" \in DOMAIN x, DOMAIN past' = DOMAIN past,
           \/ /\ x.fault = it[w].fault /\ pc[w] # "idle" /\ at # "idle" /\ report' = report
              /\ past'.cut = past.cut /\ past'.selected = past.selected
           \/ /\ x.fault = <<>> /\ report'.injected = report.injected + Len(it[w].fault)
              /\ past'.cut = past.cut /\ past'.selected = past.selected
           \/ /\ x.fault = <<>> /\ report'.injected = report.injected
              /\ past'.cut = past.cut + Len(it[w].fault) /\ past'.selected = past.selected
    PROVE  SharedAccounted'
<1>1. PICK j \in Nat, c \in Nat, s \in Nat, l \in Nat :
        report.injected = j /\ past.cut = c /\ past.selected = s /\ Len(it[w].fault) = l
  BY OneFault, Zenon DEF SharedAccounted
<1>2. <<>> \in SelectFault /\ Len(<<>>) = 0 /\ it[w].fault \in SelectFault
        /\ (pc[w] = "idle" => it[w].fault = <<>>)
  BY Zenon DEF SharedAccounted, SelectFault
<1>3. ASSUME NEW j1 \in Nat, NEW c1 \in Nat, NEW s1 \in Nat, NEW l1 \in Nat,
             report'.injected = j1, past'.cut = c1, past'.selected = s1, x.fault \in SelectFault,
             Len(x.fault) = l1,
             at = "idle" => x.fault = <<>>, j1 + c1 + l1 + s = j + c + l + s1
      PROVE  SharedAccounted'
  <2>1. Balances(it[w].fault, x.fault)
    BY <1>1, <1>3, Zenon DEF Balances
  <2> QED BY <1>3, <2>1, SharedSums, Zenon
<1>4. CASE /\ x.fault = it[w].fault /\ pc[w] # "idle" /\ at # "idle" /\ report' = report
           /\ past'.cut = past.cut /\ past'.selected = past.selected
  BY <1>1, <1>2, <1>3, <1>4, Zenon
<1>5. CASE x.fault = <<>> /\ report'.injected = report.injected + Len(it[w].fault)
           /\ past'.cut = past.cut /\ past'.selected = past.selected
  <2>1. (j + l) + c + 0 + s = j + c + l + s
    OBVIOUS
  <2> QED BY <1>1, <1>2, <1>3, <1>5, <2>1
<1>6. CASE x.fault = <<>> /\ report'.injected = report.injected
           /\ past'.cut = past.cut + Len(it[w].fault) /\ past'.selected = past.selected
  <2>1. j + (c + l) + 0 + s = j + c + l + s
    OBVIOUS
  <2> QED BY <1>1, <1>2, <1>3, <1>6, <2>1
<1> QED BY <1>4, <1>5, <1>6, Zenon

\* A step of the peer, or none, leaves the account alone.
LEMMA SharedRests ==
    ASSUME SharedAccounted, pc' = pc, it' = it, report' = report, DOMAIN past' = DOMAIN past,
           past'.cut = past.cut, past'.selected = past.selected
    PROVE  SharedAccounted'
BY Zenon DEF SharedAccounted, SharedFaultsAreReported

\* The account of workers that start.
LEMMA SharedAccountStarts ==
    ASSUME pc = [w \in Workers |-> "idle"], it = [w \in Workers |-> NoIteration], report.injected = 0,
           past = NoPast
    PROVE  SharedAccounted
<1>1. {w \in Workers : it[w].fault # <<>>} = {}
  BY Zenon DEF NoIteration
<1>2. Cardinality({w \in Workers : it[w].fault # <<>>}) = 0
  BY <1>1, FS_EmptySet, Zenon
<1> QED BY <1>2 DEF SharedAccounted, SharedFaultsAreReported, NoIteration, NoPast, SelectFault

-----------------------------------------------------------------------------
\* The places at which an iteration has a handle.
H2Held == {"ready", "send", "read", "clear"}

\* The invariant of the engine: the mutex is held by whoever connects, a handle is of a
\* connection that was made, and a worker that saw one fail neither has it nor can get it again.
H2Inv ==
    /\ pc \in [Workers -> {"idle", "get", "dial"} \cup H2Held]
    /\ it = [w \in Workers |-> it[w]]
    /\ session \in [stored : Nat, lock : Workers \cup {"nobody"}, active : Int]
    /\ peer \in Seq({"up", "down"}) /\ session.stored <= Len(peer)
    /\ truth \in [failed : Seq([Workers -> Nat])] /\ Len(truth.failed) = Len(peer)
    /\ H2!MutexIsHeldToConnect
    /\ \A w \in Workers : pc[w] \in H2Held => it[w].conn \in 1 .. Len(peer)
    /\ \A c \in 1 .. Len(peer), w \in Workers :
          /\ truth.failed[c][w] <= 1
          /\ truth.failed[c][w] = 1 => session.stored # c /\ (pc[w] \in H2Held => it[w].conn # c)

\* The engine starts in its invariant.
LEMMA H2Starts == H2!Init => H2Inv
BY SharedSessionsAssumption DEF H2!Init, H2!AllIdle, H2Inv, H2Held, H2!MutexIsHeldToConnect, H2!Nobody

\* A step of one worker that leaves the connections and what failed on them alone.
LEMMA H2OneMoves ==
    ASSUME H2Inv, NEW w \in Workers, NEW at \in {"idle", "get", "dial"} \cup H2Held, NEW x,
           pc' = [pc EXCEPT ![w] = at], it' = [it EXCEPT ![w] = x],
           peer' = peer, truth' = truth,
           session' \in [stored : Nat, lock : Workers \cup {"nobody"}, active : Int],
           session'.stored \in {session.stored, 0},
           at = "dial" <=> session'.lock = w,
           at # "dial" => session'.lock = IF session.lock = w THEN "nobody" ELSE session.lock,
           at = "dial" => session.lock = "nobody",
           at \in H2Held => x.conn \in 1 .. Len(peer) /\ truth.failed[x.conn][w] = 0
    PROVE  H2Inv'
<1>1. pc' \in [Workers -> {"idle", "get", "dial"} \cup H2Held] /\ it' = [v \in Workers |-> it'[v]]
  BY Zenon DEF H2Inv
<1>2. H2!MutexIsHeldToConnect'
  BY SharedSessionsAssumption DEF H2Inv, H2!MutexIsHeldToConnect
<1>3. \A v \in Workers : pc'[v] \in H2Held => it'[v].conn \in 1 .. Len(peer)
  BY Zenon DEF H2Inv
<1>4. ASSUME NEW c \in 1 .. Len(peer), NEW v \in Workers
      PROVE  /\ truth.failed[c][v] <= 1
             /\ truth.failed[c][v] = 1 => session'.stored # c /\ (pc'[v] \in H2Held => it'[v].conn # c)
  BY DEF H2Inv
<1>5. session'.stored <= Len(peer)
  BY DEF H2Inv
<1> QED BY <1>1, <1>2, <1>3, <1>4, <1>5, Zenon DEF H2Inv

\* Every step of the engine keeps its invariant.
LEMMA H2Step == H2Inv /\ H2!Next => H2Inv'
<1> SUFFICES ASSUME H2Inv, H2!Next PROVE H2Inv'
  OBVIOUS
<1> USE DEF H2Held
<1>0. /\ \A w \in Workers : (session.lock = w <=> pc[w] = "dial") /\ w # "nobody"
      /\ session.stored \in 0 .. Len(peer) /\ Len(peer) \in Nat
      /\ session \in [stored : Nat, lock : Workers \cup {"nobody"}, active : Int]
      /\ session.lock \in Workers \cup {"nobody"}
      /\ pc \in [Workers -> {"idle", "get", "dial"} \cup H2Held] /\ it = [w \in Workers |-> it[w]]
  BY SharedSessionsAssumption DEF H2Inv, H2!MutexIsHeldToConnect
<1>01. \A c \in 1 .. Len(peer), w \in Workers :
         /\ truth.failed[c][w] \in {0, 1}
         /\ session.stored = c \/ (pc[w] \in H2Held /\ it[w].conn = c) => truth.failed[c][w] = 0
  BY DEF H2Inv
<1>00. ASSUME NEW l \in Workers \cup {"nobody"}, NEW n \in {0, session.stored}, NEW a \in Int
       PROVE  /\ [session EXCEPT !.lock = l] \in [stored : Nat, lock : Workers \cup {"nobody"}, active : Int]
              /\ [session EXCEPT !.active = a] \in [stored : Nat, lock : Workers \cup {"nobody"}, active : Int]
              /\ [session EXCEPT !.stored = n] \in [stored : Nat, lock : Workers \cup {"nobody"}, active : Int]
              /\ session \in [stored : Nat, lock : Workers \cup {"nobody"}, active : Int]
  BY DEF H2Inv
<1>1. ASSUME NEW w \in Workers, NEW f \in SelectFault, H2!Begin(w, f) PROVE H2Inv'
  <2>1. PICK at, x : at \in {"idle", "get"} /\ pc' = [pc EXCEPT ![w] = at] /\ it' = [it EXCEPT ![w] = x]
    BY <1>1, Zenon DEF H2!Begin, H2!BeginAs, H2!EndOf, H2!GoTo
  <2>2. session' = session /\ peer' = peer /\ truth' = truth /\ pc[w] = "idle"
    BY <1>1, Zenon DEF H2!Begin, H2!BeginAs, H2!MayBeginAs
  <2> QED BY <1>0, <1>00, <2>1, <2>2, H2OneMoves, Zenon
<1>2. ASSUME NEW w \in Workers, H2!Reuse(w) PROVE H2Inv'
  <2> DEFINE x == [fault |-> it[w].fault, conn |-> session.stored, reused |-> TRUE]
  <2>1. /\ it' = [it EXCEPT ![w] = x] /\ pc' = [pc EXCEPT ![w] = "ready"] /\ x.conn = session.stored
        /\ session' = session /\ peer' = peer /\ truth' = truth /\ session.stored # 0 /\ pc[w] = "get"
    BY <1>2, Zenon DEF H2!Reuse, H2!GoTo
  <2>2. x.conn \in 1 .. Len(peer) /\ truth.failed[x.conn][w] = 0
    <3> HIDE DEF x
    <3> QED BY <1>0, <1>01, <2>1
  <2> HIDE DEF x
  <2> QED BY <1>0, <2>1, <2>2, H2OneMoves, Zenon
<1>3. ASSUME NEW w \in Workers, H2!Dial(w) PROVE H2Inv'
  <2>1. /\ it' = [it EXCEPT ![w] = it[w]] /\ pc' = [pc EXCEPT ![w] = "dial"]
             /\ session' = [session EXCEPT !.lock = w]
        /\ peer' = peer /\ truth' = truth /\ session.lock = "nobody"
    BY <1>3, Zenon DEF H2!Dial, H2!GoTo, H2!Nobody, H2Inv
  <2>2. session'.lock = w /\ session'.stored = session.stored
    BY <2>1, Zenon DEF H2Inv
  <2> QED BY <1>0, <1>00, <2>1, <2>2, H2OneMoves, Zenon
<1>4. ASSUME NEW w \in Workers, H2!Connect(w) PROVE H2Inv'
  <2> DEFINE n == Len(peer) + 1
             x == [fault |-> it[w].fault, conn |-> n, reused |-> FALSE]
             z == [v \in Workers |-> 0]
  <2>1. /\ peer' \in Seq({"up", "down"}) /\ Len(peer') = n /\ n \in Nat
        /\ pc' = [pc EXCEPT ![w] = "ready"] /\ pc[w] = "dial"
    BY <1>4 DEF H2!Connect, H2!GoTo, H2Inv
  <2>2. it' = [it EXCEPT ![w] = x] /\ x.conn = n
    BY <1>4, <2>1, Zenon DEF H2!Connect
  <2>3. /\ session' \in [stored : Nat, lock : Workers \cup {"nobody"}, active : Int]
        /\ session'.stored = n /\ session'.lock = "nobody"
    BY <1>4, <2>1, Zenon DEF H2!Connect, H2!Nobody, H2Inv
  <2>4. /\ truth' = [failed |-> Append(truth.failed, z)] /\ z \in [Workers -> Nat]
        /\ truth.failed \in Seq([Workers -> Nat]) /\ Len(truth.failed) = Len(peer)
    BY <1>4, Zenon DEF H2!Connect, H2Inv
  <2>5. /\ truth' \in [failed : Seq([Workers -> Nat])] /\ Len(truth'.failed) = n
        /\ \A c \in 1 .. Len(peer) : truth'.failed[c] = truth.failed[c]
        /\ truth'.failed[n] = z
    <3> HIDE DEF z
    <3> QED BY <2>4
  <2>6. \A v \in Workers : truth'.failed[n][v] = 0
    BY <2>5, Zenon
  <2> HIDE DEF x, n, z
  <2>7. H2!MutexIsHeldToConnect'
    BY <1>0, <2>1, <2>3 DEF H2Inv, H2!MutexIsHeldToConnect
  <2>8. ASSUME NEW v \in Workers, pc'[v] \in H2Held PROVE it'[v].conn \in 1 .. n
    BY <2>1, <2>2, <2>8 DEF H2Inv, n
  <2>9. ASSUME NEW c \in 1 .. n, NEW v \in Workers
        PROVE  /\ truth'.failed[c][v] <= 1
               /\ truth'.failed[c][v] = 1 => session'.stored # c /\ (pc'[v] \in H2Held => it'[v].conn # c)
    <3>1. CASE c = n
      BY <2>6, <3>1
    <3>2. CASE c # n
      <4>1. c \in 1 .. Len(peer)
        BY <3>2 DEF n
      <4> QED BY <2>1, <2>2, <2>3, <2>5, <3>2, <4>1, ZenonT(40) DEF H2Inv
    <3> QED BY <3>1, <3>2, Zenon
  <2>10. pc' \in [Workers -> {"idle", "get", "dial"} \cup H2Held] /\ it' = [v \in Workers |-> it'[v]]
    BY <1>0, <2>1, <2>2, Zenon
  <2> QED BY <2>1, <2>3, <2>5, <2>7, <2>8, <2>9, <2>10 DEF H2Inv
<1>5. ASSUME NEW w \in Workers, H2!ConnectFails(w) PROVE H2Inv'
  <2>1. /\ \E x : it' = [it EXCEPT ![w] = x]
        /\ pc' = [pc EXCEPT ![w] = "idle"] /\ session' = [session EXCEPT !.lock = "nobody"]
        /\ peer' = peer /\ truth' = truth /\ pc[w] = "dial"
    BY <1>5, Zenon DEF H2!ConnectFails, H2!EndOf, H2!GoTo, H2!Nobody
  <2>2. /\ session'.lock = "nobody" /\ session'.stored = session.stored
        /\ session' \in [stored : Nat, lock : Workers \cup {"nobody"}, active : Int]
    BY <1>0, <2>1, Zenon
  <2> QED BY <1>0, <2>1, <2>2, H2OneMoves, Zenon
<1>6. ASSUME NEW w \in Workers, pc[w] \in {"ready", "send", "read"}, NEW x, NEW a \in Int,
             NEW at \in H2Held \cup {"idle"},
             pc' = [pc EXCEPT ![w] = at], it' = [it EXCEPT ![w] = x], at # "idle" => x.conn = it[w].conn,
             session' = [session EXCEPT !.active = a], peer' = peer, truth' = truth
      PROVE  H2Inv'
  <2>1. session'.lock = session.lock /\ session'.stored = session.stored
    BY <1>6, Zenon DEF H2Inv
  <2>2. it[w].conn \in 1 .. Len(peer) /\ truth.failed[it[w].conn][w] = 0
    BY <1>6 DEF H2Inv
  <2> QED BY <1>0, <1>00, <1>6, <2>1, <2>2, H2OneMoves, ZenonT(40)
<1>7. ASSUME NEW w \in Workers, H2!Open(w) PROVE H2Inv'
  <2> DEFINE x == [fault |-> it[w].fault, conn |-> it[w].conn, reused |-> it[w].reused,
    active |-> session.active + 1,
                   at |-> 0, events |-> 0, capacity |-> H2!Highest]
  <2>1. /\ pc[w] = "ready" /\ pc' = [pc EXCEPT ![w] = "send"]
             /\ session' = [session EXCEPT !.active = session.active + 1]
        /\ peer' = peer /\ truth' = truth /\ session.active + 1 \in Int
    BY <1>7 DEF H2!Open, H2!GoTo, H2Inv
  <2>2. it' = [it EXCEPT ![w] = x] /\ x.conn = it[w].conn
    BY <1>7, Zenon DEF H2!Open
  <2> HIDE DEF x
  <2> QED BY <1>6, <2>1, <2>2, Zenon
<1>8. ASSUME NEW w \in Workers, H2!OpenFails(w) PROVE H2Inv'
  <2>1. /\ pc[w] = "ready" /\ pc' = [pc EXCEPT ![w] = "clear"]
             /\ session' = [session EXCEPT !.active = session.active]
        /\ peer' = peer /\ truth' = truth /\ session.active \in Int /\ it' = [it EXCEPT ![w] = it[w]]
    BY <1>8, Zenon DEF H2!OpenFails, H2!GoTo, H2Inv
  <2> QED BY <1>6, <2>1, Zenon
<1>9. ASSUME NEW w \in Workers, H2!Clear(w) PROVE H2Inv'
  <2> DEFINE c == it[w].conn
  <2>1. /\ pc[w] = "clear" /\ pc' = [pc EXCEPT ![w] = "idle"] /\ peer' = peer
        /\ session' = [session EXCEPT !.stored = 0] /\ \E x : it' = [it EXCEPT ![w] = x]
    BY <1>9, Zenon DEF H2!Clear, H2!EndOf, H2!GoTo
  <2>0. c \in 1 .. Len(peer) /\ truth.failed[c][w] = 0
    BY <1>01, <2>1 DEF H2Inv
  <2>2. session'.lock = session.lock /\ session'.stored = 0
        /\ session' \in [stored : Nat, lock : Workers \cup {"nobody"}, active : Int]
    BY <2>1, Zenon DEF H2Inv
  <2>3. /\ truth' \in [failed : Seq([Workers -> Nat])] /\ Len(truth'.failed) = Len(peer)
        /\ \A d \in 1 .. Len(peer), v \in Workers :
              truth'.failed[d][v] = IF d = c /\ v = w THEN 1 ELSE truth.failed[d][v]
    <3> DEFINE g == [truth.failed[c] EXCEPT ![w] = truth.failed[c][w] + 1]
               h == [truth.failed EXCEPT ![c] = g]
    <3>1. truth' = [truth EXCEPT !.failed = h]
      BY <1>9, Zenon DEF H2!Clear
    <3>2. truth.failed \in Seq([Workers -> Nat]) /\ Len(truth.failed) = Len(peer)
            /\ truth.failed[c] \in [Workers -> Nat]
      BY <2>0 DEF H2Inv
    <3>3. g \in [Workers -> Nat] /\ \A v \in Workers : g[v] = IF v = w THEN 1 ELSE truth.failed[c][v]
      <4> HIDE DEF c
      <4> QED BY <2>0, <3>2
    <3> HIDE DEF g
    <3>4. h \in Seq([Workers -> Nat]) /\ Len(h) = Len(peer)
          /\ \A d \in 1 .. Len(peer) : h[d] = IF d = c THEN g ELSE truth.failed[d]
      BY <2>0, <3>2, <3>3
    <3> HIDE DEF h
    <3>5. truth'.failed = h /\ truth' \in [failed : Seq([Workers -> Nat])]
      BY <3>1, <3>4, Zenon DEF H2Inv
    <3> QED BY <3>3, <3>4, <3>5, Zenon
  <2> HIDE DEF c
  <2>4. H2!MutexIsHeldToConnect'
    BY <1>0, <2>1, <2>2, Zenon DEF H2Inv, H2!MutexIsHeldToConnect
  <2>5. \A v \in Workers : pc'[v] \in H2Held => v # w /\ pc[v] = pc'[v] /\ it'[v] = it[v]
    BY <2>1, Zenon DEF H2Inv
  <2>6. pc' \in [Workers -> {"idle", "get", "dial"} \cup H2Held] /\ it' = [v \in Workers |-> it'[v]]
    BY <2>1, Zenon DEF H2Inv
  <2>7. ASSUME NEW d \in 1 .. Len(peer), NEW v \in Workers
        PROVE  /\ truth'.failed[d][v] <= 1
               /\ truth'.failed[d][v] = 1 => session'.stored # d /\ (pc'[v] \in H2Held => it'[v].conn # d)
    <3>1. CASE d = c /\ v = w
      BY <2>2, <2>3, <2>5, <3>1
    <3>2. CASE ~(d = c /\ v = w)
      <4>1. truth'.failed[d][v] = truth.failed[d][v]
        BY <2>3, <3>2, Zenon
      <4> QED BY <1>01, <2>2, <2>5, <4>1
    <3> QED BY <3>1, <3>2, Zenon
  <2> QED BY <1>0, <2>1, <2>2, <2>3, <2>4, <2>5, <2>6, <2>7 DEF H2Inv
<1>10. ASSUME NEW w \in Workers, NEW n \in 1 .. FrameLength, NEW stalled \in BOOLEAN, H2!Send(w, n, stalled)
       PROVE  H2Inv'
  <2>1. /\ pc[w] = "send" /\ session' = [session EXCEPT !.active = session.active] /\ session.active \in Int
        /\ peer' = peer /\ truth' = truth
    BY <1>10, Zenon DEF H2!Send, H2Inv
  <2>2. \E at \in {"read", "send"} : pc' = [pc EXCEPT ![w] = at]
    BY <1>10, Zenon DEF H2!Send, H2!GoTo
  <2>3. PICK x, y, z : it' = [it EXCEPT ![w] = [it[w] EXCEPT !.at = x, !.events = y, !.capacity = z]]
    BY <1>10, ZenonT(40) DEF H2!Send
  <2>4. [it[w] EXCEPT !.at = x, !.events = y, !.capacity = z].conn = it[w].conn
    OBVIOUS
  <2> QED BY <1>6, <2>1, <2>2, <2>3, <2>4, Zenon
<1>11. ASSUME NEW w \in Workers, pc[w] \in H2!InCall, session' = H2!Released, peer' = peer, truth' = truth,
              pc' = [pc EXCEPT ![w] = "idle"], \E x : it' = [it EXCEPT ![w] = x]
       PROVE  H2Inv'
  <2>1. session' = [session EXCEPT !.active = session.active - 1] /\ session.active - 1 \in Int
    BY <1>11 DEF H2!Released, H2Inv
  <2> QED BY <1>6, <1>11, <2>1, Zenon DEF H2!InCall
<1>12. ASSUME NEW w \in Workers, NEW ok, NEW trailers, NEW head, H2!Answer(w, ok, trailers, head) PROVE H2Inv'
  BY <1>11, <1>12, Zenon DEF H2!Answer, H2!InCall, H2!EndOf, H2!GoTo
<1>13. ASSUME NEW w \in Workers, H2!CallFails(w) PROVE H2Inv'
  BY <1>11, <1>13, Zenon DEF H2!CallFails, H2!EndOf, H2!GoTo
<1>14. ASSUME NEW w \in Workers, H2!Deadline(w) PROVE H2Inv'
  <2>1. /\ pc' = [pc EXCEPT ![w] = "idle"] /\ \E x : it' = [it EXCEPT ![w] = x] /\ peer' = peer
             /\ truth' = truth
    BY <1>14, Zenon DEF H2!Deadline, H2!CutShortOf, H2!EndOf, H2!GoTo
  <2>2. CASE pc[w] = "dial"
    <3>1. session' = [session EXCEPT !.lock = "nobody"]
      BY <1>14, <2>2, Zenon DEF H2!Deadline, H2!Nobody, H2!InCall
    <3>2. /\ session'.lock = "nobody" /\ session'.stored = session.stored
          /\ session' \in [stored : Nat, lock : Workers \cup {"nobody"}, active : Int]
      BY <1>0, <3>1, Zenon
    <3> QED BY <1>0, <2>1, <2>2, <3>1, <3>2, H2OneMoves, Zenon
  <2>3. CASE pc[w] \in H2!InCall
    <3>1. session' = H2!Released
      BY <1>14, <2>3, Zenon DEF H2!Deadline, H2!InCall
    <3> QED BY <1>11, <2>1, <2>3, <3>1, Zenon
  <2>4. CASE pc[w] # "dial" /\ pc[w] \notin H2!InCall
    <3>1. session' = session
      BY <1>14, <2>4, Zenon DEF H2!Deadline
    <3> QED BY <1>0, <1>00, <2>1, <2>4, <3>1, H2OneMoves, ZenonT(40)
  <2> QED BY <2>2, <2>3, <2>4, Zenon
<1>15. ASSUME NEW c \in DOMAIN peer, H2!Die(c) PROVE H2Inv'
  <2>1. peer' \in Seq({"up", "down"}) /\ Len(peer') = Len(peer) /\ UNCHANGED <<pc, it, session, truth>>
    BY <1>15 DEF H2!Die, H2Inv
  <2> QED BY <2>1, Zenon DEF H2Inv, H2!MutexIsHeldToConnect
<1> QED
  BY <1>1, <1>2, <1>3, <1>4, <1>5, <1>7, <1>8, <1>9, <1>10, <1>12, <1>13, <1>14, <1>15, Zenon
     DEF H2!Next, H2!SelectFault, SelectFault

\* So does a step that changes nothing.
LEMMA H2Inductive == H2Inv /\ [H2!Next]_loopVars => H2Inv'
<1>1. CASE UNCHANGED loopVars
  BY <1>1, Zenon DEF loopVars, H2Inv, H2!MutexIsHeldToConnect
<1> QED BY <1>1, H2Step, Zenon

\* What the invariant says of grpc_h2.rs.
LEMMA H2Safe == H2Inv => H2!MutexIsHeldToConnect /\ H2!DeadConnectionIsReplaced
BY DEF H2Inv, H2!DeadConnectionIsReplaced

\* The account of workers that start.
LEMMA H2AccountsStart == H2!Init => SharedAccounted
BY SharedAccountStarts DEF H2!Init, H2!AllIdle, H2!NoIteration, NoIteration, H2!NoReport, H2!NoPast, NoPast

\* Every step of the engine keeps the account.
LEMMA H2Accounts == SharedAccounted /\ [H2!Next]_loopVars => SharedAccounted'
<1> SUFFICES ASSUME SharedAccounted, [H2!Next]_loopVars PROVE SharedAccounted'
  OBVIOUS
<1>0. /\ DOMAIN past = {"iterations", "selected", "cut", "dropped", "losses", "connections", "frames"}
      /\ <<>> \in SelectFault /\ Len(<<>>) = 0 /\ report.injected \in Nat
      /\ NoIteration.fault = <<>> /\ "fault" \in DOMAIN NoIteration
      /\ \A w \in Workers : "fault" \in DOMAIN it[w] /\ Len(it[w].fault) \in Nat
  BY OneFault, Zenon DEF SharedAccounted, NoPast, SelectFault, NoIteration
<1>1. ASSUME NEW w \in Workers, NEW f \in SelectFault, H2!Begin(w, f) PROVE SharedAccounted'
  <2>1. DOMAIN past' = DOMAIN past /\ past'.selected = past.selected + Len(f) /\ past'.cut = past.cut
          /\ pc[w] = "idle"
    BY <1>0, <1>1, Zenon DEF H2!Begin, H2!BeginAs, H2!Begun, H2!MayBeginAs
  <2>2. CASE H2!EndOf(w, H2!Builder(0, f))
    <3>1. /\ pc' = [pc EXCEPT ![w] = "idle"] /\ it' = [it EXCEPT ![w] = NoIteration]
          /\ report'.injected = report.injected + Len(f)
      BY <2>2, Zenon DEF H2!EndOf, H2!GoTo, H2!Add, H2!Builder, H2!NoIteration, NoIteration
    <3> QED BY <2>1, <3>1, SharedEndsAtOnce, Zenon
  <2>3. CASE it' = [it EXCEPT ![w] = [fault |-> f]] /\ pc' = [pc EXCEPT ![w] = "get"] /\ report' = report
    <3> DEFINE x == [fault |-> f]
    <3>1. x.fault = f /\ "fault" \in DOMAIN x /\ it' = [it EXCEPT ![w] = x]
      BY <2>3, Zenon
    <3>2. pc' = [pc EXCEPT ![w] = "get"] /\ report' = report /\ "get" # "idle"
      BY <2>3, Zenon
    <3> HIDE DEF x
    <3> QED BY <2>1, <3>1, <3>2, SharedBegins, Zenon
  <2> QED BY <1>1, <2>2, <2>3, Zenon DEF H2!Begin, H2!BeginAs, H2!GoTo
\* The iteration goes on.
<1>2. ASSUME NEW w \in Workers, NEW at, NEW x, pc' = [pc EXCEPT ![w] = at], it' = [it EXCEPT ![w] = x],
             "fault" \in DOMAIN x, x.fault = it[w].fault, pc[w] # "idle", at # "idle", report' = report,
             DOMAIN past' = DOMAIN past, past'.cut = past.cut, past'.selected = past.selected
      PROVE  SharedAccounted'
  BY <1>0, <1>2, SharedKept, Zenon
\* It ends, and its metric has its fault.
<1>3. ASSUME NEW w \in Workers, NEW m, H2!EndOf(w, m), m.fault = it[w].fault,
             DOMAIN past' = DOMAIN past, past'.cut = past.cut, past'.selected = past.selected
      PROVE  SharedAccounted'
  <2>1. /\ pc' = [pc EXCEPT ![w] = "idle"] /\ it' = [it EXCEPT ![w] = NoIteration]
        /\ report'.injected = report.injected + Len(it[w].fault)
    BY <1>3, Zenon DEF H2!EndOf, H2!GoTo, H2!Add, H2!NoIteration, NoIteration
  <2> QED BY <1>0, <1>3, <2>1, SharedKept, Zenon
<1>4. ASSUME NEW w \in Workers, H2!Reuse(w) \/ H2!Dial(w) \/ H2!Connect(w) \/ H2!Open(w) \/ H2!OpenFails(w)
      PROVE  SharedAccounted'
  <2>1. /\ pc[w] # "idle" /\ report' = report /\ DOMAIN past' = DOMAIN past
        /\ past'.cut = past.cut /\ past'.selected = past.selected
        /\ \E at \in {"ready", "dial", "send", "clear"} : pc' = [pc EXCEPT ![w] = at]
    BY <1>0, <1>4, Zenon DEF H2!Reuse, H2!Dial, H2!Connect, H2!Open, H2!OpenFails, H2!GoTo, H2!Connected
  <2>2. \E x : it' = [it EXCEPT ![w] = x] /\ "fault" \in DOMAIN x /\ x.fault = it[w].fault
    <3>1. CASE H2!Reuse(w)
      <4> DEFINE x == [fault |-> it[w].fault, conn |-> session.stored, reused |-> TRUE]
      <4>1. it' = [it EXCEPT ![w] = x]
        BY <3>1, Zenon DEF H2!Reuse
      <4>2. "fault" \in DOMAIN x /\ x.fault = it[w].fault
        OBVIOUS
      <4> HIDE DEF x
      <4> QED BY <4>1, <4>2, Zenon
    <3>2. CASE H2!Dial(w) \/ H2!OpenFails(w)
      <4>1. it' = [it EXCEPT ![w] = it[w]]
        BY <3>2, Zenon DEF H2!Dial, H2!OpenFails, SharedAccounted
      <4> QED BY <1>0, <4>1, Zenon
    <3>3. CASE H2!Connect(w)
      <4> DEFINE x == [fault |-> it[w].fault, conn |-> Len(peer'), reused |-> FALSE]
      <4>1. it' = [it EXCEPT ![w] = x]
        BY <3>3, Zenon DEF H2!Connect
      <4>2. "fault" \in DOMAIN x /\ x.fault = it[w].fault
        OBVIOUS
      <4> HIDE DEF x
      <4> QED BY <4>1, <4>2, Zenon
    <3>4. CASE H2!Open(w)
      <4> DEFINE x == [fault |-> it[w].fault, conn |-> it[w].conn, reused |-> it[w].reused,
        active |-> session.active + 1,
                      at |-> 0, events |-> 0, capacity |-> H2!Highest]
      <4>1. it' = [it EXCEPT ![w] = x]
        BY <3>4, Zenon DEF H2!Open
      <4>2. "fault" \in DOMAIN x /\ x.fault = it[w].fault
        OBVIOUS
      <4> HIDE DEF x
      <4> QED BY <4>1, <4>2, Zenon
    <3> QED BY <1>4, <3>1, <3>2, <3>3, <3>4, Zenon
  <2> QED BY <1>2, <2>1, <2>2, Zenon
<1>5. ASSUME NEW w \in Workers, NEW n, NEW stalled, H2!Send(w, n, stalled) PROVE SharedAccounted'
  <2>1. /\ pc[w] # "idle" /\ report' = report /\ past' = past
        /\ \E at \in {"read", "send"} : pc' = [pc EXCEPT ![w] = at]
    BY <1>5, Zenon DEF H2!Send, H2!GoTo
  <2>2. PICK x, y, z : it' = [it EXCEPT ![w] = [it[w] EXCEPT !.at = x, !.events = y, !.capacity = z]]
    BY <1>5, ZenonT(40) DEF H2!Send
  <2> DEFINE u == [it[w] EXCEPT !.at = x, !.events = y, !.capacity = z]
  <2>3. "fault" \in DOMAIN u /\ u.fault = it[w].fault /\ it' = [it EXCEPT ![w] = u]
    BY <1>0, <2>2, Zenon
  <2> HIDE DEF u
  <2> QED BY <1>2, <2>1, <2>2, <2>3, Zenon
<1>6. ASSUME NEW w \in Workers, H2!ConnectFails(w) \/ H2!Clear(w) \/ H2!CallFails(w) PROVE SharedAccounted'
  <2>1. H2!EndOf(w, H2!Error(w)) /\ past' = past
    BY <1>6, Zenon DEF H2!ConnectFails, H2!Clear, H2!CallFails
  <2>2. H2!Error(w).fault = it[w].fault
    BY Zenon DEF H2!Error, H2!Builder
  <2> QED BY <1>3, <2>1, <2>2, Zenon
<1>7. ASSUME NEW w \in Workers, NEW ok, NEW trailers, NEW head, H2!Answer(w, ok, trailers, head)
      PROVE  SharedAccounted'
  <2>1. PICK status, reused, connection, sample :
          H2!EndOf(w, [H2!Error(w) EXCEPT !.status = status, !.reused = reused, !.connection = connection,
            !.sample = sample])
    BY <1>7, Zenon DEF H2!Answer
  <2> DEFINE m == [H2!Error(w) EXCEPT !.status = status, !.reused = reused, !.connection = connection,
    !.sample = sample]
  <2>2. m.fault = it[w].fault
    BY Zenon DEF H2!Error, H2!Builder
  <2>3. H2!EndOf(w, m) /\ past' = past
    BY <1>7, <2>1, Zenon DEF H2!Answer
  <2> HIDE DEF m
  <2> QED BY <1>3, <2>2, <2>3, Zenon
<1>8. ASSUME NEW w \in Workers, H2!Deadline(w) PROVE SharedAccounted'
  <2>1. /\ pc' = [pc EXCEPT ![w] = "idle"] /\ it' = [it EXCEPT ![w] = NoIteration]
        /\ report'.injected = report.injected /\ DOMAIN past' = DOMAIN past
        /\ past'.cut = past.cut + Len(it[w].fault) /\ past'.selected = past.selected
    BY <1>0, <1>8
       DEF H2!Deadline, H2!CutShortOf, H2!EndOf, H2!GoTo, H2!Add, H2!Builder, H2!NoIteration, NoIteration
  <2> QED BY <1>0, <2>1, SharedKept, Zenon
<1>9. CASE UNCHANGED loopVars \/ \E c : H2!Die(c)
  <2>1. /\ UNCHANGED <<pc, it, report>> /\ DOMAIN past' = DOMAIN past
        /\ past'.cut = past.cut /\ past'.selected = past.selected
    BY <1>0, <1>9, Zenon DEF H2!Die, loopVars
  <2> QED BY <2>1, SharedRests, Zenon
<1> QED
  BY <1>1, <1>4, <1>5, <1>6, <1>7, <1>8, <1>9, Zenon DEF H2!Next, H2!SelectFault, SelectFault

\* The gauge counts the calls in flight, and no worker saw or reported more than there can be.
H2Counted ==
    /\ session.active = Cardinality(At(H2!InCall))
    /\ \A w \in At(H2!InCall) : it[w].active \in 0 .. Cardinality(Workers)
    /\ DOMAIN report.protocol = DOMAIN ProtocolDefault /\ "peak" \in DOMAIN report.protocol.grpc
    /\ report.protocol.grpc.peak \in 0 .. Cardinality(Workers)

\* The figures say what the gauge and its peak are.
LEMMA H2CountsAreTrue == H2Counted => H2!GaugeCountsStreams
BY SharedCardinality DEF H2Counted, H2!GaugeCountsStreams, At

\* The gauge of an engine that starts.
LEMMA H2CountsStart == H2!Init => H2Counted
<1> SUFFICES ASSUME H2!Init PROVE H2Counted
  OBVIOUS
<1>1. At(H2!InCall) = {} /\ session.active = 0
  BY Zenon DEF H2!Init, H2!AllIdle, At, H2!InCall
<1>2. Cardinality(At(H2!InCall)) = 0 /\ Cardinality(Workers) \in Nat
  BY <1>1, FS_EmptySet, FS_CardinalityType, SharedSessionsAssumption, Zenon
<1>3. DOMAIN report.protocol = DOMAIN ProtocolDefault /\ "peak" \in DOMAIN report.protocol.grpc
        /\ report.protocol.grpc.peak = 0
  BY Zenon DEF H2!Init, H2!NoReport, H2!ProtocolDefault, ProtocolDefault, H2!GrpcDefault
<1> QED BY <1>1, <1>2, <1>3 DEF H2Counted

\* Every step of the engine keeps its figures.
LEMMA H2CountsInductive == H2Inv /\ H2Counted /\ [H2!Next]_loopVars => H2Counted'
<1> SUFFICES ASSUME H2Inv, H2Counted, [H2!Next]_loopVars PROVE H2Counted'
  OBVIOUS
<1>0. /\ pc \in [Workers -> {"idle", "get", "dial", "ready", "send", "read", "clear"}]
           /\ it = [w \in Workers |-> it[w]]
      /\ DOMAIN session = {"stored", "lock", "active"} /\ session.active \in Int
      /\ DOMAIN report.protocol = DOMAIN ProtocolDefault /\ "peak" \in DOMAIN report.protocol.grpc
      /\ "grpc" \in DOMAIN ProtocolDefault
  BY Zenon DEF H2Inv, H2Held, H2Counted, ProtocolDefault
<1>1. PICK top \in Nat, n \in Nat, p \in Nat :
        /\ Cardinality(Workers) = top /\ Cardinality(At(H2!InCall)) = n /\ session.active = n
        /\ report.protocol.grpc.peak = p /\ p <= top
        /\ \A w \in At(H2!InCall) : it[w].active \in 0 .. top
  <2>1. At(H2!InCall) \subseteq Workers
    BY Zenon DEF At
  <2>2. Cardinality(Workers) \in Nat /\ Cardinality(At(H2!InCall)) \in Nat
    BY <2>1, SharedSessionsAssumption, FS_Subset, FS_CardinalityType, Zenon
  <2> QED BY <2>2 DEF H2Counted
\* What a step of one worker does to the calls in flight.
<1>2. ASSUME NEW w \in Workers, NEW at, NEW x, pc' = [pc EXCEPT ![w] = at], it' = [it EXCEPT ![w] = x],
             NEW n1 \in Int, session'.active = n1,
             pc[w] \notin H2!InCall /\ at \notin H2!InCall => n1 = n,
             pc[w] \in H2!InCall /\ at \in H2!InCall => n1 = n /\ x.active = it[w].active,
             pc[w] \notin H2!InCall /\ at \in H2!InCall => n1 = n + 1 /\ x.active = n + 1,
             pc[w] \in H2!InCall /\ at \notin H2!InCall => n1 = n - 1
      PROVE  /\ session'.active = Cardinality((At(H2!InCall))')
             /\ \A v \in (At(H2!InCall))' : it'[v].active \in 0 .. top
  <2> DEFINE S == At(H2!InCall)
             T == (At(H2!InCall))'
  <2>1. /\ S \subseteq Workers /\ T \subseteq Workers /\ \A v \in Workers \ {w} : v \in S <=> v \in T
        /\ w \in S <=> pc[w] \in H2!InCall
        /\ w \in T <=> at \in H2!InCall
        /\ it'[w] = x /\ \A v \in Workers \ {w} : it'[v] = it[v]
    BY <1>0, <1>2, Zenon DEF At
  <2> HIDE DEF S, T
  <2>2. /\ Cardinality(T) \in Nat /\ Cardinality(T) <= top
        /\ w \in S /\ w \notin T => Cardinality(T) + 1 = Cardinality(S)
        /\ w \notin S /\ w \in T => Cardinality(T) = Cardinality(S) + 1
        /\ (w \in S <=> w \in T) => Cardinality(T) = Cardinality(S)
    BY <1>1, <2>1, CountMoves
  <2>3. Cardinality(S) = n
    BY <1>1, Zenon DEF S
  <2>4. n1 = Cardinality(T)
    BY <1>2, <2>1, <2>2, <2>3
  <2>5. ASSUME NEW v \in T PROVE it'[v].active \in 0 .. top
    <3>1. CASE v # w
      <4>1. v \in S /\ it'[v] = it[v]
        BY <2>1, <2>5, <3>1, Zenon
      <4> QED BY <1>1, <4>1, Zenon DEF S
    <3>2. CASE v = w /\ w \in S
      <4>1. it'[w].active = it[w].active
        BY <1>2, <2>1, <2>5, <3>2, Zenon
      <4> QED BY <1>1, <3>2, <4>1, Zenon DEF S
    <3>3. CASE v = w /\ w \notin S
      <4>1. it'[w].active = n + 1 /\ n + 1 = Cardinality(T)
        BY <1>2, <2>1, <2>2, <2>3, <2>5, <3>3, Zenon
      <4> QED BY <2>2, <3>3, <4>1
    <3> QED BY <3>1, <3>2, <3>3, Zenon
  <2> QED BY <1>2, <2>4, <2>5, Zenon DEF T
<1>3. ASSUME /\ session'.active = Cardinality((At(H2!InCall))')
             /\ \A v \in (At(H2!InCall))' : it'[v].active \in 0 .. top,
             report'.protocol = report.protocol
      PROVE  H2Counted'
  BY <1>0, <1>1, <1>3, Zenon DEF H2Counted
<1>4. ASSUME NEW w \in Workers, NEW f, H2!EndOf(w, H2!Builder(0, f))
      PROVE  /\ pc' = [pc EXCEPT ![w] = "idle"] /\ it' = [it EXCEPT ![w] = H2!NoIteration]
             /\ report'.protocol = report.protocol
  BY <1>4, Zenon DEF H2!EndOf, H2!GoTo, H2!Add, H2!Builder, H2!NoSample, H2!RecordProtocol
<1>5. H2!InCall = {"send", "read"} /\ n \in Int /\ n - 1 \in Int /\ n + 1 \in Int
  BY DEF H2!InCall
\* The steps of a worker that is not in a call, and does not begin one.
<1>6. ASSUME NEW w \in Workers, NEW at, NEW x, pc' = [pc EXCEPT ![w] = at], it' = [it EXCEPT ![w] = x],
             session'.active = session.active, pc[w] \notin H2!InCall, at \notin H2!InCall,
               report'.protocol = report.protocol
      PROVE  H2Counted'
  BY <1>1, <1>2, <1>3, <1>5, <1>6, Zenon
\* The call of a worker ends.
<1>7. ASSUME NEW w \in Workers, NEW x, pc' = [pc EXCEPT ![w] = "idle"], it' = [it EXCEPT ![w] = x],
             session' = H2!Released, pc[w] \in H2!InCall
      PROVE  /\ session'.active = Cardinality((At(H2!InCall))')
             /\ \A v \in (At(H2!InCall))' : it'[v].active \in 0 .. top
  <2>1. session'.active = n - 1
    BY <1>0, <1>1, <1>7, Zenon DEF H2!Released
  <2>2. "idle" \notin H2!InCall
    BY <1>5, Zenon
  <2> QED BY <1>2, <1>5, <1>7, <2>1, <2>2, Zenon
<1>8. ASSUME NEW w \in Workers, NEW f, H2!Begin(w, f) PROVE H2Counted'
  <2>1. session' = session /\ pc[w] = "idle"
    BY <1>8, Zenon DEF H2!Begin, H2!BeginAs, H2!MayBeginAs
  <2>2. CASE H2!EndOf(w, H2!Builder(0, f))
    BY <1>4, <1>5, <1>6, <2>1, <2>2, Zenon
  <2>3. CASE it' = [it EXCEPT ![w] = [fault |-> f]] /\ pc' = [pc EXCEPT ![w] = "get"] /\ report' = report
    BY <1>5, <1>6, <2>1, <2>3, Zenon
  <2> QED BY <1>8, <2>2, <2>3, Zenon DEF H2!Begin, H2!BeginAs, H2!GoTo
<1>9. ASSUME NEW w \in Workers, H2!Reuse(w) \/ H2!Dial(w) \/ H2!Connect(w) \/ H2!OpenFails(w) PROVE H2Counted'
  <2>1. /\ pc[w] \in {"get", "dial", "ready"} /\ session'.active = session.active /\ report' = report
        /\ \E at \in {"ready", "dial", "clear"} : pc' = [pc EXCEPT ![w] = at]
    BY <1>0, <1>9, Zenon DEF H2!Reuse, H2!Dial, H2!Connect, H2!OpenFails, H2!GoTo
  <2>2. \E x : it' = [it EXCEPT ![w] = x]
    <3>1. it = [it EXCEPT ![w] = it[w]]
      BY <1>0, Zenon
    <3>2. CASE H2!Dial(w) \/ H2!OpenFails(w)
      BY <3>1, <3>2, Zenon DEF H2!Dial, H2!OpenFails
    <3>3. CASE H2!Reuse(w) \/ H2!Connect(w)
      BY <3>3, Zenon DEF H2!Reuse, H2!Connect
    <3> QED BY <1>9, <3>2, <3>3, Zenon
  <2> QED BY <1>5, <1>6, <2>1, <2>2, Zenon
<1>10. ASSUME NEW w \in Workers, H2!ConnectFails(w) \/ H2!Clear(w) PROVE H2Counted'
  <2>1. pc[w] \in {"dial", "clear"} /\ session'.active = session.active
          /\ H2!EndOf(w, H2!Builder(0, it[w].fault))
    BY <1>0, <1>10, Zenon DEF H2!ConnectFails, H2!Clear, H2!Error
  <2> QED BY <1>4, <1>5, <1>6, <2>1
<1>11. ASSUME NEW w \in Workers, H2!Open(w) PROVE H2Counted'
  <2> DEFINE x == [fault |-> it[w].fault, conn |-> it[w].conn, reused |-> it[w].reused,
    active |-> session.active + 1,
                   at |-> 0, events |-> 0, capacity |-> H2!Highest]
  <2>1. /\ pc[w] = "ready" /\ pc' = [pc EXCEPT ![w] = "send"] /\ session'.active = n + 1 /\ report' = report
    BY <1>0, <1>1, <1>11, Zenon DEF H2!Open, H2!GoTo
  <2>2. it' = [it EXCEPT ![w] = x]
    BY <1>11, Zenon DEF H2!Open
  <2>3. x.active = n + 1
    BY <1>1, Zenon
  <2> HIDE DEF x
  <2> QED BY <1>2, <1>3, <1>5, <2>1, <2>2, <2>3, Zenon
<1>12. ASSUME NEW w \in Workers, NEW k, NEW stalled, H2!Send(w, k, stalled) PROVE H2Counted'
  <2>1. /\ pc[w] = "send" /\ report' = report /\ session' = session
        /\ \E at \in {"read", "send"} : pc' = [pc EXCEPT ![w] = at]
    BY <1>12, Zenon DEF H2!Send, H2!GoTo
  <2>2. PICK x, y, z : it' = [it EXCEPT ![w] = [it[w] EXCEPT !.at = x, !.events = y, !.capacity = z]]
    BY <1>12, ZenonT(40) DEF H2!Send
  <2> DEFINE u == [it[w] EXCEPT !.at = x, !.events = y, !.capacity = z]
  <2>3. u.active = it[w].active /\ it' = [it EXCEPT ![w] = u]
    BY <2>2
  <2> HIDE DEF u
  <2> QED BY <1>1, <1>2, <1>3, <1>5, <2>1, <2>3, Zenon
<1>13. ASSUME NEW w \in Workers, H2!CallFails(w) PROVE H2Counted'
  <2>1. pc[w] \in H2!InCall /\ session' = H2!Released /\ H2!EndOf(w, H2!Builder(0, it[w].fault))
    BY <1>13, Zenon DEF H2!CallFails, H2!Error
  <2> QED BY <1>3, <1>4, <1>7, <2>1, Zenon
<1>14. ASSUME NEW w \in Workers, NEW ok, NEW trailers, NEW head, H2!Answer(w, ok, trailers, head)
       PROVE  H2Counted'
  <2>1. PICK status, reused, connection, exhausted, capacity :
          H2!EndOf(w, [H2!Error(w) EXCEPT !.status = status, !.reused = reused, !.connection = connection,
                         !.sample = [H2!GrpcSample EXCEPT !.active = it[w].active, !.exhausted = exhausted,
                                                          !.capacity = capacity]])
    BY <1>14, ZenonT(40) DEF H2!Answer
  <2> DEFINE s == [H2!GrpcSample EXCEPT !.active = it[w].active, !.exhausted = exhausted, !.capacity = capacity]
             m == [H2!Error(w) EXCEPT !.status = status, !.reused = reused, !.connection = connection,
                    !.sample = s]
  <2>2. s.kind = "grpc" /\ s.active = it[w].active
    BY Zenon DEF H2!GrpcSample
  <2>3. m.sample = s
    BY Zenon DEF H2!Error, H2!Builder
  <2>4. H2!EndOf(w, m) /\ session' = H2!Released /\ pc[w] \in H2!InCall
    BY <1>5, <1>14, <2>1, Zenon DEF H2!Answer
  <2> HIDE DEF m, s
  <2>5. /\ pc' = [pc EXCEPT ![w] = "idle"] /\ \E x : it' = [it EXCEPT ![w] = x]
        /\ report'.protocol = [report.protocol EXCEPT !.grpc = H2!RecordGrpc(report.protocol.grpc, s)]
    BY <2>2, <2>3, <2>4, Zenon DEF H2!EndOf, H2!GoTo, H2!Add, H2!RecordProtocol
  <2>6. /\ session'.active = Cardinality((At(H2!InCall))')
        /\ \A v \in (At(H2!InCall))' : it'[v].active \in 0 .. top
    BY <1>7, <2>4, <2>5, Zenon
  <2>7. it[w].active \in 0 .. top
    BY <1>1, <2>4, Zenon DEF At
  <2>8. "peak" \in DOMAIN H2!RecordGrpc(report.protocol.grpc, s)
          /\ H2!RecordGrpc(report.protocol.grpc, s).peak \in 0 .. top
    BY <1>0, <1>1, <2>2, <2>7 DEF H2!RecordGrpc, H2!Larger
  <2>9. /\ DOMAIN report'.protocol = DOMAIN ProtocolDefault
        /\ report'.protocol.grpc = H2!RecordGrpc(report.protocol.grpc, s)
    BY <1>0, <2>5, Zenon
  <2> QED BY <1>1, <2>6, <2>8, <2>9, Zenon DEF H2Counted
<1>15. ASSUME NEW w \in Workers, H2!Deadline(w) PROVE H2Counted'
  <2>1. /\ pc' = [pc EXCEPT ![w] = "idle"] /\ it' = [it EXCEPT ![w] = H2!NoIteration]
             /\ report'.protocol = report.protocol
    BY <1>4, <1>15, Zenon DEF H2!Deadline, H2!CutShortOf
  <2>2. CASE pc[w] \in H2!InCall
    <3>1. session' = H2!Released
      BY <1>5, <1>15, <2>2, Zenon DEF H2!Deadline
    <3> QED BY <1>3, <1>7, <2>1, <2>2, <3>1, Zenon
  <2>3. CASE pc[w] \notin H2!InCall
    <3>1. session'.active = session.active
      BY <1>0, <1>15, <2>3, Zenon DEF H2!Deadline
    <3> QED BY <1>5, <1>6, <2>1, <2>3, <3>1, Zenon
  <2> QED BY <2>2, <2>3, Zenon
<1>16. CASE UNCHANGED loopVars \/ \E c : H2!Die(c)
  <2>1. UNCHANGED <<pc, it, report, session>>
    BY <1>16, Zenon DEF H2!Die, loopVars
  <2> QED BY <2>1, Zenon DEF H2Counted, At
<1> QED
  BY <1>8, <1>9, <1>10, <1>11, <1>12, <1>13, <1>14, <1>15, <1>16, Zenon DEF H2!Next

-----------------------------------------------------------------------------
\* The invariant of the engine: the permit is held by whoever makes the pool.
DbInv ==
    /\ pc \in [Workers -> {"idle", "pool", "init", "acquire", "query"}]
    /\ DOMAIN session = {"cell", "init", "size"} /\ session.init \in Workers \cup {"nobody"}
    /\ Db!PermitIsHeldToConnect

\* The engine starts in its invariant.
LEMMA DbStarts == Db!Init => DbInv
BY SharedSessionsAssumption DEF Db!Init, Db!AllIdle, DbInv, Db!PermitIsHeldToConnect, Db!Nobody

\* Every step of the engine keeps its invariant.
LEMMA DbInductive == DbInv /\ [Db!Next]_loopVars => DbInv'
<1> SUFFICES ASSUME DbInv, [Db!Next]_loopVars PROVE DbInv'
  OBVIOUS
<1> USE SharedSessionsAssumption DEF DbInv, Db!PermitIsHeldToConnect, Db!Nobody, Db!GoTo, Db!EndOf
<1>1. ASSUME NEW w \in Workers, NEW f, Db!Begin(w, f) PROVE DbInv'
  BY <1>1, Zenon DEF Db!Begin, Db!BeginAs, Db!MayBeginAs
<1>2. ASSUME NEW w \in Workers, Db!PoolIsThere(w) PROVE DbInv'
  BY <1>2, Zenon DEF Db!PoolIsThere
<1>3. ASSUME NEW w \in Workers, Db!InitPool(w) PROVE DbInv'
  BY <1>3, Zenon DEF Db!InitPool
<1>4. ASSUME NEW w \in Workers, Db!PoolConnects(w) PROVE DbInv'
  BY <1>4, Zenon DEF Db!PoolConnects
<1>5. ASSUME NEW w \in Workers, Db!PoolConnectFails(w) PROVE DbInv'
  BY <1>5, Zenon DEF Db!PoolConnectFails, Db!Fail
<1>6. ASSUME NEW w \in Workers, Db!Acquire(w) PROVE DbInv'
  BY <1>6, Zenon DEF Db!Acquire
<1>7. ASSUME NEW w \in Workers, Db!AcquireFails(w) PROVE DbInv'
  BY <1>7, Zenon DEF Db!AcquireFails, Db!Fail
<1>8. ASSUME NEW w \in Workers, NEW n, Db!QuerySucceeds(w, n) PROVE DbInv'
  BY <1>8, Zenon DEF Db!QuerySucceeds
<1>9. ASSUME NEW w \in Workers, Db!QueryFails(w) PROVE DbInv'
  BY <1>9, Zenon DEF Db!QueryFails, Db!Fail
<1>10. ASSUME NEW w \in Workers, Db!Deadline(w) PROVE DbInv'
  BY <1>10, Zenon DEF Db!Deadline, Db!CutShortOf
<1>11. CASE Db!Outage \/ Db!Recovery \/ UNCHANGED loopVars
  BY <1>11, Zenon DEF Db!Outage, Db!Recovery, loopVars
<1> QED
  BY <1>1, <1>2, <1>3, <1>4, <1>5, <1>6, <1>7, <1>8, <1>9, <1>10, <1>11, Zenon DEF Db!Next

\* The account of workers that start.
LEMMA DbAccountsStart == Db!Init => SharedAccounted
BY SharedAccountStarts DEF Db!Init, Db!AllIdle, Db!NoIteration, NoIteration, Db!NoReport, Db!NoPast, NoPast

\* Every step of the engine keeps the account.
LEMMA DbAccounts == SharedAccounted /\ [Db!Next]_loopVars => SharedAccounted'
<1> SUFFICES ASSUME SharedAccounted, [Db!Next]_loopVars PROVE SharedAccounted'
  OBVIOUS
<1>0. /\ DOMAIN past = {"iterations", "selected", "cut", "dropped", "losses", "connections", "frames"}
      /\ <<>> \in SelectFault /\ Len(<<>>) = 0 /\ report.injected \in Nat
      /\ NoIteration.fault = <<>> /\ "fault" \in DOMAIN NoIteration
      /\ it = [w \in Workers |-> it[w]]
      /\ \A w \in Workers : "fault" \in DOMAIN it[w] /\ Len(it[w].fault) \in Nat
  BY OneFault, Zenon DEF SharedAccounted, NoPast, SelectFault, NoIteration
<1>1. ASSUME NEW w \in Workers, NEW f \in SelectFault, Db!Begin(w, f) PROVE SharedAccounted'
  <2>1. DOMAIN past' = DOMAIN past /\ past'.selected = past.selected + Len(f) /\ past'.cut = past.cut
          /\ pc[w] = "idle"
    BY <1>0, <1>1, Zenon DEF Db!Begin, Db!BeginAs, Db!Begun, Db!MayBeginAs
  <2>2. CASE Db!EndOf(w, Db!Builder(0, f))
    <3>1. /\ pc' = [pc EXCEPT ![w] = "idle"] /\ it' = [it EXCEPT ![w] = NoIteration]
          /\ report'.injected = report.injected + Len(f)
      BY <2>2, Zenon DEF Db!EndOf, Db!GoTo, Db!Add, Db!Builder, Db!NoIteration, NoIteration
    <3> QED BY <2>1, <3>1, SharedEndsAtOnce, Zenon
  <2>3. CASE it' = [it EXCEPT ![w] = [fault |-> f]] /\ pc' = [pc EXCEPT ![w] = "pool"] /\ report' = report
    <3> DEFINE x == [fault |-> f]
    <3>1. x.fault = f /\ "fault" \in DOMAIN x /\ it' = [it EXCEPT ![w] = x]
      BY <2>3, Zenon
    <3>2. pc' = [pc EXCEPT ![w] = "pool"] /\ report' = report /\ "pool" # "idle"
      BY <2>3, Zenon
    <3> HIDE DEF x
    <3> QED BY <2>1, <3>1, <3>2, SharedBegins, Zenon
  <2> QED BY <1>1, <2>2, <2>3, Zenon DEF Db!Begin, Db!BeginAs, Db!GoTo
<1>2. ASSUME NEW w \in Workers, Db!PoolIsThere(w) \/ Db!InitPool(w) \/ Db!PoolConnects(w) \/ Db!Acquire(w)
      PROVE  SharedAccounted'
  <2>1. /\ pc[w] # "idle" /\ report' = report /\ past' = past /\ it' = [it EXCEPT ![w] = it[w]]
        /\ \E at \in {"acquire", "init", "query"} : pc' = [pc EXCEPT ![w] = at]
    BY <1>0, <1>2, Zenon DEF Db!PoolIsThere, Db!InitPool, Db!PoolConnects, Db!Acquire, Db!GoTo
  <2> QED BY <1>0, <2>1, SharedKept, Zenon
<1>3. ASSUME NEW w \in Workers, NEW m, Db!EndOf(w, m), m.fault = it[w].fault, past' = past
      PROVE  SharedAccounted'
  <2>1. /\ pc' = [pc EXCEPT ![w] = "idle"] /\ it' = [it EXCEPT ![w] = NoIteration]
        /\ report'.injected = report.injected + Len(it[w].fault)
    BY <1>3, Zenon DEF Db!EndOf, Db!GoTo, Db!Add, Db!NoIteration, NoIteration
  <2> QED BY <1>0, <1>3, <2>1, SharedKept, Zenon
<1>4. ASSUME NEW w \in Workers, Db!PoolConnectFails(w) \/ Db!AcquireFails(w) \/ Db!QueryFails(w)
      PROVE  SharedAccounted'
  <2>1. PICK a, q : Db!EndOf(w, Db!Failed(w, a, q)) /\ past' = past
    BY <1>4, Zenon DEF Db!PoolConnectFails, Db!AcquireFails, Db!QueryFails, Db!Fail
  <2>2. Db!Failed(w, a, q).fault = it[w].fault
    BY Zenon DEF Db!Failed, Db!Builder
  <2> QED BY <1>3, <2>1, <2>2, Zenon
<1>5. ASSUME NEW w \in Workers, NEW n, Db!QuerySucceeds(w, n) PROVE SharedAccounted'
  <2>1. PICK status, sample : Db!EndOf(w,
               [Db!Builder(0, it[w].fault) EXCEPT !.status = status, !.sample = sample])
    BY <1>5, ZenonT(40) DEF Db!QuerySucceeds
  <2> DEFINE m == [Db!Builder(0, it[w].fault) EXCEPT !.status = status, !.sample = sample]
  <2>2. m.fault = it[w].fault
    BY Zenon DEF Db!Builder
  <2>3. Db!EndOf(w, m) /\ past' = past
    BY <1>5, <2>1, Zenon DEF Db!QuerySucceeds
  <2> HIDE DEF m
  <2> QED BY <1>3, <2>2, <2>3, Zenon
<1>6. ASSUME NEW w \in Workers, Db!Deadline(w) PROVE SharedAccounted'
  <2>1. /\ pc' = [pc EXCEPT ![w] = "idle"] /\ it' = [it EXCEPT ![w] = NoIteration]
        /\ report'.injected = report.injected /\ DOMAIN past' = DOMAIN past
        /\ past'.cut = past.cut + Len(it[w].fault) /\ past'.selected = past.selected
    BY <1>0, <1>6
       DEF Db!Deadline, Db!CutShortOf, Db!EndOf, Db!GoTo, Db!Add, Db!Builder, Db!NoIteration, NoIteration
  <2> QED BY <1>0, <2>1, SharedKept, Zenon
<1>7. CASE UNCHANGED loopVars \/ Db!Outage \/ Db!Recovery
  <2>1. /\ UNCHANGED <<pc, it, report>> /\ DOMAIN past' = DOMAIN past
        /\ past'.cut = past.cut /\ past'.selected = past.selected
    BY <1>0, <1>7, Zenon DEF Db!Outage, Db!Recovery, loopVars
  <2> QED BY <2>1, SharedRests, Zenon
<1> QED
  BY <1>1, <1>2, <1>4, <1>5, <1>6, <1>7, Zenon DEF Db!Next, Db!SelectFault, SelectFault

\* The places of an iteration that has asked for the pool.
DbAsked == {"init", "acquire", "query"}

\* The figures of the report: k of the queries succeeded.
DbFigures(q, r, e, p, k) ==
    /\ q \in Nat /\ r \in Nat /\ e \in Nat /\ k \in Nat /\ p \in 0 .. PoolMax
    /\ DOMAIN report.protocol = DOMAIN ProtocolDefault
    /\ report.protocol.db.queries = q /\ report.protocol.db.rows = r
    /\ report.protocol.db.errors = e /\ report.protocol.db.pool = p
    /\ q = e + k
    /\ Fetch /\ MaxRows # 0 => r <= MaxRows * k

\* The figures of the report, of the pool and of what happened.
DbCounted ==
    /\ session.size \in 0 .. PoolMax
    /\ truth \in [asked : Nat, failed : Nat, dropped : Nat]
    /\ \E q, r, e, p, k : DbFigures(q, r, e, p, k) /\ e = truth.failed
                          /\ q + truth.dropped + Cardinality(At(DbAsked)) = truth.asked

\* The figures say what the report may claim of the queries.
LEMMA DbCountsAreTrue == DbCounted => Db!CountsAreTrue
<1> SUFFICES ASSUME DbCounted PROVE Db!CountsAreTrue
  OBVIOUS
<1>1. PICK q, r, e, p, k : DbFigures(q, r, e, p, k) /\ e = truth.failed
                           /\ q + truth.dropped + Cardinality(At(DbAsked)) = truth.asked
  BY Zenon DEF DbCounted
<1>2. k = q - e /\ p <= PoolMax
  BY <1>1, SharedSessionsAssumption DEF DbFigures
<1>3. At(DbAsked) = {w \in Workers : pc[w] \in {"init", "acquire", "query"}}
  BY Zenon DEF At, DbAsked
<1>4. /\ q + truth.dropped + Db!Cardinality({w \in Workers :
           pc[w] \in {"init", "acquire", "query"}}) = truth.asked
      /\ report.protocol.db.queries = q /\ report.protocol.db.rows = r
      /\ report.protocol.db.errors = e /\ report.protocol.db.pool = p
      /\ Fetch /\ MaxRows # 0 => r <= MaxRows * (q - e)
  BY <1>1, <1>2, <1>3, SharedCardinality, Zenon DEF DbFigures
<1> QED BY <1>1, <1>2, <1>4, Zenon DEF Db!CountsAreTrue

\* The figures of an engine that starts.
LEMMA DbCountsStart == Db!Init => DbCounted
<1> SUFFICES ASSUME Db!Init PROVE DbCounted
  OBVIOUS
<1>1. At(DbAsked) = {}
  BY Zenon DEF Db!Init, Db!AllIdle, At, DbAsked
<1>2. Cardinality(At(DbAsked)) = 0 /\ 0 \in 0 .. PoolMax /\ MaxRows * 0 = 0
  BY <1>1, FS_EmptySet, SharedSessionsAssumption
<1>3. DOMAIN report.protocol = DOMAIN ProtocolDefault /\ report.protocol.db = Db!DbDefault
  BY Zenon DEF Db!Init, Db!NoReport, Db!ProtocolDefault, ProtocolDefault
<1>4. DbFigures(0, 0, 0, 0, 0)
  BY <1>2, <1>3 DEF DbFigures, Db!DbDefault
<1>5. truth \in [asked : Nat, failed : Nat, dropped : Nat] /\ session.size = 0 /\ truth.failed = 0
      /\ 0 + truth.dropped + 0 = truth.asked
  BY DEF Db!Init
<1> QED BY <1>2, <1>4, <1>5, Zenon DEF DbCounted

\* A cap of m rows for one more query is m rows more.
LEMMA OneMoreQuery == \A m, k \in Nat : m * (k + 1) = m * k + m /\ m * k \in Nat
OBVIOUS

\* Every step of the engine keeps its figures.
LEMMA DbCountsInductive == DbInv /\ DbCounted /\ [Db!Next]_loopVars => DbCounted'
<1> SUFFICES ASSUME DbInv, DbCounted, [Db!Next]_loopVars PROVE DbCounted'
  OBVIOUS
<1>0. /\ pc \in [Workers -> {"idle", "pool", "init", "acquire", "query"}]
      /\ DOMAIN session = {"cell", "init", "size"} /\ session.size \in 0 .. PoolMax
      /\ PoolMax \in Nat /\ PoolMax >= 1 /\ MaxRows \in Nat
      /\ truth \in [asked : Nat, failed : Nat, dropped : Nat]
      /\ "db" \in DOMAIN ProtocolDefault
  BY SharedSessionsAssumption DEF DbInv, DbCounted, ProtocolDefault
<1>1. PICK q \in Nat, r \in Nat, e \in Nat, p \in 0 .. PoolMax,
             k \in Nat : DbFigures(q, r, e, p, k) /\ e = truth.failed
         /\ q + truth.dropped + Cardinality(At(DbAsked)) = truth.asked
  BY DEF DbCounted, DbFigures
<1>2. PICK a \in Nat, d \in Nat, n \in Nat :
         truth.asked = a /\ truth.dropped = d /\ Cardinality(At(DbAsked)) = n /\ q + d + n = a
  <2>1. Cardinality(At(DbAsked)) \in Nat
    BY SharedSessionsAssumption, FS_Subset, FS_CardinalityType, Zenon DEF At
  <2> QED BY <1>0, <1>1, <2>1, Zenon
\* The iterations that have asked, when a worker moves.
<1>3. ASSUME NEW w \in Workers, NEW at, pc' = [pc EXCEPT ![w] = at]
      PROVE  /\ Cardinality((At(DbAsked))') \in Nat
             /\ pc[w] \in DbAsked /\ at \notin DbAsked => Cardinality((At(DbAsked))') + 1 = n
             /\ pc[w] \notin DbAsked /\ at \in DbAsked => Cardinality((At(DbAsked))') = n + 1
             /\ (pc[w] \in DbAsked <=> at \in DbAsked) => Cardinality((At(DbAsked))') = n
  <2> DEFINE S == At(DbAsked)
             T == (At(DbAsked))'
  <2>1. /\ S \subseteq Workers /\ T \subseteq Workers /\ \A v \in Workers \ {w} : v \in S <=> v \in T
        /\ w \in S <=> pc[w] \in DbAsked
        /\ w \in T <=> at \in DbAsked
        /\ Cardinality(S) = n
    BY <1>0, <1>2, <1>3, Zenon DEF At
  <2> HIDE DEF S, T
  <2>2. /\ Cardinality(T) \in Nat
        /\ w \in S /\ w \notin T => Cardinality(T) + 1 = Cardinality(S)
        /\ w \notin S /\ w \in T => Cardinality(T) = Cardinality(S) + 1
        /\ (w \in S <=> w \in T) => Cardinality(T) = Cardinality(S)
    BY <2>1, CountMoves
  <2> QED BY <2>1, <2>2, Zenon DEF T
<1>4. ASSUME NEW q1 \in Nat, NEW r1 \in Nat, NEW e1 \in Nat, NEW p1 \in 0 .. PoolMax, NEW k1 \in Nat,
             NEW a1 \in Nat, NEW d1 \in Nat, NEW n1 \in Nat,
             DbFigures(q1, r1, e1, p1, k1)', truth' \in [asked : Nat, failed : Nat, dropped : Nat],
             truth'.failed = e1, truth'.asked = a1, truth'.dropped = d1, session'.size \in 0 .. PoolMax,
             Cardinality((At(DbAsked))') = n1, q1 + d1 + n1 = a1
      PROVE  DbCounted'
  BY <1>4, Zenon DEF DbCounted
<1>5. ASSUME report'.protocol = report.protocol PROVE DbFigures(q, r, e, p, k)'
  BY <1>1, <1>5, Zenon DEF DbFigures
<1>6. ASSUME NEW w \in Workers, NEW f, Db!EndOf(w, Db!Builder(0, f))
      PROVE  pc' = [pc EXCEPT ![w] = "idle"] /\ report'.protocol = report.protocol
  BY <1>6, Zenon DEF Db!EndOf, Db!GoTo, Db!Add, Db!Builder, Db!NoSample, Db!RecordProtocol
<1>7. DbAsked = {"init", "acquire", "query"}
  BY Zenon DEF DbAsked
\* A metric with a sample.
<1>8. ASSUME NEW w \in Workers, NEW m, Db!EndOf(w, m), m.sample.kind = "db",
             m.sample.errors # 0 \/ m.sample.acquire # <<>>,
             DOMAIN m.sample = DOMAIN Db!DbSample
      PROVE  /\ pc' = [pc EXCEPT ![w] = "idle"]
             /\ DOMAIN report'.protocol = DOMAIN report.protocol
             /\ report'.protocol.db.queries = q + 1 /\ report'.protocol.db.rows = r + m.sample.rows
             /\ report'.protocol.db.errors = e + m.sample.errors
             /\ report'.protocol.db.pool = IF m.sample.pool > 0 THEN m.sample.pool ELSE p
  <2>1. Db!Significant(m.sample, Db!DbSample)
    BY <1>8, Zenon DEF Db!Significant, Db!DbSample
  <2>2. DOMAIN report.protocol = DOMAIN ProtocolDefault
    BY <1>1, Zenon DEF DbFigures
  <2>3. report'.protocol = [report.protocol EXCEPT !.db = Db!RecordDb(report.protocol.db, m.sample)]
    BY <1>8, Zenon DEF Db!EndOf, Db!Add, Db!RecordProtocol
  <2>4. DOMAIN report'.protocol = DOMAIN report.protocol
          /\ report'.protocol.db = Db!RecordDb(report.protocol.db, m.sample)
    BY <1>0, <2>2, <2>3, Zenon
  <2> QED BY <1>1, <1>8, <2>1, <2>4 DEF Db!RecordDb, Db!GoTo, Db!EndOf, DbFigures
<1>9. ASSUME NEW w \in Workers, NEW acquire, NEW query, Db!Fail(w, acquire, query), pc[w] \in DbAsked,
             session'.size = session.size
      PROVE  DbCounted'
  <2> DEFINE m == Db!Failed(w, acquire, query)
  <2>1. /\ m.sample.kind = "db" /\ m.sample.errors = 1 /\ m.sample.rows = 0 /\ m.sample.pool = session.size
        /\ DOMAIN m.sample = DOMAIN Db!DbSample
    BY Zenon DEF Db!Failed, Db!Builder, Db!DbSample
  <2>2. Db!EndOf(w, m) /\ truth' = [truth EXCEPT !.failed = truth.failed + 1]
    BY <1>9, Zenon DEF Db!Fail
  <2> HIDE DEF m
  <2>3. PICK p1 \in 0 .. PoolMax : p1 = IF session.size > 0 THEN session.size ELSE p
    BY <1>0, Zenon
  <2>4. /\ pc' = [pc EXCEPT ![w] = "idle"] /\ DOMAIN report'.protocol = DOMAIN report.protocol
        /\ report'.protocol.db.queries = q + 1 /\ report'.protocol.db.rows = r
        /\ report'.protocol.db.errors = e + 1 /\ report'.protocol.db.pool = p1
    <3>1. r + 0 = r /\ 1 # 0
      OBVIOUS
    <3> QED BY <1>8, <2>1, <2>2, <2>3, <3>1, SMTT(30)
  <2>5. DbFigures(q + 1, r, e + 1, p1, k)'
    BY <1>1, <2>4 DEF DbFigures
  <2>6. PICK n1 \in Nat : Cardinality((At(DbAsked))') = n1 /\ n1 + 1 = n
    <3>1. "idle" \notin DbAsked
      BY Zenon DEF DbAsked
    <3> QED BY <1>3, <1>9, <2>4, <3>1, Zenon
  <2>7. /\ truth' \in [asked : Nat, failed : Nat, dropped : Nat] /\ truth'.failed = e + 1
        /\ truth'.asked = a /\ truth'.dropped = d
    BY <1>0, <1>1, <1>2, <2>2
  <2>8. q + 1 \in Nat /\ e + 1 \in Nat /\ (q + 1) + d + n1 = a
    BY <1>2, <2>6
  <2> QED BY <1>0, <1>4, <1>9, <2>5, <2>6, <2>7, <2>8, Zenon
<1>10. ASSUME NEW w \in Workers, NEW available \in 0 .. 2, Db!QuerySucceeds(w, available) PROVE DbCounted'
  <2> DEFINE s == [Db!DbSample EXCEPT !.rows = Db!Rows(available), !.acquire = <<0>>, !.query = <<0>>,
    !.pool = session.size]
             m == [Db!Builder(0, it[w].fault) EXCEPT !.status = 200, !.sample = s]
  <2>1. /\ s.kind = "db" /\ s.errors = 0 /\ s.rows = Db!Rows(available) /\ s.pool = session.size
             /\ s.acquire # <<>>
        /\ DOMAIN s = DOMAIN Db!DbSample
    BY Zenon DEF Db!DbSample
  <2>2. m.sample = s
    BY Zenon DEF Db!Builder
  <2>3. Db!EndOf(w, m) /\ truth' = truth /\ session' = session /\ pc[w] = "query"
    BY <1>10, Zenon DEF Db!QuerySucceeds
  <2> HIDE DEF m, s
  <2>4. PICK p1 \in 0 .. PoolMax : p1 = IF session.size > 0 THEN session.size ELSE p
    BY <1>0, Zenon
  <2>5. PICK z \in Nat : Db!Rows(available) = z /\ (Fetch /\ MaxRows # 0 => z <= MaxRows)
    BY <1>0, <1>10 DEF Db!Rows, Db!Smaller
  <2>6. /\ pc' = [pc EXCEPT ![w] = "idle"] /\ DOMAIN report'.protocol = DOMAIN report.protocol
        /\ report'.protocol.db.queries = q + 1 /\ report'.protocol.db.rows = r + z
        /\ report'.protocol.db.errors = e /\ report'.protocol.db.pool = p1
    <3>1. e + 0 = e
      OBVIOUS
    <3> QED BY <1>8, <2>1, <2>2, <2>3, <2>4, <2>5, <3>1
  <2>7. ASSUME Fetch, MaxRows # 0 PROVE r + z <= MaxRows * (k + 1)
    <3>1. PICK y \in Nat : y = MaxRows * k /\ MaxRows * (k + 1) = y + MaxRows
      BY <1>0, OneMoreQuery, Zenon
    <3>2. r <= y /\ z <= MaxRows
      BY <1>1, <2>5, <2>7, <3>1, Zenon DEF DbFigures
    <3> QED BY <1>0, <3>1, <3>2
  <2>8. DbFigures(q + 1, r + z, e, p1, k + 1)'
    <3>1. q + 1 = e + (k + 1) /\ DOMAIN report.protocol = DOMAIN ProtocolDefault
      BY <1>1 DEF DbFigures
    <3> QED BY <2>6, <2>7, <3>1 DEF DbFigures
  <2>9. PICK n1 \in Nat : Cardinality((At(DbAsked))') = n1 /\ n1 + 1 = n
    <3>1. "idle" \notin DbAsked /\ "query" \in DbAsked
      BY Zenon DEF DbAsked
    <3> QED BY <1>3, <2>3, <2>6, <3>1, Zenon
  <2>10. q + 1 \in Nat /\ r + z \in Nat /\ k + 1 \in Nat /\ (q + 1) + d + n1 = a
    BY <1>2, <2>9
  <2> QED BY <1>0, <1>1, <1>2, <1>4, <2>3, <2>8, <2>9, <2>10, ZenonT(40)
<1>11. ASSUME NEW w \in Workers, NEW f, Db!Begin(w, f) PROVE DbCounted'
  <2>1. session' = session /\ truth' = truth /\ pc[w] = "idle"
    BY <1>11, Zenon DEF Db!Begin, Db!BeginAs, Db!MayBeginAs
  <2>2. report'.protocol = report.protocol /\ \E at \in {"idle", "pool"} : pc' = [pc EXCEPT ![w] = at]
    BY <1>6, <1>11, Zenon DEF Db!Begin, Db!BeginAs, Db!GoTo
  <2>3. Cardinality((At(DbAsked))') = n
    BY <1>3, <1>7, <2>1, <2>2, Zenon
  <2> QED BY <1>0, <1>1, <1>2, <1>4, <1>5, <2>1, <2>2, <2>3, Zenon
<1>12. ASSUME NEW w \in Workers, Db!PoolIsThere(w) \/ Db!InitPool(w) PROVE DbCounted'
  <2>1. /\ session'.size = session.size /\ report' = report /\ pc[w] = "pool" /\ truth' = Db!Asked
        /\ \E at \in {"acquire", "init"} : pc' = [pc EXCEPT ![w] = at]
    BY <1>0, <1>12, Zenon DEF Db!PoolIsThere, Db!InitPool, Db!GoTo
  <2>2. Cardinality((At(DbAsked))') = n + 1
    BY <1>3, <1>7, <2>1, Zenon
  <2>3. /\ truth' \in [asked : Nat, failed : Nat, dropped : Nat] /\ truth'.failed = e
        /\ truth'.asked = a + 1 /\ truth'.dropped = d
    BY <1>0, <1>1, <1>2, <2>1 DEF Db!Asked
  <2>4. n + 1 \in Nat /\ a + 1 \in Nat /\ q + d + (n + 1) = a + 1
    BY <1>2
  <2> QED BY <1>0, <1>4, <1>5, <2>1, <2>2, <2>3, <2>4, SMTT(30)
<1>13. ASSUME NEW w \in Workers, Db!PoolConnects(w) \/ Db!Acquire(w) PROVE DbCounted'
  <2>1. report' = report /\ truth' = truth /\ pc[w] \in DbAsked /\ \E at \in DbAsked :
          pc' = [pc EXCEPT ![w] = at]
    BY <1>7, <1>13, Zenon DEF Db!PoolConnects, Db!Acquire, Db!GoTo
  <2>2. session'.size \in 0 .. PoolMax
    <3>1. CASE Db!PoolConnects(w)
      BY <1>0, <3>1 DEF Db!PoolConnects
    <3>2. CASE Db!Acquire(w)
      <4>1. Cardinality(Db!Holders) \in Nat
        <5>1. IsFiniteSet(Db!Holders)
          BY SharedSessionsAssumption, FS_Subset, Zenon DEF Db!Holders
        <5> QED BY <5>1, FS_CardinalityType, Zenon
      <4>2. PICK h \in Nat : Db!Cardinality(Db!Holders) = h
        BY <4>1, SharedCardinality, Zenon
      <4>3. h < PoolMax /\ session'.size = Db!Larger(session.size, h + 1)
        BY <1>0, <3>2, <4>2, Zenon DEF Db!Acquire
      <4> QED BY <1>0, <4>3 DEF Db!Larger
    <3> QED BY <1>13, <3>1, <3>2, Zenon
  <2>3. Cardinality((At(DbAsked))') = n
    BY <1>3, <2>1, Zenon
  <2> QED BY <1>0, <1>1, <1>2, <1>4, <1>5, <2>1, <2>2, <2>3, Zenon
<1>14. ASSUME NEW w \in Workers, Db!PoolConnectFails(w) \/ Db!AcquireFails(w) \/ Db!QueryFails(w)
       PROVE  DbCounted'
  <2>1. pc[w] \in DbAsked /\ session'.size = session.size /\ \E x, y : Db!Fail(w, x, y)
    BY <1>0, <1>7, <1>14, Zenon DEF Db!PoolConnectFails, Db!AcquireFails, Db!QueryFails
  <2> QED BY <1>9, <2>1, Zenon
<1>15. ASSUME NEW w \in Workers, Db!Deadline(w) PROVE DbCounted'
  <2>1. /\ pc' = [pc EXCEPT ![w] = "idle"] /\ report'.protocol = report.protocol /\ pc[w] # "idle"
        /\ session'.size = session.size
    BY <1>0, <1>6, <1>15, Zenon DEF Db!Deadline, Db!CutShortOf
  <2>0. "idle" \notin DbAsked /\ "pool" \notin DbAsked
    BY Zenon DEF DbAsked
  <2>2. CASE pc[w] = "pool"
    <3>1. truth' = [truth EXCEPT !.dropped = truth.dropped + 0]
      BY <1>15, <2>2, Zenon DEF Db!Deadline
    <3>2. truth' = truth
      <4>1. truth.dropped + 0 = truth.dropped
        BY <1>0
      <4> QED BY <1>0, <3>1, <4>1, Zenon
    <3>3. Cardinality((At(DbAsked))') = n
      BY <1>3, <2>0, <2>1, <2>2, Zenon
    <3> QED BY <1>0, <1>1, <1>2, <1>4, <1>5, <2>1, <3>2, <3>3, Zenon
  <2>3. CASE pc[w] \in DbAsked
    <3>1. truth' = [truth EXCEPT !.dropped = truth.dropped + 1]
      BY <1>7, <1>15, <2>3, Zenon DEF Db!Deadline
    <3>2. PICK n1 \in Nat : Cardinality((At(DbAsked))') = n1 /\ n1 + 1 = n
      BY <1>3, <2>0, <2>1, <2>3, Zenon
    <3>3. /\ truth' \in [asked : Nat, failed : Nat, dropped : Nat] /\ truth'.failed = e
          /\ truth'.asked = a /\ truth'.dropped = d + 1
      BY <1>0, <1>1, <1>2, <3>1
    <3>4. d + 1 \in Nat /\ q + (d + 1) + n1 = a
      BY <1>2, <3>2
    <3> QED BY <1>0, <1>4, <1>5, <2>1, <3>2, <3>3, <3>4, Zenon
  <2> QED BY <1>0, <1>7, <2>1, <2>2, <2>3, Zenon
<1>16. CASE UNCHANGED loopVars \/ Db!Outage \/ Db!Recovery
  <2>1. UNCHANGED <<pc, it, report, session, truth>>
    BY <1>16, Zenon DEF Db!Outage, Db!Recovery, loopVars
  <2> QED BY <2>1, ZenonT(40) DEF DbCounted, DbFigures, At
<1> QED
  BY <1>10, <1>11, <1>12, <1>13, <1>14, <1>15, <1>16, Zenon DEF Db!Next
=============================================================================
