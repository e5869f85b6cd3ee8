------------------------ MODULE ReplySessionsProofs -------------------------
(***************************************************************************)
(* Proofs about the engines that read what their requests bring: GraphQL   *)
(* over WebSocket, server-sent events, HTTP/3 and the engines whose        *)
(* iteration is one request.                                               *)
(***************************************************************************)
EXTENDS ReplySessions, Accounts, Integers, TLAPS

\* sse_max_events is absent, or a number.
LEMMA EventsOption == MaxEvents = <<>> \/ \E n \in Nat : MaxEvents = <<n>>
BY ReplySessionsAssumption, Zenon

\* What is reported and what is owed grow with what happened.
LEMMA SumsGrow ==
    /\ \A a, c, x, z, o, o1 \in Nat : a + o <= c /\ x + o1 <= o + z => (a + x) + o1 <= c + z
    /\ \A b, d, y, w \in Nat : b <= d /\ y <= w => b + y <= d + w
    /\ \A a, x \in Nat : a + x \in Nat
OBVIOUS

\* Options of the samples: a duration, a count of one, and the errors that a body was found to
\* have (the parse that is skipped finds none).
SomeOne == <<1>>
Zeros == {<<>>, <<0>>}
Ones == {<<>>, <<1>>}
Found == {<<>>, <<0>>, <<1>>}

USE DEF SomeOne, Zeros, Ones, Found

-----------------------------------------------------------------------------
(* GraphQL over WebSocket.                                                 *)

\* What a server may have put on the way.
GqlFrame == [kind : {"ack", "next", "errors", "complete", "connection_error", "close", "eof", "error"}, n : Nat]

\* The frames that end a subscription.
GqlTerminal == {"errors", "complete", "connection_error"}

\* The server's side: an acknowledgement on the way was sent.
GqlPeer ==
    /\ DOMAIN peer = DOMAIN GraphqlWs!NewPeer
    /\ peer.inbox \in Seq(GqlFrame) /\ peer.acks \in Nat /\ peer.inits \in Nat /\ peer.live \in Nat
    /\ \A i \in 1 .. Len(peer.inbox) : peer.inbox[i].kind = "ack" => peer.acks > 0

\* The subscription lives, or its end is on the way.
GqlAlive == peer.live > 0 \/ \E i \in 1 .. Len(peer.inbox) : peer.inbox[i].kind \in GqlTerminal

\* The invariant of the engine: it subscribes only once acknowledged, waits only on a
\* subscription that lives or whose end is on the way, and keeps no stream it saw end.
GqlInv ==
    /\ DOMAIN session = DOMAIN GraphqlWs!NewSession
    /\ DOMAIN truth = DOMAIN GraphqlWs!NewTruth
    /\ GqlPeer
    /\ pc # "left" =>
         /\ session.initialized => session.stream /\ peer.acks > 0
         /\ session.subscribed => session.initialized
         /\ session.subscribed /\ peer.up /\ ~truth.masked => GqlAlive
    /\ pc \in {"init", "ack"} => session.stream /\ ~session.initialized
    /\ pc = "subscribe" => session.initialized
    /\ pc = "event" => session.subscribed
    /\ truth.dead /\ ~truth.masked => ~session.stream
    /\ GraphqlWs!HandshakeFirst

\* The engine starts in its invariant.
LEMMA GqlStarts == GraphqlWs!Init => GqlInv
BY DEF GraphqlWs!Init, GraphqlWs!NewSession, GraphqlWs!NewPeer, GraphqlWs!NewTruth, GqlInv, GqlPeer,
       GraphqlWs!HandshakeFirst

\* A frame is read.
LEMMA GqlTakes ==
    ASSUME GqlPeer, GraphqlWs!MayRead, peer' = GraphqlWs!Take
    PROVE  /\ GqlPeer' /\ peer'.up = peer.up /\ peer'.acks = peer.acks
           /\ GraphqlWs!Received.kind = "ack" => peer.acks > 0
           /\ GraphqlWs!Received.kind \notin GqlTerminal /\ GqlAlive => GqlAlive'
<1>1. DOMAIN peer = {"up", "inbox", "inits", "acks", "live"}
  BY Zenon DEF GqlPeer, GraphqlWs!NewPeer
<1>2. peer.inbox \in Seq(GqlFrame) /\ peer.inbox # <<>> /\ GraphqlWs!Received = peer.inbox[1]
        /\ 1 \in 1 .. Len(peer.inbox)
  BY DEF GqlPeer, GraphqlWs!MayRead, GraphqlWs!Received
<1>3. /\ DOMAIN peer' = DOMAIN peer /\ peer'.inbox = Tail(peer.inbox)
      /\ peer'.up = peer.up /\ peer'.acks = peer.acks /\ peer'.inits = peer.inits /\ peer'.live = peer.live
  BY <1>1, Zenon DEF GraphqlWs!Take
<1>4. /\ Tail(peer.inbox) \in Seq(GqlFrame)
      /\ \A i \in 1 .. Len(Tail(peer.inbox)) : i + 1 \in 1 .. Len(peer.inbox)
           /\ Tail(peer.inbox)[i] = peer.inbox[i + 1]
      /\ \A i \in 2 .. Len(peer.inbox) : i - 1 \in 1 .. Len(Tail(peer.inbox))
           /\ Tail(peer.inbox)[i - 1] = peer.inbox[i]
  BY <1>2
<1>5. GqlPeer'
  BY <1>3, <1>4 DEF GqlPeer
<1>6. ASSUME GraphqlWs!Received.kind \notin GqlTerminal, NEW i \in 1 .. Len(peer.inbox),
             peer.inbox[i].kind \in GqlTerminal
      PROVE  GqlAlive'
  <2>1. i \in 2 .. Len(peer.inbox)
    BY <1>2, <1>6
  <2> QED BY <1>3, <1>4, <1>6, <2>1, Zenon DEF GqlAlive
<1> QED BY <1>2, <1>3, <1>5, <1>6, Zenon DEF GqlPeer, GqlAlive

\* The server sends a frame.
LEMMA GqlDelivers ==
    ASSUME GqlPeer, NEW frame \in GqlFrame, NEW p, DOMAIN p = DOMAIN peer, p.inbox = peer.inbox, p.acks \in Nat,
           p.live \in Nat, p.inits = peer.inits, p.acks >= peer.acks,
           peer' = [p EXCEPT !.inbox = Append(p.inbox, frame)],
           frame.kind = "ack" => p.acks > 0
    PROVE  /\ GqlPeer' /\ peer'.up = p.up /\ (peer.acks > 0 => peer'.acks > 0)
           /\ frame.kind \in GqlTerminal \/ (p.live >= peer.live /\ GqlAlive) => GqlAlive'
<1>1. DOMAIN peer = {"up", "inbox", "inits", "acks", "live"} /\ peer.inbox \in Seq(GqlFrame)
        /\ peer.acks \in Nat
      /\ peer.live \in Nat /\ peer.inits \in Nat
  BY Zenon DEF GqlPeer, GraphqlWs!NewPeer
<1>2. /\ DOMAIN peer' = DOMAIN peer /\ peer'.inbox = Append(peer.inbox, frame) /\ peer'.acks = p.acks
      /\ peer'.live = p.live /\ peer'.up = p.up /\ peer'.inits = peer.inits
  BY <1>1, Zenon
<1>3. /\ Append(peer.inbox, frame) \in Seq(GqlFrame)
      /\ \A i \in 1 .. Len(Append(peer.inbox, frame)) :
           (i \in 1 .. Len(peer.inbox) /\ Append(peer.inbox, frame)[i] = peer.inbox[i])
             \/ Append(peer.inbox, frame)[i] = frame
      /\ \A i \in 1 .. Len(peer.inbox) : i \in 1 .. Len(Append(peer.inbox, frame))
           /\ Append(peer.inbox, frame)[i] = peer.inbox[i]
      /\ Len(peer.inbox) + 1 \in 1 .. Len(Append(peer.inbox, frame))
           /\ Append(peer.inbox, frame)[Len(peer.inbox) + 1] = frame
  BY <1>1
<1>4. GqlPeer'
  BY <1>1, <1>2, <1>3 DEF GqlPeer
<1>5. CASE frame.kind \in GqlTerminal
  BY <1>2, <1>3, <1>4, <1>5, <1>1 DEF GqlAlive
<1>6. CASE p.live >= peer.live /\ GqlAlive
  BY <1>2, <1>3, <1>4, <1>6, <1>1 DEF GqlAlive
<1> QED BY <1>1, <1>2, <1>4, <1>5, <1>6

\* Every step of the engine keeps its invariant.
LEMMA GqlInductive == GqlInv /\ [GraphqlWs!Next]_loopVars => GqlInv'
<1> SUFFICES ASSUME GqlInv, [GraphqlWs!Next]_loopVars PROVE GqlInv'
  OBVIOUS
<1> USE DEF GqlInv, GraphqlWs!HandshakeFirst
<1>0. /\ DOMAIN session = {"stream", "initialized", "subscribed", "last", "ttfm"}
      /\ DOMAIN peer = {"up", "inbox", "inits", "acks", "live"}
      /\ DOMAIN truth = {"early", "dead", "masked", "subscribes", "nexts"}
  BY Zenon DEF GqlPeer, GraphqlWs!NewSession, GraphqlWs!NewPeer, GraphqlWs!NewTruth
<1>00. ASSUME peer' = peer PROVE GqlPeer' /\ (GqlAlive <=> GqlAlive')
  BY <1>00, Zenon DEF GqlPeer, GqlAlive
<1>01. ASSUME peer' = GraphqlWs!Subscribed
       PROVE  /\ GqlPeer' /\ peer'.up = peer.up /\ peer'.acks = peer.acks
              /\ peer.up \/ GqlAlive => GqlAlive'
  <2> DEFINE l == peer.live + IF peer.up THEN 1 ELSE 0
  <2>1. peer.live \in Nat /\ l \in Nat /\ (peer.up => l > 0) /\ l >= peer.live
    BY DEF GqlPeer
  <2>2. peer' = [peer EXCEPT !.live = l]
    BY <1>01, Zenon DEF GraphqlWs!Subscribed
  <2> HIDE DEF l
  <2>3. /\ peer'.up = peer.up /\ peer'.acks = peer.acks /\ peer'.inbox = peer.inbox /\ peer'.live = l
        /\ peer'.inits = peer.inits /\ DOMAIN peer' = DOMAIN peer
    BY <1>0, <2>2, Zenon
  <2> QED BY <2>1, <2>3 DEF GqlPeer, GqlAlive
<1>1. ASSUME NEW f, GraphqlWs!Begin(f) PROVE GqlInv'
  BY <1>0, <1>00, <1>1, Zenon DEF GraphqlWs!Begin, GraphqlWs!EndAtOnce, GraphqlWs!End, GraphqlWs!MayBegin
<1>2. CASE GraphqlWs!StillConnected
  BY <1>0, <1>00, <1>2, Zenon DEF GraphqlWs!StillConnected, GraphqlWs!AfterInit
<1>3. CASE GraphqlWs!Connect
  BY <1>0, <1>3 DEF GraphqlWs!Connect, GraphqlWs!NewPeer, GraphqlWs!Reborn, GqlPeer
<1>4. CASE GraphqlWs!SendInit
  BY <1>0, <1>4 DEF GraphqlWs!SendInit, GqlPeer, GqlAlive
<1>5. CASE GraphqlWs!ReadAck
  BY <1>0, <1>5, GqlTakes, Zenon DEF GraphqlWs!ReadAck, GraphqlWs!AfterInit
<1>6. CASE GraphqlWs!SkipBeforeAck
  BY <1>0, <1>6, GqlTakes, Zenon DEF GraphqlWs!SkipBeforeAck
<1>7. CASE GraphqlWs!Fail
  BY <1>0, <1>00, <1>7, Zenon DEF GraphqlWs!Fail, GraphqlWs!End, GraphqlWs!Reset, GraphqlWs!NewSession
<1>8. CASE GraphqlWs!SendCorrupt
  BY <1>0, <1>00, <1>8, Zenon DEF GraphqlWs!SendCorrupt
<1>9. CASE GraphqlWs!ReadJunk
  BY <1>0, <1>00, <1>9, GqlTakes, Zenon DEF GraphqlWs!ReadJunk, GraphqlWs!End, GraphqlWs!Ends, GqlTerminal
<1>10. CASE GraphqlWs!Subscribe
  <2>1. /\ peer' = GraphqlWs!Subscribed /\ pc = "subscribe" /\ pc' = "event"
        /\ truth' = [truth EXCEPT !.early = truth.early \/ peer.acks = 0, !.subscribes = truth.subscribes + 1]
        /\ session' = [session EXCEPT !.subscribed = TRUE, !.last = FALSE, !.ttfm = FALSE]
    BY <1>10, Zenon DEF GraphqlWs!Subscribe
  <2>0. (truth.early \/ peer.acks = 0) = FALSE
    BY <2>1 DEF GqlPeer
  <2>2. DOMAIN truth' = DOMAIN truth /\ ~truth'.early /\ truth'.dead = truth.dead
          /\ truth'.masked = truth.masked
    BY <1>0, <2>0, <2>1, Zenon
  <2>3. /\ DOMAIN session' = DOMAIN session /\ session'.stream = session.stream
        /\ session'.initialized = session.initialized /\ session'.subscribed
    BY <1>0, <2>1, Zenon
  <2> QED BY <1>01, <2>1, <2>2, <2>3, Zenon
<1>11. CASE GraphqlWs!ReadNext
  BY <1>0, <1>11, GqlTakes, Zenon DEF GraphqlWs!ReadNext, GraphqlWs!End, GqlTerminal
<1>12. CASE GraphqlWs!ReadTerminal
  BY <1>0, <1>12, GqlTakes, Zenon DEF GraphqlWs!ReadTerminal, GraphqlWs!End
<1>13. CASE GraphqlWs!ReadLateAck
  BY <1>0, <1>13, GqlTakes, Zenon DEF GraphqlWs!ReadLateAck, GraphqlWs!End, GqlTerminal
<1>14. CASE GraphqlWs!ReadEnds
  BY <1>0, <1>00, <1>14, Zenon DEF GraphqlWs!ReadEnds, GraphqlWs!End, GraphqlWs!Reset, GraphqlWs!NewSession
<1>15. CASE GraphqlWs!TimeOut
  BY <1>0, <1>00, <1>15, Zenon DEF GraphqlWs!TimeOut, GraphqlWs!End
<1>16. CASE GraphqlWs!CutInSend
  <2>1. CASE pc = "init"
    BY <1>0, <1>16, <2>1 DEF GraphqlWs!CutInSend, GraphqlWs!CutShort, GraphqlWs!End, GqlPeer, GqlAlive
  <2>2. CASE pc = "subscribe"
    <3>1. /\ peer' = GraphqlWs!Subscribed /\ session' = session /\ pc' = "idle"
          /\ truth' = [truth EXCEPT !.early = truth.early \/ peer.acks = 0, !.subscribes = truth.subscribes + 1]
      BY <1>16, <2>2, Zenon DEF GraphqlWs!CutInSend, GraphqlWs!CutShort, GraphqlWs!End
    <3>0. (truth.early \/ peer.acks = 0) = FALSE
      BY <2>2, <3>1 DEF GqlPeer
    <3>2. DOMAIN truth' = DOMAIN truth /\ ~truth'.early /\ truth'.dead = truth.dead
            /\ truth'.masked = truth.masked
      BY <1>0, <3>0, <3>1, Zenon
    <3> QED BY <1>01, <2>2, <3>1, <3>2, Zenon
  <2> QED BY <1>16, <2>1, <2>2, Zenon DEF GraphqlWs!CutInSend
<1>17. CASE GraphqlWs!Deadline
  BY <1>0, <1>00, <1>17, Zenon DEF GraphqlWs!Deadline, GraphqlWs!CutShort, GraphqlWs!End
<1>18. CASE GraphqlWs!Shutdown
  BY <1>0, <1>00, <1>18, Zenon DEF GraphqlWs!Shutdown, GraphqlWs!Leave
<1>19. CASE GraphqlWs!ServerAcks
  <2> DEFINE p == [peer EXCEPT !.acks = peer.acks + 1]
             frame == Frame("ack", 0)
  <2>1. peer' = [p EXCEPT !.inbox = Append(p.inbox, frame)] /\ UNCHANGED <<pc, session, truth>>
    BY <1>19, Zenon DEF GraphqlWs!ServerAcks, GraphqlWs!Deliver, GraphqlWs!Frame, Frame
  <2>2. /\ DOMAIN p = DOMAIN peer /\ p.inbox = peer.inbox /\ p.live = peer.live /\ p.inits = peer.inits
             /\ p.up = peer.up
        /\ p.acks = peer.acks + 1 /\ p.live \in Nat /\ p.acks \in Nat /\ peer.acks \in Nat
    BY <1>0 DEF GqlPeer
  <2>3. frame \in GqlFrame /\ frame.kind = "ack"
    BY Zenon DEF Frame, GqlFrame
  <2> HIDE DEF p, frame
  <2> QED BY <2>1, <2>2, <2>3, GqlDelivers
<1>20. ASSUME NEW kind \in {"next", "errors", "complete"}, GraphqlWs!ServerEvent(kind) PROVE GqlInv'
  <2> DEFINE l == peer.live - IF kind = "next" THEN 0 ELSE 1
             p == [peer EXCEPT !.live = l]
             frame == Frame(kind, 1)
  <2>1. peer' = [p EXCEPT !.inbox = Append(p.inbox, frame)] /\ UNCHANGED <<pc, session, truth>>
    BY <1>20, Zenon DEF GraphqlWs!ServerEvent, GraphqlWs!Volunteer, GraphqlWs!Deliver, GraphqlWs!Frame, Frame
  <2>2. l \in Nat /\ (kind = "next" => l = peer.live)
    BY <1>20 DEF GqlPeer, GraphqlWs!ServerEvent
  <2> HIDE DEF l
  <2>3. /\ DOMAIN p = DOMAIN peer /\ p.inbox = peer.inbox /\ p.live = l /\ p.inits = peer.inits
             /\ p.up = peer.up
        /\ p.acks = peer.acks /\ peer.acks \in Nat /\ peer.live \in Nat
    BY <1>0, Zenon DEF GqlPeer
  <2>4. frame \in GqlFrame /\ frame.kind = kind /\ (kind = "next" \/ kind \in GqlTerminal)
    BY Zenon DEF Frame, GqlFrame, GqlTerminal
  <2> HIDE DEF p, frame
  <2> QED BY <2>1, <2>2, <2>3, <2>4, GqlDelivers
<1>21. CASE GraphqlWs!ServerRefuses
  <2> DEFINE p == [peer EXCEPT !.live = 0]
             frame == Frame("connection_error", 0)
  <2>1. peer' = [p EXCEPT !.inbox = Append(p.inbox, frame)] /\ UNCHANGED <<pc, session, truth>>
    BY <1>21, Zenon DEF GraphqlWs!ServerRefuses, GraphqlWs!Volunteer, GraphqlWs!Deliver, GraphqlWs!Frame, Frame
  <2>2. /\ DOMAIN p = DOMAIN peer /\ p.inbox = peer.inbox /\ p.live = 0 /\ p.inits = peer.inits
             /\ p.up = peer.up
        /\ p.acks = peer.acks /\ peer.acks \in Nat
    BY <1>0, Zenon DEF GqlPeer
  <2>3. frame \in GqlFrame /\ frame.kind \in GqlTerminal /\ frame.kind # "ack"
    BY Zenon DEF Frame, GqlFrame, GqlTerminal
  <2> HIDE DEF p, frame
  <2> QED BY <2>1, <2>2, <2>3, GqlDelivers
<1>22. ASSUME NEW kind \in {"close", "eof", "error"}, GraphqlWs!Lose(kind) PROVE GqlInv'
  <2> DEFINE p == [peer EXCEPT !.up = FALSE]
             frame == Frame(kind, 0)
  <2>1. peer' = [p EXCEPT !.inbox = Append(p.inbox, frame)] /\ UNCHANGED <<pc, session, truth>>
    BY <1>22, Zenon DEF GraphqlWs!Lose, GraphqlWs!Frame, Frame
  <2>2. /\ DOMAIN p = DOMAIN peer /\ p.inbox = peer.inbox /\ p.live = peer.live /\ p.inits = peer.inits /\ ~p.up
        /\ p.acks = peer.acks /\ peer.acks \in Nat /\ peer.live \in Nat
    BY <1>0, Zenon DEF GqlPeer
  <2>3. frame \in GqlFrame /\ frame.kind # "ack"
    BY Zenon DEF Frame, GqlFrame
  <2> HIDE DEF p, frame
  <2> QED BY <2>1, <2>2, <2>3, GqlDelivers
<1>23. CASE UNCHANGED loopVars
  BY <1>00, <1>23, Zenon DEF loopVars
<1> QED
  BY <1>1, <1>2, <1>3, <1>4, <1>5, <1>6, <1>7, <1>8, <1>9, <1>10, <1>11, <1>12, <1>13, <1>14, <1>15, <1>16,
     <1>17,
     <1>18, <1>19, <1>20, <1>21, <1>22, <1>23, Zenon DEF GraphqlWs!Next, GraphqlWs!Ends

\* What the invariant says of graphql_ws.rs.
LEMMA GqlSafe ==
    GqlInv => GraphqlWs!NoCorpse /\ GraphqlWs!HandshakeFirst /\ GraphqlWs!WaitsOnLiveSubscription
BY DEF GqlInv, GqlPeer, GqlAlive, GqlTerminal, GraphqlWs!NoCorpse, GraphqlWs!WaitsOnLiveSubscription

\* Every step of the engine is one of those that keep the account.
LEMMA GqlAccounts == Accounted /\ [GraphqlWs!Next]_loopVars => AccountStep
<1> SUFFICES ASSUME Accounted, [GraphqlWs!Next]_loopVars PROVE AccountStep
  OBVIOUS
<1>0. /\ DOMAIN past = {"iterations", "selected", "cut", "dropped", "losses", "connections", "frames"}
      /\ "fault" \in DOMAIN it
  BY Zenon DEF Accounted, NoPast
<1>1. ASSUME NEW f \in SelectFault, GraphqlWs!Begin(f) PROVE Begins(f) \/ EndsAtOnce(f)
  BY <1>0, <1>1
     DEF GraphqlWs!Begin, GraphqlWs!EndAtOnce, GraphqlWs!End, GraphqlWs!Add, GraphqlWs!MayBegin,
         GraphqlWs!Begun,
         GraphqlWs!Builder, GraphqlWs!NoIteration, NoIteration, Begun, Begins, EndsAtOnce, Reports
<1>2. ASSUME NEW m, pc \notin {"idle", "left"}, GraphqlWs!End(m), m.fault = it.fault, past' = past
      PROVE  Finishes
  BY <1>2, Zenon
    DEF GraphqlWs!End, GraphqlWs!Add, GraphqlWs!NoIteration, NoIteration, Finishes, Reports, SamePast
<1>3. /\ \A s : GraphqlWs!Event(s).fault = it.fault
      /\ GraphqlWs!Error.fault = it.fault /\ \A s : [GraphqlWs!Error EXCEPT !.status = s].fault = it.fault
  BY Zenon DEF GraphqlWs!Event, GraphqlWs!Error, GraphqlWs!Builder
<1>4. GraphqlWs!Fail \/ GraphqlWs!ReadJunk \/ GraphqlWs!ReadEnds \/ GraphqlWs!TimeOut => Finishes
  BY <1>2, <1>3, Zenon DEF GraphqlWs!Fail, GraphqlWs!ReadJunk, GraphqlWs!ReadEnds, GraphqlWs!TimeOut
<1>5. GraphqlWs!ReadNext \/ GraphqlWs!ReadTerminal \/ GraphqlWs!ReadLateAck => Finishes
  BY <1>2, <1>3, Zenon DEF GraphqlWs!ReadNext, GraphqlWs!ReadTerminal, GraphqlWs!ReadLateAck
<1>6. GraphqlWs!CutShort => IsCut
  BY DEF GraphqlWs!CutShort, GraphqlWs!End, GraphqlWs!Add, GraphqlWs!Builder, GraphqlWs!NoIteration, IsCut,
         Reports,
         NoIteration
<1>7. GraphqlWs!Shutdown => Leaves
  BY Zenon DEF GraphqlWs!Shutdown, GraphqlWs!Leave, Leaves, GraphqlWs!NoIteration, NoIteration
<1>8. GraphqlWs!StillConnected \/ GraphqlWs!Connect \/ GraphqlWs!SendInit \/ GraphqlWs!ReadAck => Goes
  BY <1>0, Zenon
     DEF GraphqlWs!StillConnected, GraphqlWs!Connect, GraphqlWs!SendInit, GraphqlWs!ReadAck,
         GraphqlWs!AfterInit,
              GraphqlWs!Connected, Goes, SamePast
<1>9. GraphqlWs!SkipBeforeAck \/ GraphqlWs!SendCorrupt \/ GraphqlWs!Subscribe => Goes
  BY <1>0, Zenon DEF GraphqlWs!SkipBeforeAck, GraphqlWs!SendCorrupt, GraphqlWs!Subscribe, Goes, SamePast
<1>10. GraphqlWs!ServerAcks \/ GraphqlWs!ServerRefuses \/ UNCHANGED loopVars => Goes
  BY <1>0, Zenon
     DEF GraphqlWs!ServerAcks, GraphqlWs!ServerRefuses, GraphqlWs!Volunteer, GraphqlWs!Deliver, loopVars, Goes,
         SamePast
<1>11. \A kind : GraphqlWs!ServerEvent(kind) \/ GraphqlWs!Lose(kind) => Goes
  BY <1>0, Zenon
    DEF GraphqlWs!ServerEvent, GraphqlWs!Volunteer, GraphqlWs!Deliver, GraphqlWs!Lose, Goes, SamePast
<1> QED
  BY <1>1, <1>4, <1>5, <1>6, <1>7, <1>8, <1>9, <1>10, <1>11, Zenon
     DEF AccountStep, GraphqlWs!Next, GraphqlWs!Deadline, GraphqlWs!CutInSend, GraphqlWs!SelectFault,
         SelectFault

\* The operations that the iteration under way will report.
GqlOwed == IF pc \in {"idle", "left"} THEN 0 ELSE Total(it.operations)

\* The figures of the protocol: a subscribe of the iteration under way is still to be reported,
\* if it ever is.
GqlCounted ==
    LET figures == report.protocol.graphql_ws IN
    /\ DOMAIN report.protocol = DOMAIN ProtocolDefault /\ DOMAIN truth = DOMAIN GraphqlWs!NewTruth
    /\ figures.operations \in Nat /\ figures.messages \in Nat /\ truth.subscribes \in Nat /\ truth.nexts \in Nat
    /\ pc \notin {"idle", "left"} => "operations" \in DOMAIN it /\ it.operations \in Ones
    /\ figures.operations + GqlOwed <= truth.subscribes
    /\ figures.messages <= truth.nexts

\* A step that adds x operations and y messages to the report, after z subscribes and w next frames.
LEMMA GqlCounts ==
    ASSUME GqlCounted, NEW x \in Nat, NEW y \in Nat, NEW z \in Nat, NEW w \in Nat, NEW o \in Nat,
           NEW o1 \in Nat,
           o = GqlOwed, o1 = (GqlOwed)',
           DOMAIN report'.protocol = DOMAIN report.protocol, DOMAIN truth' = DOMAIN truth,
           report'.protocol.graphql_ws.operations = report.protocol.graphql_ws.operations + x,
           report'.protocol.graphql_ws.messages = report.protocol.graphql_ws.messages + y,
           truth'.subscribes = truth.subscribes + z, truth'.nexts = truth.nexts + w,
           x + o1 <= o + z, y <= w,
           pc' \notin {"idle", "left"} => "operations" \in DOMAIN it' /\ it'.operations \in Ones
    PROVE  GqlCounted'
<1>1. PICK a \in Nat, b \in Nat, c \in Nat, d \in Nat :
        /\ report.protocol.graphql_ws.operations = a /\ report.protocol.graphql_ws.messages = b
        /\ truth.subscribes = c /\ truth.nexts = d /\ a + o <= c /\ b <= d
  BY Zenon DEF GqlCounted
<1>2. (a + x) + o1 <= c + z /\ b + y <= d + w /\ a + x \in Nat /\ b + y \in Nat /\ c + z \in Nat
        /\ d + w \in Nat
  BY <1>1, SumsGrow, Zenon
<1>3. /\ report'.protocol.graphql_ws.operations = a + x /\ report'.protocol.graphql_ws.messages = b + y
      /\ truth'.subscribes = c + z /\ truth'.nexts = d + w
  BY <1>1, Zenon
<1> QED BY <1>2, <1>3, Zenon DEF GqlCounted

\* Every step of the engine keeps its figures.
LEMMA GqlCountsInductive == GqlCounted /\ [GraphqlWs!Next]_loopVars => GqlCounted'
<1> SUFFICES ASSUME GqlCounted, [GraphqlWs!Next]_loopVars PROVE GqlCounted'
  OBVIOUS
<1>0. /\ DOMAIN truth = {"early", "dead", "masked", "subscribes", "nexts"}
      /\ DOMAIN report.protocol = DOMAIN ProtocolDefault /\ "graphql_ws" \in DOMAIN ProtocolDefault
      /\ report.protocol.graphql_ws.operations \in Nat /\ report.protocol.graphql_ws.messages \in Nat
      /\ truth.subscribes \in Nat /\ truth.nexts \in Nat
      /\ pc \notin {"idle", "left"} => "operations" \in DOMAIN it /\ it.operations \in Ones
  BY Zenon DEF GqlCounted, ProtocolDefault, GraphqlWs!NewTruth
<1>00. /\ report.protocol.graphql_ws.operations = report.protocol.graphql_ws.operations + 0
       /\ report.protocol.graphql_ws.messages = report.protocol.graphql_ws.messages + 0
       /\ truth.subscribes + 0 = truth.subscribes /\ truth.nexts + 0 = truth.nexts
  BY <1>0
<1>1. Total(<<>>) = 0 /\ Total(<<1>>) = 1 /\ GraphqlWs!Total(<<>>) = 0 /\ GraphqlWs!Total(<<1>>) = 1
  BY Zenon DEF Total, GraphqlWs!Total
<1>2. GqlOwed \in {0, 1} /\ GqlOwed \in Nat /\ (pc \notin {"idle", "left"} => GqlOwed = Total(it.operations))
  BY <1>0, <1>1 DEF GqlOwed
<1>3. ASSUME pc' \in {"idle", "left"} PROVE (GqlOwed)' = 0
  BY <1>3, Zenon DEF GqlOwed
\* Steps that report nothing of the protocol,
<1>4. ASSUME NEW z \in Nat, NEW w \in Nat, NEW o1 \in Nat, o1 = (GqlOwed)', o1 <= GqlOwed + z,
             report'.protocol = report.protocol, DOMAIN truth' = DOMAIN truth,
             truth'.subscribes = truth.subscribes + z, truth'.nexts = truth.nexts + w,
             pc' \notin {"idle", "left"} => "operations" \in DOMAIN it' /\ it'.operations \in Ones
      PROVE  GqlCounted'
  <2>1. /\ report'.protocol.graphql_ws.operations = report.protocol.graphql_ws.operations + 0
        /\ report'.protocol.graphql_ws.messages = report.protocol.graphql_ws.messages + 0
    BY <1>00, <1>4, Zenon
  <2>2. 0 + o1 <= GqlOwed + z /\ 0 <= w /\ 0 \in Nat
    <3>1. 0 + o1 = o1 /\ 0 <= w
      OBVIOUS
    <3> QED BY <1>4, <3>1, Zenon
  <2> QED BY <1>2, <1>4, <2>1, <2>2, GqlCounts, Zenon
\* with the truth as it was,
<1>5. ASSUME report'.protocol = report.protocol, truth' = truth \/ truth' = GraphqlWs!Reborn,
             \/ pc' \in {"idle", "left"}
             \/ pc \notin {"idle", "left"} /\ it' = it
             \/ "operations" \in DOMAIN it' /\ it'.operations = <<>>
      PROVE  GqlCounted'
  <2>0. DOMAIN truth' = DOMAIN truth /\ truth'.subscribes = truth.subscribes /\ truth'.nexts = truth.nexts
    BY <1>0, <1>5, Zenon DEF GraphqlWs!Reborn
  <2>1. DOMAIN truth' = DOMAIN truth /\ truth'.subscribes = truth.subscribes + 0
          /\ truth'.nexts = truth.nexts + 0
    BY <1>00, <2>0, Zenon
  <2>2. (GqlOwed)' \in {0, 1} /\ (GqlOwed)' <= GqlOwed + 0
    BY <1>0, <1>1, <1>2, <1>5 DEF GqlOwed
  <2>3. pc' \notin {"idle", "left"} => "operations" \in DOMAIN it' /\ it'.operations \in Ones
    BY <1>0, <1>5, Zenon
  <2> QED BY <1>4, <1>5, <2>1, <2>2, <2>3, Zenon
\* and the end of an iteration.
<1>6. ASSUME NEW m, GraphqlWs!End(m), m.sample.kind = "none"
      PROVE  report'.protocol = report.protocol /\ pc' = "idle"
  BY <1>6, Zenon DEF GraphqlWs!End, GraphqlWs!Add, GraphqlWs!RecordProtocol
<1>7. ASSUME NEW s, NEW w \in {0, 1}, GraphqlWs!End(GraphqlWs!Event(s)), s.kind = "graphql_ws",
             pc \notin {"idle", "left"},
             s.operations = it.operations, s.interval \in Zeros, w = 1 \/ s.interval = <<>>,
             DOMAIN truth' = DOMAIN truth, truth'.subscribes = truth.subscribes, truth'.nexts = truth.nexts + w
      PROVE  GqlCounted'
  <2>1. GraphqlWs!Event(s).sample = s
    BY Zenon DEF GraphqlWs!Event, GraphqlWs!Builder
  <2>2. PICK y \in Nat : y = Len(s.interval) /\ y <= w
    <3>1. CASE s.interval = <<>>
      BY <3>1
    <3>2. CASE s.interval = <<0>>
      <4>1. w = 1
        BY <1>7, <3>2
      <4> QED BY <3>2, <4>1
    <3> QED BY <1>7, <3>1, <3>2, Zenon
  <2>3. GraphqlWs!Total(s.operations) = GqlOwed
    BY <1>0, <1>1, <1>2, <1>7, Zenon
  <2>4. /\ DOMAIN report'.protocol = DOMAIN report.protocol
        /\ report'.protocol.graphql_ws = GraphqlWs!RecordGraphqlWs(report.protocol.graphql_ws, s)
             /\ pc' = "idle"
    BY <1>0, <1>7, <2>1, Zenon DEF GraphqlWs!End, GraphqlWs!Add, GraphqlWs!RecordProtocol
  <2>5. /\ report'.protocol.graphql_ws.operations = report.protocol.graphql_ws.operations + GqlOwed
        /\ report'.protocol.graphql_ws.messages = report.protocol.graphql_ws.messages + y
    BY <2>2, <2>3, <2>4 DEF GraphqlWs!RecordGraphqlWs
  <2>6. GqlOwed + 0 <= GqlOwed + 0 /\ w \in Nat /\ 0 \in Nat /\ (GqlOwed)' = 0
    BY <1>2, <1>3, <2>4
  <2>7. truth'.subscribes = truth.subscribes + 0
    BY <1>00, <1>7, Zenon
  <2> QED BY <1>2, <1>7, <2>2, <2>4, <2>5, <2>6, <2>7, GqlCounts, Zenon
<1>8. /\ GraphqlWs!Error.sample.kind = "none" /\ \A n :
           [GraphqlWs!Error EXCEPT !.status = n].sample.kind = "none"
      /\ \A f : GraphqlWs!Builder(0, f).sample.kind = "none"
  BY Zenon DEF GraphqlWs!Error, GraphqlWs!Builder, GraphqlWs!NoSample
\* The actions.
<1>9. ASSUME NEW f, GraphqlWs!Begin(f) PROVE GqlCounted'
  BY <1>5, <1>6, <1>8, <1>9 DEF GraphqlWs!Begin, GraphqlWs!EndAtOnce
<1>10. CASE \/ GraphqlWs!StillConnected \/ GraphqlWs!Connect \/ GraphqlWs!SendInit \/ GraphqlWs!ReadAck
            \/ GraphqlWs!SkipBeforeAck \/ GraphqlWs!SendCorrupt
  BY <1>5, <1>10, Zenon
     DEF GraphqlWs!StillConnected, GraphqlWs!Connect, GraphqlWs!SendInit, GraphqlWs!ReadAck,
         GraphqlWs!SkipBeforeAck,
         GraphqlWs!SendCorrupt
<1>11. CASE GraphqlWs!Fail \/ GraphqlWs!TimeOut
  BY <1>5, <1>6, <1>8, <1>11, Zenon DEF GraphqlWs!Fail, GraphqlWs!TimeOut
<1>12. CASE GraphqlWs!ReadEnds
  <2>1. DOMAIN truth' = DOMAIN truth /\ truth'.subscribes = truth.subscribes /\ truth'.nexts = truth.nexts
    BY <1>0, <1>12, Zenon DEF GraphqlWs!ReadEnds
  <2>2. report'.protocol = report.protocol /\ pc' = "idle"
    BY <1>6, <1>8, <1>12, Zenon DEF GraphqlWs!ReadEnds
  <2>3. truth'.subscribes = truth.subscribes + 0 /\ truth'.nexts = truth.nexts + 0 /\ 0 <= GqlOwed + 0
          /\ (GqlOwed)' = 0
    BY <1>00, <1>2, <1>3, <2>1, <2>2
  <2> QED BY <1>4, <2>1, <2>2, <2>3, Zenon
<1>13. CASE GraphqlWs!ReadJunk
  <2>1. PICK w \in {0, 1} : w = IF GraphqlWs!Received.kind = "next" THEN 1 ELSE 0
    OBVIOUS
  <2>2. DOMAIN truth' = DOMAIN truth /\ truth'.subscribes = truth.subscribes /\ truth'.nexts = truth.nexts + w
    BY <1>0, <1>13, <2>1, Zenon DEF GraphqlWs!ReadJunk
  <2>3. report'.protocol = report.protocol /\ pc' = "idle"
    BY <1>6, <1>8, <1>13, Zenon DEF GraphqlWs!ReadJunk
  <2>4. truth'.subscribes = truth.subscribes + 0 /\ 0 <= GqlOwed + 0 /\ (GqlOwed)' = 0 /\ w \in Nat
    BY <1>00, <1>2, <1>3, <2>2, <2>3
  <2> QED BY <1>4, <2>2, <2>3, <2>4, Zenon
<1>14. CASE GraphqlWs!Subscribe
  <2>1. /\ DOMAIN truth' = DOMAIN truth /\ truth'.subscribes = truth.subscribes + 1
             /\ truth'.nexts = truth.nexts
    BY <1>0, <1>14, Zenon DEF GraphqlWs!Subscribe
  <2>2. /\ pc = "subscribe" /\ pc' = "event" /\ report' = report
        /\ "operations" \in DOMAIN it' /\ it'.operations = <<1>>
    BY <1>0, <1>14, Zenon DEF GraphqlWs!Subscribe
  <2>3. truth'.nexts = truth.nexts + 0 /\ (GqlOwed)' = 1
    BY <1>00, <1>1, <2>1, <2>2, Zenon DEF GqlOwed
  <2>4. 1 <= GqlOwed + 1
    BY <1>2
  <2> QED BY <1>4, <2>1, <2>2, <2>3, <2>4, Zenon
<1>15. CASE GraphqlWs!ReadNext
  <2>1. DOMAIN truth' = DOMAIN truth /\ truth'.subscribes = truth.subscribes /\ truth'.nexts = truth.nexts + 1
    BY <1>0, <1>15, Zenon DEF GraphqlWs!ReadNext
  <2>2. PICK s : /\ s = [GraphqlWs!GraphqlWsSample EXCEPT
                          !.operations = it.operations, !.ttfm = IF session.ttfm THEN <<>> ELSE <<0>>,
                          !.interval = IF session.last THEN <<0>> ELSE <<>>]
                 /\ GraphqlWs!End(GraphqlWs!Event(s))
    BY <1>15, Zenon DEF GraphqlWs!ReadNext
  <2>3. s.kind = "graphql_ws" /\ s.operations = it.operations /\ s.interval \in Zeros /\ pc = "event"
    BY <1>15, <2>2, Zenon DEF GraphqlWs!ReadNext, GraphqlWs!GraphqlWsSample
  <2> QED BY <1>7, <2>1, <2>2, <2>3, Zenon
<1>16. CASE GraphqlWs!ReadTerminal \/ GraphqlWs!ReadLateAck
  <2>1. truth' = truth /\ truth'.nexts = truth.nexts + 0 /\ pc = "event"
    BY <1>00, <1>16, Zenon DEF GraphqlWs!ReadTerminal, GraphqlWs!ReadLateAck
  <2>2. PICK s : /\ s.kind = "graphql_ws" /\ s.operations = it.operations /\ s.interval = <<>>
                 /\ GraphqlWs!End(GraphqlWs!Event(s))
    BY <1>16, Zenon DEF GraphqlWs!ReadTerminal, GraphqlWs!ReadLateAck, GraphqlWs!GraphqlWsSample
  <2> QED BY <1>7, <2>1, <2>2, Zenon
<1>17. CASE GraphqlWs!CutInSend
  <2>1. PICK z \in {0, 1} : /\ DOMAIN truth' = DOMAIN truth /\ truth'.nexts = truth.nexts
                            /\ truth'.subscribes = truth.subscribes + z
    BY <1>0, <1>00, <1>17, Zenon DEF GraphqlWs!CutInSend
  <2>2. report'.protocol = report.protocol /\ pc' = "idle"
    BY <1>6, <1>8, <1>17, Zenon DEF GraphqlWs!CutInSend, GraphqlWs!CutShort
  <2>3. truth'.nexts = truth.nexts + 0 /\ 0 <= GqlOwed + z /\ (GqlOwed)' = 0 /\ z \in Nat
    BY <1>00, <1>2, <1>3, <2>1, <2>2
  <2> QED BY <1>4, <2>1, <2>2, <2>3, Zenon
<1>18. CASE GraphqlWs!Deadline \/ GraphqlWs!Shutdown
  BY <1>5, <1>6, <1>8, <1>18, Zenon
    DEF GraphqlWs!Deadline, GraphqlWs!CutShort, GraphqlWs!Shutdown, GraphqlWs!Leave
<1>19. CASE \/ GraphqlWs!ServerAcks \/ GraphqlWs!ServerRefuses \/ UNCHANGED loopVars
            \/ \E kind : GraphqlWs!ServerEvent(kind) \/ GraphqlWs!Lose(kind)
  <2>1. pc' = pc /\ it' = it /\ report' = report /\ truth' = truth
    BY <1>19, Zenon
       DEF GraphqlWs!ServerAcks, GraphqlWs!ServerRefuses, GraphqlWs!ServerEvent, GraphqlWs!Volunteer,
           GraphqlWs!Deliver,
           GraphqlWs!Lose, loopVars
  <2> QED BY <1>5, <2>1, Zenon
<1> QED
  BY <1>9, <1>10, <1>11, <1>12, <1>13, <1>14, <1>15, <1>16, <1>17, <1>18, <1>19, Zenon DEF GraphqlWs!Next

\* The account and the figures of a worker that starts.
LEMMA GqlAccountsStart == GraphqlWs!Init => Accounted /\ GqlCounted
<1> SUFFICES ASSUME GraphqlWs!Init PROVE Accounted /\ GqlCounted
  OBVIOUS
<1>1. Accounted
  BY DEF Accounted, FaultsAreReported, IterationsAreReported, GraphqlWs!Init, GraphqlWs!NoIteration,
         NoIteration, GraphqlWs!NoReport, GraphqlWs!NoPast, NoPast
<1>2. /\ DOMAIN report.protocol = DOMAIN ProtocolDefault
      /\ report.protocol.graphql_ws.operations = 0 /\ report.protocol.graphql_ws.messages = 0
  BY Zenon DEF GraphqlWs!Init, GraphqlWs!NoReport, GraphqlWs!ProtocolDefault, ProtocolDefault,
         GraphqlWs!GraphqlWsDefault
<1>3. truth = GraphqlWs!NewTruth /\ truth.subscribes = 0 /\ truth.nexts = 0 /\ GqlOwed = 0 /\ pc = "idle"
  BY Zenon DEF GraphqlWs!Init, GraphqlWs!NewTruth, GqlOwed
<1> QED BY <1>1, <1>2, <1>3 DEF GqlCounted

\* The figures say what the report may claim of the server.
LEMMA GqlCountsAreTrue == GqlCounted => GraphqlWs!CountsAreTrue
<1> SUFFICES ASSUME GqlCounted PROVE GraphqlWs!CountsAreTrue
  OBVIOUS
<1>1. GqlOwed \in Nat
  BY DEF GqlCounted, GqlOwed, Total
<1> QED BY <1>1 DEF GqlCounted, GraphqlWs!CountsAreTrue

-----------------------------------------------------------------------------
(* Server-sent events.                                                     *)

\* The shape of SseState.
SseSessionType == [stream : BOOLEAN, status : Nat, events : Nat, first : BOOLEAN, last : BOOLEAN, buffer : Nat]

\* The invariant of the engine: it has a stream where it reads, it never reads beyond its cap,
\* and its buffer is of the stream it has.
SseInv ==
    /\ pc \in {"idle", "connect", "read", "left"}
    /\ session \in SseSessionType
    /\ DOMAIN truth = {"dead", "over", "received"}
    /\ DOMAIN past = DOMAIN NoPast /\ past.connections \in Nat
    /\ pc \in {"connect", "read"} => ~Sse!IsMaxReached
    /\ pc = "connect" => ~session.stream
    /\ pc = "read" => session.stream
    /\ truth.dead => ~session.stream
    /\ session.buffer # 0 => session.stream
    /\ Sse!BudgetIsKept /\ Sse!FreshBuffer

\* The engine starts in its invariant.
LEMMA SseStarts == Sse!Init => SseInv
BY EventsOption
   DEF Sse!Init, Sse!NewSession, Sse!NewTruth, SseSessionType, Sse!NoPast, NoPast, SseInv, Sse!IsMaxReached,
   Sse!BudgetIsKept, Sse!FreshBuffer

\* Every step of the engine keeps its invariant.
LEMMA SseInductive == SseInv /\ [Sse!Next]_loopVars => SseInv'
<1> SUFFICES ASSUME SseInv, [Sse!Next]_loopVars PROVE SseInv'
  OBVIOUS
<1> USE EventsOption DEF SseInv, Sse!IsMaxReached, Sse!BudgetIsKept, Sse!FreshBuffer, Sse!End
<1>0. DOMAIN past = {"iterations", "selected", "cut", "dropped", "losses", "connections", "frames"}
  BY Zenon DEF NoPast
<1>1. ASSUME NEW f, Sse!Begin(f) PROVE SseInv'
  <2>1. UNCHANGED <<session, truth>> /\ past' = Sse!Begun(f)
    BY <1>1, Zenon DEF Sse!Begin, Sse!EndAtOnce
  <2>2. pc' = "idle" \/ (pc' = "read" /\ ~Sse!IsMaxReached /\ session.stream)
          \/ (pc' = "connect" /\ ~Sse!IsMaxReached /\ ~session.stream)
    BY <1>1, Zenon DEF Sse!Begin, Sse!EndAtOnce
  <2>3. DOMAIN past' = DOMAIN past /\ past'.connections = past.connections
    BY <1>0, <2>1, Zenon DEF Sse!Begun
  <2> QED BY <2>1, <2>2, <2>3, Zenon
<1>2. ASSUME NEW status \in Nat, Sse!Connect(status) PROVE SseInv'
  <2>1. /\ session' \in SseSessionType
        /\ session'.stream /\ session'.events = 0 /\ session'.buffer = session.buffer
    BY <1>2, Zenon DEF Sse!Connect, SseSessionType
  <2>2. ~session.stream /\ session.buffer = 0 /\ session.events \in Nat
    BY <1>2, Zenon DEF Sse!Connect, SseSessionType
  <2>3. DOMAIN past' = DOMAIN past /\ past'.connections \in Nat
    BY <1>0, <1>2 DEF Sse!Connect, Sse!Connected
  <2>4. DOMAIN truth' = DOMAIN truth /\ ~truth'.dead /\ truth'.over = truth.over /\ pc' = "read"
    BY <1>2, Zenon DEF Sse!Connect
  <2>5. ~Sse!IsMaxReached
    BY <1>2, Zenon DEF Sse!Connect
  <2> QED BY <2>1, <2>2, <2>3, <2>4, <2>5
<1>3. CASE Sse!ConnectFails
  BY <1>3, Zenon DEF Sse!ConnectFails
<1>4. CASE Sse!ReadPart
  <2>1. /\ session' \in SseSessionType
        /\ session'.stream = session.stream /\ session'.events = session.events
        /\ session'.buffer = past.connections
    BY <1>4, Zenon DEF Sse!ReadPart, Sse!Rest, SseSessionType
  <2>2. UNCHANGED <<pc, past, truth>> /\ pc = "read"
    BY <1>4, Zenon DEF Sse!ReadPart
  <2> QED BY <2>1, <2>2, Zenon
<1>5. CASE Sse!ReadEvents
  <2>1. /\ session' \in SseSessionType
        /\ session'.stream = session.stream /\ session'.events = session.events + 1
        /\ session'.buffer \in {0, past.connections}
    <3> DEFINE e == session.events + 1
    <3>1. PICK n \in {0, past.connections} : session' = [session EXCEPT !.events = e, !.first = TRUE,
                                                                      !.last = TRUE, !.buffer = n]
      BY <1>5, Zenon DEF Sse!ReadEvents, Sse!Rest
    <3>2. session \in SseSessionType /\ n \in Nat /\ e \in Nat
      BY DEF SseSessionType
    <3> HIDE DEF e
    <3>3. /\ session' \in SseSessionType
          /\ session'.stream = session.stream /\ session'.events = e /\ session'.buffer = n
      BY ONLY <3>1, <3>2, Zenon DEF SseSessionType
    <3> QED BY <3>3, Zenon DEF e
  <2>2. /\ DOMAIN truth' = DOMAIN truth /\ truth'.dead = truth.dead
        /\ truth'.over => truth.over \/ Sse!IsMaxReached
        /\ UNCHANGED past /\ pc = "read" /\ pc' = "idle"
    BY <1>5, Zenon DEF Sse!ReadEvents
  <2>3. session.events \in Nat /\ session'.events \in Nat
    BY <2>1, Zenon DEF SseSessionType
  <2> QED BY <2>1, <2>2, <2>3
<1>6. CASE Sse!ReadEnds
  <2>1. session' \in SseSessionType /\ ~session'.stream /\ session'.events = session.events
          /\ session'.buffer = 0
    BY <1>6, Zenon DEF Sse!ReadEnds, SseSessionType
  <2>2. DOMAIN truth' = DOMAIN truth /\ truth'.over = truth.over /\ UNCHANGED past /\ pc' = "idle"
    BY <1>6, Zenon DEF Sse!ReadEnds
  <2> QED BY <2>1, <2>2, Zenon
<1>7. CASE Sse!Deadline
  BY <1>0, <1>7, Zenon DEF Sse!Deadline, Sse!CutShort
<1>8. CASE Sse!Shutdown
  BY <1>0, <1>8 DEF Sse!Shutdown, Sse!Leave, Sse!NewSession, SseSessionType
<1>9. ASSUME NEW frame, Sse!Volunteer(frame, peer) PROVE SseInv'
  BY <1>0, <1>9, Zenon DEF Sse!Volunteer, Sse!Deliver
<1>10. ASSUME NEW kind, Sse!Lose(kind) PROVE SseInv'
  BY <1>0, <1>10, Zenon DEF Sse!Lose
<1>11. CASE UNCHANGED loopVars
  BY <1>11, Zenon DEF loopVars
<1> HIDE DEF SseInv
<1> QED
  BY <1>1, <1>2, <1>3, <1>4, <1>5, <1>6, <1>7, <1>8, <1>9, <1>10, <1>11 DEF Sse!Next, Sse!ServerSends

\* What the invariant says of sse.rs.
LEMMA SseSafe == SseInv => Sse!NoCorpse /\ Sse!FreshBuffer /\ Sse!BudgetIsKept
BY Zenon DEF SseInv, Sse!NoCorpse

\* Every step of the engine is one of those that keep the account.
LEMMA SseAccounts == Accounted /\ [Sse!Next]_loopVars => AccountStep
<1> SUFFICES ASSUME Accounted, [Sse!Next]_loopVars PROVE AccountStep
  OBVIOUS
<1>0. /\ DOMAIN past = {"iterations", "selected", "cut", "dropped", "losses", "connections", "frames"}
      /\ "fault" \in DOMAIN it /\ (pc = "idle" => it.fault = <<>>)
  BY Zenon DEF Accounted, NoPast
<1>1. ASSUME NEW f \in SelectFault, Sse!Begin(f) PROVE Begins(f) \/ EndsAtOnce(f)
  BY <1>0, <1>1
     DEF Sse!Begin, Sse!EndAtOnce, Sse!End, Sse!Add, Sse!MayBegin, Sse!Begun, Sse!Metric, Sse!Builder,
         Sse!NoIteration, NoIteration,
    Begun, Begins, EndsAtOnce, Reports
<1>2. Sse!ConnectFails \/ Sse!ReadEvents \/ Sse!ReadEnds => Finishes
  BY DEF Sse!ConnectFails, Sse!ReadEvents, Sse!ReadEnds, Sse!End, Sse!Add, Sse!Metric, Sse!Builder,
         Sse!NoIteration, Finishes, Reports, SamePast, NoIteration
<1>3. Sse!Deadline => IsCut
  BY DEF Sse!Deadline, Sse!CutShort, Sse!End, Sse!Add, Sse!Builder, Sse!NoIteration, IsCut, Reports, NoIteration
<1>4. Sse!Shutdown => Leaves
  BY Zenon DEF Sse!Shutdown, Sse!Leave, Leaves, Sse!NoIteration, NoIteration
<1>5. ASSUME NEW status, Sse!Connect(status) PROVE Goes
  BY <1>0, <1>5, Zenon DEF Sse!Connect, Sse!Connected, Goes, SamePast
<1>6. ASSUME Sse!ReadPart \/ UNCHANGED loopVars PROVE Goes
  BY <1>0, <1>6, Zenon DEF Sse!ReadPart, loopVars, Goes, SamePast
<1>7. ASSUME NEW frame, NEW kind, Sse!Volunteer(frame, peer) \/ Sse!Lose(kind) PROVE Goes
  BY <1>0, <1>7, Zenon DEF Sse!Volunteer, Sse!Deliver, Sse!Lose, Goes, SamePast
<1> QED
  BY <1>1, <1>2, <1>3, <1>4, <1>5, <1>6, <1>7
     DEF AccountStep, Sse!Next, Sse!ServerSends, Sse!SelectFault, SelectFault

\* The connection whose first event is still to come.
SseOwed == IF session.stream /\ ~session.first THEN 1 ELSE 0

\* The figures of the protocol: the first event of the stream is still to be reported, if it comes.
SseCounted ==
    /\ DOMAIN report.protocol = DOMAIN ProtocolDefault /\ "first" \in DOMAIN report.protocol.sse
    /\ report.protocol.sse.first \in Seq({0})
    /\ Len(report.protocol.sse.first) + SseOwed <= past.connections

\* Every step of the engine keeps its figures.
LEMMA SseCountsInductive == SseInv /\ SseCounted /\ [Sse!Next]_loopVars => SseCounted'
<1> SUFFICES ASSUME SseInv, SseCounted, [Sse!Next]_loopVars PROVE SseCounted'
  OBVIOUS
<1>0. /\ DOMAIN past = {"iterations", "selected", "cut", "dropped", "losses", "connections", "frames"}
      /\ DOMAIN session = {"stream", "status", "events", "first", "last", "buffer"}
      /\ DOMAIN report.protocol = DOMAIN ProtocolDefault /\ "sse" \in DOMAIN ProtocolDefault
      /\ "first" \in DOMAIN report.protocol.sse /\ report.protocol.sse.first \in Seq({0})
      /\ past.connections \in Nat /\ pc \in {"idle", "connect", "read", "left"}
      /\ (pc = "connect" => ~session.stream) /\ (pc = "read" => session.stream)
  BY Zenon DEF SseInv, SseSessionType, SseCounted, ProtocolDefault, NoPast
<1>1. PICK a \in Nat, c \in Nat, o \in Nat :
        /\ Len(report.protocol.sse.first) = a /\ past.connections = c /\ SseOwed = o /\ a + o <= c
  <2>1. SseOwed \in Nat /\ Len(report.protocol.sse.first) \in Nat /\ past.connections \in Nat
    BY <1>0 DEF SseOwed
  <2>2. Len(report.protocol.sse.first) + SseOwed <= past.connections
    BY Zenon DEF SseCounted
  <2> QED BY <2>1, <2>2, Zenon
\* The report gets at most the value that was owed, a connection brings at most one.
<1>2. ASSUME NEW z \in Nat, NEW o1 \in Nat, o1 = (SseOwed)', past'.connections = c + z, o1 <= o + z,
             report'.protocol = report.protocol
      PROVE  SseCounted'
  <2>0. 0 + o1 = o1 /\ a + 0 = a
    OBVIOUS
  <2>1. 0 + o1 <= o + z /\ a + 0 = a
    BY <1>2, <2>0, Zenon
  <2>2. (a + 0) + o1 <= c + z
    BY <1>1, <2>1, SumsGrow, Zenon
  <2> QED BY <1>0, <1>1, <1>2, <2>1, <2>2, Zenon DEF SseCounted
<1>3. ASSUME NEW s, Sse!RecordProtocol(report.protocol, s) = report'.protocol, s.kind = "sse",
             s.first \in Zeros,
             NEW x \in Nat, NEW o1 \in Nat, x = Len(s.first), o1 = (SseOwed)', x + o1 <= o,
             past'.connections = past.connections
      PROVE  SseCounted'
  <2>1. /\ DOMAIN report'.protocol = DOMAIN report.protocol /\ "first" \in DOMAIN report'.protocol.sse
        /\ report'.protocol.sse.first = report.protocol.sse.first \o s.first
    BY <1>0, <1>3, ZenonT(40) DEF Sse!RecordProtocol, Sse!RecordSse
  <2>2. s.first \in Seq({0}) /\ report.protocol.sse.first \in Seq({0})
    <3>1. <<>> \in Seq({0}) /\ <<0>> \in Seq({0})
      OBVIOUS
    <3> QED BY <1>0, <1>3, <3>1, Zenon
  <2>3. report'.protocol.sse.first \in Seq({0}) /\ Len(report'.protocol.sse.first) = a + x
    <3>1. \A p, q \in Seq({0}) : p \o q \in Seq({0}) /\ Len(p \o q) = Len(p) + Len(q)
      OBVIOUS
    <3>2. report'.protocol.sse.first \in Seq({0})
      BY <2>1, <2>2, <3>1, Zenon
    <3>3. Len(report'.protocol.sse.first) = Len(report.protocol.sse.first) + Len(s.first)
      BY <2>1, <2>2, <3>1, Zenon
    <3> QED BY <1>1, <1>3, <3>2, <3>3, Zenon
  <2>4. o + 0 = o /\ c + 0 = c
    BY <1>1
  <2>5. (a + x) + o1 <= c + 0
    BY <1>1, <1>3, <2>4, SumsGrow
  <2> QED BY <1>0, <1>1, <1>3, <2>1, <2>3, <2>4, <2>5, Zenon DEF SseCounted
<1>4. ASSUME session'.stream = session.stream, session'.first = session.first,
             past'.connections = past.connections,
             report'.protocol = report.protocol
      PROVE  SseCounted'
  <2>1. (SseOwed)' = o /\ c + 0 = c /\ o <= o + 0
    BY <1>1, <1>4 DEF SseOwed
  <2> QED BY <1>1, <1>2, <1>4, <2>1, Zenon
<1>5. ASSUME NEW m, Sse!End(m) PROVE Sse!RecordProtocol(report.protocol, m.sample) = report'.protocol
  BY <1>5, Zenon DEF Sse!End, Sse!Add
<1>6. ASSUME NEW f, Sse!End(Sse!Builder(0, f)) PROVE report'.protocol = report.protocol
  BY <1>6, Zenon DEF Sse!End, Sse!Add, Sse!Builder, Sse!NoSample, Sse!RecordProtocol
<1>7. ASSUME NEW r, NEW i, NEW first \in Zeros, NEW x \in Nat, NEW o1 \in Nat, Sse!End(Sse!Metric(r, first, i)),
             past'.connections = past.connections, x = Len(first), o1 = (SseOwed)', x + o1 <= o
      PROVE  SseCounted'
  <2>1. Sse!Metric(r, first, i).sample.kind = "sse" /\ Sse!Metric(r, first, i).sample.first = first
    BY Zenon DEF Sse!Metric, Sse!Builder, Sse!SseSample
  <2> QED BY <1>3, <1>5, <1>7, <2>1, Zenon
<1>8. 0 \in Nat /\ 0 = Len(<<>>) /\ 1 = Len(<<0>>) /\ 0 + 0 <= o /\ 0 + o <= o /\ c + 0 = c /\ 0 <= o + 0
        /\ <<>> \in Zeros
  OBVIOUS
<1>9. ASSUME NEW f, Sse!Begin(f) PROVE SseCounted'
  <2>1. session' = session /\ past'.connections = past.connections /\ (SseOwed)' = o
    BY <1>0, <1>1, <1>9, Zenon DEF Sse!Begin, Sse!EndAtOnce, Sse!Begun, SseOwed
  <2>2. CASE Sse!End(Sse!Metric(session.stream, <<>>, <<>>))
    BY <1>7, <1>8, <2>1, <2>2, Zenon
  <2>3. CASE Sse!End(Sse!Builder(0, f)) \/ report' = report
    BY <1>4, <1>6, <2>1, <2>3, Zenon
  <2> QED BY <1>9, <2>2, <2>3, Zenon DEF Sse!Begin, Sse!EndAtOnce
<1>10. ASSUME NEW status, Sse!Connect(status) PROVE SseCounted'
  <2>1. session'.stream /\ ~session'.first /\ past'.connections = c + 1 /\ report' = report
    BY <1>0, <1>1, <1>10, Zenon DEF Sse!Connect, Sse!Connected
  <2>2. (SseOwed)' = 1 /\ 1 <= o + 1
    BY <2>1 DEF SseOwed
  <2> QED BY <1>2, <2>1, <2>2, Zenon
<1>11. CASE Sse!ConnectFails \/ Sse!Deadline
  <2>1. session' = session /\ past'.connections = past.connections /\ report'.protocol = report.protocol
    BY <1>0, <1>6, <1>11, Zenon DEF Sse!ConnectFails, Sse!Deadline, Sse!CutShort
  <2> QED BY <1>4, <2>1, Zenon
<1>12. CASE Sse!ReadPart
  <2>1. session'.stream = session.stream /\ session'.first = session.first /\ past' = past /\ report' = report
    BY <1>0, <1>12, Zenon DEF Sse!ReadPart
  <2> QED BY <1>4, <2>1, Zenon
<1>13. CASE Sse!ReadEvents
  <2>1. session'.first = TRUE /\ past' = past /\ pc = "read"
    BY <1>0, <1>13, Zenon DEF Sse!ReadEvents
  <2>2. (SseOwed)' = 0 /\ o = IF session.first THEN 0 ELSE 1
    BY <1>0, <1>1, <2>1, Zenon DEF SseOwed
  <2>3. PICK i : Sse!End(Sse!Metric(it.reused, IF session.first THEN <<>> ELSE <<0>>, i))
    BY <1>13, Zenon DEF Sse!ReadEvents
  <2>4. CASE session.first
    BY <1>7, <1>8, <2>1, <2>2, <2>3, <2>4, Zenon
  <2>5. CASE ~session.first
    BY <1>7, <1>8, <2>1, <2>2, <2>3, <2>5
  <2> QED BY <2>4, <2>5, Zenon
<1>14. CASE Sse!ReadEnds
  <2>1. session'.stream = FALSE /\ past' = past
    BY <1>0, <1>14, Zenon DEF Sse!ReadEnds
  <2>2. (SseOwed)' = 0 /\ past'.connections = c + 0
    BY <1>1, <1>8, <2>1, Zenon DEF SseOwed
  <2>3. CASE Sse!End(Sse!Metric(it.reused, <<>>, <<>>))
    BY <1>7, <1>8, <2>1, <2>2, <2>3, Zenon
  <2>4. CASE Sse!End(Sse!Builder(0, it.fault))
    BY <1>2, <1>6, <1>8, <2>2, <2>4, Zenon
  <2> QED BY <1>14, <2>3, <2>4, Zenon DEF Sse!ReadEnds
<1>15. CASE Sse!Shutdown
  <2>1. session'.stream = FALSE /\ past'.connections = past.connections /\ report' = report
    BY <1>0, <1>15, Zenon DEF Sse!Shutdown, Sse!Leave, Sse!NewSession
  <2>2. (SseOwed)' = 0 /\ past'.connections = c + 0
    BY <1>1, <1>8, <2>1, Zenon DEF SseOwed
  <2> QED BY <1>2, <1>8, <2>1, <2>2, Zenon
<1>16. CASE UNCHANGED loopVars \/ (\E frame : Sse!Volunteer(frame, peer)) \/ (\E kind : Sse!Lose(kind))
  <2>1. session' = session /\ past'.connections = past.connections /\ report' = report
    BY <1>0, <1>16, Zenon DEF Sse!Volunteer, Sse!Deliver, Sse!Lose, loopVars
  <2> QED BY <1>4, <2>1, Zenon
<1> QED
  BY <1>9, <1>10, <1>11, <1>12, <1>13, <1>14, <1>15, <1>16, Zenon DEF Sse!Next, Sse!ServerSends

\* The account and the figures of a worker that starts.
LEMMA SseAccountsStart == Sse!Init => Accounted /\ SseCounted
<1> SUFFICES ASSUME Sse!Init PROVE Accounted /\ SseCounted
  OBVIOUS
<1>1. Accounted
  BY DEF Accounted, FaultsAreReported, IterationsAreReported, Sse!Init, Sse!NoIteration, NoIteration,
         Sse!NoReport, Sse!NoPast, NoPast
<1>2. DOMAIN report.protocol = DOMAIN ProtocolDefault /\ "first" \in DOMAIN report.protocol.sse
        /\ report.protocol.sse.first = <<>>
  BY Zenon DEF Sse!Init, Sse!NoReport, Sse!ProtocolDefault, ProtocolDefault, Sse!SseDefault
<1>3. SseOwed = 0 /\ past.connections = 0
  BY Zenon DEF Sse!Init, Sse!NewSession, SseOwed, Sse!NoPast
<1> QED BY <1>1, <1>2, <1>3 DEF SseCounted

\* The figures say what the report may claim of the streams.
LEMMA SseCountsAreTrue == SseInv /\ SseCounted => Sse!CountsAreTrue
<1> SUFFICES ASSUME SseInv, SseCounted PROVE Sse!CountsAreTrue
  OBVIOUS
<1>1. SseOwed \in Nat /\ Len(report.protocol.sse.first) \in Nat /\ past.connections \in Nat
  BY DEF SseInv, SseCounted, SseOwed
<1> QED BY <1>1 DEF SseCounted, Sse!CountsAreTrue

-----------------------------------------------------------------------------
(* HTTP/3.                                                                 *)
\* The shape of the state, and where a worker without a context can be.
Http3Shape ==
    /\ DOMAIN session = {"context", "zeroRtt", "prevLost", "iterations"} /\ session.context \in BOOLEAN
    /\ DOMAIN peer = {"up", "inbox", "lost"} /\ DOMAIN truth = {"lost", "unseen"}
    /\ DOMAIN report.protocol = DOMAIN ProtocolDefault
    /\ session.context => pc \notin {"connect", "exchange"}
    /\ ~session.context => /\ session.prevLost = 0 /\ pc \in {"idle", "connect", "exchange", "left"}
                           /\ pc \notin {"exchange", "left"} => ~peer.up /\ peer.lost = 0

\* The packets: what the session has seen of the connection is part of what it lost.
Http3Sums ==
    /\ report.protocol.quic.retransmissions \in Nat /\ truth.unseen \in Nat /\ peer.lost \in Nat
    /\ truth.lost \in Nat /\ session.prevLost \in Nat /\ session.prevLost <= peer.lost
    /\ Http3!CountsAreTrue

\* The engine starts in its invariant, and its account balances.
LEMMA Http3Starts == Http3!Init => Http3Shape /\ Http3Sums /\ Accounted
<1> SUFFICES ASSUME Http3!Init PROVE Http3Shape /\ Http3Sums /\ Accounted
  OBVIOUS
<1>1. Http3Shape
  <2>1. /\ DOMAIN session = {"context", "zeroRtt", "prevLost", "iterations"} /\ session.context \in BOOLEAN
        /\ session.prevLost = 0 /\ pc = "idle"
    <3>1. \E c \in BOOLEAN : \E z : session = [context |-> c, zeroRtt |-> z, prevLost |-> 0, iterations |-> 0]
      BY Zenon DEF Http3!Init
    <3> QED BY <3>1 DEF Http3!Init
  <2>2. peer = [up |-> session.context, inbox |-> <<>>, lost |-> 0] /\ DOMAIN truth = {"lost", "unseen"}
    BY Zenon DEF Http3!Init, Http3!NewPeer, Http3!NewTruth
  <2>3. DOMAIN report.protocol = DOMAIN ProtocolDefault
    BY Zenon DEF Http3!Init, Http3!NoReport, Http3!ProtocolDefault, ProtocolDefault
  <2> QED BY <2>1, <2>2, <2>3, Zenon DEF Http3Shape
<1>2. Http3Sums
  <2>1. session.prevLost = 0 /\ peer.lost = 0 /\ truth.lost = 0 /\ truth.unseen = 0
    BY DEF Http3!Init, Http3!NewPeer, Http3!NewTruth
  <2>2. report.protocol.quic.retransmissions = 0
    BY Zenon DEF Http3!Init, Http3!NoReport, Http3!ProtocolDefault, Http3!QuicDefault
  <2> QED BY <2>1, <2>2 DEF Http3Sums, Http3!CountsAreTrue
<1>3. Accounted
  BY DEF Http3!Init, Http3!NoReport, Http3!NoIteration, Http3!NoPast, NoPast, Accounted, FaultsAreReported,
         IterationsAreReported
<1> QED BY <1>1, <1>2, <1>3, Zenon

\* Every step of the engine is one of those that keep the account.
LEMMA Http3Accounts == Accounted /\ [Http3!Next]_loopVars => AccountStep
<1> SUFFICES ASSUME Accounted, [Http3!Next]_loopVars PROVE AccountStep
  OBVIOUS
<1>0. /\ DOMAIN past = {"iterations", "selected", "cut", "dropped", "losses", "connections", "frames"}
      /\ "fault" \in DOMAIN it
  BY Zenon DEF Accounted, NoPast
<1>1. ASSUME NEW f \in SelectFault, Http3!Begin(f) PROVE Begins(f) \/ EndsAtOnce(f)
  BY <1>0, <1>1
     DEF Http3!Begin, Http3!EndAtOnce, Http3!End, Http3!Add, Http3!MayBegin, Http3!Begun, Http3!Builder,
         Http3!NoIteration, NoIteration, Begun, Begins, EndsAtOnce, Reports
<1>2. ASSUME NEW status, NEW i, Http3!Finish(status, i), i.fault = it.fault, pc \notin {"idle", "left"}
      PROVE  Finishes
  BY <1>2, Zenon
     DEF Http3!Finish, Http3!End, Http3!Add, Http3!Builder, Http3!NoIteration, NoIteration, Finishes, Reports,
         SamePast
<1>3. ASSUME NEW status, Http3!Answered(status) \/ Http3!RetryFails \/ Http3!ReconnectFails PROVE Finishes
  BY <1>2, <1>3, Zenon DEF Http3!Answered, Http3!RetryFails, Http3!ReconnectFails
<1>4. ASSUME NEW h, Http3!SetupFails(h) PROVE Finishes
  BY <1>0, <1>2, <1>4, Zenon DEF Http3!SetupFails
<1>5. ASSUME NEW status, Http3!ConnectFails \/ Http3!Exchanged(status) PROVE Finishes
  BY <1>5
     DEF Http3!ConnectFails, Http3!Exchanged, Http3!End, Http3!Add, Http3!Builder, Http3!NoIteration,
         NoIteration,
         Finishes, Reports, SamePast
<1>6. Http3!Deadline => IsCut
  BY DEF Http3!Deadline, Http3!CutShort, Http3!End, Http3!Add, Http3!Builder, Http3!NoIteration, IsCut,
         Reports, NoIteration
<1>7. Http3!Shutdown => Leaves
  BY Zenon DEF Http3!Shutdown, Http3!Leave, Leaves, Http3!NoIteration, NoIteration
<1>8. ASSUME NEW r, NEW h, Http3!Request(r) \/ Http3!Connect(h) PROVE Goes
  BY <1>0, <1>8 DEF Http3!Request, Http3!Connect, Http3!Connected, Goes, SamePast
<1>08. ASSUME NEW h, Http3!Reconnect(h) PROVE Goes
  BY <1>0, <1>08, Zenon DEF Http3!Reconnect, Http3!Connected, Goes, SamePast
<1>9. Http3!RequestFails \/ Http3!PacketLost \/ Http3!Lose("close") \/ UNCHANGED loopVars => Goes
  BY <1>0, Zenon DEF Http3!RequestFails, Http3!PacketLost, Http3!Lose, loopVars, Goes, SamePast
<1> QED
  BY <1>1, <1>3, <1>4, <1>5, <1>6, <1>7, <1>8, <1>08, <1>9
     DEF AccountStep, Http3!Next, Http3!SelectFault, SelectFault

\* Every step of the engine keeps the shape of its state.
LEMMA Http3Shapes == Http3Shape /\ [Http3!Next]_loopVars => Http3Shape'
<1> SUFFICES ASSUME Http3Shape, [Http3!Next]_loopVars PROVE Http3Shape'
  OBVIOUS
<1> USE DEF Http3Shape
<1>0. "quic" \in DOMAIN ProtocolDefault /\ "http3" \in DOMAIN ProtocolDefault
  BY Zenon DEF ProtocolDefault
<1>1. ASSUME NEW m, Http3!End(m), m.sample.kind \in {"none", "http3"}
      PROVE  DOMAIN report'.protocol = DOMAIN ProtocolDefault /\ pc' = "idle"
  BY <1>0, <1>1, Zenon DEF Http3!End, Http3!Add, Http3!RecordProtocol
<1>2. ASSUME NEW f, Http3!Begin(f) PROVE Http3Shape'
  <2>1. Http3!Builder(0, f).sample.kind = "none"
    BY Zenon DEF Http3!Builder, Http3!NoSample
  <2>2. DOMAIN report'.protocol = DOMAIN ProtocolDefault
    BY <1>1, <1>2, <2>1, Zenon DEF Http3!Begin, Http3!EndAtOnce
  <2>3. pc = "idle" /\ (pc' = "idle" \/ pc' = IF session.context THEN "ready" ELSE "connect")
    BY <1>2, Zenon DEF Http3!Begin, Http3!EndAtOnce, Http3!End, Http3!MayBegin
  <2> QED BY <1>2, <2>2, <2>3, Zenon DEF Http3!Begin
<1>3. ASSUME NEW status, NEW i, Http3!Finish(status, i), session.context PROVE Http3Shape'
  <2>1. DOMAIN report'.protocol = DOMAIN ProtocolDefault /\ pc' = "idle"
    BY <1>0, <1>3, Zenon
      DEF Http3!Finish, Http3!End, Http3!Add, Http3!RecordProtocol, Http3!Builder, Http3!Http3Sample
  <2> QED BY <1>3, <2>1, Zenon DEF Http3!Finish
<1>4. ASSUME NEW status, NEW h, Http3!Answered(status) \/ Http3!RetryFails \/ Http3!ReconnectFails
             \/ Http3!SetupFails(h)
      PROVE  Http3Shape'
  BY <1>3, <1>4, Zenon DEF Http3!Answered, Http3!RetryFails, Http3!ReconnectFails, Http3!SetupFails
<1>5. ASSUME NEW r, NEW h, Http3!Request(r) \/ Http3!Reconnect(h) \/ Http3!Connect(h) PROVE Http3Shape'
  BY <1>5, Zenon DEF Http3!Request, Http3!Reconnect, Http3!Connect, Http3!NewPeer
<1>6. ASSUME NEW status, Http3!Exchanged(status) PROVE Http3Shape'
  <2>1. DOMAIN report'.protocol = DOMAIN ProtocolDefault /\ pc' = "idle"
    BY <1>0, <1>6, Zenon
       DEF Http3!Exchanged, Http3!End, Http3!Add, Http3!RecordProtocol, Http3!Builder, Http3!Http3Sample
  <2> QED BY <1>6, <2>1, Zenon DEF Http3!Exchanged, Http3!NewPeer
<1>7. CASE Http3!ConnectFails \/ Http3!Deadline
  <2>1. PICK m : Http3!End(m) /\ m.sample.kind = "none"
    BY <1>7 DEF Http3!ConnectFails, Http3!Deadline, Http3!CutShort, Http3!Builder, Http3!NoSample
  <2> QED BY <1>1, <1>7, <2>1 DEF Http3!ConnectFails, Http3!Deadline, Http3!NewPeer
<1>8. CASE Http3!RequestFails \/ Http3!Shutdown \/ Http3!PacketLost \/ Http3!Lose("close") \/ UNCHANGED loopVars
  BY <1>8, Zenon DEF Http3!RequestFails, Http3!Shutdown, Http3!Leave, Http3!PacketLost, Http3!Lose, loopVars
<1> QED
  BY <1>2, <1>4, <1>5, <1>6, <1>7, <1>8, Zenon DEF Http3!Next

\* Every step of the engine keeps the sums of the packets lost.
LEMMA Http3Counts == Http3Shape /\ Http3Sums /\ [Http3!Next]_loopVars => Http3Sums'
<1> SUFFICES ASSUME Http3Shape, Http3Sums, [Http3!Next]_loopVars PROVE Http3Sums'
  OBVIOUS
<1>0. /\ DOMAIN session = {"context", "zeroRtt", "prevLost", "iterations"}
      /\ DOMAIN peer = {"up", "inbox", "lost"} /\ DOMAIN truth = {"lost", "unseen"}
      /\ DOMAIN report.protocol = DOMAIN ProtocolDefault
      /\ "quic" \in DOMAIN ProtocolDefault /\ "http3" \in DOMAIN ProtocolDefault
      /\ pc \in {"connect", "exchange"} => ~session.context
      /\ ~session.context => session.prevLost = 0
      /\ pc = "connect" => peer.lost = 0
  BY Zenon DEF Http3Shape, ProtocolDefault
<1>1. PICK r \in Nat, u \in Nat, l \in Nat, n \in Nat, p \in Nat :
        /\ report.protocol.quic.retransmissions = r /\ truth.unseen = u /\ peer.lost = l /\ truth.lost = n
        /\ session.prevLost = p /\ p <= l /\ r + u + l = n + p
  BY Zenon DEF Http3Sums, Http3!CountsAreTrue
<1>2. ASSUME NEW r1 \in Nat, NEW u1 \in Nat, NEW l1 \in Nat, NEW n1 \in Nat, NEW p1 \in Nat,
             report'.protocol.quic.retransmissions = r1, truth'.unseen = u1, peer'.lost = l1, truth'.lost = n1,
             session'.prevLost = p1, p1 <= l1, r1 + u1 + l1 = n1 + p1
      PROVE  Http3Sums'
  BY <1>2, Zenon DEF Http3Sums, Http3!CountsAreTrue
<1>3. ASSUME report'.protocol = report.protocol, truth' = truth, peer'.lost = l, session'.prevLost = p
      PROVE  Http3Sums'
  <2>1. report'.protocol.quic.retransmissions = r /\ truth'.unseen = u /\ truth'.lost = n
    BY <1>1, <1>3, Zenon
  <2> QED BY <1>1, <1>2, <1>3, <2>1, Zenon
\* A metric without a sample, and one that reports k retransmissions.
<1>4. ASSUME NEW f, Http3!End(Http3!Builder(0, f)) PROVE report'.protocol = report.protocol
  BY <1>4, Zenon DEF Http3!End, Http3!Add, Http3!RecordProtocol, Http3!Builder, Http3!NoSample
<1>5. ASSUME NEW k \in Nat, NEW h, NEW z, NEW m, Http3!End(m), m.sample.kind = "http3",
             m.sample.quic = Http3!Quic(h, z, k)
      PROVE  report'.protocol.quic.retransmissions = r + k
  <2>1. report'.protocol = Http3!RecordProtocol(report.protocol, m.sample)
    BY <1>5, Zenon DEF Http3!End, Http3!Add
  <2>2. m.sample.quic # <<>> /\ m.sample.quic[1].retransmits = <<k>>
    BY <1>5 DEF Http3!Quic
  <2>3. report'.protocol.quic = Http3!RecordQuic(report.protocol.quic, m.sample.quic[1])
    BY <1>0, <1>5, <2>1, <2>2, Zenon DEF Http3!RecordProtocol
  <2>4. <<k>> # <<>> /\ Http3!Total(<<k>>) = k
    BY Zenon DEF Http3!Total
  <2>5. \A a, s : s.retransmits = <<k>>
          => Http3!RecordQuic(a, s).retransmissions = a.retransmissions + Http3!Total(<<k>>)
    BY <2>4, Zenon DEF Http3!RecordQuic
  <2> QED BY <1>1, <2>2, <2>3, <2>4, <2>5, Zenon
<1>6. ASSUME NEW status, NEW i, Http3!Finish(status, i) PROVE Http3Sums'
  <2>1. peer.lost - Http3!Smaller(session.prevLost, peer.lost) = l - p /\ l - p \in Nat
    BY <1>1 DEF Http3!Smaller
  <2>2. PICK m, h, z : Http3!End(m) /\ m.sample.kind = "http3" /\ m.sample.quic = Http3!Quic(h, z, l - p)
    <3> DEFINE migrated == i.migration /\ ~i.reconnect /\ status # 0
               h == i.handshake
               z == i.zeroRtt \/ session.zeroRtt = <<TRUE>>
               m == [Http3!Builder(0, i.fault) EXCEPT
                       !.status = status, !.reused = ~i.reconnect,
                       !.sample = [Http3!Http3Sample EXCEPT
                           !.quic = Http3!Quic(h, z, peer.lost - Http3!Smaller(session.prevLost, peer.lost)),
                           !.http3 = Http3!Http3(IF i.migration THEN 1 ELSE 0, IF migrated THEN 1 ELSE 0)]]
    <3>1. Http3!End(m)
      BY <1>6, Zenon DEF Http3!Finish
    <3>2. m.sample.kind = "http3"
            /\ m.sample.quic = Http3!Quic(h, z, peer.lost - Http3!Smaller(session.prevLost, peer.lost))
      BY Zenon DEF Http3!Builder, Http3!Http3Sample
    <3> HIDE DEF m, h, z
    <3> QED BY <2>1, <3>1, <3>2, Zenon
  <2>3. report'.protocol.quic.retransmissions = r + (l - p)
    BY <1>5, <2>1, <2>2, Zenon
  <2>4. truth'.unseen = u /\ peer'.lost = l /\ truth'.lost = n /\ session'.prevLost = l
    BY <1>0, <1>1, <1>6, Zenon DEF Http3!Finish
  <2>5. (r + (l - p)) + u + l = n + l /\ r + (l - p) \in Nat /\ l <= l
    BY <1>1, <2>1
  <2> QED BY <1>2, <2>3, <2>4, <2>5, Zenon
<1>7. ASSUME NEW f, Http3!Begin(f) PROVE Http3Sums'
  BY <1>1, <1>3, <1>4, <1>7, Zenon DEF Http3!Begin, Http3!EndAtOnce
<1>8. CASE (\E status : Http3!Answered(status)) \/ Http3!RetryFails \/ Http3!ReconnectFails \/ \E h :
             Http3!SetupFails(h)
  BY <1>6, <1>8, Zenon DEF Http3!Answered, Http3!RetryFails, Http3!ReconnectFails, Http3!SetupFails
<1>9. ASSUME NEW h, Http3!Reconnect(h) PROVE Http3Sums'
  <2>1. /\ report' = report /\ truth'.unseen = u + l - p /\ peer'.lost = 0 /\ truth'.lost = n
             /\ session'.prevLost = 0
    BY <1>0, <1>1, <1>9, Zenon DEF Http3!Reconnect, Http3!NewPeer
  <2>2. r + (u + l - p) + 0 = n + 0 /\ u + l - p \in Nat /\ 0 <= 0
    BY <1>1
  <2> QED BY <1>1, <1>2, <2>1, <2>2
<1>10. ASSUME NEW h, Http3!Connect(h) PROVE Http3Sums'
  <2>1. report' = report /\ truth' = truth /\ session' = session /\ peer'.lost = 0 /\ peer.lost = 0
    BY <1>0, <1>10, Zenon DEF Http3!Connect, Http3!NewPeer
  <2> QED BY <1>1, <1>3, <2>1, Zenon
<1>11. ASSUME NEW status, Http3!Exchanged(status) PROVE Http3Sums'
  <2>1. p = 0
    BY <1>0, <1>1, <1>11, Zenon DEF Http3!Exchanged
  <2>2. PICK m, h, z : Http3!End(m) /\ m.sample.kind = "http3" /\ m.sample.quic = Http3!Quic(h, z, l)
    <3> DEFINE m == [Http3!Builder(0, it.fault) EXCEPT
                       !.status = status, !.connection = <<0>>, !.dns = <<0>>,
                       !.sample = [Http3!Http3Sample EXCEPT
                           !.quic = Http3!Quic(<<0>>, it.zeroRtt, peer.lost), !.http3 = Http3!Http3(0, 0)]]
    <3>1. Http3!End(m)
      BY <1>11, Zenon DEF Http3!Exchanged
    <3>2. m.sample.kind = "http3" /\ m.sample.quic = Http3!Quic(<<0>>, it.zeroRtt, peer.lost)
      BY Zenon DEF Http3!Builder, Http3!Http3Sample
    <3> HIDE DEF m
    <3> QED BY <1>1, <3>1, <3>2, Zenon
  <2>3. report'.protocol.quic.retransmissions = r + l
    BY <1>5, <2>2, Zenon
  <2>4. truth'.unseen = u /\ peer'.lost = 0 /\ truth'.lost = n /\ session'.prevLost = 0
    BY <1>0, <1>1, <1>11, <2>1, Zenon DEF Http3!Exchanged, Http3!NewPeer
  <2>5. (r + l) + u + 0 = n + 0 /\ r + l \in Nat /\ 0 <= 0
    BY <1>1, <2>1
  <2> QED BY <1>2, <2>3, <2>4, <2>5, Zenon
<1>12. CASE Http3!ConnectFails \/ Http3!RequestFails \/ Http3!Shutdown \/ Http3!Lose("close")
              \/ UNCHANGED loopVars
  <2>1. report'.protocol = report.protocol /\ truth' = truth /\ peer'.lost = peer.lost /\ session' = session
    BY <1>0, <1>4, <1>12, Zenon
       DEF Http3!ConnectFails, Http3!RequestFails, Http3!Shutdown, Http3!Leave, Http3!Lose, loopVars
  <2> QED BY <1>1, <1>3, <2>1, Zenon
<1>13. CASE Http3!Deadline
  <2>1. report'.protocol = report.protocol /\ session' = session
    BY <1>4, <1>13, Zenon DEF Http3!Deadline, Http3!CutShort
  <2>2. CASE session.context
    BY <1>1, <1>3, <1>13, <2>1, <2>2, Zenon DEF Http3!Deadline
  <2>3. CASE ~session.context
    <3>1. truth'.unseen = u + l /\ peer'.lost = 0 /\ truth'.lost = n /\ p = 0 /\ session'.prevLost = 0
      BY <1>0, <1>1, <1>13, <2>1, <2>3, Zenon DEF Http3!Deadline, Http3!NewPeer
    <3>2. r + (u + l) + 0 = n + 0 /\ u + l \in Nat /\ 0 <= 0
      BY <1>1, <3>1
    <3> QED BY <1>1, <1>2, <2>1, <3>1, <3>2
  <2> QED BY <2>2, <2>3, Zenon
<1>14. CASE Http3!PacketLost
  <2>1. report' = report /\ truth'.unseen = u /\ peer'.lost = l + 1 /\ truth'.lost = n + 1
          /\ session'.prevLost = p
    BY <1>0, <1>1, <1>14, Zenon DEF Http3!PacketLost
  <2>2. r + u + (l + 1) = (n + 1) + p /\ l + 1 \in Nat /\ n + 1 \in Nat /\ p <= l + 1
    BY <1>1
  <2> QED BY <1>1, <1>2, <2>1, <2>2
<1>15. ASSUME NEW rebound, Http3!Request(rebound) PROVE Http3Sums'
  <2>1. report' = report /\ truth' = truth /\ peer' = peer /\ session'.prevLost = session.prevLost
    BY <1>0, <1>15, Zenon DEF Http3!Request
  <2> QED BY <1>1, <1>3, <2>1, Zenon
<1> QED
  BY <1>15, <1>7, <1>8, <1>9, <1>10, <1>11, <1>12, <1>13, <1>14, ZenonT(40) DEF Http3!Next

-----------------------------------------------------------------------------
(* The engines whose iteration is one request.                             *)
\* Where an iteration can be, and what it knows of its response.
RequestShape ==
    /\ DOMAIN session = {"engine", "parses", "urls"} /\ session.engine \in {"http", "graphql", "soap", "grpc"}
    /\ DOMAIN truth = {"failed", "hidden"} /\ truth.failed \in Nat /\ truth.hidden \in Nat
         /\ report.errors \in Nat
    /\ pc \in {"idle", "send", "drain", "connect", "call", "left"}
    /\ pc \notin {"idle", "left"} => DOMAIN it = {"fault", "bytes", "status"} /\ it.bytes \in Nat
    /\ pc \in {"send", "drain"} => session.engine # "grpc"
    /\ pc = "drain" => it.status \in {200, 404} /\ peer.says \in {"other", "data", "errors"}

\* The engines start in their invariant, and the account balances.
LEMMA RequestStarts == Request!Init => RequestShape /\ Request!CountsAreTrue /\ Accounted
<1> SUFFICES ASSUME Request!Init PROVE RequestShape /\ Request!CountsAreTrue /\ Accounted
  OBVIOUS
<1>1. RequestShape /\ Request!CountsAreTrue
  BY DEF Request!Init, Request!HttpEngines, Request!NoReport, RequestShape, Request!CountsAreTrue
<1>2. Accounted
  BY DEF Request!Init, Request!NoReport, Request!NoIteration, Request!NoPast, NoPast, Accounted,
         FaultsAreReported,
         IterationsAreReported
<1> QED BY <1>1, <1>2, Zenon

\* Every step of the engines is one of those that keep the account.
LEMMA RequestAccounts == Accounted /\ [Request!Next]_loopVars => AccountStep
<1> SUFFICES ASSUME Accounted, [Request!Next]_loopVars PROVE AccountStep
  OBVIOUS
<1>0. /\ DOMAIN past = {"iterations", "selected", "cut", "dropped", "losses", "connections", "frames"}
      /\ "fault" \in DOMAIN it
  BY Zenon DEF Accounted, NoPast
<1>1. ASSUME NEW f \in SelectFault, Request!Begin(f) PROVE Begins(f) \/ EndsAtOnce(f)
  BY <1>0, <1>1
     DEF Request!Begin, Request!Finish, Request!End, Request!Add, Request!MayBegin, Request!Begun,
         Request!Builder,
         Request!NoIteration, NoIteration, Begun, Begins, EndsAtOnce, Reports
<1>2. ASSUME NEW m, NEW failed, NEW hidden, Request!Finish(m, failed, hidden), m.fault = it.fault,
             pc \notin {"idle", "left"}, past' = past
      PROVE  Finishes
  BY <1>2, Zenon
     DEF Request!Finish, Request!End, Request!Add, Request!NoIteration, NoIteration, Finishes, Reports, SamePast
<1>3. /\ Request!Builder(0, it.fault).fault = it.fault
      /\ \A b : [Request!Builder(0, it.fault) EXCEPT !.bytes = b].fault = it.fault
      /\ \A s : [Request!Builder(0, it.fault) EXCEPT !.status = s].fault = it.fault
      /\ \A b, s : [Request!Builder(0, it.fault) EXCEPT !.status = s, !.bytes = b].fault = it.fault
      /\ \A b, s, x : [Request!Builder(0, it.fault) EXCEPT !.status = s, !.bytes = b,
           !.sample = x].fault = it.fault
  BY Zenon DEF Request!Builder
<1>4. Request!SendFails \/ Request!ConnectFails => Finishes
  BY <1>2, <1>3, ZenonT(40) DEF Request!SendFails, Request!ConnectFails, Request!Fails
<1>5. Request!DrainFails => Finishes
  BY <1>2, <1>3, Zenon DEF Request!DrainFails
<1>6. ASSUME NEW found, Request!Drained(found) PROVE Finishes
  BY <1>6, Zenon
     DEF Request!Drained, Request!Finish, Request!End, Request!Add, Request!Builder, Request!NoIteration,
         NoIteration,
         Finishes, Reports, SamePast
<1>7. ASSUME NEW code, Request!Called(code) PROVE Finishes
  BY <1>2, <1>3, <1>7, Zenon DEF Request!Called
<1>8. Request!Deadline => IsCut
  BY DEF Request!Deadline, Request!CutShort, Request!End, Request!Add, Request!Builder, Request!NoIteration,
         IsCut,
         Reports, NoIteration
<1>9. Request!Shutdown => Leaves
  BY Zenon DEF Request!Shutdown, Request!Leave, Leaves, Request!NoIteration, NoIteration
<1>10. ASSUME NEW status, NEW says, Request!Respond(status, says) PROVE Goes
  BY <1>0, <1>10, Zenon DEF Request!Respond, Goes, SamePast
<1>11. Request!Chunk \/ Request!Connect \/ UNCHANGED loopVars => Goes
  BY <1>0, Zenon DEF Request!Chunk, Request!Connect, Request!Connected, loopVars, Goes, SamePast
<1> QED
  BY <1>1, <1>4, <1>5, <1>6, <1>7, <1>8, <1>9, <1>10, <1>11, Zenon
     DEF AccountStep, Request!Next, Request!SelectFault, SelectFault

\* What the body is found to say is wrong only if a part of it was not parsed.
LEMMA FindingsHold ==
    ASSUME RequestShape, pc = "drain", NEW found \in Found, found \in Request!Findings
    PROVE  /\ found = SomeOne => session.engine # "http" /\ peer.says = "errors"
           /\ found # SomeOne /\ session.engine # "http" /\ peer.says = "errors" => it.bytes > MaxParse
<1>1. /\ session.engine \in {"http", "graphql", "soap"} /\ peer.says \in {"other", "data", "errors"}
           /\ it.bytes \in Nat
      /\ MaxParse \in Nat
  BY ReplySessionsAssumption, Zenon DEF RequestShape
<1>2. (it.bytes > MaxParse) = ~(it.bytes <= MaxParse)
  BY <1>1
<1>3. <<1>> # <<>> /\ <<1>> # <<0>>
  OBVIOUS
<1> QED BY <1>1, <1>2, <1>3, Zenon DEF Request!Findings, Request!CountGraphqlErrors, Request!CountSoapFaults

\* Every step of the engines keeps their invariant and the count of errors.
LEMMA RequestCounts ==
    RequestShape /\ Request!CountsAreTrue /\ [Request!Next]_loopVars => RequestShape'
      /\ (Request!CountsAreTrue)'
<1> SUFFICES ASSUME RequestShape, Request!CountsAreTrue, [Request!Next]_loopVars
             PROVE  RequestShape' /\ (Request!CountsAreTrue)'
  OBVIOUS
<1>0. /\ DOMAIN session = {"engine", "parses", "urls"} /\ session.engine \in {"http", "graphql", "soap", "grpc"}
      /\ DOMAIN truth = {"failed", "hidden"}
      /\ pc \notin {"idle", "left"} => DOMAIN it = {"fault", "bytes", "status"} /\ it.bytes \in Nat
      /\ pc \in {"send", "drain"} => session.engine # "grpc"
      /\ pc = "drain" => it.status \in {200, 404}
  BY DEF RequestShape
<1>1. PICK e \in Nat, h \in Nat, n \in Nat :
        report.errors = e /\ truth.hidden = h /\ truth.failed = n /\ e + h = n
  BY Zenon DEF RequestShape, Request!CountsAreTrue
\* The figures kept, an iteration goes on.
<1>2. ASSUME report' = report, truth' = truth,
             DOMAIN session' = {"engine", "parses", "urls"}, session'.engine = session.engine,
             pc' \in {"idle", "send", "drain", "connect", "call", "left"},
             pc' \notin {"idle", "left"} => DOMAIN it' = {"fault", "bytes", "status"} /\ it'.bytes \in Nat,
             pc' \in {"send", "drain"} => session.engine # "grpc",
             pc' = "drain" => it'.status \in {200, 404} /\ peer'.says \in {"other", "data", "errors"}
      PROVE  RequestShape' /\ (Request!CountsAreTrue)'
  BY <1>0, <1>1, <1>2, Zenon DEF RequestShape, Request!CountsAreTrue
\* An iteration ends: the report counts an error for it if it failed and that is not hidden.
<1>3. ASSUME pc' = "idle", DOMAIN session' = {"engine", "parses", "urls"}, session'.engine = session.engine,
             DOMAIN truth' = {"failed", "hidden"}, NEW x \in Nat, NEW y \in Nat, NEW z \in Nat,
             report'.errors = e + x, truth'.hidden = h + y, truth'.failed = n + z, x + y = z
      PROVE  RequestShape' /\ (Request!CountsAreTrue)'
  <2>1. (e + x) + (h + y) = n + z /\ e + x \in Nat /\ h + y \in Nat /\ n + z \in Nat
    BY <1>1, <1>3
  <2>2. /\ report'.errors \in Nat /\ truth'.hidden \in Nat /\ truth'.failed \in Nat
        /\ report'.errors + truth'.hidden = truth'.failed
    BY <1>3, <2>1, Zenon
  <2> QED BY <1>0, <1>3, <2>2, Zenon DEF RequestShape, Request!CountsAreTrue
<1>4. ASSUME NEW m, NEW failed \in BOOLEAN, NEW hidden \in BOOLEAN, Request!Finish(m, failed, hidden),
             DOMAIN session' = {"engine", "parses", "urls"}, session'.engine = session.engine,
             Request!IsError(m) <=> failed /\ ~hidden, hidden => failed
      PROVE  RequestShape' /\ (Request!CountsAreTrue)'
  <2>1. PICK x \in Nat, y \in Nat, z \in Nat :
          /\ x = IF Request!IsError(m) THEN 1 ELSE 0
          /\ y = IF hidden THEN 1 ELSE 0
          /\ z = IF failed THEN 1 ELSE 0
    OBVIOUS
  <2>2. x + y = z
    BY <1>4, <2>1
  <2>3. pc' = "idle" /\ report'.errors = e + x /\ truth' = [failed |-> n + z, hidden |-> h + y]
    BY <1>1, <1>4, <2>1, Zenon DEF Request!Finish, Request!End, Request!Add
  <2> QED BY <1>3, <1>4, <2>2, <2>3, Zenon
<1>5. /\ \A f : Request!IsError(Request!Builder(0, f))
      /\ \A f, b : Request!IsError([Request!Builder(0, f) EXCEPT !.bytes = b])
      /\ \A f : Request!IsError([Request!Builder(0, f) EXCEPT !.status = 503])
  BY DEF Request!IsError, Request!Builder
\* The actions.
<1>6. ASSUME NEW f, Request!Begin(f) PROVE RequestShape' /\ (Request!CountsAreTrue)'
  <2>1. DOMAIN session' = {"engine", "parses", "urls"} /\ session'.engine = session.engine
    BY <1>0, <1>6, Zenon DEF Request!Begin
  <2>2. CASE session.parses
    <3>1. /\ report' = report /\ truth' = truth /\ it' = [fault |-> f, bytes |-> 0, status |-> 0]
          /\ pc' = IF session.engine = "grpc" THEN "connect" ELSE "send"
      BY <1>6, <2>2, Zenon DEF Request!Begin
    <3> QED BY <1>2, <2>1, <3>1, Zenon
  <2>3. CASE ~session.parses
    <3>1. Request!Finish(Request!Builder(0, f), TRUE, FALSE)
      BY <1>6, <2>3, Zenon DEF Request!Begin
    <3> QED BY <1>4, <1>5, <2>1, <3>1, Zenon
  <2> QED BY <2>2, <2>3, Zenon
<1>7. ASSUME NEW status \in {200, 404}, NEW says \in {"other", "data", "errors"}, Request!Respond(status, says)
      PROVE  RequestShape' /\ (Request!CountsAreTrue)'
  <2>1. /\ report' = report /\ truth' = truth /\ session' = session /\ pc' = "drain" /\ session.engine # "grpc"
        /\ DOMAIN it' = {"fault", "bytes", "status"} /\ it'.bytes \in Nat /\ it'.status = status
             /\ peer'.says = says
    BY <1>0, <1>7, Zenon DEF Request!Respond
  <2> QED BY <1>0, <1>2, <2>1
<1>8. CASE Request!SendFails \/ Request!ConnectFails \/ Request!DrainFails
  <2>1. PICK m : session' = session /\ Request!IsError(m) /\ Request!Finish(m, TRUE, FALSE)
    BY <1>5, <1>8, ZenonT(40) DEF Request!SendFails, Request!ConnectFails, Request!DrainFails, Request!Fails
  <2> QED BY <1>0, <1>4, <2>1, Zenon
<1>9. CASE Request!Chunk
  <2>1. /\ report' = report /\ truth' = truth /\ session' = session /\ peer' = peer /\ pc = "drain" /\ pc' = pc
        /\ DOMAIN it' = {"fault", "bytes", "status"} /\ it'.bytes = it.bytes + 1 /\ it'.status = it.status
    BY <1>0, <1>9, Zenon DEF Request!Chunk
  <2>2. it.bytes + 1 \in Nat /\ peer.says \in {"other", "data", "errors"}
    BY <1>0, <2>1 DEF RequestShape
  <2> QED BY <1>0, <1>2, <2>1, <2>2
<1>10. ASSUME NEW found \in Found, Request!Drained(found) PROVE RequestShape' /\ (Request!CountsAreTrue)'
  <2> DEFINE failed == it.status >= 400 \/ (session.engine # "http" /\ peer.says = "errors")
             hidden == failed /\ it.status < 400 /\ it.bytes > MaxParse /\ found \in Zeros
             m == [Request!Builder(0, it.fault) EXCEPT !.status = it.status, !.bytes = it.bytes,
                                                       !.sample = Request!SampleOf(found)]
  <2>1. Request!Finish(m, failed, hidden) /\ session' = session /\ pc = "drain" /\ found \in Request!Findings
    BY <1>10, Zenon DEF Request!Drained
  <2>2. m.status = it.status /\ m.sample = Request!SampleOf(found)
    BY Zenon DEF Request!Builder
  <2>3. /\ found = SomeOne => session.engine # "http" /\ peer.says = "errors"
        /\ found # SomeOne /\ session.engine # "http" /\ peer.says = "errors" => it.bytes > MaxParse
    BY <2>1, FindingsHold, Zenon
  <2>4. session.engine \in {"http", "graphql", "soap"} /\ it.status \in {200, 404}
          /\ (session.engine = "http" => found = <<>>)
    BY <1>0, <2>1, Zenon DEF Request!Findings
  <2>5. Request!SampleErrors(m.sample) = IF found = SomeOne THEN 1 ELSE 0
    BY <2>2, <2>4 DEF Request!SampleErrors, Request!SampleOf, Request!NoSample
  <2>6. Request!IsError(m) <=> it.status = 404 \/ found = SomeOne
    BY <2>2, <2>4, <2>5 DEF Request!IsError
  <2>7. (failed \in BOOLEAN) /\ (hidden \in BOOLEAN) /\ (hidden => failed)
    OBVIOUS
  <2>8. Request!IsError(m) <=> failed /\ ~hidden
    BY <2>3, <2>4, <2>6
  <2> HIDE DEF failed, hidden, m
  <2> QED BY <1>0, <1>4, <2>1, <2>7, <2>8
<1>11. CASE Request!Connect
  BY <1>0, <1>2, <1>11, Zenon DEF Request!Connect
<1>12. ASSUME NEW code \in {0, 4, 5, 14, 99}, Request!Called(code)
       PROVE  RequestShape' /\ (Request!CountsAreTrue)'
  <2> DEFINE m == [Request!Builder(0, it.fault) EXCEPT !.status = Request!GrpcToHttpStatus(code),
                                                       !.bytes = IF code = 0 THEN 1 ELSE 0]
  <2>1. Request!Finish(m, code # 0, FALSE) /\ session' = session
    BY <1>12, Zenon DEF Request!Called
  <2>2. m.status = Request!GrpcToHttpStatus(code) /\ m.sample.kind = "none"
    BY Zenon DEF Request!Builder, Request!NoSample
  <2>3. Request!GrpcToHttpStatus(code) = CASE code = 0 -> 200 [] code = 4 -> 504 [] code = 5 -> 404 [] code = 14 -> 503 [] code = 99 -> 500
    BY DEF Request!GrpcToHttpStatus
  <2> HIDE DEF m
  <2>4. Request!SampleErrors(m.sample) = 0
    BY <2>2, Zenon DEF Request!SampleErrors
  <2>5. Request!IsError(m) <=> code # 0
    BY <2>2, <2>3, <2>4 DEF Request!IsError
  <2> QED BY <1>0, <1>4, <2>1, <2>5, Zenon
<1>13. CASE Request!Deadline
  <2>1. pc' = "idle" /\ report'.errors = e + 1 /\ truth'.hidden = h + 0 /\ truth'.failed = n + 1
          /\ session' = session
    BY <1>0, <1>1, <1>5, <1>13 DEF Request!Deadline, Request!CutShort, Request!End, Request!Add
  <2> QED BY <1>0, <1>3, <1>13, <2>1 DEF Request!Deadline
<1>14. CASE Request!Shutdown \/ UNCHANGED loopVars
  <2>1. CASE Request!Shutdown
    BY <1>0, <1>2, <2>1, Zenon DEF Request!Shutdown, Request!Leave
  <2>2. CASE UNCHANGED loopVars
    BY <2>2 DEF RequestShape, Request!CountsAreTrue, loopVars
  <2> QED BY <1>14, <2>1, <2>2, Zenon
<1> QED
  BY <1>6, <1>7, <1>8, <1>9, <1>10, <1>11, <1>12, <1>13, <1>14 DEF Request!Next
=============================================================================
