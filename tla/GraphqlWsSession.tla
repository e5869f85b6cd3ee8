-------------------------- MODULE GraphqlWsSession --------------------------
(***************************************************************************)
(* GraphqlWsEngine (protocols/graphql_ws.rs): a subscription over a        *)
(* WebSocket that outlives the iterations, each of which takes one event.  *)
(* Frames decode_frame ignores (pong, ping once answered, other) are left  *)
(* out.                                                                    *)
(***************************************************************************)
EXTENDS WorkerLoop

\* GraphqlWsSession::new.  last and ttfm: last_message_at is set, ttfm_recorded.
NewSession == [stream |-> FALSE, initialized |-> FALSE, subscribed |-> FALSE, last |-> FALSE, ttfm |-> FALSE]

\* A server: the connection_inits it got and acknowledged, its live subscriptions.  Its
\* error frame is "errors": "error" is an error of the stream.
NewPeer == [up |-> TRUE, inbox |-> <<>>, inits |-> 0, acks |-> 0, live |-> 0]

\* early: a subscribe before the ack; masked: an iteration with a corrupted
\* payload read a frame that the subscription depends on.
NewTruth == [early |-> FALSE, dead |-> FALSE, masked |-> FALSE, subscribes |-> 0, nexts |-> 0]

Reborn == [truth EXCEPT !.dead = FALSE, !.masked = FALSE]

Init ==
    /\ pc = "idle" /\ it = NoIteration /\ report = NoReport /\ past = NoPast /\ truth = NewTruth
    /\ session = NewSession
    /\ peer = [NewPeer EXCEPT !.up = FALSE]

\* reset
Reset == NewSession

Error == Builder(0, it.fault)

Event(sample) == [Builder(0, it.fault) EXCEPT !.status = 200, !.sample = sample]

-----------------------------------------------------------------------------
Begin(f) ==
    /\ MayBegin
    /\ IF Is(f, "ConnectionDrop")
       THEN EndAtOnce(f, Builder(0, f))
       ELSE /\ past' = Begun(f)
            /\ it' = [fault |-> f, operations |-> <<>>]
            /\ pc' = "ready"
            /\ UNCHANGED report
    /\ UNCHANGED <<session, peer, truth>>

\* Where run_iteration goes with an initialized session s.
AfterInit(s) ==
    CASE Is(it.fault, "CorruptedPayload") -> "corrupt"
      [] ~Is(it.fault, "CorruptedPayload") /\ s.subscribed -> "event"
      [] ~Is(it.fault, "CorruptedPayload") /\ ~s.subscribed -> "subscribe"

\* The session has a stream: initialize it unless that is done.
StillConnected ==
    /\ pc = "ready" /\ session.stream
    /\ pc' = IF session.initialized THEN AfterInit(session) ELSE "init"
    /\ UNCHANGED <<it, session, peer, report, past, truth>>

\* connect, when the server negotiates the subprotocol.
Connect ==
    /\ pc = "ready" /\ ~session.stream
    /\ session' = [session EXCEPT !.stream = TRUE]
    /\ peer' = NewPeer
    /\ past' = Connected
    /\ truth' = Reborn
    /\ pc' = "init"
    /\ UNCHANGED <<it, report>>

\* initialize sends connection_init ...
SendInit ==
    /\ pc = "init"
    /\ peer' = [peer EXCEPT !.inits = @ + 1]
    /\ pc' = "ack"
    /\ UNCHANGED <<it, session, report, past, truth>>

\* Faulty variant: any frame of the server is taken for the ack.
ReadAckLoosely ==
    /\ pc = "ack" /\ MayRead /\ Received.kind \in {"ack", "next", "errors", "complete"}
    /\ peer' = Take
    /\ session' = [session EXCEPT !.initialized = TRUE]
    /\ pc' = AfterInit(session)
    /\ UNCHANGED <<it, report, past, truth>>

\* ... and waits for connection_ack,
ReadAck ==
    /\ pc = "ack" /\ MayRead /\ Received.kind = "ack"
    /\ peer' = Take
    /\ session' = [session EXCEPT !.initialized = TRUE]
    /\ pc' = AfterInit(session)
    /\ UNCHANGED <<it, report, past, truth>>

\* over frames that must not come before it.
SkipBeforeAck ==
    /\ pc = "ack" /\ MayRead /\ Received.kind \in {"next", "errors", "complete"}
    /\ peer' = Take
    /\ UNCHANGED <<pc, it, session, report, past, truth>>

\* The connection is refused; or a send, or the wait for the ack, fails.
Fail ==
    /\ \/ pc = "ready" /\ ~session.stream
       \/ pc = "ack"
       \/ pc \in {"init", "corrupt", "subscribe"} /\ ~peer.up
    /\ session' = Reset
    /\ End(Error)
    /\ UNCHANGED <<peer, past, truth>>

\* A malformed frame instead of a subscription; the server may close on it.
SendCorrupt ==
    /\ pc = "corrupt"
    /\ pc' = "junk"
    /\ UNCHANGED <<it, session, peer, report, past, truth>>

\* Whatever comes next is the result; the session is left as it is.
ReadJunk ==
    /\ pc = "junk" /\ MayRead
    /\ peer' = IF Received.kind \in Ends THEN peer ELSE Take
    /\ truth' = [truth EXCEPT !.masked = @ \/ Received.kind \notin {"next", "ack"},
                              !.dead = @ \/ Received.kind \in Ends,
                              !.nexts = @ + IF Received.kind = "next" THEN 1 ELSE 0]
    /\ End([Error EXCEPT !.status = IF Received.kind = "next" THEN 200 ELSE 0])
    /\ UNCHANGED <<session, past>>

Subscribed == [peer EXCEPT !.live = @ + IF peer.up THEN 1 ELSE 0]

Subscribe ==
    /\ pc = "subscribe"
    /\ peer' = Subscribed
    /\ truth' = [truth EXCEPT !.early = @ \/ peer.acks = 0, !.subscribes = @ + 1]
    /\ session' = [session EXCEPT !.subscribed = TRUE, !.last = FALSE, !.ttfm = FALSE]
    /\ it' = [it EXCEPT !.operations = <<1>>]
    /\ pc' = "event"
    /\ UNCHANGED <<report, past>>

ReadNext ==
    /\ pc = "event" /\ MayRead /\ Received.kind = "next"
    /\ peer' = Take
    /\ truth' = [truth EXCEPT !.nexts = @ + 1]
    /\ session' = [session EXCEPT !.last = TRUE, !.ttfm = TRUE]
    /\ End(Event([GraphqlWsSample EXCEPT !.operations = it.operations,
                                         !.ttfm = IF session.ttfm THEN <<>> ELSE <<0>>,
                                         !.interval = IF session.last THEN <<0>> ELSE <<>>]))
    /\ UNCHANGED past

\* Faulty variant: only an error makes the next iteration subscribe again.
ReadTerminalError ==
    /\ pc = "event" /\ MayRead /\ Received.kind \in {"errors", "complete"}
    /\ peer' = Take
    /\ session' = [session EXCEPT !.subscribed = Received.kind = "complete"]
    /\ End(Event([GraphqlWsSample EXCEPT !.operations = it.operations,
                                         !.errors = IF Received.kind = "errors" THEN <<Received.n>> ELSE <<>>]))
    /\ UNCHANGED <<past, truth>>

\* error and complete end the subscription; the errors of the first are counted.
ReadTerminal ==
    /\ pc = "event" /\ MayRead /\ Received.kind \in {"errors", "complete"}
    /\ peer' = Take
    /\ session' = [session EXCEPT !.subscribed = FALSE]
    /\ End(Event([GraphqlWsSample EXCEPT !.operations = it.operations,
                                         !.errors = IF Received.kind = "errors" THEN <<Received.n>> ELSE <<>>]))
    /\ UNCHANGED <<past, truth>>

\* A late ack, of an initialize that the deadline cut, ends the iteration too.
ReadLateAck ==
    /\ pc = "event" /\ MayRead /\ Received.kind = "ack"
    /\ peer' = Take
    /\ End(Event([GraphqlWsSample EXCEPT !.operations = it.operations]))
    /\ UNCHANGED <<session, past, truth>>

\* connection_error, Close, EOF or an error of the stream.
ReadEnds ==
    /\ pc = "event" /\ MayRead /\ Received.kind \in Ends \cup {"connection_error"}
    /\ session' = Reset
    /\ truth' = [truth EXCEPT !.dead = TRUE]
    /\ End(Error)
    /\ UNCHANGED <<peer, past>>

\* The read of an event times out; the session is kept.
TimeOut ==
    /\ pc \in {"event", "junk"}
    /\ End(Error)
    /\ UNCHANGED <<session, peer, past, truth>>

\* The deadline drops a send whose frame is on the wire.
CutInSend ==
    /\ pc \in {"init", "subscribe"}
    /\ peer' = IF pc = "init" THEN [peer EXCEPT !.inits = @ + 1] ELSE Subscribed
    /\ truth' = IF pc = "init" THEN truth ELSE [truth EXCEPT !.early = @ \/ peer.acks = 0, !.subscribes = @ + 1]
    /\ CutShort
    /\ UNCHANGED session

Deadline == CutShort /\ UNCHANGED <<session, peer, truth>>

Shutdown == Leave([session EXCEPT !.stream = FALSE])

-----------------------------------------------------------------------------
(* The server.                                                             *)

ServerAcks ==
    /\ peer.acks < peer.inits
    /\ Deliver(Frame("ack", 0), [peer EXCEPT !.acks = @ + 1])
    /\ UNCHANGED past

\* An event of a live subscription, or a stray one; error and complete end it.
ServerEvent(kind) ==
    /\ kind = "next" \/ peer.live > 0
    /\ Volunteer(Frame(kind, 1), [peer EXCEPT !.live = @ - IF kind = "next" THEN 0 ELSE 1])

ServerRefuses == Volunteer(Frame("connection_error", 0), [peer EXCEPT !.live = 0])

Next ==
    \/ \E f \in SelectFault : Begin(f)
    \/ StillConnected \/ Connect \/ SendInit \/ ReadAck \/ SkipBeforeAck \/ Fail
    \/ SendCorrupt \/ ReadJunk
    \/ Subscribe \/ ReadNext \/ ReadTerminal \/ ReadLateAck \/ ReadEnds \/ TimeOut
    \/ CutInSend \/ Deadline \/ Shutdown
    \/ ServerAcks \/ ServerRefuses
    \/ \E kind \in {"next", "errors", "complete"} : ServerEvent(kind)
    \/ \E kind \in Ends : Lose(kind)

Spec == Init /\ [][Next]_loopVars

-----------------------------------------------------------------------------
\* No subscribe goes out before the server's connection_ack on that connection.
HandshakeFirst == ~truth.early

\* An iteration never waits for an event that cannot come: while the connection
\* is up the server holds a subscription, or its end is on the way.  The
\* exception is an end that an iteration with a corrupted payload read.
WaitsOnLiveSubscription ==
    pc = "event" /\ peer.up /\ ~truth.masked =>
        \/ peer.live > 0
        \/ \E i \in DOMAIN peer.inbox : peer.inbox[i].kind \in {"errors", "complete", "connection_error"}

\* A connection that was seen to end is dropped, with the same exception.
NoCorpse == pc = "idle" /\ truth.dead /\ ~truth.masked => ~session.stream

\* operations_total and messages_total count no subscribe and no next frame that
\* was not sent or received.
CountsAreTrue ==
    /\ report.protocol.graphql_ws.operations <= truth.subscribes
    /\ report.protocol.graphql_ws.messages <= truth.nexts
=============================================================================
