-------------------------- MODULE WebSocketSession --------------------------
(***************************************************************************)
(* WebSocketEngine (protocols/websocket.rs): the persistent session, the   *)
(* publisher, the subscriber and the stateless modes.  The peer answers    *)
(* the messages of a connection in order, pings, and may stay silent.      *)
(***************************************************************************)
EXTENDS WorkerLoop

CONSTANTS
    MaxMessages,   \* ws_max_messages: an option
    WarnFrames     \* warn_bytes, in frames: the frames of a publisher are of one size

Roles == {"persistent", "publisher", "subscriber", "handshake", "ping_pong", "stream"}

\* create_worker_context; the stateless roles have no session but the same record.
NewSession(role) ==
    [role |-> role, open |-> FALSE, sent |-> 0, pings |-> 0, pongs |-> 0, written |-> 0, flushed |-> 0]

NewPeer == [up |-> TRUE, inbox |-> <<>>, wire |-> 0, replied |-> 0]

NewTruth == [inStep |-> TRUE, abandoned |-> 0, uncounted |-> 0, dead |-> FALSE, pings |-> 0]

\* The truth about a new connection; pings are counted over all of them.
Reborn == [NewTruth EXCEPT !.pings = truth.pings]

Init ==
    /\ pc = "idle" /\ it = NoIteration /\ report = NoReport /\ past = NoPast
    /\ session \in {NewSession(r) : r \in Roles}
    /\ peer = [NewPeer EXCEPT !.up = FALSE]
    /\ truth = NewTruth

Error(f) == Builder(0, f)

\* ws_sample: None when nothing was counted.
Heartbeats(sent, pings, solicited, unsolicited) ==
    [WsSample EXCEPT !.pings = sent, !.pingsReceived = pings, !.solicited = solicited,
                     !.unsolicited = unsolicited]

Counting(f) == [fault |-> f, pings |-> 0, pongs |-> 0]

-----------------------------------------------------------------------------
(* The persistent session.                                                 *)

\* Faulty variant: the limit is checked with > instead of >=.
IsMaxReachedLate == MaxMessages # <<>> /\ session.sent > MaxMessages[1]

IsMaxReached == MaxMessages # <<>> /\ session.sent >= MaxMessages[1]

PersistentBegin(f) ==
    /\ session.role = "persistent"
    /\ MayBegin
    /\ IF Is(f, "ConnectionDrop")
       THEN EndAtOnce(f, Error(f))
       ELSE /\ past' = Begun(f)
            /\ it' = [fault |-> f, fresh |-> FALSE]
            /\ pc' = "connect"
            /\ UNCHANGED report
    /\ UNCHANGED <<session, peer, truth>>

\* ensure_connected finds a stream that may carry another message.
StillConnected ==
    /\ pc = "connect" /\ session.role = "persistent" /\ session.open /\ ~IsMaxReached
    /\ pc' = "send"
    /\ UNCHANGED <<it, session, peer, report, past, truth>>

Reconnect ==
    /\ pc = "connect" /\ session.role = "persistent" /\ (~session.open \/ IsMaxReached)
    /\ session' = [session EXCEPT !.open = TRUE, !.sent = 0]
    /\ peer' = NewPeer
    /\ past' = Connected
    /\ truth' = Reborn
    /\ it' = [it EXCEPT !.fresh = TRUE]
    /\ pc' = "send"
    /\ UNCHANGED report

\* A stream that has reached its limit is kept when its successor fails.
ReconnectFails ==
    /\ pc = "connect" /\ session.role = "persistent" /\ (~session.open \/ IsMaxReached)
    /\ End(Error(it.fault))
    /\ UNCHANGED <<session, peer, past, truth>>

Exchange(status) ==
    [Builder(0, it.fault) EXCEPT !.status = status, !.connection = <<IF it.fresh THEN 1 ELSE 0>>, !.reused = ~it.fresh]

\* A message to a dead peer may still be written.
Sent == [peer EXCEPT !.wire = @ + 1]

Send ==
    /\ pc = "send"
    /\ peer' = Sent
    /\ session' = [session EXCEPT !.sent = @ + 1, !.pings = 0, !.pongs = 0]
    /\ it' = [fault |-> it.fault, fresh |-> it.fresh, pings |-> 0, pongs |-> 0]
    /\ pc' = "read"
    /\ UNCHANGED <<report, past, truth>>

\* The sample repeats what the latest completed read counted.
SendFails ==
    /\ pc = "send" /\ ~peer.up
    /\ session' = [session EXCEPT !.open = FALSE]
    /\ End([Exchange(0) EXCEPT !.sample = Heartbeats(0, session.pings, 0, session.pongs)])
    /\ truth' = [truth EXCEPT !.dead = TRUE]
    /\ UNCHANGED <<peer, past>>

\* The deadline drops send() after the message is on the wire, before it is counted.
CutInSend ==
    /\ pc = "send"
    /\ peer' = Sent
    /\ truth' = [truth EXCEPT !.uncounted = @ + 1, !.abandoned = @ + 1]
    /\ CutShort
    /\ UNCHANGED session

\* Ping and Pong are counted and the read goes on.
ReadControl(kind) ==
    /\ pc = "read" /\ MayRead /\ Received.kind = kind /\ session.role \in {"persistent", "subscriber"}
    /\ peer' = Take
    /\ it' = IF kind = "ping" THEN [it EXCEPT !.pings = @ + 1] ELSE [it EXCEPT !.pongs = @ + 1]
    /\ truth' = [truth EXCEPT !.pings = @ + IF kind = "ping" THEN 1 ELSE 0]
    /\ UNCHANGED <<pc, session, report, past>>

\* Faulty variant: the read ends with a Pong, as in read_with_timeout.
ReadAnswerOrPong ==
    /\ pc = "read" /\ session.role = "persistent" /\ MayRead /\ Received.kind \in {"reply", "pong"}
    /\ peer' = Take
    /\ session' = [session EXCEPT !.pings = it.pings, !.pongs = it.pongs]
    /\ truth' = [truth EXCEPT !.inStep = @ /\ (Received.kind = "reply" => peer.wire = Received.n + truth.abandoned)]
    /\ End([Exchange(200) EXCEPT !.sample = Heartbeats(0, it.pings, 0, it.pongs), !.bytes = 1])
    /\ UNCHANGED past

ReadAnswer ==
    /\ pc = "read" /\ session.role = "persistent" /\ MayRead /\ Received.kind = "reply"
    /\ peer' = Take
    /\ session' = [session EXCEPT !.pings = it.pings, !.pongs = it.pongs]
    /\ truth' = [truth EXCEPT !.inStep = @ /\ peer.wire = Received.n + truth.abandoned]
    /\ End([Exchange(200) EXCEPT !.sample = Heartbeats(0, it.pings, 0, it.pongs), !.bytes = 1])
    /\ UNCHANGED past

ReadEnds ==
    /\ pc = "read" /\ session.role = "persistent" /\ MayRead /\ Received.kind \in Ends
    /\ peer' = Take
    /\ session' = [session EXCEPT !.open = FALSE, !.pings = it.pings, !.pongs = it.pongs]
    /\ truth' = [truth EXCEPT !.dead = TRUE]
    /\ End([Exchange(0) EXCEPT !.sample = Heartbeats(0, it.pings, 0, it.pongs)])
    /\ UNCHANGED past

\* The session is kept: the server may simply be slow.
ReadTimesOut ==
    /\ pc = "read" /\ session.role = "persistent"
    /\ End([Exchange(0) EXCEPT !.sample = Heartbeats(0, session.pings, 0, session.pongs)])
    /\ truth' = [truth EXCEPT !.abandoned = @ + 1]
    /\ UNCHANGED <<session, peer, past>>

-----------------------------------------------------------------------------
(* Publisher and subscriber: they connect before they ask for a fault.     *)

HalfBegin ==
    /\ session.role \in {"publisher", "subscriber"}
    /\ MayBegin
    /\ past' = Begun(<<>>)
    /\ it' = [fault |-> <<>>]
    /\ pc' = "connect"
    /\ UNCHANGED <<session, peer, report, truth>>

HalfConnectFails ==
    /\ pc = "connect" /\ session.role \in {"publisher", "subscriber"} /\ ~session.open
    /\ End(Error(<<>>))
    /\ UNCHANGED <<session, peer, past, truth>>

\* Connected at last or still: the fault is selected, then slept or failed by.
HalfConnected(f) ==
    /\ pc = "connect" /\ session.role \in {"publisher", "subscriber"}
    /\ past' = [(IF session.open THEN past ELSE Connected) EXCEPT !.selected = @ + Len(f)]
    /\ IF session.open
       THEN UNCHANGED <<session, peer, truth>>
       ELSE /\ session' = [NewSession(session.role) EXCEPT !.open = TRUE]
            /\ peer' = NewPeer
            /\ truth' = Reborn
    /\ IF Is(f, "ConnectionDrop")
       THEN End(Error(f))
       ELSE /\ it' = Counting(f)
            /\ pc' = IF session.role = "publisher" THEN "feed" ELSE "read"
            /\ UNCHANGED report

InFlight == session.written - session.flushed

\* start_send counts the frame; depth is sampled before the flush.
Feed ==
    /\ pc = "feed"
    /\ session' = [session EXCEPT !.written = @ + 1]
    /\ it' = [fault |-> it.fault, depth |-> InFlight + 1]
    /\ pc' = "flush"
    /\ UNCHANGED <<peer, report, past, truth>>

Flush ==
    /\ pc = "flush"
    /\ session' = [session EXCEPT !.flushed = session.written]
    /\ peer' = [peer EXCEPT !.wire = session.written]
    /\ End([Builder(0, it.fault) EXCEPT
               !.status = 200, !.bytes = 1, !.reused = TRUE,
               !.sample = [WsSample EXCEPT !.depth = <<it.depth>>,
                             !.breaches = IF WarnFrames > 0 /\ it.depth >= WarnFrames THEN 1 ELSE 0]])
    /\ UNCHANGED <<past, truth>>

\* feed or flush failed: the sink is discarded.
FlushFails ==
    /\ pc \in {"feed", "flush"} /\ ~peer.up
    /\ session' = NewSession("publisher")
    /\ truth' = [truth EXCEPT !.dead = TRUE]
    /\ End(Error(it.fault))
    /\ UNCHANGED <<peer, past>>

\* The pubsub payload of a message may carry the time it was sent.
Receive(stamped) ==
    /\ pc = "read" /\ session.role = "subscriber" /\ MayRead /\ Received.kind = "reply"
    /\ peer' = Take
    /\ End([Builder(0, it.fault) EXCEPT
               !.status = 200, !.bytes = 1, !.reused = TRUE, !.e2e = IF stamped THEN <<0>> ELSE <<>>,
               !.sample = Heartbeats(0, it.pings, 0, it.pongs)])
    /\ UNCHANGED <<session, past, truth>>

\* Faulty variant: an EOF is taken for a slow server.
ReceiveEndsOnClose ==
    /\ pc = "read" /\ session.role = "subscriber" /\ MayRead /\ Received.kind \in Ends
    /\ peer' = Take
    /\ session' = [session EXCEPT !.open = Received.kind = "eof"]
    /\ truth' = [truth EXCEPT !.dead = TRUE]
    /\ End(Error(it.fault))
    /\ UNCHANGED past

ReceiveEnds ==
    /\ pc = "read" /\ session.role = "subscriber" /\ MayRead /\ Received.kind \in Ends
    /\ peer' = Take
    /\ session' = [session EXCEPT !.open = FALSE]
    /\ truth' = [truth EXCEPT !.dead = TRUE]
    /\ End(Error(it.fault))
    /\ UNCHANGED past

ReceiveTimesOut ==
    /\ pc = "read" /\ session.role = "subscriber"
    /\ End(Error(it.fault))
    /\ UNCHANGED <<session, peer, past, truth>>

-----------------------------------------------------------------------------
(* The stateless modes: a connection of its own for each iteration.        *)

Stateless == session.role \in {"handshake", "ping_pong", "stream"}

StatelessBegin(f) ==
    /\ Stateless
    /\ MayBegin
    /\ IF Is(f, "ConnectionDrop")
       THEN EndAtOnce(f, Error(f))
       ELSE /\ past' = Begun(f)
            /\ it' = Counting(f)
            /\ pc' = "connect"
            /\ UNCHANGED report
    /\ UNCHANGED <<session, peer, truth>>

HandshakeFails ==
    /\ pc = "connect" /\ Stateless
    /\ End(Error(it.fault))
    /\ UNCHANGED <<session, peer, past, truth>>

\* A corrupted payload is sent whatever the mode; a handshake without one is done.
Handshake ==
    /\ pc = "connect" /\ Stateless
    /\ peer' = [NewPeer EXCEPT !.wire = 1]
    /\ past' = Connected
    /\ truth' = Reborn
    /\ IF session.role = "handshake" /\ ~Is(it.fault, "CorruptedPayload")
       THEN End([Builder(0, it.fault) EXCEPT !.status = 200])
       ELSE pc' = "reply" /\ UNCHANGED <<it, report>>
    /\ UNCHANGED session

\* A ping was sent, if this iteration is a ping-pong; the server answers with a pong.
Pinged == IF session.role = "ping_pong" /\ ~Is(it.fault, "CorruptedPayload") THEN 1 ELSE 0

\* read_with_timeout: pings are counted, anything else ends the read.
ReplyControl ==
    /\ pc = "reply" /\ MayRead /\ Received.kind = "ping"
    /\ peer' = Take
    /\ it' = [it EXCEPT !.pings = @ + 1]
    /\ truth' = [truth EXCEPT !.pings = @ + 1]
    /\ UNCHANGED <<pc, session, report, past>>

Reply ==
    /\ pc = "reply" /\ MayRead /\ Received.kind # "ping"
    /\ LET pong == IF Received.kind = "pong" THEN 1 ELSE 0
           good == IF Pinged = 1 THEN Received.kind = "pong" ELSE Received.kind \in {"reply", "pong"}
       IN End([Builder(0, it.fault) EXCEPT
                 !.status = IF good THEN 200 ELSE 0, !.bytes = IF good THEN 1 ELSE 0,
                 !.sample = Heartbeats(Pinged, it.pings, Smaller(pong, Pinged), pong - Smaller(pong, Pinged))])
    /\ peer' = [Take EXCEPT !.up = FALSE]
    /\ UNCHANGED <<session, past, truth>>

\* The counts of a read that times out are lost.
ReplyTimesOut ==
    /\ pc = "reply"
    /\ End([Builder(0, it.fault) EXCEPT !.sample = Heartbeats(Pinged, 0, 0, 0)])
    /\ peer' = [peer EXCEPT !.up = FALSE]
    /\ UNCHANGED <<session, past, truth>>

-----------------------------------------------------------------------------
(* The worker, the peer and the network.                                   *)

\* The deadline of the worker; a message that waits for its answer is abandoned.
Deadline ==
    /\ CutShort
    /\ truth' = IF pc = "read" THEN [truth EXCEPT !.abandoned = @ + 1] ELSE truth
    /\ UNCHANGED <<session, peer>>

\* WorkerSession::shutdown closes a persistent stream; the others are dropped.
Shutdown == Leave(NewSession(session.role))

PeerReplies ==
    /\ peer.replied < peer.wire
    /\ Deliver(Frame("reply", peer.replied + 1), [peer EXCEPT !.replied = @ + 1])
    /\ UNCHANGED past

\* Messages for a subscriber, and control frames.
PeerSpeaks(kind) ==
    /\ kind = "reply" => session.role = "subscriber"
    /\ Volunteer(Frame(kind, 0), peer)

Next ==
    \/ \E f \in SelectFault : PersistentBegin(f) \/ HalfConnected(f) \/ StatelessBegin(f)
    \/ StillConnected \/ Reconnect \/ ReconnectFails
    \/ Send \/ SendFails \/ CutInSend
    \/ \E kind \in {"ping", "pong"} : ReadControl(kind)
    \/ ReadAnswer \/ ReadEnds \/ ReadTimesOut
    \/ HalfBegin \/ HalfConnectFails
    \/ Feed \/ Flush \/ FlushFails
    \/ \E stamped \in BOOLEAN : Receive(stamped)
    \/ ReceiveEnds \/ ReceiveTimesOut
    \/ HandshakeFails \/ Handshake \/ ReplyControl \/ Reply \/ ReplyTimesOut
    \/ Deadline \/ Shutdown
    \/ PeerReplies \/ \E kind \in {"ping", "pong", "reply"} : PeerSpeaks(kind)
    \/ \E kind \in Ends : Lose(kind)

Spec == Init /\ [][Next]_loopVars

-----------------------------------------------------------------------------
\* ws_max_messages: a connection carries no more messages than the limit (and
\* always one), except those the deadline cut before they were counted.
BudgetIsKept ==
    MaxMessages # <<>> /\ session.role = "persistent" =>
        peer.wire <= Larger(1, MaxMessages[1]) + truth.uncounted

\* send_and_receive matches answers to messages by order only: the answer a
\* successful iteration reads is its own, but for as many messages as earlier
\* iterations of the connection gave up on.
AnswersInStep == truth.inStep

\* A session whose stream was seen to end holds no stream when the iteration is
\* over: the next one connects "instead of writing into a corpse".
NoCorpse == pc = "idle" /\ truth.dead => ~session.open

\* pings_received_total counts "Server-initiated (unsolicited) Ping frames
\* received" (docs/websockets.md): not more than were read from the wire.
PingsAreCountedOnce == report.protocol.ws.pingsReceived <= truth.pings
=============================================================================
