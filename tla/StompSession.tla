---------------------------- MODULE StompSession ----------------------------
(***************************************************************************)
(* StompEngine (protocols/stomp.rs): a worker's session with a broker that *)
(* produces with or without receipts, or consumes with or without ACKs.    *)
(* A frame from the broker may arrive in two parts, and the deadline may   *)
(* drop a write before, after or in the middle of a frame.                 *)
(***************************************************************************)
EXTENDS WorkerLoop

\* new_session.  confirm: receipts are requested, or the ack mode is not auto.
NewSession(mode, confirm) ==
    [mode |-> mode, confirm |-> confirm, stream |-> FALSE, decoder |-> 0, connected |-> FALSE, ever |-> FALSE,
     reconnected |-> FALSE, subscribed |-> FALSE, last |-> FALSE, first |-> FALSE, seq |-> 0]

\* A broker that has accepted a TCP connection.  garbled: it got half a frame.
NewPeer ==
    [up |-> TRUE, inbox |-> <<>>, hello |-> FALSE, welcomed |-> FALSE, garbled |-> FALSE, sends |-> {}, owed |-> {},
     subs |-> 0]

\* early: a frame before CONNECTED; vouched: each success has its own receipt.
NewTruth == [early |-> FALSE, vouched |-> TRUE, sessions |-> 0, taken |-> 0, acked |-> 0]

Init ==
    /\ pc = "idle" /\ it = NoIteration /\ report = NoReport /\ past = NoPast /\ truth = NewTruth
    /\ session \in {NewSession(mode, confirm) : mode \in {"produce", "consume"}, confirm \in BOOLEAN}
    /\ peer = [NewPeer EXCEPT !.up = FALSE]

\* reset; the decoder holds the number of the connection whose bytes wait in it.
Reset(s) ==
    [s EXCEPT !.stream = FALSE, !.decoder = 0, !.connected = FALSE, !.subscribed = FALSE, !.last = FALSE,
              !.first = FALSE]

Metric(status, sample) ==
    [Builder(0, it.fault) EXCEPT
        !.status = status,
        !.sample = [sample EXCEPT !.reconnects = IF session.reconnected THEN 1 ELSE 0]]

ErrorMetric == Metric(0, [StompSample EXCEPT !.errors = 1])

SentMetric == Metric(200, [StompSample EXCEPT !.sent = 1, !.send = <<0>>])

ReceivedMetric(ttfm, interval) ==
    Metric(200, [StompSample EXCEPT !.received = 1, !.ttfm = ttfm, !.interval = interval])

-----------------------------------------------------------------------------
\* Faulty variant: the reconnect of an earlier iteration is not forgotten.
BeginRemembering(f) ==
    /\ MayBegin
    /\ IF Is(f, "ConnectionDrop")
       THEN EndAtOnce(f, Builder(0, f)) /\ session' = Reset(session)
       ELSE /\ past' = Begun(f)
            /\ it' = [fault |-> f]
            /\ pc' = "ready"
            /\ UNCHANGED <<session, report>>
    /\ UNCHANGED <<peer, truth>>

\* run_iteration up to produce or consume, a latency spike included.
Begin(f) ==
    /\ MayBegin
    /\ IF Is(f, "ConnectionDrop")
       THEN EndAtOnce(f, Builder(0, f)) /\ session' = Reset(session)
       ELSE /\ past' = Begun(f)
            /\ it' = [fault |-> f]
            /\ session' = [session EXCEPT !.reconnected = FALSE]
            /\ pc' = "ready"
            /\ UNCHANGED report
    /\ UNCHANGED <<peer, truth>>

\* What produce and consume do next once the session s is connected.
Proceed(s) ==
    /\ session' = [s EXCEPT !.seq = @ + IF s.mode = "produce" /\ s.confirm THEN 1 ELSE 0]
    /\ pc' = CASE s.mode = "produce" -> "send"
               [] s.mode = "consume" /\ s.subscribed -> "message"
               [] s.mode = "consume" /\ ~s.subscribed -> "subscribe"

StillConnected ==
    /\ pc = "ready" /\ session.connected
    /\ Proceed(session)
    /\ UNCHANGED <<it, peer, report, past, truth>>

\* Faulty variant: the decoder is left to reset().
DialKeepingDecoder ==
    /\ pc = "ready" /\ ~session.connected
    /\ session' = [session EXCEPT !.stream = TRUE]
    /\ peer' = NewPeer
    /\ past' = Connected
    /\ pc' = "hello"
    /\ UNCHANGED <<it, report, truth>>

\* connect: a TCP connection replaces the stream, if any.
Dial ==
    /\ pc = "ready" /\ ~session.connected
    /\ session' = [session EXCEPT !.stream = TRUE, !.decoder = 0]
    /\ peer' = NewPeer
    /\ past' = Connected
    /\ pc' = "hello"
    /\ UNCHANGED <<it, report, truth>>

\* The broker's state after a frame is written; a dead or garbled one takes no notice.
Heard(p) == IF peer.up /\ ~peer.garbled THEN p ELSE peer

\* Faulty variant: the session counts as connected once CONNECT is written.
HelloIsEnough ==
    /\ pc = "hello"
    /\ peer' = Heard([peer EXCEPT !.hello = TRUE])
    /\ session' = [session EXCEPT !.connected = TRUE]
    /\ pc' = "welcome"
    /\ UNCHANGED <<it, report, past, truth>>

Hello ==
    /\ pc = "hello"
    /\ peer' = Heard([peer EXCEPT !.hello = TRUE])
    /\ pc' = "welcome"
    /\ UNCHANGED <<it, session, report, past, truth>>

Decoded(s) == [s EXCEPT !.decoder = 0]

Welcome ==
    /\ pc = "welcome" /\ MayRead /\ Received.kind = "CONNECTED"
    /\ peer' = Take
    /\ truth' = [truth EXCEPT !.sessions = @ + 1]
    /\ Proceed([Decoded(session) EXCEPT !.reconnected = session.ever \/ @, !.ever = TRUE, !.connected = TRUE])
    /\ UNCHANGED <<it, report, past>>

\* Frames that are not what the iteration waits for.
Skipped ==
    CASE pc = "welcome" -> Received.kind \in {"RECEIPT", "MESSAGE"}
      [] pc = "receipt" -> Received.kind \in {"RECEIPT", "MESSAGE", "CONNECTED"} /\ Received # Frame("RECEIPT", session.seq)
      [] pc = "message" -> Received.kind \in {"RECEIPT", "CONNECTED"}

Reading == pc \in {"welcome", "receipt", "message"}

Skip ==
    /\ Reading /\ MayRead /\ Skipped
    /\ peer' = Take
    /\ session' = Decoded(session)
    /\ UNCHANGED <<pc, it, report, past, truth>>

\* read_frame gets the first bytes of a frame, and reads on.
ReadPart ==
    /\ Reading /\ MayRead /\ Received.kind \notin Ends /\ session.decoder = 0
    /\ session' = [session EXCEPT !.decoder = past.connections]
    /\ UNCHANGED <<pc, it, peer, report, past, truth>>

\* The SEND of this iteration is written.  Without a receipt that is all.
Send ==
    /\ pc = "send"
    /\ peer' = Heard([peer EXCEPT !.sends = @ \cup {session.seq}, !.owed = @ \cup {session.seq}])
    /\ truth' = [truth EXCEPT !.early = @ \/ ~peer.welcomed]
    /\ IF session.confirm
       THEN pc' = "receipt" /\ UNCHANGED <<it, report>>
       ELSE End(SentMetric)
    /\ UNCHANGED <<session, past>>

\* Faulty variant: any RECEIPT will do.
AnyReceipt ==
    /\ pc = "receipt" /\ MayRead /\ Received.kind = "RECEIPT"
    /\ peer' = Take
    /\ session' = Decoded(session)
    /\ truth' = [truth EXCEPT !.vouched = @ /\ session.seq \in peer.sends]
    /\ End(SentMetric)
    /\ UNCHANGED past

Receipt ==
    /\ pc = "receipt" /\ MayRead /\ Received = Frame("RECEIPT", session.seq)
    /\ peer' = Take
    /\ session' = Decoded(session)
    /\ truth' = [truth EXCEPT !.vouched = @ /\ session.seq \in peer.sends]
    /\ End(SentMetric)
    /\ UNCHANGED past

\* ensure_subscribed
Subscribe ==
    /\ pc = "subscribe"
    /\ peer' = Heard([peer EXCEPT !.subs = @ + 1])
    /\ truth' = [truth EXCEPT !.early = @ \/ ~peer.welcomed]
    /\ session' = [session EXCEPT !.subscribed = TRUE, !.last = FALSE, !.first = FALSE]
    /\ pc' = "message"
    /\ UNCHANGED <<it, report, past>>

\* A MESSAGE is taken; it is counted only once its ACK, if any, is written.
Message ==
    /\ pc = "message" /\ MayRead /\ Received.kind = "MESSAGE"
    /\ peer' = Take
    /\ session' = [Decoded(session) EXCEPT !.first = TRUE, !.last = TRUE]
    /\ truth' = [truth EXCEPT !.taken = @ + 1]
    /\ LET ttfm == IF session.first THEN <<>> ELSE <<0>>
           interval == IF session.last THEN <<0>> ELSE <<>>
       IN IF session.confirm
          THEN /\ it' = [fault |-> it.fault, ttfm |-> ttfm, interval |-> interval]
               /\ pc' = "ack"
               /\ UNCHANGED report
          ELSE End(ReceivedMetric(ttfm, interval))
    /\ UNCHANGED past

Ack ==
    /\ pc = "ack"
    /\ truth' = [truth EXCEPT !.acked = @ + 1]
    /\ End(ReceivedMetric(it.ttfm, it.interval))
    /\ UNCHANGED <<session, peer, past>>

\* Everything that can go wrong at an await: the connection is refused or lost,
\* a write or a read fails or times out, the broker sends ERROR.
Fail ==
    /\ pc \notin {"idle", "left"} /\ (pc = "ready" => ~session.connected)
    /\ session' = Reset(session)
    /\ End(ErrorMetric)
    /\ UNCHANGED <<peer, past, truth>>

Writing == pc \in {"hello", "send", "subscribe", "ack"}

\* The deadline drops a write when the whole frame, or a part of it, is on the wire.
CutInWrite(part) ==
    /\ Writing
    /\ peer' = Heard(CASE part -> [peer EXCEPT !.garbled = TRUE]
                       [] ~part /\ pc = "hello" -> [peer EXCEPT !.hello = TRUE]
                       [] ~part /\ pc = "send" -> [peer EXCEPT !.sends = @ \cup {session.seq}, !.owed = @ \cup {session.seq}]
                       [] ~part /\ pc = "subscribe" -> [peer EXCEPT !.subs = @ + 1]
                       [] ~part /\ pc = "ack" -> peer)
    /\ truth' = [truth EXCEPT !.acked = @ + IF pc = "ack" /\ ~part THEN 1 ELSE 0]
    /\ CutShort
    /\ UNCHANGED session

Deadline == CutShort /\ UNCHANGED <<session, peer, truth>>

\* DISCONNECT goes to a broker that may have garbled bytes before it; nobody reads on.
Shutdown == Leave([session EXCEPT !.stream = FALSE, !.connected = FALSE])

-----------------------------------------------------------------------------
(* The broker.                                                             *)

BrokerWelcomes ==
    /\ peer.hello /\ ~peer.welcomed
    /\ Deliver(Frame("CONNECTED", 0), [peer EXCEPT !.welcomed = TRUE])
    /\ UNCHANGED past

BrokerConfirms ==
    /\ session.confirm
    /\ \E n \in peer.owed : Deliver(Frame("RECEIPT", n), [peer EXCEPT !.owed = @ \ {n}])
    /\ UNCHANGED past

BrokerSpeaks(kind) ==
    /\ kind = "MESSAGE" => peer.subs > 0
    /\ Volunteer(Frame(kind, 0), peer)

Next ==
    \/ \E f \in SelectFault : Begin(f)
    \/ StillConnected \/ Dial \/ Hello \/ Welcome \/ Skip \/ ReadPart
    \/ Send \/ Receipt \/ Subscribe \/ Message \/ Ack
    \/ Fail \/ Deadline \/ Shutdown
    \/ \E part \in BOOLEAN : CutInWrite(part)
    \/ BrokerWelcomes \/ BrokerConfirms
    \/ \E kind \in {"MESSAGE", "ERROR"} : BrokerSpeaks(kind)
    \/ \E kind \in Ends : Lose(kind)

Spec == Init /\ [][Next]_loopVars

-----------------------------------------------------------------------------
\* With receipts, messages_sent_total counts a message only if the broker took
\* the SEND of that very iteration: receipts that earlier, cut iterations left
\* on the connection are not mistaken for it.
AnswersInStep == session.mode = "produce" /\ session.confirm => truth.vouched

\* No SEND and no SUBSCRIBE goes out before the broker's CONNECTED, wherever the
\* deadline cut the handshake of an earlier iteration.
HandshakeFirst == ~truth.early

\* The decoder never holds bytes of an earlier connection.
FreshBuffer == session.stream /\ session.decoder # 0 => session.decoder = past.connections

\* reconnects_total counts real reconnects, each at most once, and a message is
\* counted as received only once it was taken and acknowledged.
CountsAreTrue ==
    /\ report.protocol.stomp.reconnects <= Larger(truth.sessions, 1) - 1
    /\ report.protocol.stomp.received <= IF session.confirm THEN truth.acked ELSE truth.taken
=============================================================================
