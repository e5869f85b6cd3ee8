----------------------------- MODULE SseSession -----------------------------
(***************************************************************************)
(* SseEngine (protocols/sse.rs) with a worker's session: a stream of       *)
(* events that outlives the iterations.  A chunk completes n events and    *)
(* may leave the beginning of another in the buffer; the parser itself is  *)
(* modelled in SseParser.                                                  *)
(***************************************************************************)
EXTENDS WorkerLoop

CONSTANT MaxEvents   \* sse_max_events: an option

\* SseSession::new.  The buffer holds the number of the connection its bytes
\* came from, 0 when it is empty.
NewSession == [stream |-> FALSE, status |-> 0, events |-> 0, first |-> FALSE, last |-> FALSE, buffer |-> 0]

\* received: the events that the chunks read so far complete.
NewTruth == [dead |-> FALSE, over |-> FALSE, received |-> 0]

Init ==
    /\ pc = "idle" /\ it = NoIteration /\ report = NoReport /\ past = NoPast /\ truth = NewTruth
    /\ session = NewSession
    /\ peer = NoPeer

IsMaxReached == MaxEvents # <<>> /\ session.events >= MaxEvents[1]

Metric(reused, first, interval) ==
    [Builder(0, it.fault) EXCEPT
        !.status = session.status, !.reused = reused,
        !.sample = [SseSample EXCEPT !.events = <<session'.events>>, !.first = first, !.interval = interval]]

\* A spent budget ends the iteration at once; chaos is asked only to connect.
Begin(f) ==
    /\ MayBegin
    /\ IsMaxReached \/ session.stream => f = <<>>
    /\ UNCHANGED <<session, peer, truth>>
    /\ \/ IsMaxReached /\ EndAtOnce(f, Metric(session.stream, <<>>, <<>>))
       \/ ~IsMaxReached /\ Is(f, "ConnectionDrop") /\ EndAtOnce(f, Builder(0, f))
       \/ /\ ~IsMaxReached /\ ~Is(f, "ConnectionDrop")
          /\ past' = Begun(f)
          /\ it' = [fault |-> f, reused |-> session.stream]
          /\ pc' = IF session.stream THEN "read" ELSE "connect"
          /\ UNCHANGED report

\* A response of any status is read as a stream.
Connect(status) ==
    /\ pc = "connect"
    /\ session' = [session EXCEPT !.stream = TRUE, !.status = status, !.events = 0, !.first = FALSE]
    /\ peer' = [up |-> TRUE, inbox |-> <<>>]
    /\ past' = Connected
    /\ truth' = [truth EXCEPT !.dead = FALSE]
    /\ pc' = "read"
    /\ UNCHANGED <<it, report>>

ConnectFails ==
    /\ pc = "connect"
    /\ End(Builder(0, it.fault))
    /\ UNCHANGED <<session, peer, past, truth>>

\* What parse_sse_chunk leaves in the buffer.
Rest == IF Received.kind = "part" THEN past.connections ELSE 0

\* A chunk without a complete event: the read goes on.
ReadPart ==
    /\ pc = "read" /\ MayRead /\ Received.kind = "part" /\ Received.n = 0
    /\ session' = [session EXCEPT !.buffer = Rest]
    /\ peer' = Take
    /\ UNCHANGED <<pc, it, report, past, truth>>

\* A chunk that completes events counts as one event.
ReadEvents ==
    /\ pc = "read" /\ MayRead /\ Received.kind \in {"chunk", "part"} /\ Received.n > 0
    /\ session' = [session EXCEPT !.events = @ + 1, !.first = TRUE, !.last = TRUE, !.buffer = Rest]
    /\ peer' = Take
    /\ truth' = [truth EXCEPT !.over = @ \/ IsMaxReached, !.received = @ + Received.n]
    /\ End(Metric(it.reused, IF session.first THEN <<>> ELSE <<0>>, IF session.last THEN <<0>> ELSE <<>>))
    /\ UNCHANGED past

\* Faulty variant: the buffer outlives the stream.
ReadEndsKeepingBuffer ==
    /\ pc = "read" /\ MayRead /\ Received.kind \in Ends
    /\ session' = [session EXCEPT !.stream = FALSE]
    /\ peer' = Take
    /\ truth' = [truth EXCEPT !.dead = TRUE]
    /\ End(IF Received.kind = "eof" THEN Metric(it.reused, <<>>, <<>>) ELSE Builder(0, it.fault))
    /\ UNCHANGED past

\* EOF keeps the status of the connection, an error is reported as one.
ReadEnds ==
    /\ pc = "read" /\ MayRead /\ Received.kind \in Ends
    /\ session' = [session EXCEPT !.stream = FALSE, !.buffer = 0]
    /\ peer' = Take
    /\ truth' = [truth EXCEPT !.dead = TRUE]
    /\ End(IF Received.kind = "eof" THEN Metric(it.reused, <<>>, <<>>) ELSE Builder(0, it.fault))
    /\ UNCHANGED past

Deadline == CutShort /\ UNCHANGED <<session, peer, truth>>

\* shutdown does nothing; the session is dropped.
Shutdown == Leave(NewSession)

ServerSends(kind, n) == Volunteer(Frame(kind, n), peer)

Next ==
    \/ \E f \in SelectFault : Begin(f)
    \/ \E status \in {200, 503} : Connect(status)
    \/ ConnectFails \/ ReadPart \/ ReadEvents \/ ReadEnds \/ Deadline \/ Shutdown
    \/ ServerSends("chunk", 2)
    \/ \E n \in {0, 1} : ServerSends("part", n)
    \/ \E kind \in Ends : Lose(kind)

Spec == Init /\ [][Next]_loopVars

-----------------------------------------------------------------------------
\* sse_max_events caps the events of a connection: none is read beyond it.
BudgetIsKept == ~truth.over /\ (MaxEvents # <<>> => session.events <= MaxEvents[1])

\* The buffer never joins bytes of two connections, although only the end of a
\* stream clears it.
FreshBuffer == session.buffer # 0 => session.buffer = past.connections

\* A stream that ended is dropped, so that the next iteration reconnects.
NoCorpse == pc = "idle" /\ truth.dead => ~session.stream

\* The time to the first event is reported at most once per connection.
CountsAreTrue == Len(report.protocol.sse.first) <= past.connections

\* "Total SSE events received across all iterations" (docs/sse.md): the total
\* never exceeds the events that arrived.
EventsAreCountedOnce == report.protocol.sse.events <= truth.received
=============================================================================
