------------------------------- MODULE GrpcH2 -------------------------------
(***************************************************************************)
(* GrpcH2Engine (protocols/grpc_h2.rs): the workers share one multiplexed  *)
(* HTTP/2 connection.  A connection is its number; session has the stored  *)
(* handle (0 for None), the holder of the mutex and the gauge of active    *)
(* streams; peer the state of every connection made so far.                *)
(***************************************************************************)
EXTENDS SharedWorkers, GrpcStatus

CONSTANTS
    MaxStreams,   \* the peer's SETTINGS_MAX_CONCURRENT_STREAMS
    FrameLength   \* the length of a request; build_frame makes it at least a prefix

Nobody == "nobody"

\* failed[c][w]: the iterations of w that failed on the handle of c and cleared it.
Init ==
    /\ AllIdle
    /\ report = NoReport /\ past = NoPast
    /\ session = [stored |-> 0, lock |-> Nobody, active |-> 0]
    /\ peer = <<>>
    /\ truth = [failed |-> <<>>]

Error(w) == Builder(0, it[w].fault)

\* The places at which a call is in flight.
InCall == {"send", "read"}

Streams(c) == {w \in Workers : pc[w] \in InCall /\ it[w].conn = c}

\* resolve_grpc_status: trailers win over headers, and no status is OK.
ResolveGrpcStatus(trailers, head) == IF trailers # <<>> THEN trailers[1] ELSE Total(head)

-----------------------------------------------------------------------------
Begin(w, f) == BeginAs(w, f, "get")

\* get_send finds a connection and clones its handle.
Reuse(w) ==
    /\ pc[w] = "get" /\ session.lock = Nobody /\ session.stored # 0
    /\ it' = [it EXCEPT ![w] = [fault |-> @.fault, conn |-> session.stored, reused |-> TRUE]]
    /\ GoTo(w, "ready")
    /\ UNCHANGED <<session, peer, report, past, truth>>

\* get_send keeps the mutex while it connects.
Dial(w) ==
    /\ pc[w] = "get" /\ session.lock = Nobody /\ session.stored = 0
    /\ session' = [session EXCEPT !.lock = w]
    /\ GoTo(w, "dial")
    /\ UNCHANGED <<it, peer, report, past, truth>>

Connect(w) ==
    /\ pc[w] = "dial"
    /\ peer' = Append(peer, "up")
    /\ session' = [session EXCEPT !.stored = Len(peer'), !.lock = Nobody]
    /\ it' = [it EXCEPT ![w] = [fault |-> @.fault, conn |-> Len(peer'), reused |-> FALSE]]
    /\ truth' = [failed |-> Append(truth.failed, [v \in Workers |-> 0])]
    /\ past' = Connected
    /\ GoTo(w, "ready")
    /\ UNCHANGED report

ConnectFails(w) ==
    /\ pc[w] = "dial"
    /\ session' = [session EXCEPT !.lock = Nobody]
    /\ EndOf(w, Error(w))
    /\ UNCHANGED <<peer, past, truth>>

\* poll_ready grants a stream, send_request opens it, the guard counts it.
Open(w) ==
    /\ pc[w] = "ready" /\ peer[it[w].conn] = "up"
    /\ Cardinality(Streams(it[w].conn)) < MaxStreams
    /\ session' = [session EXCEPT !.active = @ + 1]
    /\ it' = [it EXCEPT ![w] = [fault |-> @.fault, conn |-> @.conn, reused |-> @.reused, active |-> session.active + 1,
                                at |-> 0, events |-> 0, capacity |-> Highest]]
    /\ GoTo(w, "send")
    /\ UNCHANGED <<peer, report, past, truth>>

\* drive_send: the stream has credit for n, at once or after a stall.  The wait
\* for the first credit is not an exhaustion of the window.
Send(w, n, stalled) ==
    LET i == it[w] IN
    /\ pc[w] = "send" /\ peer[i.conn] = "up"
    /\ it' = [it EXCEPT ![w].at = Smaller(i.at + n, FrameLength),
                        ![w].events = @ + IF stalled /\ i.at > 0 THEN 1 ELSE 0,
                        ![w].capacity = Smaller(@, n)]
    /\ GoTo(w, IF i.at + n >= FrameLength THEN "read" ELSE "send")
    /\ UNCHANGED <<session, peer, report, past, truth>>

\* Faulty variant: the handle stays, in the hope that the connection recovers.
OpenFailsKeepingHandle(w) ==
    /\ pc[w] = "ready" /\ peer[it[w].conn] = "down"
    /\ truth' = [truth EXCEPT !.failed[it[w].conn][w] = @ + 1]
    /\ EndOf(w, Error(w))
    /\ UNCHANGED <<session, peer, past>>

\* poll_ready or send_request fails on a dead connection.
OpenFails(w) ==
    /\ pc[w] = "ready" /\ peer[it[w].conn] = "down"
    /\ GoTo(w, "clear")
    /\ UNCHANGED <<it, session, peer, report, past, truth>>

\* clear_send drops the stored handle, whichever connection it is of by now.
Clear(w) ==
    /\ pc[w] = "clear" /\ session.lock = Nobody
    /\ session' = [session EXCEPT !.stored = 0]
    /\ truth' = [truth EXCEPT !.failed[it[w].conn][w] = @ + 1]
    /\ EndOf(w, Error(w))
    /\ UNCHANGED <<peer, past>>

Released == [session EXCEPT !.active = @ - 1]

\* read_response: an HTTP failure is the gRPC status 2.
Answer(w, ok, trailers, head) ==
    /\ pc[w] = "read" /\ peer[it[w].conn] = "up"
    /\ session' = Released
    /\ EndOf(w, [Error(w) EXCEPT
                   !.status = GrpcToHttpStatus(IF ok THEN ResolveGrpcStatus(trailers, head) ELSE 2),
                   !.reused = it[w].reused,
                   !.connection = IF it[w].reused THEN <<>> ELSE <<0>>,
                   !.sample = [GrpcSample EXCEPT !.active = it[w].active, !.exhausted = it[w].events,
                                                 !.capacity = <<it[w].capacity>>]])
    /\ UNCHANGED <<peer, past, truth>>

\* The call fails with the connection, or the response misses the gRPC deadline.
CallFails(w) ==
    /\ pc[w] \in InCall
    /\ pc[w] = "send" => peer[it[w].conn] = "down"
    /\ session' = Released
    /\ EndOf(w, Error(w))
    /\ UNCHANGED <<peer, past, truth>>

\* Faulty variant: the gauge is decremented by the code that follows the call.
DeadlineLeakingStream(w) ==
    /\ CutShortOf(w)
    /\ session' = IF pc[w] = "dial" THEN [session EXCEPT !.lock = Nobody] ELSE session
    /\ UNCHANGED <<peer, truth>>

\* Dropping the iteration drops the guards it holds: the mutex, the gauge.
Deadline(w) ==
    /\ CutShortOf(w)
    /\ session' = CASE pc[w] = "dial" -> [session EXCEPT !.lock = Nobody]
                    [] pc[w] \in InCall -> Released
                    [] OTHER -> session
    /\ UNCHANGED <<peer, truth>>

Die(c) ==
    /\ peer[c] = "up" /\ past.losses < MaxLosses
    /\ peer' = [peer EXCEPT ![c] = "down"]
    /\ past' = [past EXCEPT !.losses = @ + 1]
    /\ UNCHANGED <<pc, it, session, report, truth>>

Next ==
    \/ \E w \in Workers :
         \/ \E f \in SelectFault : Begin(w, f)
         \/ Reuse(w) \/ Dial(w) \/ Connect(w) \/ ConnectFails(w)
         \/ Open(w) \/ OpenFails(w) \/ Clear(w)
         \/ \E n \in 1..FrameLength, stalled \in BOOLEAN : Send(w, n, stalled)
         \/ \E ok \in BOOLEAN, trailers, head \in {<<>>, <<0>>, <<5>>} : Answer(w, ok, trailers, head)
         \/ CallFails(w) \/ Deadline(w)
    \/ \E c \in DOMAIN peer : Die(c)

Spec == Init /\ [][Next]_loopVars

-----------------------------------------------------------------------------
\* The gauge counts the calls in flight, however they end: every ActiveGuard is
\* dropped once, and the samples see at most as many streams as there are workers.
GaugeCountsStreams ==
    /\ session.active = Cardinality({w \in Workers : pc[w] \in InCall})
    /\ report.protocol.grpc.peak <= Cardinality(Workers)

\* A dead connection is replaced: no worker finds it dead twice.
DeadConnectionIsReplaced == \A c \in DOMAIN peer, w \in Workers : truth.failed[c][w] <= 1

\* The mutex is held only by a worker that connects.
MutexIsHeldToConnect == \A w \in Workers : session.lock = w <=> pc[w] = "dial"

\* "this holds a single multiplexed HTTP/2 connection" (the module's comment):
\* never are two live connections in use or in store.
SingleConnection ==
    \A c, d \in DOMAIN peer :
        (peer[c] = "up" /\ peer[d] = "up" /\ \A x \in {c, d} : Streams(x) # {} \/ session.stored = x) => c = d
=============================================================================
