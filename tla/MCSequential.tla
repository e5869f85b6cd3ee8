---------------------------- MODULE MCSequential ----------------------------
EXTENDS Sequential

Samples == INSTANCE Aggregation

STOMPFrame(headers, body) == [command |-> <<"a">>, headers |-> headers, body |-> body]

\* An empty frame, one with every octet that is escaped, and bodies that contain
\* what would end them.
MCFrames ==
    {STOMPFrame(<<>>, <<>>),
     STOMPFrame(<<<<<<"k", ":">>, <<"LF", "\\">>>>>>, <<"x">>),
     STOMPFrame(<<<<<<"length">>, <<"1">>>>>>, <<"NUL">>),
     STOMPFrame(<<<<<<"length">>, <<"2">>>>>>, <<"x", "LF">>)}

Answer(status, sample) ==
    [Samples!Builder(2000, <<>>) EXCEPT !.status = status, !.reused = TRUE, !.bytes = 1, !.sample = sample]

\* An answer of an engine that does not say whether its socket was used before.
Fresh(status, sample) == [Answer(status, sample) EXCEPT !.reused = FALSE, !.bytes = 0]

Http3(quic, http3) == [Samples!Http3Sample EXCEPT !.quic = quic, !.http3 = http3]

\* At least one iteration of every engine, with something to say or, where
\* the engine sends such samples, without.
MCMetrics ==
    {Samples!Builder(5000, <<"ConnectionDrop">>),
     [Answer(200, Samples!NoSample) EXCEPT !.latency = 0],
     [Answer(503, Samples!NoSample) EXCEPT !.latency = 99999, !.reused = FALSE, !.fault = <<"LatencySpike">>],
     Answer(200, [kind |-> "graphql", errors |-> 2]),
     Answer(200, [kind |-> "soap", faults |-> 0]),
     Answer(200, Http3(<<[handshake |-> <<3>>, zeroRtt |-> TRUE, retransmits |-> <<1>>]>>,
                       <<[cwnd |-> 2, attempted |-> 1, successful |-> 1]>>)),
     Answer(200, Http3(<<[handshake |-> <<>>, zeroRtt |-> FALSE, retransmits |-> <<>>]>>,
                       <<[cwnd |-> 4, attempted |-> 0, successful |-> 0]>>)),
     Answer(200, [Samples!GrpcSample EXCEPT !.active = 2]),
     Answer(200, [Samples!GrpcSample EXCEPT !.capacity = <<7>>]),
     Answer(200, [Samples!SseSample EXCEPT !.events = <<0>>]),
     Answer(200, [Samples!SseSample EXCEPT !.events = <<1>>, !.first = <<5>>]),
     Answer(200, [Samples!WsSample EXCEPT !.depth = <<0>>]),
     Answer(200, [Samples!WsSample EXCEPT !.depth = <<3>>]),
     Fresh(200, [Samples!StompSample EXCEPT !.sent = 1, !.send = <<9>>]),
     Fresh(0, [Samples!StompSample EXCEPT !.errors = 1, !.reconnects = 1]),
     Fresh(200, [Samples!DbSample EXCEPT !.rows = 1, !.acquire = <<1>>, !.query = <<9>>, !.pool = 2]),
     Fresh(200, [Samples!GraphqlWsSample EXCEPT !.errors = <<1>>])}

MCReadings ==
    {<<>>, <<[cpu |-> 10, memory |-> 8, threads |-> 4], [cpu |-> 35, memory |-> 5, threads |-> 2]>>}

NoObjectives == [p95 |-> <<>>, p99 |-> <<>>, errorRate |-> <<>>, minRps |-> <<>>]

MCThresholds ==
    {NoObjectives,
     [NoObjectives EXCEPT !.p95 = <<5003>>],
     [NoObjectives EXCEPT !.p99 = <<2000>>, !.errorRate = <<50>>, !.minRps = <<1>>]}

MCSchedules == [base : {0, 1, 3}, max : {2, 7}, factor : {1, 2}, jitter : BOOLEAN]
=============================================================================
