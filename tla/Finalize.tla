------------------------------ MODULE Finalize ------------------------------
(***************************************************************************)
(* finalize_metrics (metrics/aggregate.rs): the aggregator of a test takes *)
(* the metrics of the workers as they come and, when the last sender is    *)
(* gone, makes the figures that execute_test (lib.rs) summarises.          *)
(***************************************************************************)
EXTENDS Summary

CONSTANTS
    Metrics,      \* metrics that iterations send
    Readings,     \* what the resource sampler may have collected
    Thresholds,   \* configurations of service level objectives
    Duration,     \* of the test, in seconds
    MaxMetrics,   \* bound: metrics of the test
    MaxDropped    \* bound: iterations that cancellation drops

VARIABLES
    input,    \* the metrics sent, the iterations dropped without one, the thresholds
    state,    \* the aggregator: metrics, accumulators, timeline
    output    \* an option: the summary and the report

vars == <<input, state, output>>

Init ==
    /\ input \in [metrics : {<<>>}, dropped : {0}, slo : Thresholds]
    /\ \E enabled \in BOOLEAN :
          state = [metrics |-> DefaultMetrics, protocols |-> ProtocolDefault, timeline |-> NewTimeline(enabled)]
    /\ output = <<>>

\* One turn of the loop; elapsed: the timeline's interval is over.
Receive(m, elapsed) ==
    /\ output = <<>> /\ Len(input.metrics) < MaxMetrics
    /\ input' = [input EXCEPT !.metrics = Append(@, m)]
    /\ state' = [metrics |-> RecordCommon(state.metrics, m),
                 protocols |-> RecordProtocol(state.protocols, m.sample),
                 timeline |-> MaybeEmit(RecordLatency(state.timeline, m.latency, IsError(m)), elapsed)]
    /\ UNCHANGED output

\* A worker is cancelled during an iteration, which it has counted.
Drop ==
    /\ output = <<>> /\ input.dropped < MaxDropped
    /\ input' = [input EXCEPT !.dropped = @ + 1]
    /\ UNCHANGED <<state, output>>

\* LiveCounters: the workers count the iterations they begin and the errors they send.
Counters ==
    [requests |-> Len(input.metrics) + input.dropped, errors |-> Len(SelectSeq(input.metrics, IsError))]

\* The channel is closed and empty; samples: what the resource sampler collected.
Close(samples) ==
    LET summary == CalculateSummary(state.metrics, FinishInto(state.protocols), FinishTimeline(state.timeline),
                                    Counters, samples)
    IN /\ output = <<>>
       /\ output' = <<[summary |-> summary, report |-> FromSummaryAndConfig(summary, input.slo, Duration)]>>
       /\ UNCHANGED <<input, state>>

Next ==
    \/ Drop
    \/ \E samples \in Readings : Close(samples)
    \/ \E m \in Metrics, elapsed \in BOOLEAN : Receive(m, elapsed)

Spec == Init /\ [][Next]_vars

-----------------------------------------------------------------------------
Counts(f) == LET keys == SetToSeq(DOMAIN f) IN [i \in DOMAIN keys |-> f[keys[i]]]

\* The figures of a report, which different accumulators keep, agree: status codes,
\* sockets, histogram and timeline each account for every request that was not
\* dropped, the timeline for every error, the faults by type for every fault sent; the
\* latencies are in order, and no average exceeds its peak.
FiguresAgree ==
    \A done \in ToSet(output) :
        LET s == done.summary
            n == s.requests - input.dropped
        IN /\ SumOf(Counts(s.codes)) = n
           /\ n > 0 => s.reuse[2] = n
           /\ SumOf(s.histogram) = n
           /\ SumOf(Counts(s.faults)) = s.injected
           /\ s.injected = Len(SelectSeq(input.metrics, LAMBDA m : m.fault # <<>>))
           /\ state.timeline.enabled /\ n > 0 =>
                 \E samples \in ToSet(s.timeline) :
                     /\ SumOf([i \in DOMAIN samples |-> samples[i].requests]) = n
                     /\ SumOf([i \in DOMAIN samples |-> samples[i].errorRate[1]]) = s.errors
           /\ s.min <= s.p50 /\ s.p50 <= s.p90 /\ s.p90 <= s.p95 /\ s.p95 <= s.p99
           /\ s.p99 <= s.p9999 /\ s.p9999 <= s.max
           /\ AtMost(<<s.min, 1>>, s.mean) /\ AtMost(s.mean, <<s.max, 1>>)
           /\ \A y \in ToSet(s.system) : AtMost(y.cpu, <<y.peakCpu, 1>>) /\ y.memory <= y.peakMemory

\* An objective on the latency passes exactly when that share of all the requests,
\* failed ones included, was as fast (to the precision of the histogram); objectives
\* on errors and throughput when the metrics as sent meet them, dropped iterations
\* counting as requests.
VerdictIsEarned ==
    \A done \in ToSet(output), passed \in UNION {ToSet(d.report.slo) : d \in ToSet(output)} :
        LET n == Len(input.metrics)
            Share(t) == Len(SelectSeq(input.metrics, LAMBDA m : HighestEquivalent(m.latency) <= t))
            all == n + input.dropped
            Errors == Len(SelectSeq(input.metrics, IsError))
        IN passed <=> /\ \A t \in ToSet(input.slo.p95) : 100 * Share(t) >= 95 * n
                      /\ \A t \in ToSet(input.slo.p99) : 100 * Share(t) >= 99 * n
                      /\ \A t \in ToSet(input.slo.errorRate) : 100 * Errors <= t * all
                      /\ \A t \in ToSet(input.slo.minRps) : all >= t * Duration

\* The samples of a kind, as sent.
Sent(kind) ==
    LET those == SelectSeq(input.metrics, LAMBDA m : m.sample.kind = kind)
    IN [i \in DOMAIN those |-> those[i].sample]

\* A section of a protocol is in the report exactly when some iteration had
\* something to say, and its extremes and totals are those of the samples sent.
SectionsAreTrue ==
    \A done \in ToSet(output) :
        LET sections == done.summary.sections
            Told(kind, default) == \E s \in ToSet(Sent(kind)) : Significant(s, default)
            Capacities == UNION {ToSet(s.capacity) : s \in ToSet(Sent("grpc"))}
            Windows == {h.cwnd : h \in UNION {ToSet(s.http3) : s \in ToSet(Sent("http3"))}}
        IN /\ (sections.ws # <<>>) = Told("ws", WsSample)
           /\ (sections.stomp # <<>>) = Told("stomp", StompSample)
           /\ (sections.db # <<>>) = Told("db", DbSample)
           /\ (sections.grpc # <<>>) = Told("grpc", GrpcSample)
           /\ (sections.graphql_ws # <<>>) = Told("graphql_ws", GraphqlWsSample)
           /\ (sections.sse # <<>>) = \E s \in ToSet(Sent("sse")) : Total(s.events) > 0 \/ s.first # <<>>
           /\ \A g \in ToSet(sections.graphql) :
                 g.operations = Len(Sent("graphql")) /\ g.errorResponses <= g.operations
           /\ (sections.graphql = <<>>) = (Sent("graphql") = <<>>)
           /\ (sections.soap = <<>>) = (Sent("soap") = <<>>)
           /\ \A g \in ToSet(sections.grpc) :
                 g.capacityMin = IF Capacities = {} THEN 0 ELSE Min(Capacities)
           /\ \A h \in ToSet(sections.http3) :
                 /\ h.max = Max(Windows) /\ h.current \in Windows
                 /\ AtMost(<<h.min, 1>>, h.mean) /\ AtMost(h.mean, <<h.max, 1>>) /\ AtMost(h.rate, <<1, 1>>)
           /\ \A w \in ToSet(sections.ws) : AtMost(w.meanDepth, <<w.maxDepth, 1>>)
=============================================================================
