------------------------------ MODULE Summary -------------------------------
(***************************************************************************)
(* The figures of a finished test: the sections of the protocols, the      *)
(* timeline, the summary (metrics/) and the report (report/schema.rs).     *)
(*                                                                         *)
(* Latencies are microseconds, as recorded.  A ratio is a pair <<n, d>>;   *)
(* changes of unit (us, ms) are left out.                                  *)
(***************************************************************************)
EXTENDS Aggregation, FiniteSetsExt, SequencesExt

Ratio(n, d) == IF d = 0 THEN <<0, 1>> ELSE <<n, d>>

SumOf(s) == FoldSeq(LAMBDA x, y : x + y, 0, s)

Average(s) == Ratio(SumOf(s), Len(s))

Optionally(condition, value) == IF condition THEN <<value>> ELSE <<>>

-----------------------------------------------------------------------------
(* The histograms of the crate hdrhistogram, with 3 significant figures:   *)
(* values from 2048 on share a cell with their neighbours.                 *)

CellSize(v) == CHOOSE u \in {2^k : k \in 0..10} : v \div u < 2048 /\ (u = 1 \/ v \div u >= 1024)

LowestEquivalent(v) == v - (v % CellSize(v))

HighestEquivalent(v) == LowestEquivalent(v) + CellSize(v) - 1

\* value_at_quantile(q / 10000)
ValueAtQuantile(h, q) ==
    LET sorted == SortSeq(h, LAMBDA x, y : x < y)
        rank == Larger(1, (q * Len(h) + 9999) \div 10000)
    IN IF h = <<>> THEN 0 ELSE HighestEquivalent(sorted[rank])

\* mean, which takes the middle of each cell.
MeanOf(h) == Average([i \in DOMAIN h |-> LowestEquivalent(h[i]) + CellSize(h[i]) \div 2])

\* Percentiles::from_histogram, folded into a section by fold_percentiles.
Percentiles(h) ==
    [mean |-> MeanOf(h), p50 |-> ValueAtQuantile(h, 5000), p90 |-> ValueAtQuantile(h, 9000),
     p99 |-> ValueAtQuantile(h, 9900)]

-----------------------------------------------------------------------------
(* finish of the accumulators.                                             *)

FinishQuic(a) ==
    Optionally(a.has, [zeroRtt |-> a.zeroRtt, retransmissions |-> a.retransmissions,
                       handshake |-> Optionally(a.handshakes # <<>>, Average(a.handshakes))])

FinishSse(a) ==
    Optionally(a.events > 0 \/ a.first # <<>>,
               [events |-> a.events, ttfb |-> Optionally(a.first # <<>>, Average(a.first))])

FinishGraphql(a) == Optionally(a.operations > 0, a)

FinishGraphqlWs(a) ==
    Optionally(a.has, [operations |-> a.operations, messages |-> a.messages, errors |-> a.errors,
                       ttfm |-> Percentiles(a.ttfm), interval |-> Percentiles(a.interval)])

FinishSoap(a) == Optionally(a.operations > 0, a)

FinishStomp(a) ==
    Optionally(a.has, [sent |-> a.sent, received |-> a.received, errors |-> a.errors,
                       reconnects |-> a.reconnects, send |-> Percentiles(a.send),
                       interval |-> Percentiles(a.interval), ttfm |-> Percentiles(a.ttfm)])

FinishDb(a) ==
    Optionally(a.queries > 0, [queries |-> a.queries, rows |-> a.rows, errors |-> a.errors, pool |-> a.pool,
                               acquire |-> Percentiles(a.acquire), query |-> Percentiles(a.query)])

FinishWs(a) ==
    Optionally(a.has, [pings |-> a.pings, pingsReceived |-> a.pingsReceived, solicited |-> a.solicited,
                       unsolicited |-> a.unsolicited, maxDepth |-> a.maxDepth, meanDepth |-> Average(a.depths),
                       breaches |-> a.breaches])

\* Faulty variant: the mark of an empty minimum is reported.
FinishGrpcUnmarked(a) ==
    Optionally(a.samples > 0, [peak |-> a.peak, exhausted |-> a.exhausted, capacityMin |-> a.capacityMin])

FinishGrpc(a) ==
    Optionally(a.samples > 0, [peak |-> a.peak, exhausted |-> a.exhausted,
                               capacityMin |-> IF a.capacityMin = Highest THEN 0 ELSE a.capacityMin])

FinishHttp3(a) ==
    Optionally(a.cwnds # <<>>,
               [current |-> Last(a.cwnds), max |-> a.max, min |-> IF a.min = Highest THEN 0 ELSE a.min,
                mean |-> Average(a.cwnds), attempted |-> a.attempted, successful |-> a.successful,
                rate |-> IF a.attempted = 0 THEN <<1, 1>> ELSE <<a.successful, a.attempted>>])

FinishInto(p) ==
    [quic |-> FinishQuic(p.quic), sse |-> FinishSse(p.sse), graphql |-> FinishGraphql(p.graphql),
     graphql_ws |-> FinishGraphqlWs(p.graphql_ws), soap |-> FinishSoap(p.soap), stomp |-> FinishStomp(p.stomp),
     db |-> FinishDb(p.db), ws |-> FinishWs(p.ws), grpc |-> FinishGrpc(p.grpc), http3 |-> FinishHttp3(p.http3)]

-----------------------------------------------------------------------------
(* TimelineAccumulator.  rps is left as the number of requests.            *)

NewTimeline(enabled) == [enabled |-> enabled, samples |-> <<>>, latency |-> <<>>, requests |-> 0, errors |-> 0]

RecordLatency(t, latency, isError) ==
    IF ~t.enabled
    THEN t
    ELSE [t EXCEPT !.latency = Record(@, <<latency>>), !.requests = @ + 1, !.errors = @ + IF isError THEN 1 ELSE 0]

MakeTimelineSample(t) ==
    [requests |-> t.requests, errorRate |-> Ratio(t.errors, t.requests), p50 |-> ValueAtQuantile(t.latency, 5000),
     p95 |-> ValueAtQuantile(t.latency, 9500), p99 |-> ValueAtQuantile(t.latency, 9900)]

Samples(t) == IF t.requests > 0 THEN Append(t.samples, MakeTimelineSample(t)) ELSE t.samples

\* Faulty variant: the interval's errors are not reset.
MaybeEmitKeepingErrors(t, elapsed) ==
    IF ~t.enabled \/ ~elapsed
    THEN t
    ELSE [NewTimeline(TRUE) EXCEPT !.samples = Samples(t), !.errors = t.errors]

\* maybe_emit, when the interval has elapsed or not.
MaybeEmit(t, elapsed) ==
    IF ~t.enabled \/ ~elapsed THEN t ELSE [NewTimeline(TRUE) EXCEPT !.samples = Samples(t)]

FinishTimeline(t) == Optionally(t.enabled /\ Samples(t) # <<>>, Samples(t))

-----------------------------------------------------------------------------
(* calculate_summary and the report.                                       *)

Bounds == {1000, 5000, 10000, 25000, 50000, 100000, 250000, 500000, 1000000}

\* The place in HISTOGRAM_BUCKET_ORDER of a recorded value.
BucketOf(v) == 1 + Cardinality({b \in Bounds : HighestEquivalent(v) >= b})

\* histogram_buckets
HistogramBuckets(h) ==
    [i \in 1..(Cardinality(Bounds) + 1) |-> Len(SelectSeq(h, LAMBDA v : BucketOf(v) = i))]

\* SystemMetrics::from_samples; readings of the processor are finite.
FromSamples(samples) ==
    LET Of(f) == [i \in DOMAIN samples |-> samples[i][f]] IN
    Optionally(samples # <<>>,
               [peakCpu |-> Max(ToSet(Of("cpu"))), cpu |-> Average(Of("cpu")), peakMemory |-> Max(ToSet(Of("memory"))),
                memory |-> SumOf(Of("memory")) \div Len(samples), peakThreads |-> Max(ToSet(Of("threads"))),
                series |-> samples])

\* calculate_summary, from the aggregated metrics a, the counters and the samples.
CalculateSummary(a, sections, timeline, counters, samples) ==
    [requests |-> counters.requests, errors |-> counters.errors, bytes |-> a.bytes, codes |-> a.codes,
     e2e |-> MeanOf(a.e2e), connection |-> MeanOf(a.connection), sections |-> sections, timeline |-> timeline,
     injected |-> a.injected, faults |-> a.faults, system |-> FromSamples(samples),
     reuse |-> Ratio(a.reused, a.created + a.reused), dns |-> Average(a.dns),
     mean |-> MeanOf(a.latency),
     min |-> IF a.latency = <<>> THEN 0 ELSE LowestEquivalent(Min(ToSet(a.latency))),
     max |-> IF a.latency = <<>> \/ Max(ToSet(a.latency)) = 0 THEN 0 ELSE HighestEquivalent(Max(ToSet(a.latency))),
     p50 |-> ValueAtQuantile(a.latency, 5000), p90 |-> ValueAtQuantile(a.latency, 9000),
     p95 |-> ValueAtQuantile(a.latency, 9500), p99 |-> ValueAtQuantile(a.latency, 9900),
     p9999 |-> ValueAtQuantile(a.latency, 9999),
     histogram |-> IF a.latency = <<>> THEN <<>> ELSE HistogramBuckets(a.latency)]

AtMost(x, y) == x[1] * y[2] <= y[1] * x[2]

\* Faulty variant: a threshold that is just met fails.
EvaluateSloStrictly(slo, p95, p99, errorRate, rps) ==
    LET passed == /\ \A t \in ToSet(slo.p95) : p95 < t
                  /\ \A t \in ToSet(slo.p99) : p99 < t
                  /\ \A t \in ToSet(slo.errorRate) : ~AtMost(<<t, 1>>, errorRate)
                  /\ \A t \in ToSet(slo.minRps) : ~AtMost(rps, <<t, 1>>)
    IN Optionally(slo.p95 \o slo.p99 \o slo.errorRate \o slo.minRps # <<>>, passed)

\* evaluate_slo: whether all the checks pass, if there are any.
EvaluateSlo(slo, p95, p99, errorRate, rps) ==
    LET passed == /\ \A t \in ToSet(slo.p95) : p95 <= t
                  /\ \A t \in ToSet(slo.p99) : p99 <= t
                  /\ \A t \in ToSet(slo.errorRate) : AtMost(errorRate, <<t, 1>>)
                  /\ \A t \in ToSet(slo.minRps) : AtMost(<<t, 1>>, rps)
    IN Optionally(slo.p95 \o slo.p99 \o slo.errorRate \o slo.minRps # <<>>, passed)

\* from_summary_and_config; the sections are passed on.
FromSummaryAndConfig(s, slo, duration) ==
    LET errorRate == Ratio(100 * s.errors, s.requests)
        rps == Ratio(s.requests, duration)
    IN [successful |-> IF s.errors > s.requests THEN 0 ELSE s.requests - s.errors,
        failed |-> s.errors, rps |-> rps, breakdown |-> s.codes,
        slo |-> EvaluateSlo(slo, s.p95, s.p99, errorRate, rps),
        chaos |-> Optionally(s.injected > 0, [total |-> s.injected, faults |-> s.faults]),
        pool |-> Optionally(s.requests > 0, [created |-> <<s.reuse[2] - s.reuse[1], s.reuse[2]>>, reused |-> s.reuse])]
=============================================================================
