---------------------------- MODULE Aggregation ----------------------------
(***************************************************************************)
(* What one iteration reports (metrics/request.rs, metrics/protocols.rs)   *)
(* and how the aggregator sums it up (metrics/aggregate.rs).               *)
(*                                                                         *)
(* An Option is a sequence of at most one element, so that recording an    *)
(* optional value appends the option.  A histogram is the sequence of the  *)
(* values recorded in it.  A mean is kept as its sum and count.            *)
(***************************************************************************)
EXTENDS Naturals, Sequences, TLC

\* HISTOGRAM_HIGHEST_TRACKABLE stands for 3.6e9 us, and for the u64::MAX that
\* marks an empty minimum.
Highest == 1000000

Larger(a, b) == IF a > b THEN a ELSE b
Smaller(a, b) == IF a < b THEN a ELSE b

\* saturating_record of every value of an option.
Record(h, values) == h \o [i \in DOMAIN values |-> Smaller(values[i], Highest)]

\* entry(k).or_insert(0) += 1
Bump(f, k) == IF k \in DOMAIN f THEN [f EXCEPT ![k] = @ + 1] ELSE f @@ (k :> 1)

Total(option) == IF option = <<>> THEN 0 ELSE option[1]

-----------------------------------------------------------------------------
(* One iteration's metric.                                                 *)

NoSample == [kind |-> "none"]

\* RequestMetric::builder: the defaults are those of an error.
Builder(latency, fault) ==
    [latency |-> latency, status |-> 0, bytes |-> 0, reused |-> FALSE, connection |-> <<>>,
     e2e |-> <<>>, dns |-> <<>>, fault |-> fault, sample |-> NoSample]

\* What is_error reads of a sample: the errors it counts, if its kind counts any.
SampleErrors(s) ==
    CASE s.kind \in {"graphql", "stomp", "db"} -> s.errors
      [] s.kind = "graphql_ws" -> Total(s.errors)
      [] s.kind = "soap" -> s.faults
      [] OTHER -> 0

IsError(m) == m.status = 0 \/ m.status >= 400 \/ SampleErrors(m.sample) > 0

WsSample == [kind |-> "ws", pings |-> 0, pingsReceived |-> 0, solicited |-> 0, unsolicited |-> 0,
             depth |-> <<>>, breaches |-> 0]

StompSample == [kind |-> "stomp", sent |-> 0, received |-> 0, errors |-> 0, reconnects |-> 0,
                send |-> <<>>, interval |-> <<>>, ttfm |-> <<>>]

GraphqlWsSample == [kind |-> "graphql_ws", operations |-> <<>>, ttfm |-> <<>>, interval |-> <<>>,
                    errors |-> <<>>]

SseSample == [kind |-> "sse", events |-> <<>>, first |-> <<>>, interval |-> <<>>]

DbSample == [kind |-> "db", rows |-> 0, errors |-> 0, acquire |-> <<>>, query |-> <<>>, pool |-> 0]

GrpcSample == [kind |-> "grpc", active |-> 0, exhausted |-> 0, capacity |-> <<>>]

Http3Sample == [kind |-> "http3", http3 |-> <<>>, quic |-> <<>>]

\* is_significant of the samples that have it: some field is not its default.
Significant(s, default) == \E f \in DOMAIN s : s[f] # default[f]

-----------------------------------------------------------------------------
(* AggregatedMetrics.                                                      *)

DefaultMetrics ==
    [latency |-> <<>>, e2e |-> <<>>, connection |-> <<>>, codes |-> <<>>, bytes |-> 0, injected |-> 0,
     faults |-> <<>>, created |-> 0, reused |-> 0, dns |-> <<>>]

\* Faulty variant: only iterations that got an answer count the fault they met.
RecordCommonAnswered(a, m) ==
    LET fault == IF m.status = 0 THEN <<>> ELSE m.fault IN
    [a EXCEPT !.latency = Record(@, <<m.latency>>),
              !.e2e = Record(@, m.e2e),
              !.connection = Record(@, m.connection),
              !.codes = Bump(@, m.status),
              !.bytes = @ + m.bytes,
              !.injected = @ + Len(fault),
              !.faults = IF fault = <<>> THEN @ ELSE Bump(@, fault[1]),
              !.created = @ + IF m.reused THEN 0 ELSE 1,
              !.reused = @ + IF m.reused THEN 1 ELSE 0,
              !.dns = @ \o m.dns]

\* record_common
RecordCommon(a, m) ==
    [a EXCEPT !.latency = Record(@, <<m.latency>>),
              !.e2e = Record(@, m.e2e),
              !.connection = Record(@, m.connection),
              !.codes = Bump(@, m.status),
              !.bytes = @ + m.bytes,
              !.injected = @ + Len(m.fault),
              !.faults = IF m.fault = <<>> THEN @ ELSE Bump(@, m.fault[1]),
              !.created = @ + IF m.reused THEN 0 ELSE 1,
              !.reused = @ + IF m.reused THEN 1 ELSE 0,
              !.dns = @ \o m.dns]

-----------------------------------------------------------------------------
(* The accumulators of the protocols: each record is the accumulator's     *)
(* default, each operator its record.                                      *)

QuicDefault == [has |-> FALSE, zeroRtt |-> 0, retransmissions |-> 0, handshakes |-> <<>>]

RecordQuic(a, s) ==
    IF s.handshake = <<>> /\ ~s.zeroRtt /\ s.retransmits = <<>>
    THEN a
    ELSE [has |-> TRUE,
          zeroRtt |-> a.zeroRtt + IF s.zeroRtt THEN 1 ELSE 0,
          retransmissions |-> a.retransmissions + Total(s.retransmits),
          handshakes |-> a.handshakes \o s.handshake]

SseDefault == [events |-> 0, first |-> <<>>]

RecordSse(a, s) == [a EXCEPT !.events = @ + Total(s.events), !.first = @ \o s.first]

GraphqlDefault == [operations |-> 0, errorResponses |-> 0, errors |-> 0]

RecordGraphql(a, s) ==
    [operations |-> a.operations + 1,
     errorResponses |-> a.errorResponses + IF s.errors > 0 THEN 1 ELSE 0,
     errors |-> a.errors + s.errors]

GraphqlWsDefault == [has |-> FALSE, operations |-> 0, messages |-> 0, errors |-> 0, ttfm |-> <<>>, interval |-> <<>>]

\* A message is counted by its interval, so the first one after a subscribe is not.
RecordGraphqlWs(a, s) ==
    [has |-> a.has \/ Significant(s, GraphqlWsSample),
     operations |-> a.operations + Total(s.operations),
     messages |-> a.messages + Len(s.interval),
     errors |-> a.errors + Total(s.errors),
     ttfm |-> Record(a.ttfm, s.ttfm),
     interval |-> Record(a.interval, s.interval)]

SoapDefault == [operations |-> 0, faultResponses |-> 0]

RecordSoap(a, s) ==
    [operations |-> a.operations + 1,
     faultResponses |-> a.faultResponses + IF s.faults > 0 THEN 1 ELSE 0]

StompDefault == [has |-> FALSE, sent |-> 0, received |-> 0, errors |-> 0, reconnects |-> 0,
                 send |-> <<>>, interval |-> <<>>, ttfm |-> <<>>]

RecordStomp(a, s) ==
    [has |-> a.has \/ Significant(s, StompSample),
     sent |-> a.sent + s.sent,
     received |-> a.received + s.received,
     errors |-> a.errors + s.errors,
     reconnects |-> a.reconnects + s.reconnects,
     send |-> Record(a.send, s.send),
     interval |-> Record(a.interval, s.interval),
     ttfm |-> Record(a.ttfm, s.ttfm)]

DbDefault == [queries |-> 0, rows |-> 0, errors |-> 0, pool |-> 0, acquire |-> <<>>, query |-> <<>>]

RecordDb(a, s) ==
    IF ~Significant(s, DbSample)
    THEN a
    ELSE [queries |-> a.queries + 1,
          rows |-> a.rows + s.rows,
          errors |-> a.errors + s.errors,
          pool |-> IF s.pool > 0 THEN s.pool ELSE a.pool,
          acquire |-> Record(a.acquire, s.acquire),
          query |-> Record(a.query, s.query)]

WsDefault == [has |-> FALSE, pings |-> 0, pingsReceived |-> 0, solicited |-> 0, unsolicited |-> 0,
              maxDepth |-> 0, depths |-> <<>>, breaches |-> 0]

RecordWs(a, s) ==
    [has |-> a.has \/ Significant(s, WsSample),
     pings |-> a.pings + s.pings,
     pingsReceived |-> a.pingsReceived + s.pingsReceived,
     solicited |-> a.solicited + s.solicited,
     unsolicited |-> a.unsolicited + s.unsolicited,
     maxDepth |-> Larger(a.maxDepth, Total(s.depth)),
     depths |-> a.depths \o s.depth,
     breaches |-> a.breaches + s.breaches]

GrpcDefault == [samples |-> 0, peak |-> 0, exhausted |-> 0, capacityMin |-> Highest]

RecordGrpc(a, s) ==
    IF ~Significant(s, GrpcSample)
    THEN a
    ELSE [samples |-> a.samples + 1,
          peak |-> Larger(a.peak, s.active),
          exhausted |-> a.exhausted + s.exhausted,
          capacityMin |-> IF s.capacity = <<>> THEN a.capacityMin ELSE Smaller(a.capacityMin, s.capacity[1])]

Http3Default == [cwnds |-> <<>>, max |-> 0, min |-> Highest, attempted |-> 0, successful |-> 0]

RecordHttp3(a, s) ==
    IF s.cwnd = 0 /\ s.attempted = 0
    THEN a
    ELSE [cwnds |-> Append(a.cwnds, s.cwnd),
          max |-> Larger(a.max, s.cwnd),
          min |-> Smaller(a.min, s.cwnd),
          attempted |-> a.attempted + s.attempted,
          successful |-> a.successful + s.successful]

ProtocolDefault ==
    [quic |-> QuicDefault, sse |-> SseDefault, graphql |-> GraphqlDefault, graphql_ws |-> GraphqlWsDefault,
     soap |-> SoapDefault, stomp |-> StompDefault, db |-> DbDefault, ws |-> WsDefault,
     grpc |-> GrpcDefault, http3 |-> Http3Default]

\* ProtocolAccumulators::record: a sample goes to the accumulator of its kind,
\* the two halves of an HTTP/3 sample to two.
RecordProtocol(p, s) ==
    CASE s.kind = "none" -> p
      [] s.kind = "http3" ->
            [p EXCEPT !.quic = IF s.quic = <<>> THEN @ ELSE RecordQuic(@, s.quic[1]),
                      !.http3 = IF s.http3 = <<>> THEN @ ELSE RecordHttp3(@, s.http3[1])]
      [] s.kind = "sse" -> [p EXCEPT !.sse = RecordSse(@, s)]
      [] s.kind = "graphql" -> [p EXCEPT !.graphql = RecordGraphql(@, s)]
      [] s.kind = "graphql_ws" -> [p EXCEPT !.graphql_ws = RecordGraphqlWs(@, s)]
      [] s.kind = "soap" -> [p EXCEPT !.soap = RecordSoap(@, s)]
      [] s.kind = "stomp" -> [p EXCEPT !.stomp = RecordStomp(@, s)]
      [] s.kind = "db" -> [p EXCEPT !.db = RecordDb(@, s)]
      [] s.kind = "ws" -> [p EXCEPT !.ws = RecordWs(@, s)]
      [] s.kind = "grpc" -> [p EXCEPT !.grpc = RecordGrpc(@, s)]
=============================================================================
