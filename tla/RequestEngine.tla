--------------------------- MODULE RequestEngine ----------------------------
(***************************************************************************)
(* The engines whose iteration is one request: HttpEngine, GraphqlEngine,  *)
(* SoapEngine and GrpcEngine (protocols/http.rs, graphql.rs, soap.rs,      *)
(* grpc.rs).  The first three read the body to its end and the last is     *)
(* answered at once; connections are the libraries' own.                   *)
(***************************************************************************)
EXTENDS WorkerLoop, GrpcStatus

CONSTANTS
    MaxParse,     \* MAX_PARSE_BYTES: the prefix of a body that is parsed
    MaxBody       \* bound: chunks of a body, each of one byte

HttpEngines == {"http", "graphql", "soap"}

\* urls: the cache of HttpSession; parses: whether Url::parse accepts the target.
\* failed: iterations that failed; hidden: those that failed by a part of the body
\* that was not parsed.
Init ==
    /\ pc = "idle" /\ it = NoIteration /\ report = NoReport /\ past = NoPast /\ peer = NoPeer
    /\ session \in [engine : HttpEngines \cup {"grpc"}, parses : BOOLEAN, urls : {{}}]
    /\ session.engine # "http" => session.parses
    /\ truth = [failed |-> 0, hidden |-> 0]

\* The iteration ends with a metric, and fails or not.
Finish(m, failed, hidden) ==
    /\ End(m)
    /\ truth' = [failed |-> truth.failed + IF failed THEN 1 ELSE 0, hidden |-> truth.hidden + IF hidden THEN 1 ELSE 0]

Fails == Finish(Builder(0, it.fault), TRUE, FALSE)

\* HttpSession::resolve and select_fault, which a target that does not parse forestalls.
Begin(f) ==
    /\ MayBegin
    /\ session' = IF session.engine = "http" /\ session.parses THEN [session EXCEPT !.urls = {"target"}] ELSE session
    /\ past' = Begun(f)
    /\ IF session.parses
       THEN /\ it' = [fault |-> f, bytes |-> 0, status |-> 0]
            /\ pc' = IF session.engine = "grpc" THEN "connect" ELSE "send"
            /\ UNCHANGED <<report, truth>>
       ELSE f = <<>> /\ Finish(Builder(0, f), TRUE, FALSE)
    /\ UNCHANGED peer

-----------------------------------------------------------------------------
(* Over reqwest.                                                           *)

\* send succeeds: a response whose body says one of three things to a parser.
\* A dropped connection is a timeout of a nanosecond.
Respond(status, says) ==
    /\ pc = "send" /\ ~Is(it.fault, "ConnectionDrop")
    /\ it' = [it EXCEPT !.status = status]
    /\ peer' = [up |-> TRUE, inbox |-> <<>>, says |-> says]
    /\ pc' = "drain"
    /\ UNCHANGED <<session, report, past, truth>>

\* send fails.
SendFails ==
    /\ pc = "send"
    /\ Fails
    /\ UNCHANGED <<session, peer, past>>

\* drain_body takes a chunk.
Chunk ==
    /\ pc = "drain" /\ it.bytes < MaxBody
    /\ it' = [it EXCEPT !.bytes = @ + 1]
    /\ UNCHANGED <<pc, session, peer, report, past, truth>>

\* Faulty variant: a body that breaks off keeps the status of its response.
DrainFailsKeepingStatus ==
    /\ pc = "drain"
    /\ Finish([Builder(0, it.fault) EXCEPT !.status = it.status, !.bytes = it.bytes], TRUE, FALSE)
    /\ peer' = NoPeer
    /\ UNCHANGED <<session, past>>

\* drain_body meets an error.
DrainFails ==
    /\ pc = "drain"
    /\ Finish([Builder(0, it.fault) EXCEPT !.bytes = it.bytes], TRUE, FALSE)
    /\ peer' = NoPeer
    /\ UNCHANGED <<session, past>>

\* What count_graphql_errors may return: a body cut short is not JSON.
CountGraphqlErrors(whole) ==
    IF ~whole \/ peer.says = "other" THEN {<<>>} ELSE {IF peer.says = "errors" THEN <<1>> ELSE <<0>>}

\* What count_soap_faults may return: the fault may be in the part that was cut off,
\* and the cut may be inside a tag.
CountSoapFaults(whole) ==
    CASE peer.says = "other" -> {<<>>}
      [] peer.says = "data" -> {<<0>>} \cup IF whole THEN {} ELSE {<<>>}
      [] peer.says = "errors" -> {<<1>>} \cup IF whole THEN {} ELSE {<<0>>, <<>>}

\* What the body is found to say: an option for the engines that parse it.
Findings ==
    LET whole == it.bytes <= MaxParse IN
    CASE session.engine = "http" -> {<<>>}
      [] session.engine = "graphql" -> CountGraphqlErrors(whole)
      [] session.engine = "soap" -> CountSoapFaults(whole)

SampleOf(found) ==
    CASE found = <<>> -> NoSample
      [] found # <<>> /\ session.engine = "graphql" -> [kind |-> "graphql", errors |-> found[1]]
      [] found # <<>> /\ session.engine = "soap" -> [kind |-> "soap", faults |-> found[1]]

\* The body ends.
Drained(found) ==
    LET failed == it.status >= 400 \/ (session.engine # "http" /\ peer.says = "errors") IN
    /\ pc = "drain" /\ found \in Findings
    /\ Finish([Builder(0, it.fault) EXCEPT !.status = it.status, !.bytes = it.bytes, !.sample = SampleOf(found)],
              failed, failed /\ it.status < 400 /\ it.bytes > MaxParse /\ found \in {<<>>, <<0>>})
    /\ peer' = NoPeer
    /\ UNCHANGED <<session, past>>

-----------------------------------------------------------------------------
(* Over tonic: a channel for each call.                                    *)

\* endpoint.connect, which a dropped connection cuts off at once.
Connect ==
    /\ pc = "connect" /\ ~Is(it.fault, "ConnectionDrop")
    /\ pc' = "call"
    /\ past' = Connected
    /\ UNCHANGED <<it, session, peer, report, truth>>

ConnectFails ==
    /\ pc = "connect"
    /\ IF Is(it.fault, "ConnectionDrop")
       THEN Fails
       ELSE Finish([Builder(0, it.fault) EXCEPT !.status = 503], TRUE, FALSE)
    /\ UNCHANGED <<session, peer, past>>

\* The call ends with a code of gRPC; the deadline of the call is DEADLINE_EXCEEDED.
Called(code) ==
    /\ pc = "call"
    /\ Finish([Builder(0, it.fault) EXCEPT !.status = GrpcToHttpStatus(code), !.bytes = IF code = 0 THEN 1 ELSE 0],
              code # 0, FALSE)
    /\ UNCHANGED <<session, peer, past>>

-----------------------------------------------------------------------------
Deadline ==
    /\ CutShort
    /\ truth' = [truth EXCEPT !.failed = @ + 1]
    /\ peer' = NoPeer
    /\ UNCHANGED session

Shutdown == Leave(session)

Next ==
    \/ \E f \in SelectFault : Begin(f)
    \/ \E status \in {200, 404}, says \in {"other", "data", "errors"} : Respond(status, says)
    \/ SendFails \/ Chunk \/ DrainFails \/ Connect \/ ConnectFails \/ Deadline \/ Shutdown
    \/ \E found \in {<<>>, <<0>>, <<1>>} : Drained(found)
    \/ \E code \in {0, 4, 5, 14, 99} : Called(code)

Spec == Init /\ [][Next]_loopVars

-----------------------------------------------------------------------------
\* total_errors counts every iteration that failed: refused, cut short, broken off in
\* the body, answered by an error status or, with status 200, by an error in the body.
\* It misses only errors in a body longer than what is parsed.
CountsAreTrue == report.errors + truth.hidden = truth.failed
=============================================================================
