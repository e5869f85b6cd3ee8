------------------------------ MODULE Sessions ------------------------------
(***************************************************************************)
(* The protocol engines under the workers that drive them.  A test has one *)
(* engine, which build_engine chose (module Setup); its module gives the   *)
(* steps, and what is promised of every engine, or of several, is stated   *)
(* here once.                                                              *)
(***************************************************************************)
EXTENDS MessageSessions, ReplySessions, SharedSessions

VARIABLE engine

vars == <<loopVars, engine>>

Init ==
    \/ engine = "ws" /\ WebSocket!Init
    \/ engine = "stomp" /\ Stomp!Init
    \/ engine = "graphql_ws" /\ GraphqlWs!Init
    \/ engine = "sse" /\ Sse!Init
    \/ engine = "http3" /\ Http3!Init
    \/ engine = "request" /\ Request!Init
    \/ engine = "grpc_h2" /\ H2!Init
    \/ engine = "db" /\ Db!Init

Next ==
    \/ engine = "ws" /\ WebSocket!Next /\ UNCHANGED engine
    \/ engine = "stomp" /\ Stomp!Next /\ UNCHANGED engine
    \/ engine = "graphql_ws" /\ GraphqlWs!Next /\ UNCHANGED engine
    \/ engine = "sse" /\ Sse!Next /\ UNCHANGED engine
    \/ engine = "http3" /\ Http3!Next /\ UNCHANGED engine
    \/ engine = "request" /\ Request!Next /\ UNCHANGED engine
    \/ engine = "grpc_h2" /\ H2!Next /\ UNCHANGED engine
    \/ engine = "db" /\ Db!Next /\ UNCHANGED engine

Spec == Init /\ [][Next]_vars

-----------------------------------------------------------------------------
\* Every iteration is a metric of the report, whatever ended it, except the one under
\* way and the one dropped when the worker left; and every fault that chaos selected
\* is counted, unless its iteration was dropped.
IterationsAreAccounted ==
    IF engine \in {"grpc_h2", "db"}
    THEN SharedFaultsAreReported
    ELSE FaultsAreReported /\ IterationsAreReported

\* A connection that an iteration found ended is given up: the next iteration connects
\* anew instead of failing on the corpse, also where workers share the connection.
NoCorpse ==
    /\ engine = "ws" => WebSocket!NoCorpse
    /\ engine = "graphql_ws" => GraphqlWs!NoCorpse
    /\ engine = "sse" => Sse!NoCorpse
    /\ engine = "grpc_h2" => H2!DeadConnectionIsReplaced

\* The answer an iteration takes is that of its own request, although iterations that
\* the deadline dropped leave theirs on the connection.
AnswersInStep ==
    /\ engine = "ws" => WebSocket!AnswersInStep
    /\ engine = "stomp" => Stomp!AnswersInStep

\* Nothing is sent or awaited on a connection before its handshake is complete, nor on
\* a subscription that the server has ended, also when the deadline dropped an
\* iteration half way.
HandshakeFirst ==
    /\ engine = "stomp" => Stomp!HandshakeFirst
    /\ engine = "graphql_ws" => GraphqlWs!HandshakeFirst /\ GraphqlWs!WaitsOnLiveSubscription

\* A parser's buffer never joins the octets of two connections.
FreshBuffer ==
    /\ engine = "stomp" => Stomp!FreshBuffer
    /\ engine = "sse" => Sse!FreshBuffer

\* ws_max_messages and sse_max_events cap what a session exchanges.
BudgetIsKept ==
    /\ engine = "ws" => WebSocket!BudgetIsKept
    /\ engine = "sse" => Sse!BudgetIsKept

\* The protocol's counters in the report are what happened on the wire, as the engine's
\* module says it, and the gauge of HTTP/2 streams counts the calls in flight.
CountsAreTrue ==
    /\ engine = "stomp" => Stomp!CountsAreTrue
    /\ engine = "graphql_ws" => GraphqlWs!CountsAreTrue
    /\ engine = "sse" => Sse!CountsAreTrue
    /\ engine = "http3" => Http3!CountsAreTrue
    /\ engine = "request" => Request!CountsAreTrue
    /\ engine = "db" => Db!CountsAreTrue
    /\ engine = "grpc_h2" => H2!GaugeCountsStreams

\* The lock under which a shared engine connects is held by a worker that is
\* connecting, so a deadline that drops it cannot leave the others waiting.
LockIsHeldToConnect ==
    /\ engine = "grpc_h2" => H2!MutexIsHeldToConnect
    /\ engine = "db" => Db!PermitIsHeldToConnect

-----------------------------------------------------------------------------
(* What the documents say of an engine and its code does not keep.         *)

\* "Total SSE events received across all iterations" (docs/sse.md 148).
EventsAreCountedOnce == engine = "sse" => Sse!EventsAreCountedOnce
=============================================================================
