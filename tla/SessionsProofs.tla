--------------------------- MODULE SessionsProofs ---------------------------
(***************************************************************************)
(* Proofs that the engines keep what module Sessions promises of them, for *)
(* any number of workers, iterations, frames, losses and faults.  The      *)
(* invariant is, engine by engine, what the modules of the three kinds of  *)
(* engine prove inductive.                                                 *)
(***************************************************************************)
EXTENDS Sessions, MessageSessionsProofs, ReplySessionsProofs, SharedSessionsProofs

\* The engines whose workers share what they connect, and the others.
Shared == {"grpc_h2", "db"}
Single == {"ws", "stomp", "graphql_ws", "sse", "http3", "request"}

\* The account of the iterations, the state of the engine's connections, and its counters.
SessionsInv ==
    /\ engine \in Single \cup Shared
    /\ engine \in Single => Accounted
    /\ engine \in Shared => SharedAccounted
    /\ engine = "ws" => WsInv /\ HalfFaultless
    /\ engine = "stomp" => StompInv /\ StompCounted
    /\ engine = "graphql_ws" => GqlInv /\ GqlCounted
    /\ engine = "sse" => SseInv /\ SseCounted
    /\ engine = "http3" => Http3Shape /\ Http3Sums
    /\ engine = "request" => RequestShape /\ Request!CountsAreTrue
    /\ engine = "grpc_h2" => H2Inv /\ H2Counted
    /\ engine = "db" => DbInv /\ DbCounted

\* The names of the engines are different.
LEMMA EngineNames ==
    /\ \A e \in Single : e \notin Shared
    /\ \A e \in Shared : e \notin Single
BY Zenon DEF Single, Shared

\* Every engine starts in its invariant.
LEMMA SessionsStart == Init => SessionsInv
<1> SUFFICES ASSUME Init PROVE SessionsInv
  OBVIOUS
<1>1. CASE engine = "ws" /\ WebSocket!Init
  BY <1>1, WsStarts, WsAccountsStart, Zenon DEF SessionsInv, Single, Shared
<1>2. CASE engine = "stomp" /\ Stomp!Init
  BY <1>2, StompStarts, StompAccountsStart, Zenon DEF SessionsInv, Single, Shared
<1>3. CASE engine = "graphql_ws" /\ GraphqlWs!Init
  BY <1>3, GqlStarts, GqlAccountsStart, Zenon DEF SessionsInv, Single, Shared
<1>4. CASE engine = "sse" /\ Sse!Init
  BY <1>4, SseStarts, SseAccountsStart, Zenon DEF SessionsInv, Single, Shared
<1>5. CASE engine = "http3" /\ Http3!Init
  BY <1>5, Http3Starts, Zenon DEF SessionsInv, Single, Shared
<1>6. CASE engine = "request" /\ Request!Init
  BY <1>6, RequestStarts, Zenon DEF SessionsInv, Single, Shared
<1>7. CASE engine = "grpc_h2" /\ H2!Init
  BY <1>7, H2Starts, H2AccountsStart, H2CountsStart, Zenon DEF SessionsInv, Single, Shared
<1>8. CASE engine = "db" /\ Db!Init
  BY <1>8, DbStarts, DbAccountsStart, DbCountsStart, Zenon DEF SessionsInv, Single, Shared
<1> QED BY <1>1, <1>2, <1>3, <1>4, <1>5, <1>6, <1>7, <1>8, Zenon DEF Init

\* A step of the whole is a step of the engine that the test has.
LEMMA SessionsInductive == SessionsInv /\ [Next]_vars => SessionsInv'
<1> SUFFICES ASSUME SessionsInv, [Next]_vars PROVE SessionsInv'
  OBVIOUS
<1>0. engine' = engine
  BY Zenon DEF Next, vars
<1>1. CASE engine = "ws"
  <2>1. [WebSocket!Next]_loopVars /\ Accounted /\ WsInv /\ HalfFaultless
    BY <1>1, Zenon DEF SessionsInv, Single, Next, vars
  <2>2. AccountStep /\ HalfFaultless' /\ WsInv'
    BY <2>1, WsAccounts, WsInductive, Zenon
  <2>3. Accounted'
    BY <2>1, <2>2, AccountKept, Zenon
  <2> QED BY <1>0, <1>1, <2>2, <2>3, Zenon DEF SessionsInv, Single, Shared
<1>2. CASE engine = "stomp"
  <2>1. [Stomp!Next]_loopVars /\ Accounted /\ StompInv /\ StompCounted
    BY <1>2, Zenon DEF SessionsInv, Single, Next, vars
  <2>2. AccountStep /\ StompInv' /\ StompCounted'
    BY <2>1, StompAccounts, StompInductive, StompCountsInductive, Zenon
  <2>3. Accounted'
    BY <2>1, <2>2, AccountKept, Zenon
  <2> QED BY <1>0, <1>2, <2>2, <2>3, Zenon DEF SessionsInv, Single, Shared
<1>3. CASE engine = "graphql_ws"
  <2>1. [GraphqlWs!Next]_loopVars /\ Accounted /\ GqlInv /\ GqlCounted
    BY <1>3, Zenon DEF SessionsInv, Single, Next, vars
  <2>2. AccountStep /\ GqlInv' /\ GqlCounted'
    BY <2>1, GqlAccounts, GqlInductive, GqlCountsInductive, Zenon
  <2>3. Accounted'
    BY <2>1, <2>2, AccountKept, Zenon
  <2> QED BY <1>0, <1>3, <2>2, <2>3, Zenon DEF SessionsInv, Single, Shared
<1>4. CASE engine = "sse"
  <2>1. [Sse!Next]_loopVars /\ Accounted /\ SseInv /\ SseCounted
    BY <1>4, Zenon DEF SessionsInv, Single, Next, vars
  <2>2. AccountStep /\ SseInv' /\ SseCounted'
    BY <2>1, SseAccounts, SseInductive, SseCountsInductive, Zenon
  <2>3. Accounted'
    BY <2>1, <2>2, AccountKept, Zenon
  <2> QED BY <1>0, <1>4, <2>2, <2>3, Zenon DEF SessionsInv, Single, Shared
<1>5. CASE engine = "http3"
  <2>1. [Http3!Next]_loopVars /\ Accounted /\ Http3Shape /\ Http3Sums
    BY <1>5, Zenon DEF SessionsInv, Single, Next, vars
  <2>2. AccountStep /\ Http3Shape' /\ Http3Sums'
    BY <2>1, Http3Accounts, Http3Shapes, Http3Counts, Zenon
  <2>3. Accounted'
    BY <2>1, <2>2, AccountKept, Zenon
  <2> QED BY <1>0, <1>5, <2>2, <2>3, Zenon DEF SessionsInv, Single, Shared
<1>6. CASE engine = "request"
  <2>1. [Request!Next]_loopVars /\ Accounted /\ RequestShape /\ Request!CountsAreTrue
    BY <1>6, Zenon DEF SessionsInv, Single, Next, vars
  <2>2. AccountStep /\ RequestShape' /\ (Request!CountsAreTrue)'
    BY <2>1, RequestAccounts, RequestCounts, Zenon
  <2>3. Accounted'
    BY <2>1, <2>2, AccountKept, Zenon
  <2> QED BY <1>0, <1>6, <2>2, <2>3, Zenon DEF SessionsInv, Single, Shared
<1>7. CASE engine = "grpc_h2"
  <2>1. [H2!Next]_loopVars /\ SharedAccounted /\ H2Inv /\ H2Counted
    BY <1>7, Zenon DEF SessionsInv, Shared, Next, vars
  <2>2. SharedAccounted' /\ H2Inv' /\ H2Counted'
    BY <2>1, H2Accounts, H2Inductive, H2CountsInductive, Zenon
  <2> QED BY <1>0, <1>7, <2>2, Zenon DEF SessionsInv, Single, Shared
<1>8. CASE engine = "db"
  <2>1. [Db!Next]_loopVars /\ SharedAccounted /\ DbInv /\ DbCounted
    BY <1>8, Zenon DEF SessionsInv, Shared, Next, vars
  <2>2. SharedAccounted' /\ DbInv' /\ DbCounted'
    BY <2>1, DbAccounts, DbInductive, DbCountsInductive, Zenon
  <2> QED BY <1>0, <1>8, <2>2, Zenon DEF SessionsInv, Single, Shared
<1> QED BY <1>1, <1>2, <1>3, <1>4, <1>5, <1>6, <1>7, <1>8, Zenon DEF SessionsInv, Single, Shared

\* The invariant from which the promises follow.
THEOREM Invariance == Spec => []SessionsInv
BY SessionsStart, SessionsInductive, PTL DEF Spec

\* The worker loop and Aggregator::add: every iteration is in the report, whatever ended it,
\* and every injected fault is counted, but for the ones that were dropped half way.
THEOREM Accounts == Spec => []IterationsAreAccounted
<1>1. SessionsInv => IterationsAreAccounted
  BY EngineNames, Zenon DEF SessionsInv, IterationsAreAccounted, Accounted, SharedAccounted, Single, Shared
<1> QED BY <1>1, Invariance, PTL

\* The protocol counters of stomp.rs, graphql_ws.rs, sse.rs, http3.rs, db.rs and grpc_h2.rs, and
\* the errors of the engines of one request: the report says what happened on the wire.
THEOREM Counts == Spec => []CountsAreTrue
<1>1. SessionsInv => CountsAreTrue
  BY StompCountsAreTrue, GqlCountsAreTrue, SseCountsAreTrue, DbCountsAreTrue, H2CountsAreTrue, Zenon
     DEF SessionsInv, CountsAreTrue, Http3Sums
<1> QED BY <1>1, Invariance, PTL

\* A connection that an iteration found ended (ws.rs, graphql_ws.rs, sse.rs, grpc_h2.rs) is
\* given up, and the next iteration connects anew.
THEOREM Corpses == Spec => []NoCorpse
<1>1. SessionsInv => NoCorpse
  BY WsSafe, GqlSafe, SseSafe, H2Safe, Zenon DEF SessionsInv, NoCorpse
<1> QED BY <1>1, Invariance, PTL

\* The answers that ws.rs and stomp.rs take are those of their own requests, also after
\* iterations that the deadline dropped.
THEOREM Answers == Spec => []AnswersInStep
<1>1. SessionsInv => AnswersInStep
  BY WsSafe, StompSafe, Zenon DEF SessionsInv, AnswersInStep
<1> QED BY <1>1, Invariance, PTL

\* stomp.rs and graphql_ws.rs use no connection before its handshake is complete, and
\* graphql_ws.rs waits on no subscription that has ended.
THEOREM Handshakes == Spec => []HandshakeFirst
<1>1. SessionsInv => HandshakeFirst
  BY GqlSafe, StompSafe, Zenon DEF SessionsInv, HandshakeFirst
<1> QED BY <1>1, Invariance, PTL

\* The parsers of stomp.rs and sse.rs never join the octets of two connections.
THEOREM Buffers == Spec => []FreshBuffer
<1>1. SessionsInv => FreshBuffer
  BY StompSafe, SseSafe, Zenon DEF SessionsInv, FreshBuffer
<1> QED BY <1>1, Invariance, PTL

\* ws_max_messages and sse_max_events are never exceeded.
THEOREM Budgets == Spec => []BudgetIsKept
<1>1. SessionsInv => BudgetIsKept
  BY WsSafe, SseSafe, Zenon DEF SessionsInv, BudgetIsKept
<1> QED BY <1>1, Invariance, PTL

\* The mutex of grpc_h2.rs and the permit of db.rs are held by a worker that is connecting.
THEOREM Locks == Spec => []LockIsHeldToConnect
<1>1. SessionsInv => LockIsHeldToConnect
  BY H2Safe, Zenon DEF SessionsInv, LockIsHeldToConnect, DbInv
<1> QED BY <1>1, Invariance, PTL
=============================================================================
