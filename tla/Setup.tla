------------------------------- MODULE Setup --------------------------------
(***************************************************************************)
(* From a configuration to an engine: TestConfig (config.rs) validates     *)
(* itself when it is made and lets Python assign its fields afterwards;    *)
(* run_load_test (lib.rs) builds the engine of what it then finds.         *)
(*                                                                         *)
(* A url is its scheme, an optional text whether it is given and not       *)
(* blank.  `malformed' says that some value is wrong by itself: a rate or  *)
(* an objective out of its range, a blank query, variables that are not a  *)
(* JSON object.                                                            *)
(***************************************************************************)
EXTENDS Integers

CONSTANTS
    MaxConcurrency,   \* MAX_CONCURRENCY
    MaxAssignments    \* bound: fields that differ from the default, or are assigned

VARIABLES
    input,    \* the configuration
    state,    \* made or not, and the number of assignments before and after
    output    \* an option: the engine of the test and the size of its pool

vars == <<input, state, output>>

WebSocket == {"ws", "wss"}
Grpc == {"grpc", "grpcs"}
Http3 == {"http3", "h3"}
Sse == {"sse", "sses"}
Stomp == {"stomp", "stomps"}
Database == {"postgres", "postgresql", "mysql", "mariadb", "sqlite"}
Http == {"http", "https"}

IsProtocolUrl(scheme) == scheme \in WebSocket \cup Grpc \cup Http3 \cup Sse \cup Stomp \cup Database

\* The defaults of TestConfig::new.
Default ==
    [url |-> "http", concurrency |-> 1, graphql |-> FALSE, variables |-> FALSE, soap |-> FALSE, body |-> FALSE,
     form |-> FALSE, sse |-> FALSE, multiplex |-> FALSE, destination |-> FALSE, receipt |-> FALSE,
     consume |-> FALSE, query |-> FALSE, malformed |-> FALSE, pool |-> <<>>]

Flags == {"graphql", "variables", "soap", "body", "form", "sse", "multiplex", "destination", "receipt", "consume", "query",
          "malformed"}

\* Faulty variant: the form is not looked at when SOAP is on.
ValidateSoapLoosely(c) == c.soap => ~c.graphql /\ c.body

\* The cross-field rules of validate.
ValidateGraphql(c) == IF c.graphql THEN ~c.body /\ ~c.form ELSE ~c.variables
ValidateSoap(c) == c.soap => ~c.graphql /\ ~c.form /\ c.body
ValidateStomp(c) == c.url \in Stomp => c.destination /\ ~(c.receipt /\ c.consume)
ValidateDatabase(c) == c.url \in Database => c.query /\ c.pool # <<0>>

EnsureConcurrencyLimit(n) == 1 <= n /\ n <= MaxConcurrency

Validate(c) ==
    /\ EnsureConcurrencyLimit(c.concurrency)
    /\ ~c.malformed
    /\ ValidateGraphql(c) /\ ValidateSoap(c) /\ ValidateStomp(c) /\ ValidateDatabase(c)

\* Faulty variant: the configured pool is taken as it is.
PoolMaxAsConfigured(c) == IF c.pool = <<>> THEN c.concurrency ELSE c.pool[1]

PoolMax(c) ==
    LET size == IF c.pool = <<>> THEN c.concurrency ELSE c.pool[1] IN IF size > 1 THEN size ELSE 1

\* detect_protocol; the constructors of the engines accept what they are given.
DetectProtocol(c) ==
    CASE c.url \in WebSocket -> "ws"
      [] c.url \in Grpc -> IF c.multiplex /\ c.url = "grpc" THEN "grpc_h2" ELSE "grpc"
      [] c.url \in Http3 -> "http3"
      [] c.url \in Sse -> "sse"
      [] c.url \in Stomp -> "stomp"
      [] c.url \in Database -> "db"
      [] c.url \in Http -> IF c.sse THEN "sse" ELSE "http"

\* build_engine: an option, absent when it refuses.
BuildEngine(c) ==
    CASE c.graphql -> <<IF c.url \in WebSocket THEN "graphql_ws" ELSE "graphql">>
      [] ~c.graphql /\ c.soap -> <<"soap">>
      [] ~c.graphql /\ ~c.soap /\ (IsProtocolUrl(c.url) \/ c.sse) -> <<DetectProtocol(c)>>
      [] OTHER -> IF c.body /\ c.form THEN <<>> ELSE <<"http">>

-----------------------------------------------------------------------------
Init ==
    /\ input \in {[Default EXCEPT !.url = u] : u \in {"http", "ws", "grpc", "grpcs", "http3", "sse", "stomp", "sqlite"}}
    /\ state = [made |-> FALSE, touched |-> FALSE, assignments |-> 0]
    /\ output = <<>>

\* An argument of the constructor or, once the object is made, a setter.
Assign(field, value) ==
    /\ output = <<>> /\ state.assignments < MaxAssignments
    /\ input' = [input EXCEPT ![field] = value]
    /\ state' = [state EXCEPT !.assignments = @ + 1, !.touched = state.made]
    /\ UNCHANGED output

\* TestConfig::new succeeds.
New ==
    /\ ~state.made /\ Validate(input)
    /\ state' = [state EXCEPT !.made = TRUE]
    /\ UNCHANGED <<input, output>>

\* run_load_test, up to the start of the test.
RunLoadTest ==
    /\ state.made /\ output = <<>>
    /\ EnsureConcurrencyLimit(input.concurrency)
    /\ BuildEngine(input) # <<>>
    /\ output' = <<[engine |-> BuildEngine(input)[1], pool |-> PoolMax(input)]>>
    /\ UNCHANGED <<input, state>>

Next ==
    \/ New \/ RunLoadTest
    \/ \E field \in Flags : Assign(field, TRUE)
    \/ \E n \in {0, MaxConcurrency, MaxConcurrency + 1} : Assign("concurrency", n)
    \/ \E pool \in {<<0>>, <<2>>} : Assign("pool", pool)

Spec == Init /\ [][Next]_vars

-----------------------------------------------------------------------------
\* A test that starts has an admissible concurrency and a pool that is not empty,
\* whatever was assigned after validation; and unless something was, its engine has
\* what it needs and drops nothing the configuration asks for.
StartedTestsAreSound ==
    output # <<>> =>
        LET engine == output[1].engine IN
        /\ input.concurrency \in 1..MaxConcurrency
        /\ output[1].pool >= 1
        /\ ~state.touched =>
              /\ input.graphql <=> engine \in {"graphql", "graphql_ws"}
              /\ input.soap <=> engine = "soap"
              /\ engine = "soap" => input.body
              /\ engine = "stomp" => input.destination
              /\ engine = "db" => input.query
              /\ engine \in {"http", "soap", "graphql"} => ~(input.body /\ input.form)
=============================================================================
