--------------------------- MODULE ReplySessions ---------------------------
(***************************************************************************)
(* The engines whose worker asks on a connection of its own and reads what *)
(* that brings: the events of a subscription or of a stream, or a response.*)
(***************************************************************************)
EXTENDS WorkerLoop

CONSTANTS
    MaxChunks,     \* bound: chunks of a server of events
    MaxEvents,     \* of SseSession
    ZeroRtt,       \* of Http3Session
    MigrateEvery,
    MaxParse,      \* of RequestEngine
    MaxBody

\* sse_max_events is an option of the configuration.
ASSUME ReplySessionsAssumption ==
    /\ {MaxChunks, MigrateEvery, MaxBody} \subseteq Nat
    /\ MaxParse \in Nat \ {0}
    /\ ZeroRtt \in BOOLEAN
    /\ MaxEvents # <<>> => MaxEvents[1] \in Nat /\ MaxEvents = <<MaxEvents[1]>>

GraphqlWs == INSTANCE GraphqlWsSession
Sse == INSTANCE SseSession WITH MaxFrames <- MaxChunks
Http3 == INSTANCE Http3Session
Request == INSTANCE RequestEngine
=============================================================================
