-------------------------- MODULE MessageSessions --------------------------
(***************************************************************************)
(* The engines whose worker exchanges messages with its peer on a socket   *)
(* of its own, which it keeps over several iterations.                     *)
(***************************************************************************)
EXTENDS WorkerLoop

CONSTANTS
    MaxMessages,   \* of WebSocketSession
    WarnFrames

\* ws_max_messages is an option of the configuration.
ASSUME MessageSessionsAssumption ==
    /\ WarnFrames \in Nat
    /\ MaxMessages # <<>> => MaxMessages[1] \in Nat /\ MaxMessages = <<MaxMessages[1]>>

WebSocket == INSTANCE WebSocketSession
Stomp == INSTANCE StompSession
=============================================================================
