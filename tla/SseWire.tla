------------------------------ MODULE SseWire -------------------------------
(***************************************************************************)
(* The parser of event streams fed chunk by chunk (the read loop of        *)
(* execute_iteration_with_context in protocols/sse.rs): each chunk is      *)
(* decoded on its own and appended to the session's buffer.                *)
(***************************************************************************)
EXTENDS SseParser

CONSTANTS
    Octets,      \* octets a server may send
    MaxOctets    \* bound: octets of the stream

VARIABLES
    input,    \* the octets read so far
    state,    \* the session's buffer
    output    \* the events parsed so far

vars == <<input, state, output>>

Init == input = <<>> /\ state = <<>> /\ output = <<>>

Read(chunk) ==
    LET parsed == ParseSseChunk(state, FromUtf8Lossy(chunk)) IN
    /\ Len(input) + Len(chunk) <= MaxOctets
    /\ input' = input \o chunk
    /\ state' = parsed.buffer
    /\ output' = output \o parsed.events

Next == \E chunk \in SeqOf(Octets, 2) \ {<<>>} : Read(chunk)

Spec == Init /\ [][Next]_vars

-----------------------------------------------------------------------------
\* As many events are parsed as the stream holds, wherever the chunks end; and the
\* same ones, if no chunk ends inside a character.
EventsSurviveTheWire ==
    LET whole == ParseBuffer(FromUtf8Lossy(input)).events IN
    /\ Len(output) = Len(whole)
    /\ ToSet(input) \cap {"hi", "lo"} = {} => output = whole
=============================================================================
