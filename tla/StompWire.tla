----------------------------- MODULE StompWire ------------------------------
(***************************************************************************)
(* The reader of a STOMP session on a byte stream (read_frame in           *)
(* protocols/stomp.rs with the decoder of stomp_codec.rs): it asks the     *)
(* decoder for a frame and reads more octets while there is none.  The     *)
(* network cuts the octets as it likes.                                    *)
(***************************************************************************)
EXTENDS StompCodec

CONSTANTS
    Frames,      \* frames a peer may encode
    Octets,      \* octets of arbitrary input
    MaxOctets    \* bound: arbitrary octets between a command line and a NULL

VARIABLES
    input,    \* what the peer sends: octets, how many are read, and the frames they encode
    state,    \* the decoder
    output    \* the frames returned, and whether an error ended the reading

vars == <<input, state, output>>

\* A peer that keeps to the protocol: frames, each followed by a heartbeat or not.
Wellformed ==
    {[wire |-> Encode(f) \o beat \o Encode(g), read |-> 0, sent |-> <<<<f, g>>>>]
        : f \in Frames, g \in Frames, beat \in {<<>>, <<LF>>, <<CR, LF>>}}

\* A peer that need not: sent is absent.
Arbitrary ==
    {[wire |-> <<"a", LF>> \o s \o <<NUL>>, read |-> 0, sent |-> <<>>] : s \in SeqOf(Octets, MaxOctets)}

Init ==
    /\ input \in Wellformed \cup Arbitrary
    /\ state = NewDecoder
    /\ output = [frames |-> <<>>, failed |-> FALSE]

Outcome == NextFrame(state).outcome

\* next_frame returns a frame or an error.
Take ==
    /\ ~output.failed /\ Outcome.is # "nothing"
    /\ state' = NextFrame(state).decoder
    /\ output' = IF Outcome.is = "ok"
                 THEN [output EXCEPT !.frames = Append(@, Outcome.value)]
                 ELSE [output EXCEPT !.failed = TRUE]
    /\ UNCHANGED input

\* It returns none: n more octets are read.
Read(n) ==
    /\ ~output.failed /\ Outcome.is = "nothing"
    /\ state' = Push(NextFrame(state).decoder, SubSeq(input.wire, input.read + 1, input.read + n))
    /\ input' = [input EXCEPT !.read = @ + n]
    /\ UNCHANGED output

Next == Take \/ \E n \in 1..(Len(input.wire) - input.read) : Read(n)

Spec == Init /\ [][Next]_vars

-----------------------------------------------------------------------------
\* What the octets mean when they are all there: the frames, and whether an error follows.
FrameAnd(frame, more) == [more EXCEPT !.frames = <<frame>> \o @]

RECURSIVE Meaning(_)
Meaning(octets) ==
    LET i == SelectInSeq(octets, LAMBDA b : b \notin {LF, CR})
        parsed == ParseFrame(From(octets, i))
    IN IF i = 0 \/ parsed.is # "ok"
       THEN [frames |-> <<>>, failed |-> i # 0 /\ parsed.is = "error"]
       ELSE FrameAnd(parsed.value.frame, Meaning(parsed.value.rest))

Done == input.read = Len(input.wire) /\ Outcome.is = "nothing"

\* Frames that were encoded are decoded, whole and in order, however the stream is
\* cut, heartbeats between them or not.
FramesSurviveTheWire ==
    \A sent \in ToSet(input.sent) :
        /\ ~output.failed
        /\ IsPrefix(output.frames, sent)
        /\ Done => output.frames = sent

\* On any octets at all, the incremental decoder returns what the octets mean as a
\* whole: where reads end, and when the buffer is compacted, changes nothing.
ChunkingIsInvisible ==
    LET meaning == Meaning(input.wire) IN
    /\ IsPrefix(output.frames, meaning.frames)
    /\ Done \/ output.failed => output = meaning
=============================================================================
