----------------------------- MODULE SseParser ------------------------------
(***************************************************************************)
(* The incremental parser of event streams (protocols/sse.rs).  The octets *)
(* of a field's name are one octet, as is a value; "hi" and "lo" are the   *)
(* two octets of a character, which a chunk may separate.                  *)
(***************************************************************************)
EXTENDS Integers, SequencesExt

Eol == "LF"
Return == "CR"

\* String::from_utf8_lossy: half a character becomes U+FFFD.
FromUtf8Lossy(chunk) ==
    [i \in DOMAIN chunk |->
        IF \/ chunk[i] = "hi" /\ (i = Len(chunk) \/ chunk[i + 1] # "lo")
           \/ chunk[i] = "lo" /\ (i = 1 \/ chunk[i - 1] # "hi")
        THEN "U+FFFD" ELSE chunk[i]]

\* find: the first place at which the pattern is, 0 if there is none.
FindPattern(s, pattern) ==
    LET places == {i \in 1..(Len(s) - Len(pattern) + 1) : SubSeq(s, i, i + Len(pattern) - 1) = pattern}
    IN IF places = {} THEN 0 ELSE Min(places)

CrLf == <<Return, Eol, Return, Eol>>

\* find_frame_end
FindFrameEnd(s) ==
    LET ends == {FindPattern(s, CrLf), FindPattern(s, <<Eol, Eol>>)} \ {0}
    IN IF ends = {} THEN 0 ELSE Min(ends)

\* str::lines
RECURSIVE Lines(_)
Lines(s) ==
    LET nl == FindPattern(s, <<Eol>>)
        line == IF nl = 0 THEN s ELSE SubSeq(s, 1, nl - 1)
        bare == IF nl # 0 /\ line # <<>> /\ Last(line) = Return THEN Front(line) ELSE line
    IN IF s = <<>> THEN <<>> ELSE <<bare>> \o IF nl = 0 THEN <<>> ELSE Lines(SubSeq(s, nl + 1, Len(s)))

\* The values of the lines of a field.
Values(lines, field) ==
    LET those == SelectSeq(lines, LAMBDA l : l # <<>> /\ Head(l) = field)
    IN [i \in DOMAIN those |-> Tail(those[i])]

\* parse_frame: an option; the last event: and id: win, the data: lines are joined.
ParseFrame(frame) ==
    LET lines == Lines(frame)
        LastOf(field) == IF Values(lines, field) = <<>> THEN <<>> ELSE <<Last(Values(lines, field))>>
    IN IF Values(lines, "data:") = <<>>
       THEN <<>>
       ELSE <<[type |-> LastOf("event:"), data |-> Values(lines, "data:"), id |-> LastOf("id:")]>>

DelimiterLength(s, end) == IF s[end] = Return THEN 4 ELSE 2

\* parse_sse_chunk: the events that are complete, and what stays in the buffer.
EventsAnd(events, more) == [more EXCEPT !.events = events \o @]

RECURSIVE ParseBuffer(_)
ParseBuffer(s) ==
    LET end == FindFrameEnd(s)
    IN IF end = 0
       THEN [events |-> <<>>, buffer |-> s]
       ELSE EventsAnd(ParseFrame(SubSeq(s, 1, end - 1)),
                      ParseBuffer(SubSeq(s, end + DelimiterLength(s, end), Len(s))))

\* Faulty variant: the delimiter is looked for in the new chunk alone.
ParseSseChunkAlone(buffer, chunk) ==
    LET parsed == ParseBuffer(chunk) IN [parsed EXCEPT !.buffer = buffer \o @]

ParseSseChunk(buffer, chunk) == ParseBuffer(buffer \o chunk)
=============================================================================
