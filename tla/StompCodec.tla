----------------------------- MODULE StompCodec -----------------------------
(***************************************************************************)
(* The STOMP 1.2 frame codec (protocols/stomp_codec.rs).  Octets are       *)
(* strings; those that matter have names, and "length" is a header name    *)
(* that stands for content-length.  A header component is a sequence of    *)
(* octets; octets are taken to be valid UTF-8 without blanks.              *)
(***************************************************************************)
EXTENDS Integers, SequencesExt

CONSTANT CompactAt   \* 4096: compact() reclaims from here on

LF == "LF"
CR == "CR"
NUL == "NUL"
Colon == ":"
Escape == "\\"

\* header, for the only name that the codec itself looks up.
ContentLength(headers) ==
    LET i == SelectInSeq(headers, LAMBDA h : h[1] = <<"length">>)
        value == IF i = 0 THEN <<>> ELSE headers[i][2]
    IN CASE Len(value) = 1 /\ value[1] = "0" -> <<0>>
         [] Len(value) = 1 /\ value[1] = "1" -> <<1>>
         [] Len(value) = 1 /\ value[1] = "2" -> <<2>>
         [] OTHER -> <<>>

-----------------------------------------------------------------------------
(* The serializer.                                                         *)

\* encode_header, one octet at a time.
EncodeOctet(b) ==
    CASE b = LF -> <<Escape, "n">>
      [] b = CR -> <<Escape, "r">>
      [] b = Colon -> <<Escape, "c">>
      [] b = Escape -> <<Escape, Escape>>
      [] OTHER -> <<b>>

EncodeHeader(value) == FlattenSeq([i \in DOMAIN value |-> EncodeOctet(value[i])])

Encode(frame) ==
    LET Line(h) == EncodeHeader(h[1]) \o <<Colon>> \o EncodeHeader(h[2]) \o <<LF>>
    IN frame.command \o <<LF>>
       \o FlattenSeq([i \in DOMAIN frame.headers |-> Line(frame.headers[i])])
       \o <<LF>> \o frame.body \o <<NUL>>

-----------------------------------------------------------------------------
(* The parser.  What it returns is an outcome: a frame, the need for more  *)
(* octets, or an error.                                                    *)

Nothing == [is |-> "nothing"]
Failure(error) == [is |-> "error", error |-> error]
Success(value) == [is |-> "ok", value |-> value]

\* decode_header
Escapes == {"n", "r", "c", Escape}

Unescape(b) == CASE b = "n" -> LF [] b = "r" -> CR [] b = "c" -> Colon [] b = Escape -> Escape

Prepend(b, rest) == IF rest.is = "ok" THEN Success(<<b>> \o rest.value) ELSE rest

RECURSIVE DecodeHeader(_)
DecodeHeader(s) ==
    CASE s = <<>> -> Success(<<>>)
      [] s # <<>> /\ Head(s) # Escape -> Prepend(Head(s), DecodeHeader(Tail(s)))
      [] s = <<Escape>> -> Failure("TrailingEscape")
      [] Len(s) > 1 /\ Head(s) = Escape /\ s[2] \in Escapes ->
            Prepend(Unescape(s[2]), DecodeHeader(SubSeq(s, 3, Len(s))))
      [] Len(s) > 1 /\ Head(s) = Escape /\ s[2] \notin Escapes -> Failure("InvalidEscape")

StripCr(line) == IF line # <<>> /\ Last(line) = CR THEN Front(line) ELSE line

\* find: the index of the first octet of that kind, 0 if there is none.
Find(s, octet) == SelectInSeq(s, LAMBDA b : b = octet)

From(s, i) == SubSeq(s, i, Len(s))

Before(s, octet) == SubSeq(s, 1, Find(s, octet) - 1)
After(s, octet) == From(s, Find(s, octet) + 1)

\* The first line of octets that contain an end of line.
Line(s) == StripCr(Before(s, LF))

\* A header line: its name and value, decoded.
Pair(name, value) ==
    CASE name.is = "error" -> name
      [] name.is = "ok" /\ value.is = "error" -> value
      [] OTHER -> Success(<<name.value, value.value>>)

DecodeLine(line) ==
    IF Find(line, Colon) = 0
    THEN Failure("MissingHeaderValue")
    ELSE Pair(DecodeHeader(Before(line, Colon)), DecodeHeader(After(line, Colon)))

\* The headers up to the blank line; rest is what follows it.
RECURSIVE ParseHeaders(_, _)
ParseHeaders(s, headers) ==
    LET header == DecodeLine(Line(s)) IN
    CASE Find(s, LF) = 0 -> Nothing
      [] Find(s, LF) # 0 /\ Line(s) = <<>> -> Success([headers |-> headers, rest |-> After(s, LF)])
      [] Find(s, LF) # 0 /\ Line(s) # <<>> ->
            IF header.is = "error" THEN header ELSE ParseHeaders(After(s, LF), Append(headers, header.value))

\* One EOL before the NULL that ends a body of unknown length is not of the body.
TrimEol(body) == IF body # <<>> /\ Last(body) = LF THEN StripCr(Front(body)) ELSE body

\* Faulty variant: a body of known length is taken to be there once its NULL may be.
ParseBodyEarly(s, length) ==
    LET null == Find(s, NUL) IN
    CASE null = 0 -> Nothing
      [] null # 0 /\ length # <<>> -> Success([body |-> SubSeq(s, 1, null - 1), rest |-> From(s, null + 1)])
      [] null # 0 /\ length = <<>> -> Success([body |-> TrimEol(SubSeq(s, 1, null - 1)), rest |-> From(s, null + 1)])

\* The body, of the length announced or up to the first NULL.
ParseBody(s, length) ==
    LET null == IF length = <<>> THEN Find(s, NUL) ELSE length[1] + 1
        body == SubSeq(s, 1, null - 1)
    IN CASE null = 0 \/ null > Len(s) -> Nothing
         [] null \in 1..Len(s) /\ s[null] # NUL -> Failure("MissingNull")
         [] null \in 1..Len(s) /\ s[null] = NUL ->
              Success([body |-> IF length = <<>> THEN TrimEol(body) ELSE body, rest |-> From(s, null + 1)])

\* next_frame on octets that begin with a command line: the headers, then the body.
WithBody(command, headers, body) ==
    IF body.is # "ok"
    THEN body
    ELSE Success([frame |-> [command |-> command, headers |-> headers, body |-> body.value.body],
                  rest |-> body.value.rest])

WithHeaders(command, head) ==
    IF head.is # "ok"
    THEN head
    ELSE WithBody(command, head.value.headers,
                  ParseBody(head.value.rest, ContentLength(head.value.headers)))

ParseFrame(s) ==
    IF Find(s, LF) = 0 THEN Nothing ELSE WithHeaders(Line(s), ParseHeaders(After(s, LF), <<>>))

-----------------------------------------------------------------------------
(* The decoder: a buffer and the position up to which it is consumed.      *)

NewDecoder == [buf |-> <<>>, pos |-> 0]

Push(d, data) == [d EXCEPT !.buf = @ \o data]

Pending(d) == From(d.buf, d.pos + 1)

\* Faulty variant: the position is not reset with the buffer.
CompactKeepingPosition(d) ==
    IF d.pos > 0 /\ (d.pos = Len(d.buf) \/ d.pos >= CompactAt)
    THEN [d EXCEPT !.buf = Pending(d)]
    ELSE d

Compact(d) ==
    IF d.pos > 0 /\ (d.pos = Len(d.buf) \/ d.pos >= CompactAt)
    THEN [buf |-> Pending(d), pos |-> 0]
    ELSE d

SkipHeartbeats(d) ==
    LET i == SelectInSeq(Pending(d), LAMBDA b : b \notin {LF, CR})
    IN Compact([d EXCEPT !.pos = IF i = 0 THEN Len(d.buf) ELSE @ + i - 1])

\* next_frame: the outcome, and the decoder after it.
Answer(d, parsed) ==
    IF parsed.is = "ok"
    THEN [outcome |-> Success(parsed.value.frame),
          decoder |-> Compact([d EXCEPT !.pos = Len(d.buf) - Len(parsed.value.rest)])]
    ELSE [outcome |-> parsed, decoder |-> d]

NextFrame(d) == LET at == SkipHeartbeats(d) IN Answer(at, ParseFrame(Pending(at)))
=============================================================================
