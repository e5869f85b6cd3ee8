----------------------------- MODULE Sequential -----------------------------
(***************************************************************************)
(* The parts that work by themselves on an input: the parsers of STOMP and *)
(* of server-sent events, the figures of a test, the load profile, the     *)
(* reconnect delays, the resource sampler and the set-up of a test.  Each  *)
(* has a module with the variables input, state and output; `part' names   *)
(* the one at work.                                                        *)
(***************************************************************************)
EXTENDS Integers

CONSTANTS
    MaxConcurrency,    \* of LoadProfile and Setup
    Frames,            \* of StompWire
    StompOctets,
    MaxStompOctets,
    CompactAt,
    EventOctets,       \* of SseWire
    MaxEventOctets,
    Metrics,           \* of Finalize
    Readings,
    Thresholds,
    Duration,
    MaxMetrics,
    MaxDropped,
    Levels,            \* of LoadProfile
    Spans,
    Schedules,         \* of Backoff
    MaxExponent,
    MaxAttempt,
    JitterSteps,
    Capacity,          \* of ResourceSampler
    MaxSamples,
    MaxAssignments     \* of Setup

ASSUME SequentialAssumption ==
    /\ {MaxConcurrency, CompactAt, Duration, JitterSteps, Capacity} \subseteq Nat \ {0}
    /\ {MaxStompOctets, MaxEventOctets, MaxMetrics, MaxDropped, MaxExponent, MaxAttempt, MaxSamples,
        MaxAssignments} \subseteq Nat
    /\ Levels \subseteq Nat /\ Spans \subseteq Nat
    /\ Schedules \subseteq [base : Nat, max : Nat, factor : Nat \ {0}, jitter : BOOLEAN]

VARIABLES part, input, state, output

vars == <<part, input, state, output>>

Stomp == INSTANCE StompWire WITH Octets <- StompOctets, MaxOctets <- MaxStompOctets
Sse == INSTANCE SseWire WITH Octets <- EventOctets, MaxOctets <- MaxEventOctets
Figures == INSTANCE Finalize
Profile == INSTANCE LoadProfile
Delays == INSTANCE Backoff
Sampler == INSTANCE ResourceSampler
Config == INSTANCE Setup

Init ==
    \/ part = "stomp" /\ Stomp!Init
    \/ part = "sse" /\ Sse!Init
    \/ part = "figures" /\ Figures!Init
    \/ part = "profile" /\ Profile!Init
    \/ part = "delays" /\ Delays!Init
    \/ part = "sampler" /\ Sampler!Init
    \/ part = "setup" /\ Config!Init

Next ==
    \/ part = "stomp" /\ Stomp!Next /\ UNCHANGED part
    \/ part = "sse" /\ Sse!Next /\ UNCHANGED part
    \/ part = "figures" /\ Figures!Next /\ UNCHANGED part
    \/ part = "profile" /\ Profile!Next /\ UNCHANGED part
    \/ part = "delays" /\ Delays!Next /\ UNCHANGED part
    \/ part = "sampler" /\ Sampler!Next /\ UNCHANGED part
    \/ part = "setup" /\ Config!Next /\ UNCHANGED part

Spec == Init /\ [][Next]_vars

-----------------------------------------------------------------------------
\* A frame that one peer encodes is the frame the other decodes, whatever its headers
\* and body hold and however the octets are cut into reads.
FramesSurviveTheWire == part = "stomp" => Stomp!FramesSurviveTheWire

\* How octets are cut into reads changes neither the frames that the STOMP decoder
\* returns nor the error it ends with, and no event of a stream but for the characters
\* that a cut divides.
ChunkingIsInvisible ==
    /\ part = "stomp" => Stomp!ChunkingIsInvisible
    /\ part = "sse" => Sse!EventsSurviveTheWire

\* The figures that different accumulators keep of a test agree with each other.
FiguresAgree == part = "figures" => Figures!FiguresAgree

\* The objectives pass exactly when the metrics, as the workers sent them, meet them.
VerdictIsEarned == part = "figures" => Figures!VerdictIsEarned

\* A section of a protocol is in the report exactly when some iteration had something
\* to say, and its figures are those of the samples sent.
SectionsAreTrue == part = "figures" => Figures!SectionsAreTrue

\* An admitted profile never asks for more workers than MAX_CONCURRENCY, and a ramp
\* never turns back, whatever rounding does, and ends at its target.
ProfileIsFollowed ==
    [][part = "profile" =>
          /\ Profile!LimitIsKept'
          /\ input.kind = "Ramp" /\ output # <<>> => Profile!RampStep]_vars

\* No reconnect delay exceeds the maximum, however many attempts have failed; without
\* jitter the delays never shrink until a reset.
DelaysAreBounded == [][part = "delays" => Delays!DelayStep]_vars

\* The samples of the client's resources that a report has are the first ones taken,
\* as many as the channel holds, and at most the last one besides.
BeginningIsKept == part = "sampler" => Sampler!BeginningIsKept

\* A test that starts has an admissible concurrency, a pool and, unless its
\* configuration was changed after validation, an engine that has all it needs and
\* ignores nothing it was given.
StartedTestsAreSound == part = "setup" => Config!StartedTestsAreSound
=============================================================================
