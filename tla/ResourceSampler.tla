-------------------------- MODULE ResourceSampler ---------------------------
(***************************************************************************)
(* The sampler of the client's resources (metrics/system.rs): a thread     *)
(* that puts a sample into a bounded channel every tick, and execute_test  *)
(* (lib.rs), which empties the channel only when the test is over.         *)
(***************************************************************************)
EXTENDS Integers, Sequences

CONSTANTS
    Capacity,     \* of the channel: 256
    MaxSamples    \* bound: samples that are taken

VARIABLES
    input,    \* how many samples were taken; a sample is its number
    state,    \* the thread, the channel and whether the token is cancelled
    output    \* the samples collected

vars == <<input, state, output>>

Init ==
    /\ input = 0
    /\ state = [thread |-> "sleeping", channel |-> <<>>, cancelled |-> FALSE]
    /\ output = <<>>

\* The sleep is over and the token is looked at, twice.
Refresh ==
    /\ state.thread = "sleeping" /\ ~state.cancelled
    /\ input < MaxSamples
    /\ input' = input + 1
    /\ state' = [state EXCEPT !.thread = "sampled"]
    /\ UNCHANGED output

\* Faulty variant: the oldest sample makes room for the new one.
TrySendEvicting ==
    /\ state.thread = "sampled"
    /\ state' = [state EXCEPT !.thread = "sleeping",
                              !.channel = IF Len(@) < Capacity THEN Append(@, input) ELSE Append(Tail(@), input)]
    /\ UNCHANGED <<input, output>>

\* try_send: a full channel drops the sample.
TrySend ==
    /\ state.thread = "sampled"
    /\ state' = [state EXCEPT !.thread = "sleeping",
                              !.channel = IF Len(@) < Capacity THEN Append(@, input) ELSE @]
    /\ UNCHANGED <<input, output>>

Stop ==
    /\ state.thread = "sleeping" /\ state.cancelled
    /\ state' = [state EXCEPT !.thread = "stopped"]
    /\ UNCHANGED <<input, output>>

\* execute_test, after the aggregator.
Cancel ==
    /\ ~state.cancelled
    /\ state' = [state EXCEPT !.cancelled = TRUE]
    /\ UNCHANGED <<input, output>>

Collect ==
    /\ state.cancelled /\ state.channel # <<>>
    /\ output' = Append(output, Head(state.channel))
    /\ state' = [state EXCEPT !.channel = Tail(@)]
    /\ UNCHANGED input

Next == Refresh \/ TrySend \/ Stop \/ Cancel \/ Collect

Spec == Init /\ [][Next]_vars

-----------------------------------------------------------------------------
\* What is collected is the beginning of the test, as much as the channel holds, and
\* at most one sample more: the one taken as the test ended.
BeginningIsKept ==
    state.thread = "stopped" /\ state.channel = <<>> =>
        LET kept == IF input < Capacity THEN input ELSE Capacity
            first == [i \in 1..kept |-> i]
        IN output \in {first, Append(first, input)}
=============================================================================
