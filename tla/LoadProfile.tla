---------------------------- MODULE LoadProfile -----------------------------
(***************************************************************************)
(* Load profiles (config.rs): how many workers a test asks for as it goes, *)
(* and the admission of a profile by run_load_profiles (lib.rs).  Time is  *)
(* in whole seconds, as target_concurrency takes it.                       *)
(***************************************************************************)
EXTENDS Integers

CONSTANTS
    MaxConcurrency,   \* MAX_CONCURRENCY
    Levels,           \* concurrencies a profile may name
    Spans             \* lengths of a phase, in seconds

VARIABLES
    input,    \* the profile
    state,    \* the seconds since the supervisor started; whether the profile was admitted
    output    \* the workers it last asked for, an option

vars == <<input, state, output>>

Larger(a, b) == IF a > b THEN a ELSE b

Profiles ==
    [kind : {"Constant"}, concurrency : Levels, duration : Spans]
    \cup [kind : {"Ramp"}, start : Levels, target : Levels, ramp : Spans, hold : Spans]
    \cup [kind : {"Spike"}, baseline : Levels, peak : Levels, pre : Spans, spike : Spans, post : Spans]

TotalDuration(p) ==
    CASE p.kind = "Constant" -> p.duration
      [] p.kind = "Ramp" -> p.ramp + p.hold
      [] p.kind = "Spike" -> p.pre + p.spike + p.post

\* max_concurrency: what the summary calls workers, and what sizes a pool.
MaxOf(p) ==
    CASE p.kind = "Constant" -> p.concurrency
      [] p.kind = "Ramp" -> p.target
      [] p.kind = "Spike" -> p.peak

\* Faulty variant: a ramp is taken to end at its highest concurrency.
UpperBoundOfTarget(p) == MaxOf(p)

\* concurrency_upper_bound
UpperBound(p) ==
    CASE p.kind = "Constant" -> p.concurrency
      [] p.kind = "Ramp" -> Larger(p.start, p.target)
      [] p.kind = "Spike" -> Larger(p.baseline, p.peak)

\* f64::round of n / d, for n >= 0.
Round(n, d) == (2 * n + d) \div (2 * d)

\* Faulty variant: the range is a difference of unsigned numbers.
TargetConcurrencyUnsigned(p, t) ==
    CASE p.kind = "Constant" -> p.concurrency
      [] p.kind = "Ramp" ->
            IF t < p.ramp
            THEN Round(p.start * p.ramp + Larger(p.target - p.start, p.start - p.target) * t, p.ramp)
            ELSE p.target
      [] p.kind = "Spike" -> IF p.pre <= t /\ t < p.pre + p.spike THEN p.peak ELSE p.baseline

TargetConcurrency(p, t) ==
    CASE p.kind = "Constant" -> p.concurrency
      [] p.kind = "Ramp" ->
            IF t < p.ramp THEN Round(p.start * p.ramp + (p.target - p.start) * t, p.ramp) ELSE p.target
      [] p.kind = "Spike" -> IF p.pre <= t /\ t < p.pre + p.spike THEN p.peak ELSE p.baseline

-----------------------------------------------------------------------------
Init ==
    /\ input \in Profiles
    /\ state = [elapsed |-> 0, admitted |-> FALSE]
    /\ output = <<>>

\* ensure_concurrency_limit on the upper bound.
Admit ==
    /\ ~state.admitted
    /\ UpperBound(input) \in 1 .. MaxConcurrency
    /\ state' = [state EXCEPT !.admitted = TRUE]
    /\ UNCHANGED <<input, output>>

\* A turn of the supervisor; it ticks several times a second, or late.
Supervise ==
    /\ state.admitted /\ state.elapsed < TotalDuration(input)
    /\ output' = <<TargetConcurrency(input, state.elapsed)>>
    /\ UNCHANGED <<input, state>>

Tick ==
    /\ state.admitted /\ state.elapsed < TotalDuration(input)
    /\ state' = [state EXCEPT !.elapsed = @ + 1]
    /\ UNCHANGED <<input, output>>

Next == Admit \/ Supervise \/ Tick

Spec == Init /\ [][Next]_vars

-----------------------------------------------------------------------------
\* An admitted profile never asks for more than the limit, whichever way it ramps
\* or spikes.
LimitIsKept == output # <<>> => output[1] <= MaxConcurrency

\* From one turn of the supervisor to the next, a ramp moves towards its target or
\* stays; from the end of the ramp on it is there.
RampStep ==
    LET before == output[1]
        after == output'[1]
    IN /\ IF input.start <= input.target
          THEN before <= after /\ after <= input.target
          ELSE after <= before /\ input.target <= after
       /\ output' # output /\ state.elapsed >= input.ramp => after = input.target

\* An admitted profile asks for no more than the limit, and a ramp never turns back,
\* whatever rounding does.
ProfileIsFollowed == [][LimitIsKept' /\ (input.kind = "Ramp" /\ output # <<>> => RampStep)]_vars
=============================================================================
