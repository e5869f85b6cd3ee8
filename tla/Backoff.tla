------------------------------ MODULE Backoff -------------------------------
(***************************************************************************)
(* The delays between reconnects of a worker (distributed/backoff.rs).     *)
(* Jitter is a fraction of the delay, here of JitterSteps.                 *)
(***************************************************************************)
EXTENDS Integers

CONSTANTS
    Schedules,      \* configurations: base, max, factor, jitter
    MaxExponent,    \* 32: delay_for grows no further
    MaxAttempt,     \* u32::MAX: the counter saturates
    JitterSteps

VARIABLES
    input,    \* the configuration
    state,    \* the attempt
    output    \* the last delay, as the number of JitterSteps-ths; 0 before the first

vars == <<input, state, output>>

Smaller(a, b) == IF a < b THEN a ELSE b

\* f64::powi
Powi(factor) ==
    LET power[n \in Nat] == IF n = 0 THEN 1 ELSE factor * power[n - 1] IN power

\* Faulty variant: the delay grows with the attempt, without a cap.
DelayForUncapped(b, attempt) == b.base * Powi(b.factor)[attempt]

DelayFor(b, attempt) == Smaller(b.base * Powi(b.factor)[Smaller(attempt, MaxExponent)], b.max)

Init == input \in Schedules /\ state = 0 /\ output = 0

\* next_delay
NextDelay(jitter) ==
    /\ output' = DelayFor(input, state) * IF input.jitter THEN jitter ELSE JitterSteps
    /\ state' = IF state < MaxAttempt THEN state + 1 ELSE state
    /\ UNCHANGED input

Reset == state' = 0 /\ UNCHANGED <<input, output>>

Next == Reset \/ \E jitter \in 0..(JitterSteps - 1) : NextDelay(jitter)

Spec == Init /\ [][Next]_vars

-----------------------------------------------------------------------------
DelayStep ==
    /\ output' <= input.max * JitterSteps
    /\ ~input.jitter /\ state # 0 => output <= output'

\* No delay exceeds the maximum, however many attempts have failed; without jitter
\* the delays never shrink until a reset.
DelaysAreBounded == [][DelayStep]_vars
=============================================================================
