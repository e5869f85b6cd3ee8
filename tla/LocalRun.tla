------------------------------ MODULE LocalRun ------------------------------
(***************************************************************************)
(* One load test in the local process: execute_test and spawn_worker       *)
(* (src/lib.rs).  Workers iterate and send a metric per iteration to the   *)
(* aggregator through a bounded channel; a constant test awaits its        *)
(* workers, a profile test has a supervisor that follows a target; SIGINT  *)
(* cancels; then the caller tears down and returns a summary.              *)
(*                                                                         *)
(* Clocks are not modelled: at each test of a duration it may have passed  *)
(* or not.  A metric is one count; whether it is an error, its latency and *)
(* its protocol make no difference here.  The aggregator holds the only    *)
(* receiver until all senders are gone, so send never fails.               *)
(***************************************************************************)
EXTENDS Naturals, Sequences, FiniteSets, Functions

CONSTANTS
    Concurrency,    \* workers of a constant test
    Targets,        \* what target_concurrency may return
    Buffer,         \* METRIC_CHANNEL_BUFFER
    MaxWorkers,     \* bound: workers spawned
    MaxTicks,       \* bound: rounds of the supervisor
    MaxIterations   \* bound: iterations of all workers

ASSUME LocalRunAssumption ==
    /\ Concurrency \in 0 .. MaxWorkers
    /\ Targets \subseteq Nat
    /\ Buffer \in Nat \ {0}
    /\ MaxWorkers \in Nat /\ MaxTicks \in Nat /\ MaxIterations \in Nat

Workers == 1 .. MaxWorkers

VARIABLES
    main,          \* where execute_test is
    supervisor,    \* where the supervisor is; "none" in a constant test
    worker,        \* worker[w]: where worker w is
    token,         \* token[w]: w's child token was cancelled
    child_tokens,  \* the workers whose child tokens are on the supervisor's stack
    handles,       \* the workers whose handles are on its other stack
    reaped,        \* reaped_handles
    current,       \* current_concurrency
    spawned,       \* workers spawned so far
    ticks,
    cancel,        \* cancel_token is cancelled
    interrupted,   \* the flag
    channel,       \* metrics in the channel
    counters,      \* LiveCounters: total_requests, completed_requests, active_workers
    aggregator,    \* [recorded, done]
    sampler,       \* the resource sampler thread
    cut            \* history: the SIGINT ended a worker or the supervisor early

supervisorVars == <<supervisor, child_tokens, handles, reaped, current, spawned, ticks>>
workerVars == <<worker, channel, counters>>
vars == <<main, supervisorVars, workerVars, token, cancel, interrupted, aggregator, sampler, cut>>

Init ==
    /\ main = "awaiting"
    /\ \/ /\ supervisor = "none"
          /\ worker = [w \in Workers |-> IF w <= Concurrency THEN "spawned" ELSE "none"]
          /\ spawned = Concurrency
       \/ /\ supervisor = "top"
          /\ worker = [w \in Workers |-> "none"]
          /\ spawned = 0
    /\ token = [w \in Workers |-> FALSE]
    /\ child_tokens = <<>> /\ handles = <<>> /\ reaped = <<>>
    /\ current = 0 /\ ticks = 0
    /\ cancel = FALSE /\ interrupted = FALSE
    /\ channel = 0
    /\ counters = [total |-> 0, completed |-> 0, active |-> 0]
    /\ aggregator = [recorded |-> 0, done |-> FALSE]
    /\ sampler \in {"off", "on"}
    /\ cut = FALSE

-----------------------------------------------------------------------------
(* spawn_worker.                                                           *)

Cancelled(w) == cancel \/ token[w]

At(w, from, to) == worker[w] = from /\ worker' = [worker EXCEPT ![w] = to]

\* The task starts: it is active from here on.
WorkerStarts(w) ==
    /\ At(w, "spawned", "context")
    /\ counters' = [counters EXCEPT !.active = @ + 1]
    /\ UNCHANGED <<main, supervisorVars, channel, token, cancel, interrupted, aggregator, sampler, cut>>

\* create_worker_context returned, or its timeout fell back to stateless mode.
ContextCreated(w) ==
    /\ At(w, "context", "loop")
    /\ UNCHANGED <<main, supervisorVars, channel, counters, token, cancel, interrupted, aggregator, sampler, cut>>

\* An iteration begins, and counts in total_requests.
IterationBegins(w) ==
    /\ ~Cancelled(w) /\ counters.total < MaxIterations
    /\ At(w, "loop", "iterating")
    /\ counters' = [counters EXCEPT !.total = @ + 1]
    /\ UNCHANGED <<main, supervisorVars, channel, token, cancel, interrupted, aggregator, sampler, cut>>

\* The duration passed, or the token was cancelled between two iterations.
WorkerLeavesLoop(w) ==
    /\ At(w, "loop", "closing")
    /\ cut' = (cut \/ cancel)
    /\ UNCHANGED <<main, supervisorVars, channel, counters, token, cancel, interrupted, aggregator, sampler>>

\* The token is cancelled during an iteration, which leaves no metric.
IterationCancelled(w) ==
    /\ Cancelled(w)
    /\ At(w, "iterating", "closing")
    /\ cut' = (cut \/ cancel)
    /\ UNCHANGED <<main, supervisorVars, channel, counters, token, cancel, interrupted, aggregator, sampler>>

\* The iteration returns, or exceeds its deadline and becomes an error metric.
IterationReturns(w) ==
    /\ At(w, "iterating", "sending")
    /\ counters' = [counters EXCEPT !.completed = @ + 1]
    /\ UNCHANGED <<main, supervisorVars, channel, token, cancel, interrupted, aggregator, sampler, cut>>

SendMetric(w) ==
    /\ channel < Buffer
    /\ At(w, "sending", "loop")
    /\ channel' = channel + 1
    /\ UNCHANGED <<main, supervisorVars, counters, token, cancel, interrupted, aggregator, sampler, cut>>

\* The session is shut down, within its timeout, and the guard and the sender drop.
WorkerReturns(w) ==
    /\ At(w, "closing", "done")
    /\ counters' = [counters EXCEPT !.active = @ - 1]
    /\ UNCHANGED <<main, supervisorVars, channel, token, cancel, interrupted, aggregator, sampler, cut>>

\* The engine panics: the task unwinds, which drops the guard and the sender too.
WorkerPanics(w) ==
    /\ At(w, "iterating", "done")
    /\ counters' = [counters EXCEPT !.active = @ - 1]
    /\ UNCHANGED <<main, supervisorVars, channel, token, cancel, interrupted, aggregator, sampler, cut>>

-----------------------------------------------------------------------------
(* The supervisor of a profile test.                                       *)

New(k) == [i \in 1 .. k |-> spawned + i]

ScaleUp(target) ==
    LET new == New(target - current) IN
    /\ target >= current
    /\ spawned + (target - current) <= MaxWorkers
    /\ worker' = [w \in Workers |-> IF w \in Range(new) THEN "spawned" ELSE worker[w]]
    /\ child_tokens' = child_tokens \o new
    /\ handles' = handles \o new
    /\ spawned' = spawned + (target - current)
    /\ UNCHANGED <<token, reaped>>

\* The newest tokens are popped and cancelled, the newest handles are popped.
ScaleDown(target) ==
    /\ target < current
    /\ token' = [w \in Workers |-> token[w] \/ w \in Range(SubSeq(child_tokens, target + 1, current))]
    /\ child_tokens' = SubSeq(child_tokens, 1, target)
    /\ handles' = SubSeq(handles, 1, target)
    /\ reaped' = SubSeq(handles, target + 1, Len(handles))
    /\ UNCHANGED <<worker, spawned>>

\* One round up to the join: no await in between.
SupervisorScales(target) ==
    /\ supervisor = "top" /\ ~cancel /\ ticks < MaxTicks
    /\ ScaleUp(target) \/ ScaleDown(target)
    /\ current' = target
    /\ ticks' = ticks + 1
    /\ supervisor' = "joining"
    /\ UNCHANGED <<main, channel, counters, cancel, interrupted, aggregator, sampler, cut>>

Ended(seq) == \A w \in Range(seq) : worker[w] = "done"

\* Faulty variant: the cancelled workers are detached.
SupervisorDetaches ==
    /\ supervisor = "joining"
    /\ supervisor' = "top"
    /\ reaped' = <<>>
    /\ UNCHANGED <<main, workerVars, child_tokens, handles, current, spawned, ticks>>
    /\ UNCHANGED <<token, cancel, interrupted, aggregator, sampler, cut>>

\* The reaped workers are joined; the supervisor sleeps until its next round.
SupervisorJoins ==
    /\ supervisor = "joining" /\ Ended(reaped)
    /\ supervisor' = "top"
    /\ reaped' = <<>>
    /\ UNCHANGED <<main, workerVars, child_tokens, handles, current, spawned, ticks>>
    /\ UNCHANGED <<token, cancel, interrupted, aggregator, sampler, cut>>

\* The profile is over or the test is cancelled: every child token is cancelled.
SupervisorTearsDown ==
    /\ supervisor = "top"
    /\ supervisor' = "teardown"
    /\ token' = [w \in Workers |-> token[w] \/ w \in Range(child_tokens)]
    /\ cut' = (cut \/ cancel)
    /\ UNCHANGED <<main, workerVars, child_tokens, handles, reaped, current, spawned, ticks>>
    /\ UNCHANGED <<cancel, interrupted, aggregator, sampler>>

\* The remaining workers were awaited; the supervisor's sender drops.
SupervisorReturns ==
    /\ supervisor = "teardown" /\ Ended(handles)
    /\ supervisor' = "done"
    /\ UNCHANGED <<main, workerVars, child_tokens, handles, reaped, current, spawned, ticks>>
    /\ UNCHANGED <<token, cancel, interrupted, aggregator, sampler, cut>>

-----------------------------------------------------------------------------
(* SIGINT, the aggregator, the sampler and execute_test itself.            *)

Returned == main \in {"ok", "interrupted"}

\* The listener first stores the flag, then cancels the token.
SigintStores ==
    /\ ~interrupted /\ ~Returned
    /\ interrupted' = TRUE
    /\ UNCHANGED <<main, supervisorVars, workerVars, token, cancel, aggregator, sampler, cut>>

\* Faulty variant: the token is cancelled before the flag is stored.
SigintCancelsFirst ==
    /\ ~cancel /\ ~Returned
    /\ cancel' = TRUE
    /\ UNCHANGED <<main, supervisorVars, workerVars, token, interrupted, aggregator, sampler, cut>>

SigintCancels ==
    /\ interrupted /\ ~cancel /\ ~Returned
    /\ cancel' = TRUE
    /\ UNCHANGED <<main, supervisorVars, workerVars, token, interrupted, aggregator, sampler, cut>>

AggregatorRecords ==
    /\ channel > 0
    /\ channel' = channel - 1
    /\ aggregator' = [aggregator EXCEPT !.recorded = @ + 1]
    /\ UNCHANGED <<main, supervisorVars, worker, counters, token, cancel, interrupted, sampler, cut>>

\* Faulty variant: execute_test keeps its own sender until it returns.
SendersGoneButOuter ==
    /\ \A w \in Workers : worker[w] \in {"none", "done"}
    /\ supervisor \in {"none", "done"}
    /\ Returned

\* execute_test dropped its sender, the supervisor and the workers theirs.
SendersGone ==
    /\ \A w \in Workers : worker[w] \in {"none", "done"}
    /\ supervisor \in {"none", "done"}

\* recv returns None: the channel is empty and has no sender.
AggregatorFinishes ==
    /\ ~aggregator.done /\ channel = 0 /\ SendersGone
    /\ aggregator' = [aggregator EXCEPT !.done = TRUE]
    /\ UNCHANGED <<main, supervisorVars, workerVars, token, cancel, interrupted, sampler, cut>>

MainAt(from, to) ==
    /\ main = from
    /\ main' = to
    /\ UNCHANGED <<supervisorVars, workerVars, token, cancel, interrupted, aggregator, sampler, cut>>

\* The workers or the supervisor were awaited, and then the progress bar, which
\* ends by itself once the duration has passed.
RunAwaited ==
    /\ IF supervisor = "none" THEN \A w \in 1 .. Concurrency : worker[w] = "done"
       ELSE supervisor = "done"
    /\ MainAt("awaiting", "check")

RaisesInterrupt == interrupted /\ MainAt("check", "interrupted")

GoesOn == ~interrupted /\ MainAt("check", "aggregating")

\* The aggregator was awaited; the sampler is cancelled and its channel drained.
AggregatorAwaited == aggregator.done /\ MainAt("aggregating", "sampling")

\* The thread sees its token cancelled, on teardown or when the handle drops.
SamplerStops ==
    /\ sampler = "on" /\ main \in {"sampling", "interrupted"}
    /\ sampler' = "stopped"
    /\ UNCHANGED <<main, supervisorVars, workerVars, token, cancel, interrupted, aggregator, cut>>

ReturnsSummary == sampler # "on" /\ MainAt("sampling", "ok")

-----------------------------------------------------------------------------
Worker(w) ==
    \/ WorkerStarts(w) \/ ContextCreated(w) \/ IterationBegins(w) \/ WorkerLeavesLoop(w)
    \/ IterationCancelled(w) \/ IterationReturns(w) \/ SendMetric(w) \/ WorkerReturns(w)

Supervisor ==
    \/ \E target \in Targets : SupervisorScales(target)
    \/ SupervisorJoins \/ SupervisorTearsDown \/ SupervisorReturns

Aggregator == AggregatorRecords \/ AggregatorFinishes

Main == RunAwaited \/ RaisesInterrupt \/ GoesOn \/ AggregatorAwaited \/ ReturnsSummary

Next ==
    \/ \E w \in Workers : Worker(w) \/ WorkerPanics(w)
    \/ Supervisor \/ Aggregator \/ Main \/ SamplerStops
    \/ SigintStores \/ SigintCancels

Spec == Init /\ [][Next]_vars

(* All tasks run on a fair runtime.  Contexts, iterations and shutdowns    *)
(* have timeouts and the durations pass, so none of these steps waits for  *)
(* ever; only send, the joins and the awaits wait for somebody.  Nothing   *)
(* is assumed of SIGINT and panics.                                        *)
Fairness ==
    /\ \A w \in Workers : WF_vars(Worker(w))
    /\ WF_vars(Supervisor) /\ WF_vars(Aggregator) /\ WF_vars(Main) /\ WF_vars(SamplerStops)

FairSpec == Spec /\ Fairness

-----------------------------------------------------------------------------
(* Properties.                                                             *)

\* The variables have their types; active_workers, an unsigned counter, is never
\* decremented below zero.
TypeOK ==
    /\ main \in {"awaiting", "check", "aggregating", "sampling", "ok", "interrupted"}
    /\ supervisor \in {"none", "top", "joining", "teardown", "done"}
    /\ worker \in [Workers -> {"none", "spawned", "context", "loop", "iterating", "sending",
                               "closing", "done"}]
    /\ token \in [Workers -> BOOLEAN]
    /\ {child_tokens, handles, reaped} \subseteq Seq(Workers)
    /\ current \in Nat /\ spawned \in 0 .. MaxWorkers /\ ticks \in 0 .. MaxTicks
    /\ {cancel, interrupted, cut} \subseteq BOOLEAN
    /\ channel \in 0 .. Buffer
    /\ counters \in [total : 0 .. MaxIterations, completed : 0 .. MaxIterations, active : 0 .. MaxWorkers]
    /\ aggregator \in [recorded : Nat, done : BOOLEAN]
    /\ sampler \in {"off", "on", "stopped"}

Alive == {w \in Workers : worker[w] \notin {"none", "done"}}

\* The two stacks stay in step with each other and with current_concurrency
\* through any ups and downs of the target: scaling down never spins on an empty
\* stack and never awaits a worker whose token it did not cancel.
TokensMatchHandles ==
    /\ child_tokens = handles
    /\ Len(handles) = current
    /\ \A w \in Range(reaped) : token[w]

\* After scaling, at most as many workers are alive as the target asked for: the
\* cancelled ones are gone before the supervisor's next round.
TargetIsHeld == supervisor = "top" => Alive \subseteq Range(handles) /\ Cardinality(Alive) <= current

\* Every completed request is recorded, in the channel or about to be sent; the
\* summary is computed from all of them, whichever workers were cancelled.
MetricsConserved ==
    /\ counters.completed =
          aggregator.recorded + channel + Cardinality({w \in Workers : worker[w] = "sending"})
    /\ main = "ok" => aggregator.recorded = counters.completed

\* execute_test returns, with a summary or an interrupt, only when no worker is
\* left and active_workers is back to zero, panics included.
NothingLeftBehind == Returned => Alive = {} /\ counters.active = 0

\* A test that SIGINT ended early is never reported as a complete one.
SummaryIsComplete == main = "ok" => ~cut

\* execute_test returns: full channels, scale-downs, panics and SIGINT at any
\* moment never leave it waiting.
RunReturns == <>Returned

-----------------------------------------------------------------------------
(* The inductive invariant behind the safety properties.                   *)

\* What scaling needs to know of the types.
ScalingTypes ==
    /\ worker \in [Workers -> {"none", "spawned", "context", "loop", "iterating", "sending",
                               "closing", "done"}]
    /\ token \in [Workers -> BOOLEAN]
    /\ child_tokens \in Seq(Workers) /\ handles \in Seq(Workers) /\ reaped \in Seq(Workers)
    /\ current \in Nat /\ spawned \in Nat

\* Whoever is alive is somebody's to await, and nobody is once that was done.
AliveIsAwaited ==
    /\ supervisor = "none" => Alive \subseteq 1 .. Concurrency
    /\ supervisor # "none" => Alive \subseteq Range(handles) \cup Range(reaped)
    /\ supervisor \in {"none", "top", "teardown", "done"} => reaped = <<>>
    /\ supervisor \in {"none", "top", "joining", "teardown", "done"}
    /\ supervisor = "done" => Alive = {}
    /\ main # "awaiting" => Alive = {} /\ supervisor \in {"none", "done"}

\* Only SIGINT cuts a test short, and the flag is up before anything is cut.
CutMeansInterrupted ==
    /\ cut => cancel
    /\ cancel => interrupted
    /\ main \in {"aggregating", "sampling", "ok"} => ~cut

IInv == ScalingTypes /\ TokensMatchHandles /\ AliveIsAwaited /\ CutMeansInterrupted

\* How many workers are, in f, at one of the places.
Count(f, places) == Cardinality({w \in Workers : f[w] \in places})

\* Where a worker's guard exists.
Guarded == {"context", "loop", "iterating", "sending", "closing"}

\* The live counters agree with where the workers are.
CountersMatchWorkers ==
    /\ counters.active = Count(worker, Guarded)
    /\ counters.completed = aggregator.recorded + channel + Count(worker, {"sending"})
    /\ counters.completed + Count(worker, {"iterating"}) <= counters.total

\* A worker that was not spawned is nowhere.
FreshWorkers == \A w \in Workers : w > spawned => worker[w] = "none"

\* The aggregator ends once, with nothing left to receive, and before the summary.
AggregatorDrained ==
    /\ aggregator.done => channel = 0 /\ SendersGone
    /\ main \in {"sampling", "ok"} => aggregator.done

CountingInv == TypeOK /\ CountersMatchWorkers /\ FreshWorkers /\ AggregatorDrained
=============================================================================
