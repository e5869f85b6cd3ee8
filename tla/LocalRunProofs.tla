--------------------------- MODULE LocalRunProofs ---------------------------
(***************************************************************************)
(* For every number of workers, every profile and all buffer sizes: the    *)
(* supervisor's stacks stay in step, the target is held, and a test that   *)
(* was cut short is not reported as complete; the live counters agree with *)
(* where the workers are, so that no metric is lost, no counter leaves its *)
(* range, and nothing is left behind when execute_test returns.            *)
(***************************************************************************)
EXTENDS LocalRun, FiniteSetTheorems, SequenceTheorems, TLAPS

Places == {"none", "spawned", "context", "loop", "iterating", "sending", "closing", "done"}

\* What every step of a worker has in common: it was alive, and it changes
\* nothing of the supervisor's.
WorkerEffect(w) ==
    /\ w \in Alive
    /\ \E to \in Places \ {"none"} : worker' = [worker EXCEPT ![w] = to]
    /\ UNCHANGED <<main, supervisorVars, token, cancel, interrupted>>
    /\ cut' = cut \/ cut' = (cut \/ cancel)

\* A step of a worker changes its own place and leaves the stacks alone.
LEMMA WorkerStepEffect ==
    ASSUME NEW w \in Workers, Worker(w) \/ WorkerPanics(w)
    PROVE  WorkerEffect(w)
<1> USE DEF WorkerEffect, Alive, Places, At, supervisorVars
<1>1. CASE WorkerStarts(w)       BY <1>1, Zenon DEF WorkerStarts
<1>2. CASE ContextCreated(w)     BY <1>2, Zenon DEF ContextCreated
<1>3. CASE IterationBegins(w)    BY <1>3, Zenon DEF IterationBegins
<1>4. CASE WorkerLeavesLoop(w)   BY <1>4, Zenon DEF WorkerLeavesLoop
<1>5. CASE IterationCancelled(w) BY <1>5, Zenon DEF IterationCancelled
<1>6. CASE IterationReturns(w)   BY <1>6, Zenon DEF IterationReturns
<1>7. CASE SendMetric(w)         BY <1>7, Zenon DEF SendMetric
<1>8. CASE WorkerReturns(w)      BY <1>8, Zenon DEF WorkerReturns
<1>9. CASE WorkerPanics(w)       BY <1>9, Zenon DEF WorkerPanics
<1> QED BY <1>1, <1>2, <1>3, <1>4, <1>5, <1>6, <1>7, <1>8, <1>9, SMTT(20) DEF Worker

\* A step of a worker keeps the invariant: it can only leave the set Alive.
LEMMA WorkerKeepsInv ==
    ASSUME IInv, NEW w \in Workers, WorkerEffect(w)
    PROVE  IInv'
<1>1. Alive' \subseteq Alive /\ main = "awaiting"
  BY Zenon DEF IInv, ScalingTypes, AliveIsAwaited, WorkerEffect, Alive, Places
<1>2. ScalingTypes'
  BY Zenon DEF IInv, ScalingTypes, WorkerEffect, Places, supervisorVars
<1>3. TokensMatchHandles'
  BY Zenon DEF IInv, TokensMatchHandles, WorkerEffect, supervisorVars, Range
<1>4. AliveIsAwaited'
  <2>1. UNCHANGED <<main, supervisor, handles, reaped>> /\ Range(handles)' = Range(handles)
        /\ Range(reaped)' = Range(reaped)
    BY Zenon DEF WorkerEffect, supervisorVars, Range
  <2> QED BY <1>1, <2>1, Zenon DEF IInv, AliveIsAwaited
<1>5. CutMeansInterrupted'
  <2>1. main' = main /\ cancel' = cancel /\ interrupted' = interrupted
    BY Zenon DEF WorkerEffect
  <2>2. cut' => cut \/ cancel
    BY Zenon DEF WorkerEffect
  <2>3. main' \notin {"aggregating", "sampling", "ok"}
    BY <1>1, <2>1, Zenon
  <2> QED BY <2>1, <2>2, <2>3, Zenon DEF IInv, CutMeansInterrupted
<1> QED BY <1>2, <1>3, <1>4, <1>5, Zenon DEF IInv

-----------------------------------------------------------------------------
(* The supervisor.                                                         *)

\* What a concatenation holds, its parts hold.
LEMMA RangeOfConcat ==
    ASSUME NEW S, NEW s \in Seq(S), NEW t \in Seq(S)
    PROVE  Range(s \o t) = Range(s) \cup Range(t)
<1>1. DOMAIN s = 1 .. Len(s) /\ DOMAIN t = 1 .. Len(t)
      /\ DOMAIN (s \o t) = 1 .. Len(s) + Len(t) /\ Len(s) \in Nat /\ Len(t) \in Nat
  OBVIOUS
<1>2. \A i \in 1 .. Len(s) : i \in 1 .. Len(s) + Len(t) /\ (s \o t)[i] = s[i]
  OBVIOUS
<1>3. \A i \in 1 .. Len(t) : Len(s) + i \in 1 .. Len(s) + Len(t) /\ (s \o t)[Len(s) + i] = t[i]
  OBVIOUS
<1>4. \A i \in 1 .. Len(s) + Len(t) : i \in 1 .. Len(s) \/ \E j \in 1 .. Len(t) : i = Len(s) + j
  <2> SUFFICES ASSUME NEW i \in 1 .. Len(s) + Len(t), i \notin 1 .. Len(s)
               PROVE  i - Len(s) \in 1 .. Len(t) /\ i = Len(s) + (i - Len(s))
    BY Zenon
  <2> QED BY <1>1
<1>5. Range(s) \subseteq Range(s \o t)
  BY <1>1, <1>2, Zenon DEF Range
<1>6. Range(t) \subseteq Range(s \o t)
  BY <1>1, <1>3, Zenon DEF Range
<1>7. \A i \in 1 .. Len(s) + Len(t) : (s \o t)[i] \in Range(s) \cup Range(t)
  BY <1>1, <1>2, <1>3, <1>4, Zenon DEF Range
<1>8. Range(s \o t) \subseteq Range(s) \cup Range(t)
  BY <1>1, <1>7, Zenon DEF Range
<1> QED BY <1>5, <1>6, <1>8, Zenon

\* Scaling up pushes a token and a handle for each new worker.
LEMMA ScaleUpKeepsInv ==
    ASSUME IInv, NEW target \in Nat, SupervisorScales(target), ScaleUp(target)
    PROVE  IInv'
<1> DEFINE new == New(target - current)
<1> USE LocalRunAssumption
<1>1. /\ target - current \in Nat /\ current \in Nat /\ spawned \in Nat
      /\ spawned + (target - current) <= MaxWorkers
  BY DEF IInv, ScalingTypes, ScaleUp
<1>2. new \in Seq(Workers) /\ Len(new) = target - current
  BY <1>1 DEF New, Workers
<1>3. /\ child_tokens' = child_tokens \o new /\ handles' = handles \o new
      /\ token' = token /\ reaped' = reaped /\ current' = target
      /\ worker' = [w \in Workers |-> IF w \in Range(new) THEN "spawned" ELSE worker[w]]
      /\ spawned' = spawned + (target - current)
      /\ supervisor = "top" /\ supervisor' = "joining" /\ main' = main
      /\ cancel' = cancel /\ interrupted' = interrupted /\ cut' = cut
  BY Zenon DEF ScaleUp, SupervisorScales
<1>4. ScalingTypes'
  BY <1>1, <1>2, <1>3 DEF IInv, ScalingTypes
<1>5. TokensMatchHandles'
  <2>1. child_tokens = handles /\ Len(handles) = current /\ handles \in Seq(Workers)
    BY Zenon DEF IInv, ScalingTypes, TokensMatchHandles
  <2>2. Len(handles \o new) = Len(handles) + Len(new)
    BY <1>2, <2>1, SMTT(20)
  <2>3. child_tokens' = handles' /\ Len(handles') = current'
    BY <1>1, <1>2, <1>3, <2>1, <2>2
  <2>4. \A w \in Range(reaped') : token'[w]
    BY <1>3, Zenon DEF IInv, TokensMatchHandles
  <2> QED BY <2>3, <2>4, Zenon DEF TokensMatchHandles
<1>6. Range(handles') = Range(handles) \cup Range(new)
  BY <1>2, <1>3, RangeOfConcat DEF IInv, ScalingTypes
<1>7. Alive' \subseteq Alive \cup Range(new)
  BY <1>3, Zenon DEF Alive
<1>8. AliveIsAwaited'
  BY <1>3, <1>6, <1>7, Zenon DEF IInv, AliveIsAwaited
<1>9. CutMeansInterrupted'
  BY <1>3, Zenon DEF IInv, CutMeansInterrupted
<1> QED BY <1>4, <1>5, <1>8, <1>9, Zenon DEF IInv

\* Scaling down cancels the popped tokens and reaps the popped handles.
LEMMA ScaleDownKeepsInv ==
    ASSUME IInv, NEW target \in Nat, SupervisorScales(target), ScaleDown(target)
    PROVE  IInv'
<1> DEFINE kept == SubSeq(handles, 1, target)
           gone == SubSeq(handles, target + 1, current)
<1>1. /\ handles \in Seq(Workers) /\ Len(handles) = current /\ current \in Nat
      /\ child_tokens = handles /\ target < current
  BY Zenon DEF IInv, ScalingTypes, TokensMatchHandles, ScaleDown
<1>2. /\ child_tokens' = kept /\ handles' = kept /\ reaped' = gone /\ current' = target
      /\ token' = [w \in Workers |-> token[w] \/ w \in Range(gone)]
      /\ worker' = worker /\ spawned' = spawned
      /\ supervisor = "top" /\ supervisor' = "joining" /\ main' = main
      /\ cancel' = cancel /\ interrupted' = interrupted /\ cut' = cut
  BY <1>1, Zenon DEF ScaleDown, SupervisorScales
<1>3. kept \in Seq(Workers) /\ Len(kept) = target /\ gone \in Seq(Workers)
      /\ Len(gone) = current - target
  BY <1>1
<1>4. \A i \in 1 .. target : kept[i] = handles[i]
  BY <1>1
<1>5. \A i \in 1 .. current - target : gone[i] = handles[target + i]
  BY <1>1
<1>6. Range(gone) \subseteq Workers
  BY <1>3 DEF Range
<1>7. Range(handles) \subseteq Range(kept) \cup Range(gone)
  <2> SUFFICES ASSUME NEW i \in 1 .. current PROVE handles[i] \in Range(kept) \cup Range(gone)
    BY <1>1 DEF Range
  <2>1. CASE i <= target
    <3>1. i \in DOMAIN kept /\ kept[i] = handles[i]
      BY <1>1, <1>3, <1>4, <2>1
    <3> QED BY <3>1, Zenon DEF Range
  <2>2. CASE i > target
    <3>1. i - target \in 1 .. current - target /\ target + (i - target) = i
      BY <1>1, <2>2
    <3>2. i - target \in DOMAIN gone /\ gone[i - target] = handles[i]
      BY <1>3, <1>5, <3>1
    <3> QED BY <3>2, Zenon DEF Range
  <2> QED BY <1>1, <2>1, <2>2
<1>8. ScalingTypes'
  <2>1. token' \in [Workers -> BOOLEAN]
    BY <1>2, Zenon DEF IInv, ScalingTypes
  <2> QED BY <1>2, <1>3, <2>1, Zenon DEF IInv, ScalingTypes
<1>9. TokensMatchHandles'
  <2>1. \A w \in Range(reaped') : token'[w]
    BY <1>2, <1>6, Zenon
  <2>2. child_tokens' = handles' /\ Len(handles') = current'
    BY <1>2, <1>3, Zenon
  <2> QED BY <2>1, <2>2, Zenon DEF TokensMatchHandles
<1>10. Alive' = Alive
  BY <1>2, Zenon DEF Alive
<1>11. AliveIsAwaited'
  <2>1. Range(reaped) = {}
    BY <1>2 DEF IInv, AliveIsAwaited, Range
  <2> QED BY <1>2, <1>7, <1>10, <2>1, Zenon DEF IInv, AliveIsAwaited
<1>12. CutMeansInterrupted'
  BY <1>2, Zenon DEF IInv, CutMeansInterrupted
<1> QED BY <1>8, <1>9, <1>11, <1>12, Zenon DEF IInv

\* Either way of scaling keeps the invariant.
LEMMA ScalesKeepsInv ==
    ASSUME IInv, NEW target \in Targets, SupervisorScales(target)
    PROVE  IInv'
<1>1. target \in Nat
  BY LocalRunAssumption, Zenon
<1>2. CASE ScaleUp(target)   BY <1>1, <1>2, ScaleUpKeepsInv
<1>3. CASE ScaleDown(target) BY <1>1, <1>3, ScaleDownKeepsInv
<1> QED BY <1>2, <1>3, Zenon DEF SupervisorScales

\* Once the reaped workers have ended, the alive ones have their handles on the stack.
LEMMA JoinsKeepsInv ==
    ASSUME IInv, SupervisorJoins
    PROVE  IInv'
<1>1. /\ supervisor = "joining" /\ supervisor' = "top" /\ reaped' = <<>>
      /\ worker' = worker /\ token' = token /\ child_tokens' = child_tokens
      /\ handles' = handles /\ current' = current /\ spawned' = spawned /\ main' = main
      /\ cancel' = cancel /\ interrupted' = interrupted /\ cut' = cut
  BY Zenon DEF SupervisorJoins, workerVars
<1>2. Alive \subseteq Range(handles) /\ Alive' = Alive /\ Range(handles') = Range(handles)
  BY <1>1, Zenon DEF IInv, AliveIsAwaited, SupervisorJoins, Ended, Alive
<1>3. ScalingTypes'
  BY <1>1 DEF IInv, ScalingTypes
<1>4. Range(reaped') = {}
  BY <1>1 DEF Range
<1>5. TokensMatchHandles'
  BY <1>1, <1>4, Zenon DEF IInv, TokensMatchHandles
<1>6. AliveIsAwaited'
  BY <1>1, <1>2, <1>4, Zenon DEF IInv, AliveIsAwaited
<1>7. CutMeansInterrupted'
  BY <1>1, Zenon DEF IInv, CutMeansInterrupted
<1> QED BY <1>3, <1>5, <1>6, <1>7, Zenon DEF IInv

\* When the test is over the supervisor cancels what is left on its stack.
LEMMA TearsDownKeepsInv ==
    ASSUME IInv, SupervisorTearsDown
    PROVE  IInv'
<1>1. /\ supervisor = "top" /\ supervisor' = "teardown" /\ reaped' = reaped
      /\ worker' = worker /\ child_tokens' = child_tokens
      /\ handles' = handles /\ current' = current /\ spawned' = spawned /\ main' = main
      /\ cancel' = cancel /\ interrupted' = interrupted
  BY Zenon DEF SupervisorTearsDown, workerVars
<1>2. token' \in [Workers -> BOOLEAN]
  BY Zenon DEF SupervisorTearsDown
<1>3. ScalingTypes'
  BY <1>1, <1>2, Zenon DEF IInv, ScalingTypes
<1>4. reaped = <<>> /\ main = "awaiting"
  BY <1>1, Zenon DEF IInv, AliveIsAwaited
<1>5. Range(reaped') = {}
  BY <1>1, <1>4 DEF Range
<1>6. TokensMatchHandles'
  BY <1>1, <1>5, Zenon DEF IInv, TokensMatchHandles
<1>7. AliveIsAwaited'
  BY <1>1, <1>4, Zenon DEF IInv, AliveIsAwaited, Alive
<1>8. CutMeansInterrupted'
  <2>1. cut' => cut \/ cancel
    BY Zenon DEF SupervisorTearsDown
  <2>2. main' \notin {"aggregating", "sampling", "ok"}
    BY <1>1, <1>4, Zenon
  <2> QED BY <1>1, <2>1, <2>2, Zenon DEF IInv, CutMeansInterrupted
<1> QED BY <1>3, <1>6, <1>7, <1>8, Zenon DEF IInv

\* The supervisor leaves nobody behind: all it could still await has ended.
LEMMA ReturnsKeepsInv ==
    ASSUME IInv, SupervisorReturns
    PROVE  IInv'
<1>1. /\ supervisor = "teardown" /\ supervisor' = "done" /\ reaped' = reaped
      /\ worker' = worker /\ token' = token /\ child_tokens' = child_tokens
      /\ handles' = handles /\ current' = current /\ spawned' = spawned /\ main' = main
      /\ cancel' = cancel /\ interrupted' = interrupted /\ cut' = cut
  BY Zenon DEF SupervisorReturns, workerVars
<1>2. reaped = <<>> /\ Range(reaped) = {}
  BY <1>1 DEF IInv, AliveIsAwaited, Range
<1>3. Alive = {} /\ Alive' = {}
  BY <1>1, <1>2, Zenon DEF IInv, AliveIsAwaited, SupervisorReturns, Ended, Alive
<1>4. ScalingTypes'
  BY <1>1, Zenon DEF IInv, ScalingTypes
<1>5. TokensMatchHandles'
  BY <1>1, Zenon DEF IInv, TokensMatchHandles
<1>6. AliveIsAwaited'
  BY <1>1, <1>2, <1>3, Zenon DEF IInv, AliveIsAwaited
<1>7. CutMeansInterrupted'
  BY <1>1, Zenon DEF IInv, CutMeansInterrupted
<1> QED BY <1>4, <1>5, <1>6, <1>7, Zenon DEF IInv

-----------------------------------------------------------------------------
(* execute_test, SIGINT and the tasks that touch no worker.                *)

\* The steps of execute_test keep the invariant.
LEMMA MainKeepsInv ==
    ASSUME IInv, Main
    PROVE  IInv'
<1>1. UNCHANGED <<supervisorVars, workerVars, token, cancel, interrupted, cut>>
  BY Zenon DEF Main, RunAwaited, RaisesInterrupt, GoesOn, AggregatorAwaited, ReturnsSummary, MainAt
<1>2. /\ worker' = worker /\ token' = token /\ child_tokens' = child_tokens /\ handles' = handles
      /\ reaped' = reaped /\ current' = current /\ spawned' = spawned
      /\ supervisor' = supervisor
      /\ cancel' = cancel /\ interrupted' = interrupted /\ cut' = cut
  BY <1>1, Zenon DEF supervisorVars, workerVars
<1>3. ScalingTypes' /\ TokensMatchHandles'
  BY <1>2, Zenon DEF IInv, ScalingTypes, TokensMatchHandles
<1>4. Alive' = Alive
  BY <1>2, Zenon DEF Alive
<1>5. CASE RunAwaited
  <2>1. main = "awaiting" /\ main' = "check"
    BY <1>5, Zenon DEF RunAwaited, MainAt
  <2>2. Alive = {} /\ supervisor \in {"none", "done"}
    BY <1>5, Zenon DEF RunAwaited, IInv, AliveIsAwaited, Alive
  <2>3. AliveIsAwaited'
    BY <1>2, <1>4, <2>1, <2>2, Zenon DEF IInv, AliveIsAwaited
  <2>4. CutMeansInterrupted'
    BY <1>2, <2>1, Zenon DEF IInv, CutMeansInterrupted
  <2> QED BY <1>3, <2>3, <2>4, Zenon DEF IInv
<1>6. CASE ~RunAwaited
  <2>1. main # "awaiting"
    BY <1>6, Zenon DEF Main, RaisesInterrupt, GoesOn, AggregatorAwaited, ReturnsSummary, MainAt
  <2>2. AliveIsAwaited'
    BY <1>2, <1>4, <2>1, Zenon DEF IInv, AliveIsAwaited
  <2>3. main' \in {"aggregating", "sampling", "ok"} => ~cut
    <3>1. CASE RaisesInterrupt   BY <3>1 DEF RaisesInterrupt, MainAt
    <3>2. CASE GoesOn            BY <3>2, Zenon DEF GoesOn, IInv, CutMeansInterrupted
    <3>3. CASE AggregatorAwaited BY <3>3 DEF AggregatorAwaited, MainAt, IInv, CutMeansInterrupted
    <3>4. CASE ReturnsSummary    BY <3>4 DEF ReturnsSummary, MainAt, IInv, CutMeansInterrupted
    <3> QED BY <1>6, <3>1, <3>2, <3>3, <3>4, Zenon DEF Main
  <2>4. CutMeansInterrupted'
    BY <1>2, <2>3, Zenon DEF IInv, CutMeansInterrupted
  <2> QED BY <1>3, <2>2, <2>4, Zenon DEF IInv
<1> QED BY <1>5, <1>6, Zenon

\* Everything the invariant speaks of but the SIGINT flags.
Untouched ==
    /\ main' = main /\ supervisor' = supervisor /\ worker' = worker /\ token' = token
    /\ child_tokens' = child_tokens /\ handles' = handles /\ reaped' = reaped
    /\ current' = current /\ spawned' = spawned /\ cut' = cut

\* A step that changes nothing the invariant is about keeps it.
LEMMA UntouchedKeepsInv ==
    ASSUME IInv, Untouched, cancel => cancel', cancel' => interrupted'
    PROVE  IInv'
<1>1. ScalingTypes' /\ TokensMatchHandles'
  BY Zenon DEF IInv, ScalingTypes, TokensMatchHandles, Untouched
<1>2. AliveIsAwaited'
  BY Zenon DEF IInv, AliveIsAwaited, Alive, Untouched
<1>3. CutMeansInterrupted'
  BY Zenon DEF IInv, CutMeansInterrupted, Untouched
<1> QED BY <1>1, <1>2, <1>3, Zenon DEF IInv

\* The aggregator, the sampler and SIGINT keep the invariant.
LEMMA OthersKeepInv ==
    ASSUME IInv, Aggregator \/ SamplerStops \/ SigintStores \/ SigintCancels \/ UNCHANGED vars
    PROVE  IInv'
<1>1. Untouched
  BY Zenon DEF Untouched, Aggregator, AggregatorRecords, AggregatorFinishes, SamplerStops,
         SigintStores, SigintCancels, vars, supervisorVars, workerVars
<1>2. (cancel => cancel') /\ (cancel' => interrupted')
  <2>1. cancel => interrupted
    BY Zenon DEF IInv, CutMeansInterrupted
  <2>2. CASE SigintStores  BY <2>2, Zenon DEF SigintStores
  <2>3. CASE SigintCancels BY <2>3, Zenon DEF SigintCancels
  <2>4. CASE Aggregator \/ SamplerStops \/ UNCHANGED vars
    <3>1. cancel' = cancel /\ interrupted' = interrupted
      BY <2>4, Zenon DEF Aggregator, AggregatorRecords, AggregatorFinishes, SamplerStops, vars
    <3> QED BY <2>1, <3>1, Zenon
  <2> QED BY <2>2, <2>3, <2>4, Zenon
<1> QED BY <1>1, <1>2, UntouchedKeepsInv, Zenon

-----------------------------------------------------------------------------
(* The theorems.                                                           *)

\* A test begins in the invariant.
LEMMA InitImpliesInv == Init => IInv
<1> SUFFICES ASSUME Init PROVE IInv
  OBVIOUS
<1> USE LocalRunAssumption
<1>1. token \in [Workers -> BOOLEAN]
  BY Zenon DEF Init
<1>2. ScalingTypes
  BY <1>1 DEF Init, ScalingTypes, Workers
<1>3. TokensMatchHandles
  BY DEF Init, TokensMatchHandles, Range
<1>4. AliveIsAwaited
  BY SMTT(20) DEF Init, AliveIsAwaited, Alive, Workers
<1>5. CutMeansInterrupted
  BY Zenon DEF Init, CutMeansInterrupted
<1> QED BY <1>2, <1>3, <1>4, <1>5, Zenon DEF IInv

\* The invariant on scaling is inductive.
LEMMA NextKeepsInv == IInv /\ [Next]_vars => IInv'
<1> SUFFICES ASSUME IInv, [Next]_vars PROVE IInv'
  OBVIOUS
<1>1. CASE \E w \in Workers : Worker(w) \/ WorkerPanics(w)
  BY <1>1, WorkerStepEffect, WorkerKeepsInv, Zenon
<1>2. CASE \E target \in Targets : SupervisorScales(target)
  BY <1>2, ScalesKeepsInv, Zenon
<1>3. CASE SupervisorJoins      BY <1>3, JoinsKeepsInv
<1>4. CASE SupervisorTearsDown  BY <1>4, TearsDownKeepsInv
<1>5. CASE SupervisorReturns    BY <1>5, ReturnsKeepsInv
<1>6. CASE Main                 BY <1>6, MainKeepsInv
<1>7. CASE Aggregator \/ SamplerStops \/ SigintStores \/ SigintCancels \/ UNCHANGED vars
  BY <1>7, OthersKeepInv, Zenon
<1> QED BY <1>1, <1>2, <1>3, <1>4, <1>5, <1>6, <1>7, Zenon DEF Next, Supervisor

\* The inductive invariant: stacks in step, every live worker somebody's to
\* await, and no cut without the SIGINT flag.
THEOREM ScalingInvariant == Spec => []IInv
BY InitImpliesInv, NextKeepsInv, PTL DEF Spec

\* The supervisor's two stacks (child_tokens, handles) and current_concurrency
\* agree after any sequence of targets, so it awaits only workers it cancelled.
THEOREM StacksStayInStep == Spec => []TokensMatchHandles
<1>1. IInv => TokensMatchHandles
  BY Zenon DEF IInv
<1> QED BY <1>1, ScalingInvariant, PTL

\* execute_test never returns a summary of a test that SIGINT ended early.
THEOREM SummariesAreComplete == Spec => []SummaryIsComplete
<1>1. IInv => SummaryIsComplete
  BY Zenon DEF IInv, CutMeansInterrupted, SummaryIsComplete
<1> QED BY <1>1, ScalingInvariant, PTL

\* A sequence has no more elements than its length.
LEMMA RangeIsBounded ==
    ASSUME NEW S, NEW s \in Seq(S)
    PROVE  IsFiniteSet(Range(s)) /\ Cardinality(Range(s)) <= Len(s)
<1>1. Len(s) \in Nat /\ DOMAIN s = 1 .. Len(s)
  OBVIOUS
<1>2. IsFiniteSet(1 .. Len(s)) /\ Cardinality(1 .. Len(s)) = Len(s)
  BY <1>1, FS_Interval, SMTT(30)
<1>3. s \in Surjection(1 .. Len(s), Range(s))
  BY <1>1 DEF Surjection, Range
<1>4. IsFiniteSet(Range(s)) /\ Cardinality(Range(s)) <= Cardinality(1 .. Len(s))
  BY <1>2, <1>3, FS_Surjection, Zenon
<1> QED BY <1>2, <1>4, Zenon

\* At the top of the supervisor's loop the live workers are on its stack, and no
\* more of them than the target it last scaled to.
THEOREM TheTargetIsHeld == Spec => []TargetIsHeld
<1>1. IInv => TargetIsHeld
  <2> SUFFICES ASSUME IInv, supervisor = "top"
               PROVE  Alive \subseteq Range(handles) /\ Cardinality(Alive) <= current
    BY Zenon DEF TargetIsHeld
  <2>1. handles \in Seq(Workers) /\ Len(handles) = current /\ current \in Nat
    BY Zenon DEF IInv, ScalingTypes, TokensMatchHandles
  <2>2. Alive \subseteq Range(handles)
    BY DEF IInv, AliveIsAwaited, Range
  <2>3. IsFiniteSet(Range(handles)) /\ Cardinality(Range(handles)) <= current
    BY <2>1, RangeIsBounded, Zenon
  <2>4. IsFiniteSet(Alive) /\ Cardinality(Alive) <= Cardinality(Range(handles))
    BY <2>2, <2>3, FS_Subset, Zenon
  <2>5. Cardinality(Alive) \in Nat /\ Cardinality(Range(handles)) \in Nat
    BY <2>3, <2>4, FS_CardinalityType, Zenon
  <2> QED BY <2>1, <2>2, <2>3, <2>4, <2>5
<1> QED BY <1>1, ScalingInvariant, PTL

-----------------------------------------------------------------------------
(* The live counters agree with where the workers are.                     *)

\* There are finitely many workers at any set of places, so that counting them makes sense.
LEMMA CountIsFinite ==
    ASSUME NEW f, NEW places
    PROVE  /\ IsFiniteSet({w \in Workers : f[w] \in places})
           /\ Count(f, places) \in 0 .. MaxWorkers
<1> DEFINE S == {w \in Workers : f[w] \in places}
<1>1. MaxWorkers \in Nat
  BY LocalRunAssumption, Zenon
<1>2. IsFiniteSet(Workers) /\ Cardinality(Workers) = MaxWorkers
  BY <1>1, FS_Interval DEF Workers
<1>3. S \subseteq Workers
  OBVIOUS
<1>4. IsFiniteSet(S) /\ Cardinality(S) <= Cardinality(Workers)
  BY <1>2, <1>3, FS_Subset, Zenon
<1>5. Cardinality(S) \in Nat
  BY <1>4, FS_CardinalityType, Zenon
<1> QED BY <1>1, <1>2, <1>4, <1>5 DEF Count

\* One worker moves: each count changes by whether it left or entered the places.
LEMMA MoveCount ==
    ASSUME NEW f \in [Workers -> Places], NEW w \in Workers, NEW to \in Places, NEW places
    PROVE  Count([f EXCEPT ![w] = to], places) + (IF f[w] \in places THEN 1 ELSE 0)
              = Count(f, places) + (IF to \in places THEN 1 ELSE 0)
<1> DEFINE g == [f EXCEPT ![w] = to]
           S == {v \in Workers : f[v] \in places}
           T == {v \in Workers : g[v] \in places}
<1>1. IsFiniteSet(S) /\ IsFiniteSet(T) /\ Count(f, places) = Cardinality(S)
      /\ Count(g, places) = Cardinality(T)
      /\ Cardinality(S) \in Nat /\ Cardinality(T) \in Nat
  BY CountIsFinite, FS_CardinalityType, Zenon DEF Count
<1>2. CASE f[w] \in places /\ to \notin places
  <2>1. T = S \ {w} /\ w \in S
    BY <1>2, Zenon
  <2>2. Cardinality(S \ {w}) = Cardinality(S) - 1
    BY <1>1, <2>1, FS_RemoveElement, Zenon
  <2>3. Count(g, places) = Count(f, places) - 1 /\ Count(f, places) \in Nat
    BY <1>1, <2>1, <2>2, Zenon
  <2>4. Count(g, places) + 1 = Count(f, places) + 0
    BY <2>3
  <2> QED BY <1>2, <2>4, Zenon
<1>3. CASE f[w] \notin places /\ to \in places
  <2>1. T = S \cup {w} /\ w \notin S
    BY <1>3, Zenon
  <2>2. Cardinality(S \cup {w}) = Cardinality(S) + 1
    BY <1>1, <2>1, FS_AddElement, Zenon
  <2> QED BY <1>1, <1>3, <2>1, <2>2
<1>4. CASE (f[w] \in places) = (to \in places)
  <2>1. T = S
    BY <1>4, Zenon
  <2> QED BY <1>1, <1>4, <2>1, Zenon
<1> QED BY <1>2, <1>3, <1>4

\* The three counts the counters are compared with, after a move.
LEMMA MoveCounts ==
    ASSUME ScalingTypes, NEW w \in Workers, NEW from \in Places, NEW to \in Places, At(w, from, to)
    PROVE  /\ Count(worker', Guarded) + (IF from \in Guarded THEN 1 ELSE 0)
                 = Count(worker, Guarded) + (IF to \in Guarded THEN 1 ELSE 0)
           /\ Count(worker', {"sending"}) + (IF from = "sending" THEN 1 ELSE 0)
                 = Count(worker, {"sending"}) + (IF to = "sending" THEN 1 ELSE 0)
           /\ Count(worker', {"iterating"}) + (IF from = "iterating" THEN 1 ELSE 0)
                 = Count(worker, {"iterating"}) + (IF to = "iterating" THEN 1 ELSE 0)
<1>1. worker \in [Workers -> Places] /\ worker' = [worker EXCEPT ![w] = to] /\ worker[w] = from
  BY Zenon DEF ScalingTypes, Places, At
<1>2. Count(worker', Guarded) + (IF worker[w] \in Guarded THEN 1 ELSE 0)
        = Count(worker, Guarded) + (IF to \in Guarded THEN 1 ELSE 0)
  BY <1>1, MoveCount, Zenon
<1>3. Count(worker', {"sending"}) + (IF worker[w] \in {"sending"} THEN 1 ELSE 0)
        = Count(worker, {"sending"}) + (IF to \in {"sending"} THEN 1 ELSE 0)
  BY <1>1, MoveCount, Zenon
<1>4. Count(worker', {"iterating"}) + (IF worker[w] \in {"iterating"} THEN 1 ELSE 0)
        = Count(worker, {"iterating"}) + (IF to \in {"iterating"} THEN 1 ELSE 0)
  BY <1>1, MoveCount, Zenon
<1> QED BY <1>1, <1>2, <1>3, <1>4, Zenon

\* The counts are numbers, before and after.
LEMMA CountsAreNat ==
    ASSUME NEW f
    PROVE  Count(f, Guarded) \in 0 .. MaxWorkers /\ Count(f, {"sending"}) \in Nat
           /\ Count(f, {"iterating"}) \in Nat
<1>1. MaxWorkers \in Nat
  BY LocalRunAssumption, Zenon
<1>2. Count(f, Guarded) \in 0 .. MaxWorkers
  BY CountIsFinite, Zenon
<1>3. Count(f, {"sending"}) \in 0 .. MaxWorkers
  BY CountIsFinite, Zenon
<1>4. Count(f, {"iterating"}) \in 0 .. MaxWorkers
  BY CountIsFinite, Zenon
<1> QED BY <1>1, <1>2, <1>3, <1>4

-----------------------------------------------------------------------------
(* The steps of the workers.                                               *)

\* The counters with their types before the bounds are known.
LooseCounters == [total : 0 .. MaxIterations, completed : Int, active : Int]

\* The bounds of the counters follow from the counts.
LEMMA CountersAreBounded ==
    ASSUME counters' \in LooseCounters, aggregator'.recorded \in Nat, channel' \in Nat,
           CountersMatchWorkers'
    PROVE  counters' \in [total : 0 .. MaxIterations, completed : 0 .. MaxIterations,
                          active : 0 .. MaxWorkers]
<1>1. Count(worker', Guarded) \in 0 .. MaxWorkers /\ Count(worker', {"sending"}) \in Nat
      /\ Count(worker', {"iterating"}) \in Nat
  BY CountsAreNat, Zenon
<1>2. MaxIterations \in Nat /\ MaxWorkers \in Nat
  BY LocalRunAssumption, Zenon
<1>3. counters'.total \in 0 .. MaxIterations /\ counters'.completed \in Int
  BY Zenon DEF LooseCounters
<1>4. counters'.active \in 0 .. MaxWorkers /\ counters'.completed \in 0 .. MaxIterations
  BY <1>1, <1>2, <1>3 DEF CountersMatchWorkers
<1> QED BY <1>3, <1>4, Zenon DEF LooseCounters

\* Each step of a worker moves the counters as it moves the worker (spawn_worker, lib.rs).
LEMMA WorkerCounts ==
    ASSUME IInv, CountingInv, NEW w \in Workers, Worker(w) \/ WorkerPanics(w)
    PROVE  CountersMatchWorkers' /\ counters' \in LooseCounters /\ channel' \in 0 .. Buffer
<1>1. /\ Count(worker, Guarded) \in 0 .. MaxWorkers /\ Count(worker, {"sending"}) \in Nat
      /\ Count(worker, {"iterating"}) \in Nat
  BY CountsAreNat, Zenon
<1>2. /\ Count(worker', Guarded) \in 0 .. MaxWorkers /\ Count(worker', {"sending"}) \in Nat
      /\ Count(worker', {"iterating"}) \in Nat
  BY CountsAreNat, Zenon
<1>3. /\ counters \in [total : 0 .. MaxIterations, completed : 0 .. MaxIterations,
                       active : 0 .. MaxWorkers]
      /\ channel \in 0 .. Buffer /\ aggregator.recorded \in Nat
  BY Zenon DEF CountingInv, TypeOK
<1>4. Buffer \in Nat /\ MaxWorkers \in Nat /\ MaxIterations \in Nat
  BY LocalRunAssumption, Zenon
<1>5. ScalingTypes /\ CountersMatchWorkers
  BY Zenon DEF IInv, CountingInv
<1> USE <1>1, <1>2, <1>3, <1>4, <1>5 DEF CountersMatchWorkers, LooseCounters
<1>10. CASE WorkerStarts(w)
  <2>1. At(w, "spawned", "context") BY <1>10 DEF WorkerStarts
  <2>2. /\ Count(worker', Guarded) = Count(worker, Guarded) + 1
        /\ Count(worker', {"sending"}) = Count(worker, {"sending"})
        /\ Count(worker', {"iterating"}) = Count(worker, {"iterating"})
    BY <2>1, MoveCounts DEF Places, Guarded
  <2> QED BY <1>10, <2>2 DEF WorkerStarts
<1>11. CASE ContextCreated(w)
  <2>1. At(w, "context", "loop") BY <1>11 DEF ContextCreated
  <2>2. /\ Count(worker', Guarded) = Count(worker, Guarded)
        /\ Count(worker', {"sending"}) = Count(worker, {"sending"})
        /\ Count(worker', {"iterating"}) = Count(worker, {"iterating"})
    BY <2>1, MoveCounts DEF Places, Guarded
  <2> QED BY <1>11, <2>2 DEF ContextCreated
<1>12. CASE IterationBegins(w)
  <2>1. At(w, "loop", "iterating") BY <1>12 DEF IterationBegins
  <2>2. /\ Count(worker', Guarded) = Count(worker, Guarded)
        /\ Count(worker', {"sending"}) = Count(worker, {"sending"})
        /\ Count(worker', {"iterating"}) = Count(worker, {"iterating"}) + 1
    BY <2>1, MoveCounts DEF Places, Guarded
  <2> QED BY <1>12, <2>2 DEF IterationBegins
<1>13. CASE WorkerLeavesLoop(w)
  <2>1. At(w, "loop", "closing") BY <1>13 DEF WorkerLeavesLoop
  <2>2. /\ Count(worker', Guarded) = Count(worker, Guarded)
        /\ Count(worker', {"sending"}) = Count(worker, {"sending"})
        /\ Count(worker', {"iterating"}) = Count(worker, {"iterating"})
    BY <2>1, MoveCounts DEF Places, Guarded
  <2> QED BY <1>13, <2>2 DEF WorkerLeavesLoop
<1>14. CASE IterationCancelled(w)
  <2>1. At(w, "iterating", "closing") BY <1>14 DEF IterationCancelled
  <2>2. /\ Count(worker', Guarded) = Count(worker, Guarded)
        /\ Count(worker', {"sending"}) = Count(worker, {"sending"})
        /\ Count(worker', {"iterating"}) + 1 = Count(worker, {"iterating"})
    BY <2>1, MoveCounts DEF Places, Guarded
  <2> QED BY <1>14, <2>2 DEF IterationCancelled
<1>15. CASE IterationReturns(w)
  <2>1. At(w, "iterating", "sending") BY <1>15 DEF IterationReturns
  <2>2. /\ Count(worker', Guarded) = Count(worker, Guarded)
        /\ Count(worker', {"sending"}) = Count(worker, {"sending"}) + 1
        /\ Count(worker', {"iterating"}) + 1 = Count(worker, {"iterating"})
    BY <2>1, MoveCounts DEF Places, Guarded
  <2> QED BY <1>15, <2>2 DEF IterationReturns
<1>16. CASE SendMetric(w)
  <2>1. At(w, "sending", "loop") BY <1>16 DEF SendMetric
  <2>2. /\ Count(worker', Guarded) = Count(worker, Guarded)
        /\ Count(worker', {"sending"}) + 1 = Count(worker, {"sending"})
        /\ Count(worker', {"iterating"}) = Count(worker, {"iterating"})
    BY <2>1, MoveCounts DEF Places, Guarded
  <2> QED BY <1>16, <2>2 DEF SendMetric
<1>17. CASE WorkerReturns(w)
  <2>1. At(w, "closing", "done") BY <1>17 DEF WorkerReturns
  <2>2. /\ Count(worker', Guarded) + 1 = Count(worker, Guarded)
        /\ Count(worker', {"sending"}) = Count(worker, {"sending"})
        /\ Count(worker', {"iterating"}) = Count(worker, {"iterating"})
    BY <2>1, MoveCounts DEF Places, Guarded
  <2> QED BY <1>17, <2>2 DEF WorkerReturns
<1>18. CASE WorkerPanics(w)
  <2>1. At(w, "iterating", "done") BY <1>18 DEF WorkerPanics
  <2>2. /\ Count(worker', Guarded) + 1 = Count(worker, Guarded)
        /\ Count(worker', {"sending"}) = Count(worker, {"sending"})
        /\ Count(worker', {"iterating"}) + 1 = Count(worker, {"iterating"})
    BY <2>1, MoveCounts DEF Places, Guarded
  <2> QED BY <1>18, <2>2 DEF WorkerPanics
<1> QED BY <1>10, <1>11, <1>12, <1>13, <1>14, <1>15, <1>16, <1>17, <1>18, Zenon DEF Worker

\* A step of a worker keeps the counting invariant.
LEMMA WorkerKeepsCounting ==
    ASSUME IInv, IInv', CountingInv, NEW w \in Workers, Worker(w) \/ WorkerPanics(w)
    PROVE  CountingInv'
<1>1. WorkerEffect(w)
  BY WorkerStepEffect, Zenon
<1>2. aggregator' = aggregator /\ sampler' = sampler
  BY Zenon DEF Worker, WorkerStarts, ContextCreated, IterationBegins, WorkerLeavesLoop,
         IterationCancelled, IterationReturns, SendMetric, WorkerReturns, WorkerPanics
<1>3. CountersMatchWorkers' /\ counters' \in LooseCounters /\ channel' \in 0 .. Buffer
  BY WorkerCounts, Zenon
<1>4. main' = main /\ supervisor' = supervisor /\ spawned' = spawned /\ ticks' = ticks
      /\ cancel' = cancel /\ interrupted' = interrupted
  BY <1>1, Zenon DEF WorkerEffect, supervisorVars
<1>5. TypeOK'
  <2>1. counters' \in [total : 0 .. MaxIterations, completed : 0 .. MaxIterations,
                       active : 0 .. MaxWorkers]
    <3>1. aggregator'.recorded \in Nat /\ channel' \in Nat
      BY <1>2, <1>3, LocalRunAssumption DEF CountingInv, TypeOK
    <3> QED BY <1>3, <3>1, CountersAreBounded, Zenon
  <2>2. cut' \in BOOLEAN
    <3>1. cut \in BOOLEAN /\ cancel \in BOOLEAN
      BY Zenon DEF CountingInv, TypeOK
    <3> QED BY <1>1, <3>1, Zenon DEF WorkerEffect
  <2>3. ScalingTypes'
    BY Zenon DEF IInv
  <2> QED BY <1>2, <1>3, <1>4, <2>1, <2>2, <2>3, SMTT(30) DEF CountingInv, TypeOK, ScalingTypes
<1>6. FreshWorkers'
  BY <1>1, <1>4, Zenon DEF CountingInv, FreshWorkers, WorkerEffect, Alive, IInv, ScalingTypes
<1>7. AggregatorDrained'
  <2>1. ~SendersGone
    BY <1>1, Zenon DEF WorkerEffect, Alive, SendersGone
  <2>2. ~aggregator.done
    BY <2>1, Zenon DEF CountingInv, AggregatorDrained
  <2>3. main \notin {"sampling", "ok"}
    BY <2>2, Zenon DEF CountingInv, AggregatorDrained
  <2> QED BY <1>2, <1>4, <2>2, <2>3, Zenon DEF AggregatorDrained
<1> QED BY <1>3, <1>5, <1>6, <1>7, Zenon DEF CountingInv

-----------------------------------------------------------------------------
(* The steps of the supervisor.                                            *)

\* A new worker was nowhere, and is the only kind of worker that scaling moves.
LEMMA ScalesKeepsCounts ==
    ASSUME IInv, CountingInv, NEW target \in Targets, SupervisorScales(target)
    PROVE  /\ FreshWorkers' /\ spawned' \in 0 .. MaxWorkers
           /\ \A v \in Workers : worker'[v] # worker[v] => worker[v] = "none" /\ worker'[v] = "spawned"
<1> USE LocalRunAssumption
<1>1. target \in Nat /\ current \in Nat /\ spawned \in 0 .. MaxWorkers
  BY Zenon DEF CountingInv, TypeOK
<1>2. CASE ScaleUp(target)
  <2> DEFINE new == New(target - current)
  <2>1. /\ target - current \in Nat /\ spawned' = spawned + (target - current)
        /\ spawned' <= MaxWorkers
        /\ worker' = [v \in Workers |-> IF v \in Range(new) THEN "spawned" ELSE worker[v]]
    BY <1>1, <1>2 DEF ScaleUp
  <2>2. \A v \in Range(new) : v > spawned /\ v <= spawned'
    BY <1>1, <2>1 DEF New, Range
  <2>3. \A v \in Range(new) : v \in Workers => worker[v] = "none"
    BY <2>2, Zenon DEF CountingInv, FreshWorkers
  <2>4. FreshWorkers'
    <3> SUFFICES ASSUME NEW v \in Workers, v > spawned' PROVE worker'[v] = "none"
      BY Zenon DEF FreshWorkers
    <3>1. v > spawned /\ v \notin Range(new)
      BY <1>1, <2>1, <2>2 DEF Workers
    <3> QED BY <2>1, <3>1, Zenon DEF CountingInv, FreshWorkers
  <2>5. \A v \in Workers : worker'[v] # worker[v] => worker[v] = "none" /\ worker'[v] = "spawned"
    BY <2>1, <2>3, Zenon
  <2> QED BY <1>1, <2>1, <2>4, <2>5
<1>3. CASE ScaleDown(target)
  <2>1. worker' = worker /\ spawned' = spawned
    BY <1>3, Zenon DEF ScaleDown
  <2> QED BY <1>1, <2>1, Zenon DEF CountingInv, FreshWorkers
<1> QED BY <1>2, <1>3, Zenon DEF SupervisorScales

\* A change from none to spawned is seen by none of the three counts.
LEMMA SpawningCountsNothing ==
    ASSUME \A v \in Workers : worker'[v] # worker[v] => worker[v] = "none" /\ worker'[v] = "spawned"
    PROVE  /\ Count(worker', Guarded) = Count(worker, Guarded)
           /\ Count(worker', {"sending"}) = Count(worker, {"sending"})
           /\ Count(worker', {"iterating"}) = Count(worker, {"iterating"})
<1>1. {v \in Workers : worker'[v] \in Guarded} = {v \in Workers : worker[v] \in Guarded}
  BY Zenon DEF Guarded
<1>2. {v \in Workers : worker'[v] \in {"sending"}} = {v \in Workers : worker[v] \in {"sending"}}
  OBVIOUS
<1>3. {v \in Workers : worker'[v] \in {"iterating"}} = {v \in Workers : worker[v] \in {"iterating"}}
  OBVIOUS
<1> QED BY <1>1, <1>2, <1>3, Zenon DEF Count

\* The supervisor moves no worker but those it spawns.
LEMMA SupervisorKeepsCounting ==
    ASSUME IInv, IInv', CountingInv, Supervisor
    PROVE  CountingInv'
<1>1. /\ main' = main /\ channel' = channel /\ counters' = counters /\ aggregator' = aggregator
      /\ sampler' = sampler /\ cancel' = cancel /\ interrupted' = interrupted
  BY Zenon DEF Supervisor, SupervisorScales, SupervisorJoins, SupervisorTearsDown, SupervisorReturns,
         workerVars
<1>2. /\ FreshWorkers' /\ spawned' \in 0 .. MaxWorkers
      /\ \A v \in Workers : worker'[v] # worker[v] => worker[v] = "none" /\ worker'[v] = "spawned"
  <2>1. CASE \E target \in Targets : SupervisorScales(target)
    BY <2>1, ScalesKeepsCounts, Zenon
  <2>2. CASE SupervisorJoins \/ SupervisorTearsDown \/ SupervisorReturns
    <3>1. worker' = worker /\ spawned' = spawned
      BY <2>2, Zenon DEF SupervisorJoins, SupervisorTearsDown, SupervisorReturns, workerVars
    <3> QED BY <3>1, Zenon DEF CountingInv, TypeOK, FreshWorkers
  <2> QED BY <2>1, <2>2, Zenon DEF Supervisor
<1>3. CountersMatchWorkers'
  BY <1>1, <1>2, SpawningCountsNothing, Zenon DEF CountingInv, CountersMatchWorkers
<1>4. ticks' \in 0 .. MaxTicks
  BY LocalRunAssumption, SMTT(30) DEF CountingInv, TypeOK, Supervisor, SupervisorScales, SupervisorJoins,
     SupervisorTearsDown, SupervisorReturns
<1>5. cut' \in BOOLEAN
  <2>1. cut \in BOOLEAN /\ cancel \in BOOLEAN
    BY Zenon DEF CountingInv, TypeOK
  <2>2. cut' = cut \/ cut' = (cut \/ cancel)
    BY Zenon DEF Supervisor, SupervisorScales, SupervisorJoins, SupervisorTearsDown, SupervisorReturns
  <2> QED BY <2>1, <2>2, Zenon
<1>6. TypeOK'
  BY <1>1, <1>2, <1>4, <1>5, SMTT(30) DEF CountingInv, TypeOK, IInv, ScalingTypes, AliveIsAwaited
<1>7. AggregatorDrained'
  <2>1. ~SendersGone
    BY Zenon DEF Supervisor, SupervisorScales, SupervisorJoins, SupervisorTearsDown, SupervisorReturns,
       SendersGone
  <2> QED BY <1>1, <2>1, Zenon DEF CountingInv, AggregatorDrained
<1> QED BY <1>2, <1>3, <1>6, <1>7, Zenon DEF CountingInv

-----------------------------------------------------------------------------
(* The aggregator, execute_test, the sampler and SIGINT.                   *)

\* The aggregator takes a metric from the channel into what it has recorded.
LEMMA AggregatorKeepsCounting ==
    ASSUME IInv', CountingInv, Aggregator
    PROVE  CountingInv'
<1>1. /\ main' = main /\ supervisor' = supervisor /\ worker' = worker /\ counters' = counters
      /\ spawned' = spawned /\ ticks' = ticks /\ sampler' = sampler
      /\ cancel' = cancel /\ interrupted' = interrupted /\ cut' = cut
  BY Zenon DEF Aggregator, AggregatorRecords, AggregatorFinishes, supervisorVars, workerVars
<1>2. channel \in 0 .. Buffer /\ aggregator \in [recorded : Nat, done : BOOLEAN] /\ Buffer \in Nat
  BY LocalRunAssumption, Zenon DEF CountingInv, TypeOK
<1>3. Count(worker, {"sending"}) \in Nat
  BY CountsAreNat, Zenon
<1>4. CASE AggregatorRecords
  <2>1. /\ channel > 0 /\ channel' = channel - 1
        /\ aggregator' = [aggregator EXCEPT !.recorded = @ + 1]
    BY <1>4, Zenon DEF AggregatorRecords
  <2>2. channel' \in 0 .. Buffer /\ aggregator' \in [recorded : Nat, done : BOOLEAN]
        /\ aggregator'.recorded + channel' = aggregator.recorded + channel
    BY <1>2, <2>1
  <2>3. CountersMatchWorkers'
    BY <1>1, <1>2, <1>3, <2>2, Zenon DEF CountingInv, CountersMatchWorkers
  <2>4. TypeOK'
    BY <1>1, <2>2, Zenon DEF CountingInv, TypeOK, IInv, ScalingTypes
  <2>5. FreshWorkers'
    BY <1>1, Zenon DEF CountingInv, FreshWorkers
  <2>6. AggregatorDrained'
    <3>1. aggregator'.done = aggregator.done /\ channel # 0
      BY <1>2, <2>1
    <3> QED BY <1>1, <3>1, Zenon DEF CountingInv, AggregatorDrained
  <2> QED BY <2>3, <2>4, <2>5, <2>6, Zenon DEF CountingInv
<1>5. CASE AggregatorFinishes
  <2>1. channel = 0 /\ channel' = channel /\ SendersGone
        /\ aggregator' = [aggregator EXCEPT !.done = TRUE]
    BY <1>5, Zenon DEF AggregatorFinishes, workerVars
  <2>2. aggregator' \in [recorded : Nat, done : BOOLEAN] /\ aggregator'.done
        /\ aggregator'.recorded = aggregator.recorded
    BY <1>2, <2>1, Zenon
  <2>3. CountersMatchWorkers'
    BY <1>1, <2>1, <2>2, Zenon DEF CountingInv, CountersMatchWorkers
  <2>4. TypeOK'
    BY <1>1, <2>1, <2>2, SMTT(20) DEF CountingInv, TypeOK, IInv, ScalingTypes
  <2>5. FreshWorkers'
    BY <1>1, Zenon DEF CountingInv, FreshWorkers
  <2>6. AggregatorDrained'
    BY <1>1, <2>1, <2>2, Zenon DEF AggregatorDrained, SendersGone
  <2> QED BY <2>3, <2>4, <2>5, <2>6, Zenon DEF CountingInv
<1> QED BY <1>4, <1>5, Zenon DEF Aggregator

\* Steps that leave all the counts alone.
LEMMA QuietKeepsCounting ==
    ASSUME IInv', CountingInv,
           UNCHANGED <<supervisorVars, workerVars, aggregator, cut>>,
           main' \in {"awaiting", "check", "aggregating", "sampling", "ok", "interrupted"},
           main' \in {"sampling", "ok"} => aggregator.done,
           sampler' \in {"off", "on", "stopped"}, cancel' \in BOOLEAN, interrupted' \in BOOLEAN
    PROVE  CountingInv'
<1>1. /\ supervisor' = supervisor /\ worker' = worker /\ counters' = counters
      /\ spawned' = spawned /\ ticks' = ticks /\ channel' = channel
      /\ aggregator' = aggregator /\ cut' = cut
  BY Zenon DEF supervisorVars, workerVars
<1>2. TypeOK'
  BY <1>1, Zenon DEF CountingInv, TypeOK, IInv, ScalingTypes
<1>3. CountersMatchWorkers' /\ FreshWorkers'
  BY <1>1, Zenon DEF CountingInv, CountersMatchWorkers, FreshWorkers
<1>4. AggregatorDrained'
  <2>1. SendersGone' = SendersGone
    BY <1>1, Zenon DEF SendersGone
  <2> QED BY <1>1, <2>1, Zenon DEF CountingInv, AggregatorDrained
<1> QED BY <1>2, <1>3, <1>4, Zenon DEF CountingInv

\* execute_test joins and summarises without touching a counter.
LEMMA MainKeepsCounting ==
    ASSUME IInv', CountingInv, Main
    PROVE  CountingInv'
<1>1. UNCHANGED <<supervisorVars, workerVars, aggregator, cut, sampler, cancel, interrupted>>
  BY Zenon DEF Main, RunAwaited, RaisesInterrupt, GoesOn, AggregatorAwaited, ReturnsSummary, MainAt
<1>2. main' \in {"awaiting", "check", "aggregating", "sampling", "ok", "interrupted"}
  BY Zenon DEF Main, RunAwaited, RaisesInterrupt, GoesOn, AggregatorAwaited, ReturnsSummary, MainAt
<1>3. main' \in {"sampling", "ok"} => aggregator.done
  BY Zenon DEF Main, RunAwaited, RaisesInterrupt, GoesOn, AggregatorAwaited, ReturnsSummary, MainAt,
         CountingInv, AggregatorDrained
<1>4. sampler' \in {"off", "on", "stopped"} /\ cancel' \in BOOLEAN /\ interrupted' \in BOOLEAN
  BY <1>1, Zenon DEF CountingInv, TypeOK
<1> QED BY <1>1, <1>2, <1>3, <1>4, QuietKeepsCounting, Zenon

\* Neither do SIGINT and the sampler.
LEMMA RestKeepsCounting ==
    ASSUME IInv', CountingInv, SamplerStops \/ SigintStores \/ SigintCancels \/ UNCHANGED vars
    PROVE  CountingInv'
<1>1. UNCHANGED <<supervisorVars, workerVars, aggregator, cut, main>>
  BY Zenon DEF SamplerStops, SigintStores, SigintCancels, vars
<1>2. sampler' \in {"off", "on", "stopped"} /\ cancel' \in BOOLEAN /\ interrupted' \in BOOLEAN
  BY Zenon DEF SamplerStops, SigintStores, SigintCancels, vars, CountingInv, TypeOK
<1>3. main' \in {"awaiting", "check", "aggregating", "sampling", "ok", "interrupted"}
      /\ (main' \in {"sampling", "ok"} => aggregator.done)
  BY <1>1, Zenon DEF CountingInv, TypeOK, AggregatorDrained
<1> QED BY <1>1, <1>2, <1>3, QuietKeepsCounting, Zenon

-----------------------------------------------------------------------------
(* The theorems.                                                           *)

\* Before the first worker all the counts are zero.
LEMMA InitImpliesCounting == Init => CountingInv
<1> SUFFICES ASSUME Init PROVE CountingInv
  OBVIOUS
<1> USE LocalRunAssumption
<1>1. ScalingTypes
  BY InitImpliesInv, Zenon DEF IInv
<1>2. TypeOK
  <2>1. {cancel, interrupted, cut} \subseteq BOOLEAN
    BY Zenon DEF Init
  <2>2. aggregator \in [recorded : Nat, done : BOOLEAN]
    BY Zenon DEF Init
  <2>3. counters \in [total : 0 .. MaxIterations, completed : 0 .. MaxIterations, active : 0 .. MaxWorkers]
    BY DEF Init
  <2>4. channel \in 0 .. Buffer /\ ticks \in 0 .. MaxTicks /\ spawned \in 0 .. MaxWorkers
    BY DEF Init
  <2>5. /\ main \in {"awaiting", "check", "aggregating", "sampling", "ok", "interrupted"}
        /\ supervisor \in {"none", "top", "joining", "teardown", "done"}
        /\ sampler \in {"off", "on", "stopped"}
    BY Zenon DEF Init
  <2> QED BY <1>1, <2>1, <2>2, <2>3, <2>4, <2>5, Zenon DEF TypeOK, ScalingTypes
<1>3. FreshWorkers
  BY DEF Init, FreshWorkers, Workers
<1>4. \A w \in Workers : worker[w] \in {"none", "spawned"}
  BY Zenon DEF Init
<1>5. Count(worker, Guarded) = 0 /\ Count(worker, {"sending"}) = 0 /\ Count(worker, {"iterating"}) = 0
  <2>1. {w \in Workers : worker[w] \in Guarded} = {}
    BY <1>4, Zenon DEF Guarded
  <2>2. {w \in Workers : worker[w] \in {"sending"}} = {} /\ {w \in Workers : worker[w] \in {"iterating"}} = {}
    BY <1>4, Zenon
  <2> QED BY <2>1, <2>2, FS_EmptySet, Zenon DEF Count
<1>6. CountersMatchWorkers
  BY <1>5 DEF Init, CountersMatchWorkers
<1>7. AggregatorDrained
  BY Zenon DEF Init, AggregatorDrained
<1> QED BY <1>2, <1>3, <1>6, <1>7, Zenon DEF CountingInv

\* The counting invariant is inductive, given the one on scaling.
LEMMA NextKeepsCounting == IInv /\ IInv' /\ CountingInv /\ [Next]_vars => CountingInv'
<1> SUFFICES ASSUME IInv, IInv', CountingInv, [Next]_vars PROVE CountingInv'
  OBVIOUS
<1>1. CASE \E w \in Workers : Worker(w) \/ WorkerPanics(w)
  BY <1>1, WorkerKeepsCounting, Zenon
<1>2. CASE Supervisor BY <1>2, SupervisorKeepsCounting
<1>3. CASE Aggregator BY <1>3, AggregatorKeepsCounting
<1>4. CASE Main       BY <1>4, MainKeepsCounting
<1>5. CASE SamplerStops \/ SigintStores \/ SigintCancels \/ UNCHANGED vars
  BY <1>5, RestKeepsCounting, Zenon
<1> QED BY <1>1, <1>2, <1>3, <1>4, <1>5, Zenon DEF Next

\* The live counters agree with where the workers are, in every reachable state.
THEOREM CountingInvariant == Spec => []CountingInv
BY ScalingInvariant, InitImpliesCounting, NextKeepsCounting, PTL DEF Spec

\* No variable leaves its type: active_workers never wraps below zero and the
\* channel never holds more than METRIC_CHANNEL_BUFFER.
THEOREM TypeCorrect == Spec => []TypeOK
<1>1. CountingInv => TypeOK
  BY Zenon DEF CountingInv
<1> QED BY <1>1, CountingInvariant, PTL

\* No metric is lost between a worker and the aggregator, and the summary is
\* computed from all of them.
THEOREM MetricsAreConserved == Spec => []MetricsConserved
<1>1. CountingInv => MetricsConserved
  <2> SUFFICES ASSUME CountingInv PROVE MetricsConserved
    OBVIOUS
  <2>1. {w \in Workers : worker[w] \in {"sending"}} = {w \in Workers : worker[w] = "sending"}
    OBVIOUS
  <2>2. counters.completed =
           aggregator.recorded + channel + Cardinality({w \in Workers : worker[w] = "sending"})
    BY <2>1, Zenon DEF CountingInv, CountersMatchWorkers, Count
  <2>3. ASSUME main = "ok" PROVE aggregator.recorded = counters.completed
    <3>1. channel = 0 /\ SendersGone
      BY <2>3, Zenon DEF CountingInv, AggregatorDrained
    <3>2. {w \in Workers : worker[w] = "sending"} = {}
      BY <3>1, Zenon DEF SendersGone
    <3>3. aggregator.recorded \in Nat
      BY Zenon DEF CountingInv, TypeOK
    <3> QED BY <2>2, <3>1, <3>2, <3>3, FS_EmptySet
  <2> QED BY <2>2, <2>3, Zenon DEF MetricsConserved
<1> QED BY <1>1, CountingInvariant, PTL

\* When execute_test returns no worker is left, and active_workers is zero.
THEOREM NothingIsLeftBehind == Spec => []NothingLeftBehind
<1>1. IInv /\ CountingInv => NothingLeftBehind
  <2> SUFFICES ASSUME IInv, CountingInv, Returned PROVE Alive = {} /\ counters.active = 0
    BY Zenon DEF NothingLeftBehind
  <2>1. Alive = {}
    BY Zenon DEF IInv, AliveIsAwaited, Returned
  <2>2. {w \in Workers : worker[w] \in Guarded} = {}
    BY <2>1, Zenon DEF Alive, Guarded
  <2> QED BY <2>1, <2>2, FS_EmptySet, Zenon DEF CountingInv, CountersMatchWorkers, Count
<1> QED BY <1>1, ScalingInvariant, CountingInvariant, PTL
=============================================================================
