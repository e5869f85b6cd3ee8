-------------------------- MODULE RunOrchestrator --------------------------
(***************************************************************************)
(* One test run on a worker: run_orchestrator (distributed/worker.rs) and  *)
(* the tasks it spawns.                                                    *)
(*                                                                         *)
(*   virtual users --metric channel--> collector --batch channel--> upload *)
(*                                                                         *)
(* Both channels are bounded.  The n-th metric to enter the metric channel *)
(* is called n; the channel and the collector are FIFO, so the channel     *)
(* holds received+1..sent, the open window taken+1..received, and a batch  *)
(* is the interval of the metrics it counts.  What a metric measures does  *)
(* not influence control and is left out.                                  *)
(***************************************************************************)
EXTENDS Naturals, Sequences, FiniteSets

CONSTANTS
    VUs,              \* the plan's virtual users
    MetricCapacity,   \* METRIC_CHANNEL_CAPACITY
    BatchCapacity,    \* BATCH_CHANNEL_CAPACITY
    MaxMetrics        \* bound: iterations begun in the run

ASSUME RunOrchestratorAssumption ==
    /\ VUs # {} /\ IsFiniteSet(VUs)
    /\ MetricCapacity \in Nat \ {0}
    /\ BatchCapacity \in Nat \ {0}
    /\ MaxMetrics \in Nat

VARIABLES
    vu,           \* vu[v]: where virtual user v is in its loop
    limited,      \* plan.duration is Some: the run has a duration
    elapsed,      \* start.elapsed() >= limit
    cancel,       \* the run's CancellationToken
    begun,        \* iterations begun (for the bound)
    executed,     \* iterations that produced a metric
    sent,         \* metrics put in the metric channel
    received,     \* metrics the collector recorded
    taken,        \* metrics that take_batch put in a batch
    batch_seq,    \* collector.batch_seq
    pc,           \* where run_orchestrator is
    outgoing,     \* the batch (at most one) held across batch_tx.send().await
    batch_chan,   \* batches in the batch channel
    uploaded,     \* batches the StreamMetrics call took from the channel
    telemetry     \* state of the StreamMetrics call

vuVars == <<vu, elapsed, begun, executed, sent>>
vars == <<vu, limited, elapsed, cancel, begun, executed, sent, received, taken,
          batch_seq, pc, outgoing, batch_chan, uploaded, telemetry>>

Batch == [batch_id : Nat, first : Nat, last : Nat]

VuStates == {"unspawned", "check", "executing", "sending", "finished"}
PcStates == {"loop", "tick_send", "flush", "flush_send", "await_vus",
             "await_telemetry", "done"}

InState(s) == {v \in VUs : vu[v] = s}

\* batch_tx is dropped (half-close) right after the final flush.
BatchTxDropped == pc \in {"await_vus", "await_telemetry", "done"}

\* Every clone of metric_tx is gone: run_virtual_users dropped its own and
\* every virtual user has returned.
MetricTxDropped == \A v \in VUs : vu[v] = "finished"

Init ==
    /\ vu = [v \in VUs |-> "unspawned"]
    /\ limited \in BOOLEAN
    /\ elapsed = FALSE
    /\ cancel = FALSE
    /\ begun = 0 /\ executed = 0
    /\ sent = 0 /\ received = 0 /\ taken = 0
    /\ batch_seq = 0
    /\ pc = "loop"
    /\ outgoing = <<>>
    /\ batch_chan = <<>>
    /\ uploaded = <<>>
    /\ telemetry = "open"

-----------------------------------------------------------------------------
(* The environment: time, STOP/ABORT or the end of the session.            *)

DurationElapses ==
    /\ limited /\ ~elapsed
    /\ elapsed' = TRUE
    /\ UNCHANGED <<vu, limited, cancel, begun, executed, sent, received, taken,
                   batch_seq, pc, outgoing, batch_chan, uploaded, telemetry>>

Cancel ==
    /\ ~cancel
    /\ cancel' = TRUE
    /\ UNCHANGED <<vu, limited, elapsed, begun, executed, sent, received, taken,
                   batch_seq, pc, outgoing, batch_chan, uploaded, telemetry>>

-----------------------------------------------------------------------------
(* run_virtual_users and the loop of each virtual user.  A send fails only *)
(* once metric_rx is dropped, which run_orchestrator does after it awaited *)
(* every virtual user, so the send has no error branch here.               *)

orchestratorVars == <<received, taken, batch_seq, pc, outgoing, batch_chan,
                      uploaded, telemetry>>

SpawnVus ==
    /\ InState("unspawned") = VUs
    /\ vu' = [v \in VUs |-> "check"]
    /\ UNCHANGED <<limited, elapsed, cancel, begun, executed, sent>>
    /\ UNCHANGED orchestratorVars

BuildEngineFails ==
    /\ InState("unspawned") = VUs
    /\ vu' = [v \in VUs |-> "finished"]
    /\ UNCHANGED <<limited, elapsed, cancel, begun, executed, sent>>
    /\ UNCHANGED orchestratorVars

\* Faulty variant: the loop of a virtual user forgets shutdown.is_cancelled().
MustStopOnlyAtDeadline == elapsed

MustStop == cancel \/ elapsed

VuStops(v) ==
    /\ vu[v] = "check" /\ MustStop
    /\ vu' = [vu EXCEPT ![v] = "finished"]
    /\ UNCHANGED <<limited, elapsed, cancel, begun, executed, sent>>
    /\ UNCHANGED orchestratorVars

VuBeginsIteration(v) ==
    /\ vu[v] = "check" /\ ~MustStop
    /\ begun < MaxMetrics
    /\ begun' = begun + 1
    /\ vu' = [vu EXCEPT ![v] = "executing"]
    /\ UNCHANGED <<limited, elapsed, cancel, executed, sent>>
    /\ UNCHANGED orchestratorVars

VuEndsIteration(v) ==
    /\ vu[v] = "executing"
    /\ executed' = executed + 1
    /\ vu' = [vu EXCEPT ![v] = "sending"]
    /\ UNCHANGED <<limited, elapsed, cancel, begun, sent>>
    /\ UNCHANGED orchestratorVars

\* metric_tx.send(metric).await completes when the channel has a free slot.
VuSends(v) ==
    /\ vu[v] = "sending"
    /\ sent - received < MetricCapacity
    /\ sent' = sent + 1
    /\ vu' = [vu EXCEPT ![v] = "check"]
    /\ UNCHANGED <<limited, elapsed, cancel, begun, executed>>
    /\ UNCHANGED orchestratorVars

Vu(v) == VuStops(v) \/ VuBeginsIteration(v) \/ VuEndsIteration(v) \/ VuSends(v)

-----------------------------------------------------------------------------
(* run_orchestrator: the select loop.                                      *)

runVars == <<vu, limited, elapsed, cancel, begun, executed, sent>>

\* collector.take_batch() returned Some: the batch goes to outgoing.
TakeBatch ==
    /\ outgoing' = <<[batch_id |-> batch_seq, first |-> taken + 1, last |-> received]>>
    /\ taken' = received
    /\ batch_seq' = batch_seq + 1

LoopCancelled ==
    /\ pc = "loop" /\ cancel
    /\ pc' = "flush"
    /\ UNCHANGED <<received, taken, batch_seq, outgoing, batch_chan, uploaded, telemetry>>
    /\ UNCHANGED runVars

LoopRecord ==
    /\ pc = "loop" /\ received < sent
    /\ received' = received + 1
    /\ UNCHANGED <<taken, batch_seq, pc, outgoing, batch_chan, uploaded, telemetry>>
    /\ UNCHANGED runVars

\* Faulty variant: recv() returning None does not end the loop.
LoopIgnoresClosed ==
    /\ pc = "loop" /\ received = sent /\ MetricTxDropped
    /\ UNCHANGED vars

LoopChannelClosed ==
    /\ pc = "loop" /\ received = sent /\ MetricTxDropped
    /\ pc' = "flush"
    /\ UNCHANGED <<received, taken, batch_seq, outgoing, batch_chan, uploaded, telemetry>>
    /\ UNCHANGED runVars

\* A tick over an empty window leaves everything alone.
LoopTick ==
    /\ pc = "loop" /\ taken < received
    /\ TakeBatch
    /\ pc' = "tick_send"
    /\ UNCHANGED <<received, batch_chan, uploaded, telemetry>>
    /\ UNCHANGED runVars

\* batch_tx.send(batch).await: the batch enters the channel, or the receiver
\* is gone and the batch is dropped.
SendBatch ==
    \/ /\ telemetry = "open" /\ Len(batch_chan) < BatchCapacity
       /\ batch_chan' = batch_chan \o outgoing
       /\ outgoing' = <<>>
    \/ /\ telemetry # "open"
       /\ outgoing' = <<>>
       /\ UNCHANGED batch_chan

TickSend ==
    /\ pc = "tick_send"
    /\ SendBatch
    /\ pc' = IF telemetry = "open" THEN "loop" ELSE "flush"
    /\ UNCHANGED <<received, taken, batch_seq, uploaded, telemetry>>
    /\ UNCHANGED runVars

(* The final flush, the half-close and the joins.                          *)

\* Faulty variant: no partial window is flushed when the run ends.
FlushNothing ==
    /\ pc = "flush"
    /\ pc' = "await_vus"
    /\ UNCHANGED <<received, taken, batch_seq, outgoing, batch_chan, uploaded, telemetry>>
    /\ UNCHANGED runVars

Flush ==
    /\ pc = "flush"
    /\ \/ /\ taken < received
          /\ TakeBatch
          /\ pc' = "flush_send"
       \/ /\ taken = received
          /\ pc' = "await_vus"
          /\ UNCHANGED <<taken, batch_seq, outgoing>>
    /\ UNCHANGED <<received, batch_chan, uploaded, telemetry>>
    /\ UNCHANGED runVars

FlushSend ==
    /\ pc = "flush_send"
    /\ SendBatch
    /\ pc' = "await_vus"
    /\ UNCHANGED <<received, taken, batch_seq, uploaded, telemetry>>
    /\ UNCHANGED runVars

\* Faulty variant: the virtual users are not joined.
DetachVus ==
    /\ pc = "await_vus"
    /\ pc' = "await_telemetry"
    /\ UNCHANGED <<received, taken, batch_seq, outgoing, batch_chan, uploaded, telemetry>>
    /\ UNCHANGED runVars

AwaitVus ==
    /\ pc = "await_vus" /\ MetricTxDropped
    /\ pc' = "await_telemetry"
    /\ UNCHANGED <<received, taken, batch_seq, outgoing, batch_chan, uploaded, telemetry>>
    /\ UNCHANGED runVars

AwaitTelemetry ==
    /\ pc = "await_telemetry" /\ telemetry # "open"
    /\ pc' = "done"
    /\ UNCHANGED <<received, taken, batch_seq, outgoing, batch_chan, uploaded, telemetry>>
    /\ UNCHANGED runVars

Orchestrator ==
    \/ LoopCancelled \/ LoopRecord \/ LoopChannelClosed \/ LoopTick
    \/ TickSend \/ Flush \/ FlushSend \/ AwaitVus \/ AwaitTelemetry

-----------------------------------------------------------------------------
(* upload_metrics: the client side of StreamMetrics.                       *)

UploadBatch ==
    /\ telemetry = "open" /\ batch_chan # <<>>
    /\ uploaded' = Append(uploaded, Head(batch_chan))
    /\ batch_chan' = Tail(batch_chan)
    /\ UNCHANGED <<received, taken, batch_seq, pc, outgoing, telemetry>>
    /\ UNCHANGED runVars

\* The half-close reached the master and its acknowledgment came back.
UploadAcknowledged ==
    /\ telemetry = "open" /\ batch_chan = <<>> /\ BatchTxDropped
    /\ telemetry' = "acked"
    /\ UNCHANGED <<received, taken, batch_seq, pc, outgoing, batch_chan, uploaded>>
    /\ UNCHANGED runVars

\* The call fails: batch_rx is dropped with the batches still queued in it.
UploadFails ==
    /\ telemetry = "open"
    /\ telemetry' = "failed"
    /\ batch_chan' = <<>>
    /\ UNCHANGED <<received, taken, batch_seq, pc, outgoing, uploaded>>
    /\ UNCHANGED runVars

Upload == UploadBatch \/ UploadAcknowledged

-----------------------------------------------------------------------------
Next ==
    \/ DurationElapses \/ Cancel
    \/ SpawnVus \/ BuildEngineFails
    \/ \E v \in VUs : Vu(v)
    \/ Orchestrator
    \/ Upload \/ UploadFails

Spec == Init /\ [][Next]_vars

(* Tokio polls every ready task and select! picks a random ready branch,   *)
(* so a branch that is ready whenever the loop comes round is taken in the *)
(* end.  The clock advances.  The upload either makes progress or fails.   *)
(* Nothing obliges anyone to cancel the run, or the upload to fail.        *)
Fairness ==
    /\ WF_vars(DurationElapses)
    /\ WF_vars(SpawnVus \/ BuildEngineFails)
    /\ \A v \in VUs : WF_vars(Vu(v))
    /\ WF_vars(Orchestrator)
    /\ SF_vars(LoopCancelled)
    /\ WF_vars(Upload)

FairSpec == Spec /\ Fairness

-----------------------------------------------------------------------------
(* Properties.                                                             *)

\* The variables have their types, and a batch is in the orchestrator's hands
\* exactly while it awaits batch_tx.send (worker.rs 512-513 and 520-521).
TypeOK ==
    /\ vu \in [VUs -> VuStates]
    /\ limited \in BOOLEAN /\ elapsed \in BOOLEAN /\ cancel \in BOOLEAN
    /\ begun \in Nat /\ executed \in Nat
    /\ sent \in Nat /\ received \in Nat /\ taken \in Nat
    /\ batch_seq \in Nat
    /\ pc \in PcStates
    /\ outgoing \in Seq(Batch)
    /\ Len(outgoing) = IF pc \in {"tick_send", "flush_send"} THEN 1 ELSE 0
    /\ batch_chan \in Seq(Batch)
    /\ uploaded \in Seq(Batch)
    /\ telemetry \in {"open", "acked", "failed"}

\* No metric is lost or counted twice between a virtual user and the collector,
\* and the metric channel never holds more than its capacity: every executed
\* iteration is in its virtual user's hands, in the channel, or recorded.
MetricsConserved ==
    /\ executed = sent + Cardinality(InState("sending"))
    /\ taken <= received /\ received <= sent
    /\ sent - received <= MetricCapacity

\* Batches s are numbered from 0 and cover the metrics 1, 2, ... in order,
\* each non-empty batch starting where the one before it ended.
Contiguous(s) ==
    \A i \in 1 .. Len(s) :
        /\ s[i].batch_id + 1 = i
        /\ s[i].first = (IF i = 1 THEN 1 ELSE s[i - 1].last + 1)
        /\ s[i].first <= s[i].last

Covered(s) == IF s = <<>> THEN 0 ELSE s[Len(s)].last

\* Every batch on its way to the master, in order.
Chain == (uploaded \o batch_chan) \o outgoing

\* The batches handed to the master, queued and about to be queued cut the
\* recorded metrics into consecutive windows: none missing, none twice, none
\* out of order, whatever ticks, cancellation, flush and failure do.
BatchesPartitionMetrics ==
    /\ Contiguous(uploaded)
    /\ telemetry # "failed" =>
          /\ Contiguous(Chain)
          /\ Covered(Chain) = taken
          /\ Len(Chain) = batch_seq

\* A run that ended with an acknowledged stream handed over every metric its
\* collector recorded, the partial last window included, cancelled or not.
RecordedIsDelivered ==
    pc = "done" /\ telemetry = "acked" => Covered(uploaded) = received

\* A run that nobody cancelled and whose stream was acknowledged reported every
\* iteration its virtual users executed.
NaturalRunLosesNothing ==
    pc = "done" /\ telemetry = "acked" /\ ~cancel => Covered(uploaded) = executed

\* The run is a RunTask: once its JoinHandle resolves, no virtual user executes
\* and nothing is uploaded, and it never reports more than it executed.
Task == INSTANCE RunTask WITH
    produced <- executed,
    reported <- Covered(uploaded),
    stage <- CASE pc = "done" -> "done"
               [] BatchTxDropped /\ pc # "done" -> "closing"
               [] OTHER -> "collecting"

ImplementsRunTask == Task!Spec

\* A run with a duration that is not cancelled, and whose upload does not fail,
\* ends by itself: the collector is unblocked when the last sender is dropped.
HealthyRunEnds ==
    limited /\ []~cancel /\ [](telemetry # "failed") => <>(pc = "done")

\* A run cancelled while the metric channel has a free slot for every virtual
\* user that has not returned ends, even if the upload fails meanwhile: after
\* the cancellation a virtual user sends at most one more metric.
RoomyCancelEnds ==
    (/\ cancel
     /\ sent - received + Cardinality(VUs \ InState("finished")) <= MetricCapacity)
    ~> pc = "done"

-----------------------------------------------------------------------------
(* The inductive invariant behind the safety properties.                   *)

\* How far the run got, seen from where run_orchestrator is.
CollectorDrained ==
    /\ pc = "flush_send" \/ BatchTxDropped => taken = received
    /\ telemetry = "acked" => BatchTxDropped /\ batch_chan = <<>>
    /\ (pc \notin {"loop", "tick_send"} /\ ~cancel /\ telemetry # "failed")
          => received = sent /\ MetricTxDropped
    /\ pc \in {"await_telemetry", "done"} => MetricTxDropped
    /\ pc = "done" => telemetry # "open"

\* A batch only counts metrics that were recorded.
BatchesWithinTaken ==
    /\ Covered(uploaded) <= taken
    /\ telemetry # "failed" => \A i \in 1 .. Len(Chain) : Chain[i].last <= taken

IInv ==
    /\ TypeOK
    /\ MetricsConserved
    /\ BatchesPartitionMetrics
    /\ CollectorDrained
    /\ BatchesWithinTaken

-----------------------------------------------------------------------------
(* What the source says of a run and its code does not keep.               *)

\* "Run the plan's virtual users until the duration elapses or `shutdown` fires"
\* (executor.rs 144): told to stop, the virtual users return.
VusStopWhenTold == MustStop ~> MetricTxDropped
=============================================================================
