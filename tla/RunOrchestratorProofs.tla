----------------------- MODULE RunOrchestratorProofs -----------------------
(***************************************************************************)
(* For every set of virtual users and all channel capacities: the safety   *)
(* properties of RunOrchestrator, and that it implements RunTask.          *)
(***************************************************************************)
EXTENDS RunOrchestrator, FiniteSetTheorems, SequenceTheorems, TLAPS

\* The named parts of a next-state step, for the case splits below.
LEMMA NextCases ==
    ASSUME Next
    PROVE  \/ DurationElapses \/ Cancel \/ SpawnVus \/ BuildEngineFails
           \/ \E v \in VUs : \/ VuStops(v) \/ VuBeginsIteration(v)
                             \/ VuEndsIteration(v) \/ VuSends(v)
           \/ LoopCancelled \/ LoopRecord \/ LoopChannelClosed \/ LoopTick
           \/ TickSend \/ Flush \/ FlushSend \/ AwaitVus \/ AwaitTelemetry
           \/ UploadBatch \/ UploadAcknowledged \/ UploadFails
BY Zenon DEF Next, Vu, Orchestrator, Upload

-----------------------------------------------------------------------------
(* Sequences of batches.                                                   *)

\* The number of metrics a chain of batches covers is a number.
LEMMA CoveredType ==
    ASSUME NEW s \in Seq(Batch)
    PROVE  Covered(s) \in Nat
<1>1. CASE s = <<>>
  BY <1>1, Zenon DEF Covered
<1>2. CASE s # <<>>
  <2>1. s[Len(s)] \in Batch
    BY <1>2
  <2> QED BY <1>2, <2>1, Zenon DEF Covered, Batch
<1> QED BY <1>1, <1>2, Zenon

\* A chain that is extended by a batch beginning where it ends is a chain.
LEMMA ContiguousAppend ==
    ASSUME NEW s \in Seq(Batch), NEW b \in Batch, Contiguous(s),
           b.batch_id = Len(s), b.first = Covered(s) + 1, b.first <= b.last
    PROVE  /\ Contiguous(s \o <<b>>)
           /\ Covered(s \o <<b>>) = b.last
           /\ Len(s \o <<b>>) = Len(s) + 1
<1> DEFINE t == s \o <<b>>
<1>1. /\ t \in Seq(Batch) /\ Len(t) = Len(s) + 1 /\ t[Len(s) + 1] = b
      /\ \A i \in 1 .. Len(s) : t[i] = s[i]
  OBVIOUS
<1>2. Covered(t) = b.last
  BY <1>1 DEF Covered
<1>3. ASSUME NEW i \in 1 .. Len(t)
      PROVE  /\ t[i].batch_id + 1 = i
             /\ t[i].first = (IF i = 1 THEN 1 ELSE t[i - 1].last + 1)
             /\ t[i].first <= t[i].last
  <2>1. CASE i \in 1 .. Len(s)
    BY <1>1, <2>1 DEF Contiguous
  <2>2. CASE i = Len(s) + 1
    <3>1. CASE s = <<>>
      BY <1>1, <2>2, <3>1 DEF Covered, Batch
    <3>2. CASE s # <<>>
      <4>1. Len(s) \in 1 .. Len(s)
        BY <3>2
      <4> QED BY <1>1, <2>2, <3>2, <4>1 DEF Covered, Batch
    <3> QED BY <3>1, <3>2, Zenon
  <2> QED BY <1>1, <2>1, <2>2
<1> QED BY <1>1, <1>2, <1>3, Zenon DEF Contiguous

\* The beginning of a chain is a chain.
LEMMA ContiguousPrefix ==
    ASSUME NEW s \in Seq(Batch), NEW t \in Seq(Batch), Contiguous(s \o t)
    PROVE  Contiguous(s)
<1>1. /\ Len(s \o t) = Len(s) + Len(t)
      /\ \A i \in 1 .. Len(s) : (s \o t)[i] = s[i]
  OBVIOUS
<1>2. ASSUME NEW i \in 1 .. Len(s)
      PROVE  /\ s[i].batch_id + 1 = i
             /\ s[i].first = (IF i = 1 THEN 1 ELSE s[i - 1].last + 1)
             /\ s[i].first <= s[i].last
  <2>1. i \in 1 .. Len(s \o t) /\ (i # 1 => i - 1 \in 1 .. Len(s))
    BY <1>1
  <2> QED BY <1>1, <2>1, Zenon DEF Contiguous
<1> QED BY <1>2, Zenon DEF Contiguous

-----------------------------------------------------------------------------
(* Types.                                                                  *)

\* The initial state has the right types.
LEMMA TypeInit == Init => TypeOK
<1> SUFFICES ASSUME Init PROVE TypeOK
  OBVIOUS
<1>1. limited \in BOOLEAN /\ elapsed \in BOOLEAN /\ cancel \in BOOLEAN
  BY Zenon DEF Init
<1>2. vu \in [VUs -> VuStates]
  BY Zenon DEF Init, VuStates
<1>3. /\ outgoing \in Seq(Batch) /\ batch_chan \in Seq(Batch) /\ uploaded \in Seq(Batch)
      /\ Len(outgoing) = 0
  BY DEF Init
<1> QED BY <1>1, <1>2, <1>3 DEF Init, TypeOK, PcStates

\* Every step keeps the types.
LEMMA TypeStep ==
    ASSUME TypeOK, MetricsConserved, [Next]_vars
    PROVE  TypeOK'
<1> USE DEF TypeOK, VuStates, PcStates
<1>1. CASE UNCHANGED vars
  BY <1>1, Zenon DEF vars
<1>2. CASE DurationElapses
  BY <1>2, Zenon DEF DurationElapses
<1>3. CASE Cancel
  BY <1>3, Zenon DEF Cancel
<1>4. CASE SpawnVus \/ BuildEngineFails
  BY <1>4, Zenon DEF SpawnVus, BuildEngineFails, orchestratorVars
<1>5. CASE \E v \in VUs : VuStops(v) \/ VuBeginsIteration(v) \/ VuEndsIteration(v) \/ VuSends(v)
  <2> PICK v \in VUs : VuStops(v) \/ VuBeginsIteration(v) \/ VuEndsIteration(v) \/ VuSends(v)
    BY <1>5, Zenon
  <2>1. CASE VuStops(v)
    BY <2>1, Zenon DEF VuStops, orchestratorVars
  <2>2. CASE VuBeginsIteration(v)
    BY <2>2 DEF VuBeginsIteration, orchestratorVars
  <2>3. CASE VuEndsIteration(v)
    BY <2>3 DEF VuEndsIteration, orchestratorVars
  <2>4. CASE VuSends(v)
    BY <2>4 DEF VuSends, orchestratorVars
  <2> QED BY <2>1, <2>2, <2>3, <2>4, Zenon
<1>6. CASE LoopCancelled \/ LoopRecord \/ LoopChannelClosed
  BY <1>6, SMTT(20) DEF LoopCancelled, LoopRecord, LoopChannelClosed, runVars
<1>7. ASSUME TakeBatch
      PROVE  outgoing' \in Seq(Batch) /\ Len(outgoing') = 1 /\ taken' \in Nat /\ batch_seq' \in Nat
  <2>1. [batch_id |-> batch_seq, first |-> taken + 1, last |-> received] \in Batch
    BY DEF Batch
  <2> QED BY <1>7, <2>1 DEF TakeBatch
<1>8. CASE LoopTick
  BY <1>7, <1>8, Zenon DEF LoopTick, runVars
<1>9. ASSUME SendBatch
      PROVE  outgoing' = <<>> /\ batch_chan' \in Seq(Batch)
  BY <1>9, SMTT(30) DEF SendBatch
<1>10. CASE TickSend
  BY <1>9, <1>10 DEF TickSend, runVars
<1>11. CASE Flush
  BY <1>7, <1>11, Zenon DEF Flush, runVars
<1>12. CASE FlushSend
  BY <1>9, <1>12 DEF FlushSend, runVars
<1>13. CASE AwaitVus \/ AwaitTelemetry
  <2>1. CASE AwaitVus
    BY <2>1, Zenon DEF AwaitVus, runVars
  <2>2. CASE AwaitTelemetry
    BY <2>2, Zenon DEF AwaitTelemetry, runVars
  <2> QED BY <1>13, <2>1, <2>2, Zenon
<1>14. CASE UploadBatch
  <2>1. Head(batch_chan) \in Batch /\ Tail(batch_chan) \in Seq(Batch)
    BY <1>14 DEF UploadBatch
  <2> QED BY <1>14, <2>1 DEF UploadBatch, runVars
<1>15. CASE UploadAcknowledged \/ UploadFails
  <2>1. CASE UploadAcknowledged
    BY <2>1, Zenon DEF UploadAcknowledged, runVars
  <2>2. CASE UploadFails
    BY <2>2 DEF UploadFails, runVars
  <2> QED BY <1>15, <2>1, <2>2, Zenon
<1> QED BY <1>1, <1>2, <1>3, <1>4, <1>5, <1>6, <1>8, <1>10, <1>11, <1>12, <1>13, <1>14, <1>15, NextCases, SMTT(20)

-----------------------------------------------------------------------------
(* Between the virtual users and the collector.                            *)

\* Moving one virtual user in or out of "sending" changes their number by one.
LEMMA SendingCount ==
    ASSUME TypeOK, NEW v \in VUs, NEW s \in VuStates, vu' = [vu EXCEPT ![v] = s]
    PROVE  /\ Cardinality(InState("sending")) \in Nat
           /\ vu[v] # "sending" /\ s # "sending"
                => InState("sending")' = InState("sending")
           /\ vu[v] # "sending" /\ s = "sending"
                => Cardinality(InState("sending")') = Cardinality(InState("sending")) + 1
           /\ vu[v] = "sending" /\ s # "sending"
                => Cardinality(InState("sending")') = Cardinality(InState("sending")) - 1
<1> DEFINE S == InState("sending")
<1>1. IsFiniteSet(S)
  BY FS_Subset, RunOrchestratorAssumption, Zenon DEF InState
<1>2. Cardinality(S) \in Nat
  BY <1>1, FS_CardinalityType, Zenon
<1>3. vu[v] # "sending" /\ s # "sending" => S' = S
  BY Zenon DEF TypeOK, InState
<1>4. vu[v] # "sending" /\ s = "sending" => S' = S \cup {v} /\ v \notin S
  BY Zenon DEF TypeOK, InState
<1>5. vu[v] = "sending" /\ s # "sending" => S' = S \ {v} /\ v \in S
  BY Zenon DEF TypeOK, InState
<1> QED BY <1>1, <1>2, <1>3, <1>4, <1>5, FS_AddElement, FS_RemoveElement

\* When no virtual user waits to send, the number of those that do is zero.
LEMMA NoneSending ==
    ASSUME TypeOK, \A v \in VUs : vu[v] # "sending"
    PROVE  Cardinality(InState("sending")) = 0
<1>1. InState("sending") = {}
  BY Zenon DEF InState
<1> QED BY <1>1, FS_EmptySet, Zenon

\* At first nothing was executed, and nothing is anywhere.
LEMMA ConservedInit == Init => MetricsConserved
<1> SUFFICES ASSUME Init PROVE MetricsConserved
  OBVIOUS
<1>1. \A v \in VUs : vu[v] # "sending"
  BY Zenon DEF Init
<1>2. Cardinality(InState("sending")) = 0
  BY <1>1, TypeInit, NoneSending, Zenon
<1> QED BY <1>2, RunOrchestratorAssumption DEF Init, MetricsConserved

\* Every step moves metrics without losing or doubling one.
LEMMA ConservedStep ==
    ASSUME TypeOK, MetricsConserved, [Next]_vars
    PROVE  MetricsConserved'
<1> USE RunOrchestratorAssumption DEF MetricsConserved
<1> DEFINE Sending == Cardinality(InState("sending"))
<1>t. /\ executed \in Nat /\ sent \in Nat /\ received \in Nat /\ taken \in Nat
      /\ vu \in [VUs -> VuStates]
  BY Zenon DEF TypeOK
<1>1. ASSUME UNCHANGED vu
      PROVE  Sending' = Sending
  BY <1>1, Zenon DEF InState
<1>2. ASSUME UNCHANGED <<vu, executed, sent, received, taken>>
      PROVE  MetricsConserved'
  BY <1>1, <1>2, Zenon
<1>3. CASE UNCHANGED vars
  BY <1>2, <1>3, Zenon DEF vars
<1>4. CASE DurationElapses
  BY <1>2, <1>4, Zenon DEF DurationElapses
<1>5. CASE Cancel
  BY <1>2, <1>5, Zenon DEF Cancel
<1>6. CASE SpawnVus \/ BuildEngineFails
  <2>1. \A v \in VUs : vu[v] # "sending" /\ vu'[v] # "sending"
    BY <1>6, Zenon DEF SpawnVus, BuildEngineFails, InState
  <2>2. InState("sending")' = InState("sending")
    BY <2>1, Zenon DEF InState
  <2>3. Sending' = Sending
    BY <2>2, Zenon
  <2>4. UNCHANGED <<executed, sent, received, taken>>
    BY <1>6, Zenon DEF SpawnVus, BuildEngineFails, orchestratorVars
  <2> QED BY <2>3, <2>4, Zenon
<1>7. ASSUME NEW v \in VUs, VuStops(v)
      PROVE  MetricsConserved'
  <2>1. Sending' = Sending
    BY <1>7, SendingCount, Zenon DEF VuStops, VuStates
  <2> QED BY <1>7, <2>1, Zenon DEF VuStops, orchestratorVars
<1>8. ASSUME NEW v \in VUs, VuBeginsIteration(v)
      PROVE  MetricsConserved'
  <2>1. Sending' = Sending
    BY <1>8, SendingCount, Zenon DEF VuBeginsIteration, VuStates
  <2> QED BY <1>8, <2>1, Zenon DEF VuBeginsIteration, orchestratorVars
<1>9. ASSUME NEW v \in VUs, VuEndsIteration(v)
      PROVE  MetricsConserved'
  <2>1. Sending' = Sending + 1 /\ Sending \in Nat
    BY <1>9, SendingCount, Zenon DEF VuEndsIteration, VuStates
  <2> QED BY <1>t, <1>9, <2>1 DEF VuEndsIteration, orchestratorVars
<1>10. ASSUME NEW v \in VUs, VuSends(v)
       PROVE  MetricsConserved'
  <2>1. Sending' = Sending - 1 /\ Sending \in Nat
    BY <1>10, SendingCount, Zenon DEF VuSends, VuStates
  <2> QED BY <1>t, <1>10, <2>1 DEF VuSends, orchestratorVars
<1>11. CASE LoopCancelled \/ LoopChannelClosed
  BY <1>2, <1>11, Zenon DEF LoopCancelled, LoopChannelClosed, runVars
<1>12. CASE LoopRecord
  BY <1>t, <1>1, <1>12 DEF LoopRecord, runVars
<1>13. CASE LoopTick
  BY <1>t, <1>1, <1>13 DEF LoopTick, TakeBatch, runVars
<1>14. CASE TickSend \/ FlushSend
  BY <1>2, <1>14, Zenon DEF TickSend, FlushSend, runVars
<1>15. CASE Flush
  BY <1>t, <1>1, <1>15 DEF Flush, TakeBatch, runVars
<1>16. CASE AwaitVus \/ AwaitTelemetry
  BY <1>2, <1>16, Zenon DEF AwaitVus, AwaitTelemetry, runVars
<1>17. CASE UploadBatch \/ UploadAcknowledged \/ UploadFails
  BY <1>2, <1>17, Zenon DEF UploadBatch, UploadAcknowledged, UploadFails, runVars
<1> QED BY <1>3, <1>4, <1>5, <1>6, <1>7, <1>8, <1>9, <1>10, <1>11, <1>12, <1>13,
           <1>14, <1>15, <1>16, <1>17, NextCases, Zenon

-----------------------------------------------------------------------------
(* Where run_orchestrator is.                                              *)

\* What a stage of the orchestrator implies about the channels is kept.
LEMMA DrainedStep ==
    ASSUME TypeOK, MetricsConserved, CollectorDrained, [Next]_vars
    PROVE  CollectorDrained'
<1> USE DEF CollectorDrained, BatchTxDropped
<1>t. /\ sent \in Nat /\ received \in Nat /\ taken \in Nat /\ pc \in PcStates
      /\ taken <= received /\ received <= sent
      /\ vu \in [VUs -> VuStates]
  BY Zenon DEF TypeOK, MetricsConserved
<1>f. ASSUME UNCHANGED vu
      PROVE  MetricTxDropped' <=> MetricTxDropped
  BY <1>f, Zenon DEF MetricTxDropped
<1>1. CASE UNCHANGED vars
  BY <1>1, <1>f, Zenon DEF vars
<1>2. CASE DurationElapses
  BY <1>2, <1>f, Zenon DEF DurationElapses
<1>3. CASE Cancel
  BY <1>3, <1>f, Zenon DEF Cancel
<1>4. CASE SpawnVus \/ BuildEngineFails
  <2>1. ~MetricTxDropped
    BY <1>4, RunOrchestratorAssumption, Zenon DEF SpawnVus, BuildEngineFails, MetricTxDropped, InState
  <2>2. UNCHANGED <<cancel, sent, received, taken, pc, batch_chan, telemetry>>
    BY <1>4, Zenon DEF SpawnVus, BuildEngineFails, orchestratorVars
  <2> QED BY <2>1, <2>2, Zenon
<1>5. ASSUME NEW v \in VUs,
             VuStops(v) \/ VuBeginsIteration(v) \/ VuEndsIteration(v) \/ VuSends(v)
      PROVE  CollectorDrained'
  <2>1. ~MetricTxDropped
    BY <1>5, Zenon DEF VuStops, VuBeginsIteration, VuEndsIteration, VuSends, MetricTxDropped
  <2>2. UNCHANGED <<cancel, received, taken, pc, batch_chan, telemetry>>
    BY <1>5, Zenon DEF VuStops, VuBeginsIteration, VuEndsIteration, VuSends, orchestratorVars
  <2> QED BY <2>1, <2>2, Zenon
<1>6. CASE LoopCancelled
  BY <1>6, <1>f, Zenon DEF LoopCancelled, runVars
<1>7. CASE LoopRecord
  BY <1>7, <1>f, Zenon DEF LoopRecord, runVars
<1>8. CASE LoopChannelClosed
  BY <1>8, <1>f, Zenon DEF LoopChannelClosed, runVars
<1>9. CASE LoopTick
  BY <1>9, <1>f, Zenon DEF LoopTick, TakeBatch, runVars
<1>10. CASE TickSend
  BY <1>t, <1>10, <1>f, Zenon DEF TickSend, SendBatch, TypeOK, runVars
<1>11. CASE Flush
  BY <1>11, <1>f, Zenon DEF Flush, TakeBatch, runVars
<1>12. CASE FlushSend
  BY <1>12, <1>f, Zenon DEF FlushSend, SendBatch, runVars
<1>13. CASE AwaitVus
  BY <1>13, <1>f, Zenon DEF AwaitVus, runVars
<1>14. CASE AwaitTelemetry
  BY <1>14, <1>f, Zenon DEF AwaitTelemetry, runVars
<1>15. CASE UploadBatch
  BY <1>15, <1>f, Zenon DEF UploadBatch, runVars
<1>16. CASE UploadAcknowledged
  BY <1>16, <1>f, Zenon DEF UploadAcknowledged, runVars
<1>17. CASE UploadFails
  BY <1>17, <1>f, Zenon DEF UploadFails, runVars
<1> QED BY SMTT(20), <1>1, <1>2, <1>3, <1>4, <1>5, <1>6, <1>7, <1>8, <1>9, <1>10, <1>11, <1>12,
           <1>13, <1>14, <1>15, <1>16, <1>17, NextCases

-----------------------------------------------------------------------------
(* The batches on their way to the master.                                 *)

\* The chain is a sequence of batches.
LEMMA ChainType ==
    ASSUME TypeOK
    PROVE  uploaded \o batch_chan \in Seq(Batch) /\ Chain \in Seq(Batch)
BY DEF TypeOK, Chain

\* Cutting a batch extends the chain by it.
LEMMA ChainAfterTake ==
    ASSUME TypeOK, outgoing = <<>>, UNCHANGED <<uploaded, batch_chan>>
    PROVE  Chain' = Chain \o outgoing'
<1>1. Chain = uploaded \o batch_chan
  BY ChainType, ConcatEmptySeq, Zenon DEF Chain
<1> QED BY <1>1, Zenon DEF Chain

\* Sending the batch in hand leaves the chain as it is.
LEMMA ChainAfterSend ==
    ASSUME TypeOK, batch_chan' = batch_chan \o outgoing, outgoing' = <<>>, UNCHANGED uploaded
    PROVE  Chain' = Chain
<1>1. Chain' = (uploaded \o (batch_chan \o outgoing)) \o <<>>
  BY Zenon DEF Chain
<1>2. batch_chan \o outgoing \in Seq(Batch)
  BY DEF TypeOK
<1>3. uploaded \o (batch_chan \o outgoing) \in Seq(Batch)
  BY <1>2 DEF TypeOK
<1>4. Chain' = uploaded \o (batch_chan \o outgoing)
  BY <1>1, <1>3, ConcatEmptySeq, Zenon
<1>5. (uploaded \o batch_chan) \o outgoing = uploaded \o (batch_chan \o outgoing)
  BY ConcatAssociative, SMTT(30) DEF TypeOK
<1> QED BY <1>4, <1>5, Zenon DEF Chain

\* So does uploading the first batch of the channel.
LEMMA ChainAfterUpload ==
    ASSUME TypeOK, UploadBatch
    PROVE  Chain' = Chain
<1> DEFINE b == Head(batch_chan)
           r == Tail(batch_chan)
<1>1. b \in Batch /\ r \in Seq(Batch) /\ uploaded \in Seq(Batch) /\ batch_chan = <<b>> \o r
  BY DEF TypeOK, UploadBatch
<1>2. Append(uploaded, b) = uploaded \o <<b>>
  BY <1>1, AppendIsConcat, Zenon
<1>3. (uploaded \o <<b>>) \o r = uploaded \o (<<b>> \o r)
  BY <1>1, ConcatAssociative
<1> QED BY <1>1, <1>2, <1>3, SMTT(20) DEF Chain, UploadBatch

\* The batch that take_batch cuts continues the chain.
LEMMA TakenBatchFits ==
    ASSUME TypeOK, BatchesPartitionMetrics, BatchesWithinTaken, TakeBatch, taken < received,
           outgoing = <<>>, UNCHANGED <<uploaded, batch_chan, telemetry>>
    PROVE  BatchesPartitionMetrics' /\ BatchesWithinTaken'
<1> DEFINE b == [batch_id |-> batch_seq, first |-> taken + 1, last |-> received]
<1>1. /\ outgoing' = <<b>> /\ taken' = received /\ batch_seq' = batch_seq + 1
      /\ taken \in Nat /\ received \in Nat /\ batch_seq \in Nat /\ b \in Batch
  BY DEF TypeOK, TakeBatch, Batch
<1>2. Chain \in Seq(Batch) /\ Chain' = Chain \o <<b>>
  BY <1>1, ChainType, ChainAfterTake, Zenon
<1>3. Covered(uploaded)' = Covered(uploaded) /\ Contiguous(uploaded)' = Contiguous(uploaded)
  BY Zenon DEF Covered, Contiguous
<1>4. Covered(uploaded) \in Nat
  BY CoveredType, Zenon DEF TypeOK
<1>5. CASE telemetry # "failed"
  <2>1. /\ Contiguous(Chain) /\ Covered(Chain) = taken /\ Len(Chain) = batch_seq
    BY <1>5, Zenon DEF BatchesPartitionMetrics
  <2>2. /\ Contiguous(Chain \o <<b>>) /\ Covered(Chain \o <<b>>) = received
        /\ Len(Chain \o <<b>>) = batch_seq + 1
    BY <1>1, <1>2, <2>1, ContiguousAppend, SMTT(20)
  <2>3. Contiguous(Chain)' /\ Covered(Chain)' = received /\ Len(Chain)' = batch_seq + 1
    BY <1>2, <2>2, Zenon DEF Contiguous, Covered
  <2>4. ASSUME NEW i \in 1 .. Len(Chain') PROVE Chain'[i].last <= received
    <3>1. CASE i \in 1 .. Len(Chain)
      <4>1. Chain'[i] = Chain[i] /\ Chain[i] \in Batch
        BY <1>1, <1>2, <3>1
      <4>2. Chain[i].last \in Nat /\ Chain[i].last <= taken
        BY <1>5, <3>1, <4>1, Zenon DEF BatchesWithinTaken, Batch
      <4> QED BY <1>1, <4>1, <4>2
    <3>2. CASE i = Len(Chain) + 1
      BY <1>1, <1>2, <3>2
    <3> QED BY <1>2, <3>1, <3>2
  <2> QED BY <1>1, <1>3, <1>4, <1>5, <2>3, <2>4, SMTT(20) DEF BatchesPartitionMetrics, BatchesWithinTaken
<1>6. CASE telemetry = "failed"
  BY <1>1, <1>3, <1>4, <1>6 DEF BatchesPartitionMetrics, BatchesWithinTaken
<1> QED BY <1>5, <1>6, Zenon

\* Every step keeps the batches a chain that ends where the open window begins.
LEMMA PartitionStep ==
    ASSUME TypeOK, BatchesPartitionMetrics, BatchesWithinTaken, CollectorDrained, [Next]_vars
    PROVE  BatchesPartitionMetrics' /\ BatchesWithinTaken'
<1>u. ASSUME UNCHANGED <<uploaded, batch_chan, outgoing, taken, batch_seq>>,
             telemetry' = "failed" \/ telemetry # "failed"
      PROVE  BatchesPartitionMetrics' /\ BatchesWithinTaken'
  BY <1>u, SMTT(20) DEF BatchesPartitionMetrics, BatchesWithinTaken, Chain, Covered, Contiguous
<1>v. ASSUME UNCHANGED <<uploaded, batch_chan, outgoing, taken, batch_seq, telemetry>>
      PROVE  BatchesPartitionMetrics' /\ BatchesWithinTaken'
  BY <1>v, SMTT(20) DEF BatchesPartitionMetrics, BatchesWithinTaken, Chain, Covered, Contiguous
\* A step after which the upload has failed only has to keep uploaded as it is.
<1>w. ASSUME UNCHANGED <<uploaded, taken>>, telemetry' = "failed"
      PROVE  BatchesPartitionMetrics' /\ BatchesWithinTaken'
  BY <1>w, Zenon DEF BatchesPartitionMetrics, BatchesWithinTaken, Covered, Contiguous
\* A step that moves a batch along the chain.
<1>c. ASSUME Chain' = Chain, UNCHANGED <<uploaded, taken, batch_seq, telemetry>>
      PROVE  BatchesPartitionMetrics' /\ BatchesWithinTaken'
  BY <1>c, Zenon DEF BatchesPartitionMetrics, BatchesWithinTaken, Covered, Contiguous
<1>1. CASE UNCHANGED vars
  BY <1>1, <1>v, Zenon DEF vars
<1>2. CASE DurationElapses
  BY <1>2, <1>v, Zenon DEF DurationElapses
<1>3. CASE Cancel
  BY <1>3, <1>v, Zenon DEF Cancel
<1>4. CASE SpawnVus \/ BuildEngineFails
  BY <1>4, <1>v, Zenon DEF SpawnVus, BuildEngineFails, orchestratorVars
<1>5. ASSUME NEW v \in VUs,
             VuStops(v) \/ VuBeginsIteration(v) \/ VuEndsIteration(v) \/ VuSends(v)
      PROVE  BatchesPartitionMetrics' /\ BatchesWithinTaken'
  BY <1>5, <1>v, Zenon DEF VuStops, VuBeginsIteration, VuEndsIteration, VuSends, orchestratorVars
<1>6. CASE LoopCancelled \/ LoopRecord \/ LoopChannelClosed \/ AwaitVus \/ AwaitTelemetry
  BY <1>6, <1>v, Zenon DEF LoopCancelled, LoopRecord, LoopChannelClosed, AwaitVus, AwaitTelemetry
<1>7. pc \notin {"tick_send", "flush_send"} => outgoing = <<>>
  BY DEF TypeOK
<1>8. CASE LoopTick
  BY <1>7, <1>8, TakenBatchFits, Zenon DEF LoopTick
<1>9. CASE TickSend \/ FlushSend
  <2>1. telemetry # "acked"
    BY <1>9, Zenon DEF CollectorDrained, BatchTxDropped, TickSend, FlushSend
  <2>2. SendBatch /\ UNCHANGED <<uploaded, taken, batch_seq, telemetry>>
    BY <1>9, Zenon DEF TickSend, FlushSend
  <2>3. CASE telemetry = "failed"
    BY <2>2, <2>3, <1>w, Zenon
  <2>4. CASE telemetry = "open"
    <3>1. batch_chan' = batch_chan \o outgoing /\ outgoing' = <<>>
      BY <2>2, <2>4, Zenon DEF SendBatch
    <3> QED BY <2>2, <3>1, <1>c, ChainAfterSend, Zenon
  <2> QED BY <2>1, <2>3, <2>4, Zenon DEF TypeOK
<1>10. CASE Flush
  <2>1. CASE taken < received
    <3>1. TakeBatch /\ UNCHANGED <<uploaded, batch_chan, telemetry>> /\ outgoing = <<>>
      BY <1>7, <1>10, <2>1 DEF Flush, TypeOK
    <3> QED BY <2>1, <3>1, TakenBatchFits, Zenon
  <2>2. CASE ~(taken < received)
    BY <1>10, <2>2, <1>v, Zenon DEF Flush
  <2> QED BY <2>1, <2>2, Zenon
<1>11. CASE UploadBatch
  <2>1. Chain' = Chain /\ Chain \in Seq(Batch)
    BY <1>11, ChainAfterUpload, ChainType, Zenon
  <2>2. /\ telemetry = "open" /\ UNCHANGED <<taken, batch_seq, telemetry>>
        /\ uploaded' \in Seq(Batch) /\ batch_chan' \in Seq(Batch) /\ outgoing' \in Seq(Batch)
        /\ uploaded' # <<>>
    BY <1>11, SMTT(30) DEF UploadBatch, TypeOK
  <2>3. /\ uploaded' \o batch_chan' \in Seq(Batch)
        /\ Chain' = (uploaded' \o batch_chan') \o outgoing'
    BY <2>2 DEF Chain
  <2>4. Contiguous(Chain')
    BY <2>1, <2>2, Zenon DEF BatchesPartitionMetrics
  <2>5. Contiguous(uploaded')
    BY <2>2, <2>3, <2>4, ContiguousPrefix, Zenon
  <2>6. /\ Len(uploaded') \in 1 .. Len(Chain')
        /\ Covered(uploaded') = Chain'[Len(uploaded')].last
    BY <2>2, <2>3 DEF Covered
  <2>7. Covered(uploaded') <= taken
    BY <2>1, <2>2, <2>6, Zenon DEF BatchesWithinTaken
  <2> QED BY <2>1, <2>2, <2>4, <2>5, <2>7, Zenon
    DEF BatchesPartitionMetrics, BatchesWithinTaken, Contiguous, Covered
<1>12. CASE UploadAcknowledged
  BY <1>12, <1>u, Zenon DEF UploadAcknowledged
<1>13. CASE UploadFails
  BY <1>13, <1>w, Zenon DEF UploadFails
<1> QED BY <1>1, <1>2, <1>3, <1>4, <1>5, <1>6, <1>8, <1>9, <1>10, <1>11, <1>12, <1>13, NextCases, Zenon

-----------------------------------------------------------------------------
(* The theorems.                                                           *)

\* A run begins in the invariant.
LEMMA InvInit == Init => IInv
<1> SUFFICES ASSUME Init PROVE IInv
  OBVIOUS
<1>1. TypeOK /\ MetricsConserved
  BY TypeInit, ConservedInit, Zenon
<1>2. uploaded = <<>> /\ Chain = <<>> /\ taken = 0 /\ batch_seq = 0
  BY DEF Init, Chain
<1>3. BatchesPartitionMetrics /\ BatchesWithinTaken
  BY <1>2 DEF BatchesPartitionMetrics, BatchesWithinTaken, Contiguous, Covered
<1>4. CollectorDrained
  BY Zenon DEF Init, CollectorDrained, BatchTxDropped
<1> QED BY <1>1, <1>3, <1>4, Zenon DEF IInv

\* The invariant is inductive.
LEMMA InvStep == IInv /\ [Next]_vars => IInv'
BY TypeStep, ConservedStep, PartitionStep, DrainedStep, Zenon DEF IInv

\* The inductive invariant of run_orchestrator holds in every reachable state.
THEOREM Invariance == Spec => []IInv
BY InvInit, InvStep, PTL DEF Spec

\* A run that ended with an acknowledged stream delivered what it recorded and,
\* when nobody cancelled it, all it executed (worker.rs 504-525).
LEMMA DeliveryFromInv == IInv => RecordedIsDelivered /\ NaturalRunLosesNothing
<1> SUFFICES ASSUME IInv, pc = "done", telemetry = "acked"
             PROVE  /\ Covered(uploaded) = received
                    /\ ~cancel => Covered(uploaded) = executed
  BY Zenon DEF RecordedIsDelivered, NaturalRunLosesNothing
<1>1. batch_chan = <<>> /\ outgoing = <<>> /\ taken = received /\ uploaded \in Seq(Batch)
  BY DEF IInv, TypeOK, CollectorDrained, BatchTxDropped
<1>2. Chain = uploaded
  BY <1>1, ConcatEmptySeq, Zenon DEF Chain
<1>3. Covered(uploaded) = received
  BY <1>1, <1>2, Zenon DEF IInv, BatchesPartitionMetrics
<1>4. ASSUME ~cancel PROVE received = executed
  <2>1. received = sent /\ MetricTxDropped
    BY <1>4, Zenon DEF IInv, CollectorDrained
  <2>2. Cardinality(InState("sending")) = 0
    BY <2>1, NoneSending, Zenon DEF IInv, MetricTxDropped
  <2> QED BY <2>1, <2>2 DEF IInv, MetricsConserved, TypeOK
<1> QED BY <1>3, <1>4, Zenon

\* The variables of a run keep their types, and a batch is in hand only across
\* batch_tx.send().await.
THEOREM TypeCorrect == Spec => []TypeOK
BY Invariance, PTL DEF IInv

\* No executed iteration is lost or counted twice before the collector records
\* it, and the metric channel stays within its capacity.
THEOREM Conservation == Spec => []MetricsConserved
BY Invariance, PTL DEF IInv

\* The batches sent, queued and in hand cut the recorded metrics into
\* consecutive windows (take_batch, telemetry.rs 146-190).
THEOREM Partition == Spec => []BatchesPartitionMetrics
BY Invariance, PTL DEF IInv

\* An acknowledged run delivered every metric it recorded, the flushed partial
\* window included (worker.rs 520-525).
THEOREM RecordedDelivery == Spec => []RecordedIsDelivered
BY Invariance, DeliveryFromInv, PTL

\* An acknowledged run that was not cancelled delivered every metric its
\* virtual users executed (worker.rs 504-525, executor.rs 168-199).
THEOREM NaturalDelivery == Spec => []NaturalRunLosesNothing
BY Invariance, DeliveryFromInv, PTL

-----------------------------------------------------------------------------
(* The run implements RunTask.                                             *)

Stage == CASE pc = "done" -> "done"
           [] BatchTxDropped /\ pc # "done" -> "closing"
           [] OTHER -> "collecting"

\* The stages of the orchestrator.
LEMMA StageValues ==
    /\ pc = "done" => Stage = "done"
    /\ pc \in {"await_vus", "await_telemetry"} => Stage = "closing"
    /\ pc \notin {"await_vus", "await_telemetry", "done"} => Stage = "collecting"
BY Zenon DEF Stage, BatchTxDropped

\* Uploading a batch reports more requests, and no more than were executed.
LEMMA UploadReports ==
    ASSUME IInv, IInv', UploadBatch
    PROVE  Covered(uploaded)' > Covered(uploaded) /\ Covered(uploaded)' <= executed
<1> DEFINE u == Append(uploaded, Head(batch_chan))
<1>1. /\ uploaded' = u /\ u \in Seq(Batch) /\ uploaded \in Seq(Batch)
      /\ Len(u) = Len(uploaded) + 1 /\ u # <<>>
      /\ \A i \in 1 .. Len(uploaded) : u[i] = uploaded[i]
  BY DEF IInv, TypeOK, UploadBatch
<1>2. Contiguous(u)
  BY <1>1, Zenon DEF IInv, BatchesPartitionMetrics, Contiguous
<1>3. Len(u) \in 1 .. Len(u) /\ u[Len(u)] \in Batch
  BY <1>1
<1>4. u[Len(u)].first = Covered(uploaded) + 1
  <2>1. CASE uploaded = <<>>
    BY <1>1, <1>2, <1>3, <2>1 DEF Contiguous, Covered
  <2>2. CASE uploaded # <<>>
    <3>1. Len(uploaded) \in 1 .. Len(uploaded) /\ Len(u) # 1 /\ Len(u) - 1 = Len(uploaded)
      BY <1>1, <2>2
    <3>2. u[Len(u)].first = u[Len(u) - 1].last + 1
      BY <1>2, <1>3, <3>1, Zenon DEF Contiguous
    <3> QED BY <1>1, <2>2, <3>1, <3>2, Zenon DEF Covered
  <2> QED BY <2>1, <2>2, Zenon
<1>5. Covered(u) = u[Len(u)].last /\ u[Len(u)].first <= u[Len(u)].last
  BY <1>1, <1>2, <1>3, Zenon DEF Contiguous, Covered
<1>6. Covered(uploaded)' = Covered(u) /\ Covered(uploaded) \in Nat /\ Covered(u) \in Nat
  BY <1>1, CoveredType, Zenon DEF Covered
<1>7. Covered(u) <= taken
  BY <1>6, Zenon DEF IInv, BatchesWithinTaken, UploadBatch
<1>8. Cardinality(InState("sending")) \in Nat
  BY FS_Subset, FS_CardinalityType, RunOrchestratorAssumption, Zenon DEF InState
<1>9. taken <= executed /\ taken \in Nat /\ executed \in Nat
  <2>1. taken \in Nat /\ received \in Nat /\ sent \in Nat /\ executed \in Nat
    BY Zenon DEF IInv, TypeOK
  <2>2. executed = sent + Cardinality(InState("sending")) /\ taken <= received /\ received <= sent
    BY Zenon DEF IInv, MetricsConserved
  <2> QED BY <1>8, <2>1, <2>2
<1> QED BY <1>4, <1>5, <1>6, <1>7, <1>9

\* Every step of the orchestrator is a step of RunTask or leaves it alone.
LEMMA RefinementStep ==
    ASSUME IInv, IInv', [Next]_vars
    PROVE  [Task!Next]_(Task!vars)
<1> USE DEF Task!Next, Task!vars
<1>s. /\ Task!Produce <=> /\ Stage # "done" /\ executed' = executed + 1
                          /\ Covered(uploaded)' = Covered(uploaded) /\ Stage' = Stage
      /\ Task!Report <=> /\ Stage # "done"
                         /\ Covered(uploaded)' > Covered(uploaded)
                         /\ Covered(uploaded)' <= executed
                         /\ executed' = executed /\ Stage' = Stage
      /\ Task!Close <=> /\ Stage = "collecting" /\ Stage' = "closing"
                        /\ executed' = executed /\ Covered(uploaded)' = Covered(uploaded)
      /\ Task!Finish <=> /\ Stage = "closing" /\ Stage' = "done"
                         /\ executed' = executed /\ Covered(uploaded)' = Covered(uploaded)
  BY Zenon DEF Task!Produce, Task!Report, Task!Close, Task!Finish, Stage
<1>n. ASSUME UNCHANGED <<executed, uploaded>>, Stage' = Stage
      PROVE  UNCHANGED Task!vars
  BY <1>n, Zenon DEF Stage, Covered
<1>p. ASSUME UNCHANGED pc
      PROVE  Stage' = Stage
  BY <1>p, Zenon DEF Stage, BatchTxDropped
<1>c. ASSUME UNCHANGED uploaded
      PROVE  Covered(uploaded)' = Covered(uploaded)
  BY <1>c, Zenon DEF Covered
<1>1. CASE UNCHANGED vars
  BY <1>1, <1>n, <1>p, Zenon DEF vars
<1>2. CASE DurationElapses \/ Cancel
  BY <1>2, <1>n, <1>p, Zenon DEF DurationElapses, Cancel
<1>3. CASE SpawnVus \/ BuildEngineFails
  BY <1>3, <1>n, <1>p, Zenon DEF SpawnVus, BuildEngineFails, orchestratorVars
<1>4. ASSUME NEW v \in VUs, VuStops(v) \/ VuBeginsIteration(v) \/ VuSends(v)
      PROVE  UNCHANGED Task!vars
  BY <1>4, <1>n, <1>p, Zenon DEF VuStops, VuBeginsIteration, VuSends, orchestratorVars
<1>5. ASSUME NEW v \in VUs, VuEndsIteration(v)
      PROVE  Task!Produce
  <2>1. pc # "done"
    BY <1>5, Zenon DEF IInv, CollectorDrained, MetricTxDropped, VuEndsIteration
  <2>2. Stage # "done"
    BY <2>1, StageValues, Zenon
  <2>3. executed' = executed + 1 /\ UNCHANGED <<pc, uploaded>>
    BY <1>5, Zenon DEF VuEndsIteration, orchestratorVars
  <2> QED BY <1>s, <1>p, <1>c, <2>2, <2>3, Zenon
<1>6. CASE LoopRecord
  BY <1>6, <1>n, <1>p, Zenon DEF LoopRecord, runVars
<1>7. ASSUME UNCHANGED <<executed, uploaded>>,
             pc \notin {"await_vus", "await_telemetry", "done"},
             pc' \notin {"await_vus", "await_telemetry", "done"}
      PROVE  UNCHANGED Task!vars
  <2>1. Stage = "collecting" /\ Stage' = "collecting"
    BY <1>7, Zenon DEF Stage, BatchTxDropped
  <2> QED BY <1>7, <1>n, <2>1, Zenon
<1>8. CASE LoopCancelled \/ LoopChannelClosed \/ LoopTick \/ TickSend
  BY <1>7, <1>8, Zenon DEF LoopCancelled, LoopChannelClosed, LoopTick, TickSend, runVars
<1>9. CASE Flush \/ FlushSend
  <2>1. UNCHANGED <<executed, uploaded>> /\ pc \in {"flush", "flush_send"}
        /\ pc' \in {"flush_send", "await_vus"}
    BY <1>9, Zenon DEF Flush, FlushSend, runVars
  <2>2. CASE pc' = "await_vus"
    <3>1. Stage = "collecting" /\ Stage' = "closing"
      BY <2>1, <2>2, Zenon DEF Stage, BatchTxDropped
    <3> QED BY <1>s, <1>c, <2>1, <3>1, Zenon
  <2>3. CASE pc' = "flush_send"
    BY <1>7, <2>1, <2>3, Zenon
  <2> QED BY <2>1, <2>2, <2>3, Zenon
<1>10. CASE AwaitVus
  <2>1. Stage = "closing" /\ Stage' = "closing" /\ UNCHANGED <<executed, uploaded>>
    BY <1>10, Zenon DEF AwaitVus, Stage, BatchTxDropped, runVars
  <2> QED BY <1>n, <2>1, Zenon
<1>11. CASE AwaitTelemetry
  <2>1. Stage = "closing" /\ Stage' = "done" /\ UNCHANGED <<executed, uploaded>>
    BY <1>11, Zenon DEF AwaitTelemetry, Stage, BatchTxDropped, runVars
  <2> QED BY <1>s, <1>c, <2>1, Zenon
<1>12. CASE UploadBatch
  <2>1. pc # "done" /\ UNCHANGED <<pc, executed>>
    BY <1>12, Zenon DEF IInv, CollectorDrained, UploadBatch, runVars
  <2>2. Stage # "done" /\ Stage' = Stage
    BY <1>p, <2>1, StageValues, Zenon DEF Stage, BatchTxDropped
  <2> QED BY <1>s, <1>12, <2>1, <2>2, UploadReports, Zenon
<1>13. CASE UploadAcknowledged \/ UploadFails
  BY <1>13, <1>n, <1>p, Zenon DEF UploadAcknowledged, UploadFails, runVars
<1> QED BY <1>1, <1>2, <1>3, <1>4, <1>5, <1>6, <1>8, <1>9, <1>10, <1>11, <1>12, <1>13, NextCases, SMTT(20)

\* A run is a RunTask: when its JoinHandle resolves it executes and reports
\* nothing more, which is what stop_run (worker.rs 122-133) relies on.
THEOREM Refinement == Spec => ImplementsRunTask
<1>1. Init => Task!Init
  BY Zenon DEF Init, Task!Init, Covered, BatchTxDropped
<1>2. IInv /\ IInv' /\ [Next]_vars => [Task!Next]_(Task!vars)
  BY RefinementStep, Zenon
<1> QED BY <1>1, <1>2, Invariance, PTL DEF Spec, Task!Spec, ImplementsRunTask

=============================================================================
