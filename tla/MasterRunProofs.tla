-------------------------- MODULE MasterRunProofs ---------------------------
(***************************************************************************)
(* For all calls of start_run, all workers, and any number of batches and  *)
(* aborts: the slot has one owner, whoever takes a run gets its report,    *)
(* and a report holds the batches of its own run.  The inductive invariant *)
(* comes first, then what sending and receiving do to the queue of a       *)
(* pipeline, the steps of start_run and abort, those of the telemetry      *)
(* streams and of the pipeline tasks, and the theorems.                    *)
(***************************************************************************)
EXTENDS MasterRun, TLAPS

Stages == {"barrier", "install", "broadcast", "wait", "take", "finalize", "returned"}

PipelineMessage ==
    [op : {"Batch"}, payload : Batch] \cup [op : {"Finalize"}, payload : Calls]
        \cup [op : {"Shutdown"}, payload : {NoRun}]

PipelineType == [alive : BOOLEAN, queue : Seq(PipelineMessage), batches : SUBSET Batch]

\* The types that the argument needs.
RunTypes ==
    /\ run \in Calls \cup {NoRun}
    /\ call \in [Calls -> Stages]
    /\ taken \in [Calls -> Calls \cup {NoRun}]
    /\ result \in [Calls -> Result]
    /\ stream \in [Workers \X Calls ->
                     [at : {"reading", "ingesting", "closed"}, read : 0 .. MaxBatches]]
    /\ \A w \in Workers, r \in Calls : stream[<<w, r>>].at = "ingesting" => stream[<<w, r>>].read > 0
    /\ pipeline \in [Calls -> [alive : BOOLEAN, queue : Seq(PipelineMessage), batches : SUBSET Batch]]
    /\ settled \in [Calls -> SUBSET Workers]
    /\ aborts \in Nat

Queue(r) == pipeline[r].queue
Queued(r, op) == \E i \in DOMAIN Queue(r) : Queue(r)[i].op = op

\* A run that is not installed yet has left no trace.
UninstalledIsFresh ==
    \A r \in Calls : call[r] \in {"barrier", "install"} =>
        /\ run # r
        /\ pipeline[r] = [alive |-> FALSE, queue |-> <<>>, batches |-> {}]
        /\ settled[r] = {}
        /\ \A w \in Workers : <<"START", w, r>> \notin commands
                              /\ stream[<<w, r>>] = [at |-> "reading", read |-> 0]
        /\ \A c \in Calls : taken[c] # r

\* As long as nobody aborts, whoever is between installing and taking owns the slot.
OwnerHasSlot ==
    aborts = 0 => \A c \in Calls :
        /\ call[c] \in {"broadcast", "wait", "take"} => run = c
        /\ taken[c] \in {c, NoRun}

\* The run in the slot has a pipeline that nobody asked to finalize or to stop, and
\* nobody else has it.
ActiveIsUntouched ==
    run # NoRun =>
        /\ pipeline[run].alive
        /\ ~Queued(run, "Finalize") /\ ~Queued(run, "Shutdown")
        /\ \A c \in Calls : taken[c] # run

\* A run has one taker; its pipeline is told to stop only when the taker has returned.
TakerIsAlone ==
    /\ \A c, d \in Calls : taken[c] = taken[d] /\ taken[c] # NoRun => c = d
    /\ \A c \in Calls : taken[c] # NoRun => call[c] \in {"finalize", "returned"}
    /\ \A c \in Calls : taken[c] # NoRun /\ Queued(taken[c], "Shutdown") => call[c] = "returned"
    /\ \A c \in Calls : call[c] = "finalize" => taken[c] # NoRun

\* A result is that of the run its caller took.
ResultIsTaken ==
    \A c \in Calls :
        /\ result[c].kind = "report" => result[c].run = taken[c] /\ taken[c] # NoRun
        /\ result[c].kind # "report" => result[c].run = NoRun /\ result[c].batches = {}

\* Whoever waits for a report has a Finalize in the queue of a living pipeline, and
\* every Finalize is somebody's who waits.
FinalizeIsPending ==
    /\ \A c \in Calls : call[c] = "finalize" /\ result[c].kind # "report" =>
          /\ pipeline[taken[c]].alive
          /\ \E i \in DOMAIN Queue(taken[c]) : Queue(taken[c])[i] = Message("Finalize", c)
    /\ \A r \in Calls : \A i \in DOMAIN Queue(r) :
          Queue(r)[i].op = "Finalize" => taken[Queue(r)[i].payload] = r

\* What a pipeline holds, or will, is of its own run.
BatchesAreOwn ==
    /\ \A r \in Calls : \A b \in pipeline[r].batches : b.run = r
    /\ \A r \in Calls : \A i \in DOMAIN Queue(r) :
          Queue(r)[i].op = "Batch" => Queue(r)[i].payload.run = r
    /\ NoForeignBatches

BatchOf(w, r, n) == [worker |-> w, run |-> r, id |-> n]

\* Batch b of r is ingested, or in the queue before position k.
HeldBefore(r, b, k) ==
    \/ b \in pipeline[r].batches
    \/ \E j \in DOMAIN Queue(r) : j < k /\ Queue(r)[j] = Message("Batch", b)

\* While its run is active, a stream's batches are with the pipeline, but for the one
\* that is being handed over; once the run was taken, those of the streams that had
\* closed by then are in front of the Finalize, or in the report.
ReadIsHeld ==
    /\ run # NoRun =>
          \A w \in Workers : \A n \in 1 .. stream[<<w, run>>].read :
              (stream[<<w, run>>].at = "ingesting" /\ n = stream[<<w, run>>].read)
              \/ HeldBefore(run, BatchOf(w, run, n), Len(Queue(run)) + 1)
    /\ \A r \in Calls : settled[r] \subseteq Closed(r)
    /\ \A r \in Calls : \A i \in DOMAIN Queue(r) : Queue(r)[i].op = "Finalize" =>
          \A w \in settled[r] : \A n \in 1 .. stream[<<w, r>>].read : HeldBefore(r, BatchOf(w, r, n), i)
    /\ ClosedStreamsAreReported

IInv ==
    /\ RunTypes /\ SlotIsOwned /\ UninstalledIsFresh /\ OwnerHasSlot /\ ActiveIsUntouched
    /\ TakerIsAlone /\ ResultIsTaken /\ FinalizeIsPending /\ BatchesAreOwn /\ ReadIsHeld

-----------------------------------------------------------------------------
(* The queue of a pipeline.                                                *)

\* A message sent is the last one of its queue, if the task lives; nothing else moves.
LEMMA SendEffect ==
    ASSUME RunTypes, NEW r \in Calls, NEW m \in PipelineMessage, pipeline' = Send(r, m)
    PROVE  /\ pipeline' \in [Calls -> [alive : BOOLEAN, queue : Seq(PipelineMessage), batches : SUBSET Batch]]
           /\ \A q \in Calls : pipeline'[q].alive = pipeline[q].alive
                               /\ pipeline'[q].batches = pipeline[q].batches
                               /\ Len(Queue(q)) \in Nat /\ Len(Queue(q)') \in Nat
                               /\ Len(Queue(q)) <= Len(Queue(q)')
                               /\ DOMAIN Queue(q) = 1 .. Len(Queue(q))
                               /\ DOMAIN Queue(q)' = 1 .. Len(Queue(q)')
           /\ \A q \in Calls : \A i \in DOMAIN Queue(q) :
                  i \in DOMAIN Queue(q)' /\ Queue(q)'[i] = Queue(q)[i]
           /\ \A q \in Calls : \A i \in DOMAIN Queue(q)' :
                  i \in DOMAIN Queue(q) \/ (q = r /\ i = Len(Queue(r)) + 1 /\ Queue(q)'[i] = m)
           /\ pipeline[r].alive => /\ Len(Queue(r)') = Len(Queue(r)) + 1
                                   /\ Queue(r)'[Len(Queue(r)) + 1] = m
           /\ \A q \in Calls \ {r} : pipeline'[q] = pipeline[q]
<1> DEFINE P == [alive : BOOLEAN, queue : Seq(PipelineMessage), batches : SUBSET Batch]
<1> HIDE DEF P
<1>1. pipeline \in [Calls -> P]
  BY Zenon DEF RunTypes, P
<1>2. \A q \in Calls : pipeline[q] \in P
  BY <1>1, Zenon
<1>3. \A p \in P : p.alive \in BOOLEAN /\ p.queue \in Seq(PipelineMessage) /\ p.batches \in SUBSET Batch
  BY Zenon DEF P
<1>4. CASE ~pipeline[r].alive
  <2>1. pipeline' = pipeline
    BY <1>1, <1>3, <1>4, Zenon DEF Send, P
  <2> QED BY <1>1, <1>2, <1>3, <1>4, <2>1 DEF Queue, P
<1>5. CASE pipeline[r].alive
  <2>1. pipeline' = [pipeline EXCEPT ![r].queue = Append(pipeline[r].queue, m)]
    BY <1>5, Zenon DEF Send
  <2>2. /\ \A q \in Calls \ {r} : pipeline'[q] = pipeline[q]
        /\ pipeline'[r].queue = Append(pipeline[r].queue, m)
        /\ pipeline'[r].alive = pipeline[r].alive /\ pipeline'[r].batches = pipeline[r].batches
        /\ pipeline' \in [Calls -> P]
    <3>1. Append(pipeline[r].queue, m) \in Seq(PipelineMessage)
      BY <1>2, <1>3
    <3>2. [pipeline[r] EXCEPT !.queue = Append(pipeline[r].queue, m)] \in P
      BY <1>2, <3>1, Zenon DEF P
    <3>3. pipeline' = [pipeline EXCEPT ![r] = [pipeline[r] EXCEPT !.queue = Append(pipeline[r].queue, m)]]
      BY <1>1, <2>1, Zenon
    <3> HIDE <2>1
    <3>4. pipeline' \in [Calls -> P] /\ (\A q \in Calls \ {r} : pipeline'[q] = pipeline[q])
          /\ pipeline'[r] = [pipeline[r] EXCEPT !.queue = Append(pipeline[r].queue, m)]
      BY <1>1, <3>2, <3>3, Zenon
    <3>5. pipeline[r] \in P
      BY <1>2, Zenon
    <3>6. /\ pipeline'[r].queue = Append(pipeline[r].queue, m)
          /\ pipeline'[r].alive = pipeline[r].alive /\ pipeline'[r].batches = pipeline[r].batches
      BY <3>4, <3>5, Zenon DEF P
    <3> QED BY <3>4, <3>6, Zenon
  <2>3. /\ Queue(r) \in Seq(PipelineMessage) /\ Queue(r)' = Append(Queue(r), m)
        /\ \A q \in Calls \ {r} : Queue(q)' = Queue(q) /\ Queue(q) \in Seq(PipelineMessage)
    BY <1>2, <1>3, <2>2, Zenon DEF Queue
  <2>4. /\ Len(Queue(r)) \in Nat /\ Len(Queue(r)') = Len(Queue(r)) + 1
        /\ DOMAIN Queue(r) = 1 .. Len(Queue(r)) /\ DOMAIN Queue(r)' = 1 .. Len(Queue(r)')
        /\ Queue(r)'[Len(Queue(r)) + 1] = m
        /\ \A i \in 1 .. Len(Queue(r)) : Queue(r)'[i] = Queue(r)[i]
    BY <2>3
  <2>5. \A q \in Calls \ {r} : /\ Len(Queue(q)) \in Nat /\ DOMAIN Queue(q) = 1 .. Len(Queue(q))
                               /\ Queue(q)' = Queue(q)
    BY <2>3
  <2>6. ASSUME NEW q \in Calls
        PROVE  /\ pipeline'[q].alive = pipeline[q].alive /\ pipeline'[q].batches = pipeline[q].batches
               /\ Len(Queue(q)) \in Nat /\ Len(Queue(q)') \in Nat /\ Len(Queue(q)) <= Len(Queue(q)')
               /\ DOMAIN Queue(q) = 1 .. Len(Queue(q)) /\ DOMAIN Queue(q)' = 1 .. Len(Queue(q)')
               /\ \A i \in DOMAIN Queue(q) : i \in DOMAIN Queue(q)' /\ Queue(q)'[i] = Queue(q)[i]
               /\ \A i \in DOMAIN Queue(q)' :
                     i \in DOMAIN Queue(q) \/ (q = r /\ i = Len(Queue(r)) + 1 /\ Queue(q)'[i] = m)
    <3>1. CASE q = r   BY <2>2, <2>4, <3>1
    <3>2. CASE q # r   BY <2>2, <2>5, <3>2
    <3> QED BY <3>1, <3>2, Zenon
  <2> QED BY <2>2, <2>4, <2>6, Zenon DEF P
<1> QED BY <1>4, <1>5, Zenon

\* Receiving takes the first message; the others move up.
LEMMA ReceiveEffect ==
    ASSUME RunTypes, NEW r \in Calls, Queue(r) # <<>>, Queue(r)' = Tail(Queue(r)),
           \A q \in Calls \ {r} : Queue(q)' = Queue(q)
    PROVE  /\ \A q \in Calls : /\ DOMAIN Queue(q) = 1 .. Len(Queue(q))
                               /\ DOMAIN Queue(q)' = 1 .. Len(Queue(q)')
                               /\ Len(Queue(q)) \in Nat /\ Len(Queue(q)') \in Nat
           /\ Len(Queue(r)) = Len(Queue(r)') + 1
           /\ Head(Queue(r)) = Queue(r)[1]
           /\ \A i \in DOMAIN Queue(r)' : i + 1 \in DOMAIN Queue(r) /\ Queue(r)'[i] = Queue(r)[i + 1]
           /\ \A i \in DOMAIN Queue(r) : i # 1 => i - 1 \in DOMAIN Queue(r)'
                                                /\ Queue(r)'[i - 1] = Queue(r)[i]
           /\ Queue(r)' \in Seq(PipelineMessage) /\ Head(Queue(r)) \in PipelineMessage
<1>1. \A q \in Calls : Queue(q) \in Seq(PipelineMessage)
  BY Zenon DEF RunTypes, Queue
<1>2. \A q \in Calls : Queue(q)' \in Seq(PipelineMessage)
  BY <1>1
<1>3. \A q \in Calls : /\ DOMAIN Queue(q) = 1 .. Len(Queue(q)) /\ DOMAIN Queue(q)' = 1 .. Len(Queue(q)')
                       /\ Len(Queue(q)) \in Nat /\ Len(Queue(q)') \in Nat
  BY <1>1, <1>2
<1>4. \A s \in Seq(PipelineMessage) : s # <<>> =>
          /\ Len(s) \in Nat /\ Len(s) = Len(Tail(s)) + 1 /\ Head(s) = s[1] /\ Head(s) \in PipelineMessage
          /\ \A i \in 1 .. Len(Tail(s)) : i + 1 \in 1 .. Len(s) /\ Tail(s)[i] = s[i + 1]
          /\ \A i \in 1 .. Len(s) : i # 1 => i - 1 \in 1 .. Len(Tail(s)) /\ Tail(s)[i - 1] = s[i]
  OBVIOUS
<1> QED BY <1>1, <1>2, <1>3, <1>4

-----------------------------------------------------------------------------
(* Steps of start_run that leave pipelines and streams alone.              *)

Owning == {"broadcast", "wait", "take"}

\* Call c moves on within or before its ownership of the slot, or gives up.
Quiet(c, to) ==
    /\ call[c] \notin {"finalize", "returned"} /\ to # "finalize"
    /\ call' = [call EXCEPT ![c] = to]
    /\ UNCHANGED <<taken, stream, pipeline, settled, aborts>>
    /\ result' = result \/ result' = [result EXCEPT ![c].kind = "error"]
    /\ \A w \in Workers : \A r \in Calls \ {c} : <<"START", w, r>> \in commands' => <<"START", w, r>> \in commands
    /\ to \in {"barrier", "install"} => call[c] \in {"barrier", "install"} /\ commands' = commands
    /\ to \in Owning => call[c] \in Owning
    /\ run' = c => to \in Owning
    /\ run' = run \/ (run' = NoRun /\ call[c] = "broadcast" /\ to = "returned")

\* A step that only moves a call, and at most clears the slot when nobody was started,
\* keeps the invariant.
LEMMA QuietKeepsInv ==
    ASSUME IInv, NEW c \in Calls, NEW to \in Stages, Quiet(c, to)
    PROVE  IInv'
<1> USE MasterRunAssumption
<1>1. taken[c] = NoRun /\ result[c].kind # "report"
  BY Zenon DEF IInv, TakerIsAlone, ResultIsTaken, Quiet
<1>2. /\ call \in [Calls -> Stages] /\ result \in [Calls -> Result]
      /\ call' = [call EXCEPT ![c] = to] /\ run' \in {run, NoRun}
      /\ taken' = taken /\ stream' = stream /\ pipeline' = pipeline /\ settled' = settled /\ aborts' = aborts
  BY Zenon DEF Quiet, IInv, RunTypes
<1>3. \A d \in Calls : /\ result'[d].run = result[d].run /\ result'[d].batches = result[d].batches
                       /\ result'[d].kind = "report" <=> result[d].kind = "report"
  BY <1>1, <1>2 DEF Quiet, Result
<1>4. \A q : Queue(q)' = Queue(q) /\ \A op : Queued(q, op)' = Queued(q, op)
  BY <1>2, Zenon DEF Queue, Queued
<1>5. RunTypes'
  <2>1. result' \in [Calls -> Result]
    BY <1>2 DEF Quiet, Result
  <2> QED BY <1>2, <2>1, Zenon DEF IInv, RunTypes
<1>6. SlotIsOwned'
  BY <1>2, Zenon DEF IInv, SlotIsOwned, Quiet, Owning, RunTypes
<1>7. UninstalledIsFresh'
  BY <1>2 DEF IInv, UninstalledIsFresh, Quiet, RunTypes
<1>8. OwnerHasSlot'
  BY <1>2, Zenon DEF IInv, OwnerHasSlot, Quiet, Owning
<1>9. ActiveIsUntouched'
  BY <1>2, <1>4, Zenon DEF IInv, ActiveIsUntouched
<1>10. TakerIsAlone'
  BY <1>1, <1>2, <1>4 DEF IInv, TakerIsAlone, Quiet
<1>11. ResultIsTaken'
  BY <1>2, <1>3, Zenon DEF IInv, ResultIsTaken
<1>12. FinalizeIsPending'
  BY <1>2, <1>3, <1>4 DEF IInv, FinalizeIsPending, Quiet
<1>13. BatchesAreOwn'
  BY <1>2, <1>3, <1>4, Zenon DEF IInv, BatchesAreOwn, NoForeignBatches
<1>14. ReadIsHeld'
  <2>1. \A r, b, k : HeldBefore(r, b, k)' = HeldBefore(r, b, k)
    BY <1>2, <1>4, Zenon DEF HeldBefore
  <2>2. \A r : Closed(r)' = Closed(r)
    BY <1>2, Zenon DEF Closed
  <2>3. ClosedStreamsAreReported'
    BY <1>2, <1>3, Zenon DEF IInv, ReadIsHeld, ClosedStreamsAreReported
  <2> QED BY <1>2, <1>4, <2>1, <2>2, <2>3, Zenon DEF IInv, ReadIsHeld
<1> QED BY <1>5, <1>6, <1>7, <1>8, <1>9, <1>10, <1>11, <1>12, <1>13, <1>14, Zenon DEF IInv

\* The steps of start_run up to its end, other than Install, are such steps.
LEMMA QuietSteps ==
    ASSUME IInv, NEW c \in Calls,
           \/ \E ws \in SUBSET Workers : BarrierReleases(c, ws)
           \/ BarrierFails(c) \/ InstallRejected(c) \/ \E w \in Workers : BroadcastStart(c, w)
           \/ BroadcastEnds(c) \/ NobodyStarted(c) \/ WaitEnds(c) \/ WaitExpires(c) \/ TakeFails(c)
    PROVE  \E to \in Stages : Quiet(c, to)
<1> USE MasterRunAssumption DEF Quiet, CallAt, ReturnsError, callVars, Owning, Stages
<1>1. ASSUME NEW ws \in SUBSET Workers, BarrierReleases(c, ws) PROVE Quiet(c, "install")
  BY <1>1, Zenon DEF BarrierReleases, IInv, SlotIsOwned, RunTypes
<1>2. CASE BarrierFails(c)
  <2>1. Quiet(c, "returned")
    BY <1>2, Zenon DEF BarrierFails, IInv, UninstalledIsFresh
  <2> QED BY <2>1, Zenon
<1>3. CASE InstallRejected(c)
  <2>1. Quiet(c, "returned")
    BY <1>3, Zenon DEF InstallRejected, IInv, UninstalledIsFresh
  <2> QED BY <2>1, Zenon
<1>4. ASSUME NEW w \in Workers, BroadcastStart(c, w) PROVE Quiet(c, "broadcast")
  BY <1>4, Zenon DEF BroadcastStart, IInv, RunTypes
<1>5. CASE BroadcastEnds(c)
  <2>1. Quiet(c, "wait")
    BY <1>5, Zenon DEF BroadcastEnds
  <2> QED BY <2>1, Zenon
<1>6. CASE NobodyStarted(c)
  <2>1. Quiet(c, "returned")
    BY <1>6, Zenon DEF NobodyStarted
  <2> QED BY <2>1, Zenon
<1>7. CASE WaitEnds(c)
  <2>1. Quiet(c, "take")
    BY <1>7, Zenon DEF WaitEnds
  <2> QED BY <2>1, Zenon
<1>8. CASE WaitExpires(c)
  <2>1. Quiet(c, "take")
    BY <1>8, Zenon DEF WaitExpires
  <2> QED BY <2>1, Zenon
<1>9. CASE TakeFails(c)
  <2>1. Quiet(c, "returned")
    BY <1>9, Zenon DEF TakeFails
  <2> QED BY <2>1, Zenon
<1> QED BY <1>1, <1>2, <1>3, <1>4, <1>5, <1>6, <1>7, <1>8, <1>9, Zenon

-----------------------------------------------------------------------------
(* The steps of start_run and abort that reach a pipeline.                 *)

\* start_run puts its run, which is fresh, into the empty slot.
LEMMA InstallKeepsInv ==
    ASSUME IInv, NEW c \in Calls, Install(c)
    PROVE  IInv'
<1> USE MasterRunAssumption
<1>1. /\ run = NoRun /\ run' = c /\ call[c] = "install" /\ call' = [call EXCEPT ![c] = "broadcast"]
      /\ pipeline' = [pipeline EXCEPT ![c].alive = TRUE]
      /\ UNCHANGED <<taken, result, stream, settled, aborts, commands>>
  BY Zenon DEF Install, InstallRun, CallAt
<1>2. /\ pipeline[c] = [alive |-> FALSE, queue |-> <<>>, batches |-> {}] /\ settled[c] = {}
      /\ \A w \in Workers : stream[<<w, c>>] = [at |-> "reading", read |-> 0]
      /\ \A d \in Calls : taken[d] # c
  BY <1>1, Zenon DEF IInv, UninstalledIsFresh
<1>3. /\ pipeline' \in [Calls -> [alive : BOOLEAN, queue : Seq(PipelineMessage), batches : SUBSET Batch]]
      /\ \A q \in Calls : pipeline'[q].queue = pipeline[q].queue /\ pipeline'[q].batches = pipeline[q].batches
      /\ pipeline'[c].alive
      /\ \A q \in Calls \ {c} : pipeline'[q] = pipeline[q]
  BY <1>1, <1>2, Zenon DEF IInv, RunTypes
<1>4. /\ \A q \in Calls : Queue(q)' = Queue(q) /\ (\A op : Queued(q, op)' = Queued(q, op))
      /\ Queue(c) = <<>>
  BY <1>2, <1>3 DEF Queue, Queued
<1>5. \A r \in Calls : \A b, k : HeldBefore(r, b, k)' = HeldBefore(r, b, k)
  BY <1>3, <1>4, Zenon DEF HeldBefore
<1>6. call \in [Calls -> Stages] /\ taken \in [Calls -> Calls \cup {NoRun}]
  BY Zenon DEF IInv, RunTypes
<1>7. RunTypes'
  BY <1>1, <1>3, Zenon DEF IInv, RunTypes, Stages
<1>8. SlotIsOwned'
  BY <1>1, <1>6, Zenon DEF SlotIsOwned
<1>9. UninstalledIsFresh'
  <2> SUFFICES ASSUME NEW r \in Calls, call'[r] \in {"barrier", "install"}
               PROVE  /\ run' # r /\ pipeline'[r] = [alive |-> FALSE, queue |-> <<>>, batches |-> {}]
                      /\ settled'[r] = {}
                      /\ \A w \in Workers : <<"START", w, r>> \notin commands'
                                            /\ stream'[<<w, r>>] = [at |-> "reading", read |-> 0]
                      /\ \A d \in Calls : taken'[d] # r
    BY Zenon DEF UninstalledIsFresh
  <2>1. r # c /\ call[r] \in {"barrier", "install"} /\ pipeline'[r] = pipeline[r]
    BY <1>1, <1>3, <1>6, Zenon
  <2> QED BY <1>1, <2>1, Zenon DEF IInv, UninstalledIsFresh
<1>10. OwnerHasSlot'
  BY <1>1, <1>6, Zenon DEF IInv, OwnerHasSlot
<1>11. ActiveIsUntouched'
  <2>1. ~Queued(c, "Finalize") /\ ~Queued(c, "Shutdown")
    BY <1>4 DEF Queued
  <2> QED BY <1>1, <1>2, <1>3, <1>4, <2>1 DEF ActiveIsUntouched
<1>12. TakerIsAlone'
  BY <1>1, <1>4, <1>6, Zenon DEF IInv, TakerIsAlone
<1>13. ResultIsTaken'
  BY <1>1, Zenon DEF IInv, ResultIsTaken
<1>14. FinalizeIsPending'
  <2>1. \A d \in Calls : call'[d] = "finalize" => call[d] = "finalize" /\ taken[d] \in Calls \ {c}
    BY <1>1, <1>2, <1>6, Zenon DEF IInv, TakerIsAlone
  <2> QED BY <1>1, <1>3, <1>4, <2>1 DEF IInv, FinalizeIsPending
<1>15. BatchesAreOwn'
  BY <1>1, <1>3, <1>4 DEF IInv, BatchesAreOwn, NoForeignBatches
<1>16. ReadIsHeld'
  <2>1. \A w \in Workers : 1 .. stream'[<<w, c>>].read = {}
    BY <1>1, <1>2
  <2>2. \A r : Closed(r)' = Closed(r)
    BY <1>1, Zenon DEF Closed
  <2>3. ClosedStreamsAreReported'
    BY <1>1, Zenon DEF IInv, ReadIsHeld, ClosedStreamsAreReported
  <2> QED BY <1>1, <1>4, <1>5, <2>1, <2>2, <2>3 DEF IInv, ReadIsHeld
<1> QED BY <1>7, <1>8, <1>9, <1>10, <1>11, <1>12, <1>13, <1>14, <1>15, <1>16, Zenon DEF IInv

\* A Shutdown reaches only a run that nobody has, or whose taker returns: abort, and
\* the end of start_run.
LEMMA ShutdownKeepsInv ==
    ASSUME IInv, NEW r \in Calls, pipeline' = Send(r, Message("Shutdown", NoRun)),
           UNCHANGED <<taken, result, stream, settled>>,
           \A w \in Workers : \A q \in Calls :
               <<"START", w, q>> \in commands' => <<"START", w, q>> \in commands,
           run' \in {run, NoRun}, run' # r, call[r] \notin {"barrier", "install"},
           call' \in [Calls -> Stages], aborts' \in Nat, aborts' = 0 => aborts = 0,
           \A c \in Calls : \/ call'[c] = call[c]
                            \/ call[c] = "finalize" /\ call'[c] = "returned" /\ result[c].kind = "report",
           \A c \in Calls : taken[c] = r => call'[c] = "returned",
           run' = run \/ aborts' # 0
    PROVE  IInv'
<1> USE MasterRunAssumption
<1> DEFINE m == Message("Shutdown", NoRun)
<1>1. m \in PipelineMessage /\ m.op = "Shutdown"
  BY Zenon DEF Message, PipelineMessage
<1>2. /\ pipeline' \in [Calls -> [alive : BOOLEAN, queue : Seq(PipelineMessage), batches : SUBSET Batch]]
      /\ \A q \in Calls : pipeline'[q].alive = pipeline[q].alive
                          /\ pipeline'[q].batches = pipeline[q].batches
                          /\ Len(Queue(q)) \in Nat /\ Len(Queue(q)') \in Nat
                          /\ Len(Queue(q)) <= Len(Queue(q)')
                          /\ DOMAIN Queue(q) = 1 .. Len(Queue(q))
                          /\ DOMAIN Queue(q)' = 1 .. Len(Queue(q)')
      /\ \A q \in Calls : \A i \in DOMAIN Queue(q) :
             i \in DOMAIN Queue(q)' /\ Queue(q)'[i] = Queue(q)[i]
      /\ \A q \in Calls : \A i \in DOMAIN Queue(q)' :
             i \in DOMAIN Queue(q) \/ (q = r /\ i = Len(Queue(r)) + 1 /\ Queue(q)'[i] = m)
      /\ \A q \in Calls \ {r} : pipeline'[q] = pipeline[q]
  BY <1>1, SendEffect DEF IInv
<1> HIDE DEF m
<1>3. \A q \in Calls : \A i \in DOMAIN Queue(q)' : Queue(q)'[i].op # "Shutdown" \/ q # r =>
          i \in DOMAIN Queue(q) /\ Queue(q)'[i] = Queue(q)[i]
  BY <1>1, <1>2
<1>4. call \in [Calls -> Stages] /\ taken \in [Calls -> Calls \cup {NoRun}]
  BY Zenon DEF IInv, RunTypes
<1>5. RunTypes'
  BY <1>2, SMTT(20) DEF IInv, RunTypes
<1>6. SlotIsOwned'
  BY <1>4, Zenon DEF IInv, SlotIsOwned, RunTypes
<1>7. UninstalledIsFresh'
  <2> SUFFICES ASSUME NEW q \in Calls, call'[q] \in {"barrier", "install"}
               PROVE  /\ run' # q /\ pipeline'[q] = [alive |-> FALSE, queue |-> <<>>, batches |-> {}]
                      /\ settled'[q] = {}
                      /\ \A w \in Workers : <<"START", w, q>> \notin commands'
                                            /\ stream'[<<w, q>>] = [at |-> "reading", read |-> 0]
                      /\ \A d \in Calls : taken'[d] # q
    BY Zenon DEF UninstalledIsFresh
  <2>1. q # r /\ call[q] \in {"barrier", "install"}
    OBVIOUS
  <2>2. pipeline'[q] = pipeline[q]
    BY <1>2, <2>1, Zenon
  <2> QED BY <2>1, <2>2 DEF IInv, UninstalledIsFresh
<1>8. OwnerHasSlot'
  BY Zenon DEF IInv, OwnerHasSlot
<1>9. ActiveIsUntouched'
  <2> SUFFICES ASSUME run' # NoRun
               PROVE  /\ pipeline'[run].alive /\ ~Queued(run, "Finalize")' /\ ~Queued(run, "Shutdown")'
                      /\ run' = run /\ \A c \in Calls : taken[c] # run
    BY Zenon DEF ActiveIsUntouched
  <2>1. run \in Calls /\ run # r /\ run' = run
    BY Zenon DEF IInv, RunTypes
  <2>2. pipeline'[run] = pipeline[run]
    BY <1>2, <2>1, Zenon
  <2> QED BY <2>1, <2>2 DEF IInv, ActiveIsUntouched, Queued, Queue
<1>10. TakerIsAlone'
  <2>1. ASSUME NEW c \in Calls, taken'[c] # NoRun, Queued(taken[c], "Shutdown")'
        PROVE  call'[c] = "returned"
    <3>1. CASE taken[c] = r   BY <3>1
    <3>2. CASE taken[c] # r
      <4>1. taken[c] \in Calls \ {r}
        BY <1>4, <2>1, <3>2, Zenon
      <4>2. pipeline'[taken[c]] = pipeline[taken[c]]
        BY <1>2, <4>1, Zenon
      <4>3. Queued(taken[c], "Shutdown")
        BY <2>1, <4>2, Zenon DEF Queued, Queue
      <4> QED BY <2>1, <4>3, Zenon DEF IInv, TakerIsAlone
    <3> QED BY <3>1, <3>2, Zenon
  <2> QED BY <1>4, <2>1, Zenon DEF IInv, TakerIsAlone
<1>11. ResultIsTaken'
  BY Zenon DEF IInv, ResultIsTaken
<1>12. FinalizeIsPending'
  <2>1. \A c \in Calls : call'[c] = "finalize" => call[c] = "finalize" /\ taken[c] \in Calls
    BY <1>4, Zenon DEF IInv, TakerIsAlone
  <2>2. ASSUME NEW c \in Calls, call'[c] = "finalize", result'[c].kind # "report"
        PROVE  /\ pipeline'[taken[c]].alive
               /\ \E i \in DOMAIN Queue(taken[c])' : Queue(taken[c])'[i] = Message("Finalize", c)
    <3>1. PICK i \in DOMAIN Queue(taken[c]) : Queue(taken[c])[i] = Message("Finalize", c)
      BY <2>1, <2>2, Zenon DEF IInv, FinalizeIsPending
    <3>2. taken[c] \in Calls /\ pipeline[taken[c]].alive
      BY <2>1, <2>2, Zenon DEF IInv, FinalizeIsPending
    <3>3. i \in DOMAIN Queue(taken[c])' /\ Queue(taken[c])'[i] = Queue(taken[c])[i]
          /\ pipeline'[taken[c]].alive
      BY <1>2, <3>2, SMTT(20)
    <3> QED BY <3>1, <3>3, Zenon
  <2>3. ASSUME NEW q \in Calls, NEW i \in DOMAIN Queue(q)', Queue(q)'[i].op = "Finalize"
        PROVE  taken[Queue(q)'[i].payload] = q
    BY <1>3, <2>3 DEF IInv, FinalizeIsPending
  <2> QED BY <2>2, <2>3, Zenon DEF FinalizeIsPending
<1>13. BatchesAreOwn'
  <2>1. ASSUME NEW q \in Calls, NEW i \in DOMAIN Queue(q)', Queue(q)'[i].op = "Batch"
        PROVE  Queue(q)'[i].payload.run = q
    BY <1>3, <2>1 DEF IInv, BatchesAreOwn
  <2>2. \A q \in Calls : \A b \in pipeline'[q].batches : b.run = q
    BY <1>2, Zenon DEF IInv, BatchesAreOwn
  <2>3. NoForeignBatches'
    BY Zenon DEF IInv, BatchesAreOwn, NoForeignBatches
  <2> QED BY <2>1, <2>2, <2>3, Zenon DEF BatchesAreOwn
<1>14. ReadIsHeld'
  <2>1. \A q \in Calls : \A b, k : HeldBefore(q, b, k) => HeldBefore(q, b, k)'
    BY <1>2 DEF HeldBefore
  <2>2. \A q : Closed(q)' = Closed(q)
    BY Zenon DEF Closed
  <2>3. ClosedStreamsAreReported'
    BY Zenon DEF IInv, ReadIsHeld, ClosedStreamsAreReported
  <2>4. run' # NoRun => pipeline'[run] = pipeline[run] /\ run' = run /\ run \in Calls
    BY <1>2, Zenon DEF IInv, RunTypes
  <2>5. run' # NoRun =>
            \A w \in Workers : \A n \in 1 .. stream'[<<w, run'>>].read :
                (stream'[<<w, run'>>].at = "ingesting" /\ n = stream'[<<w, run'>>].read)
                \/ HeldBefore(run, BatchOf(w, run, n), Len(Queue(run)) + 1)'
    BY <2>4 DEF IInv, ReadIsHeld, HeldBefore, Queue, BatchOf
  <2>6. ASSUME NEW q \in Calls, NEW i \in DOMAIN Queue(q)', Queue(q)'[i].op = "Finalize",
               NEW w \in settled'[q], NEW n \in 1 .. stream'[<<w, q>>].read
        PROVE  HeldBefore(q, BatchOf(w, q, n), i)'
    BY <1>3, <2>1, <2>6, Zenon DEF IInv, ReadIsHeld
  <2> QED BY <2>2, <2>3, <2>5, <2>6, Zenon DEF IInv, ReadIsHeld, BatchOf
<1> QED BY <1>5, <1>6, <1>7, <1>8, <1>9, <1>10, <1>11, <1>12, <1>13, <1>14, Zenon DEF IInv

\* A call with its report stops the pipeline of the run it took.
LEMMA ReturnsKeepsInv ==
    ASSUME IInv, NEW c \in Calls, Returns(c)
    PROVE  IInv'
<1> USE MasterRunAssumption
<1>1. taken[c] \in Calls
  BY Zenon DEF IInv, RunTypes, TakerIsAlone, Returns, CallAt
<1>2. call[taken[c]] \notin {"barrier", "install"} /\ run # taken[c]
  BY <1>1 DEF IInv, UninstalledIsFresh, ActiveIsUntouched, RunTypes
<1>3. /\ call[c] = "finalize" /\ call' = [call EXCEPT ![c] = "returned"] /\ result[c].kind = "report"
      /\ pipeline' = Send(taken[c], Message("Shutdown", NoRun))
      /\ UNCHANGED <<run, taken, result, stream, settled, aborts, commands>>
  BY Zenon DEF Returns, CallAt, callVars
<1>4. call' \in [Calls -> Stages] /\ aborts \in Nat /\ call \in [Calls -> Stages]
  BY <1>3, Zenon DEF IInv, RunTypes, Stages
<1>5. \A d \in Calls : taken[d] = taken[c] => call'[d] = "returned"
  BY <1>1, <1>3, <1>4, Zenon DEF IInv, TakerIsAlone
<1>6. \A d \in Calls : \/ call'[d] = call[d]
                       \/ call[d] = "finalize" /\ call'[d] = "returned" /\ result[d].kind = "report"
  BY <1>3, <1>4, Zenon
<1> QED BY <1>1, <1>2, <1>3, <1>4, <1>5, <1>6, ShutdownKeepsInv, Zenon

\* abort takes the run out of the slot and stops its pipeline.
LEMMA AbortKeepsInv ==
    ASSUME IInv, Abort
    PROVE  IInv'
<1> USE MasterRunAssumption
<1>1. /\ run \in Calls /\ run' = NoRun /\ aborts' = aborts + 1 /\ aborts \in Nat
      /\ pipeline' = Send(run, Message("Shutdown", NoRun))
      /\ UNCHANGED <<call, taken, result, stream, settled>>
      /\ call \in [Calls -> Stages]
  BY Zenon DEF IInv, RunTypes, Abort
<1>2. call[run] \notin {"barrier", "install"} /\ \A c \in Calls : taken[c] # run
  BY <1>1, Zenon DEF IInv, SlotIsOwned, ActiveIsUntouched
<1>3. \A w \in Workers : \A q \in Calls :
          <<"START", w, q>> \in commands' => <<"START", w, q>> \in commands
  BY Zenon DEF Abort
<1> QED BY <1>1, <1>2, <1>3, ShutdownKeepsInv

\* At its end start_run takes the run and asks its pipeline for the report.
LEMMA TakeKeepsInv ==
    ASSUME IInv, NEW c \in Calls, Take(c)
    PROVE  IInv'
<1> USE MasterRunAssumption
<1> DEFINE m == Message("Finalize", c)
<1>1. /\ run \in Calls /\ run' = NoRun /\ call[c] = "take" /\ call' = [call EXCEPT ![c] = "finalize"]
      /\ taken' = [taken EXCEPT ![c] = run] /\ settled' = [settled EXCEPT ![run] = Closed(run)]
      /\ pipeline' = Send(run, m) /\ UNCHANGED <<result, stream, aborts, commands>>
      /\ call \in [Calls -> Stages] /\ taken \in [Calls -> Calls \cup {NoRun}]
      /\ settled \in [Calls -> SUBSET Workers]
  BY Zenon DEF Take, CallAt, IInv, RunTypes
<1>2. m \in PipelineMessage /\ m.op = "Finalize" /\ m.payload = c
  BY Zenon DEF Message, PipelineMessage
<1>3. /\ pipeline' \in [Calls -> [alive : BOOLEAN, queue : Seq(PipelineMessage), batches : SUBSET Batch]]
      /\ \A q \in Calls : pipeline'[q].alive = pipeline[q].alive
                          /\ pipeline'[q].batches = pipeline[q].batches
                          /\ Len(Queue(q)) \in Nat /\ Len(Queue(q)') \in Nat
                          /\ DOMAIN Queue(q) = 1 .. Len(Queue(q))
                          /\ DOMAIN Queue(q)' = 1 .. Len(Queue(q)')
      /\ \A q \in Calls : \A i \in DOMAIN Queue(q) :
             i \in DOMAIN Queue(q)' /\ Queue(q)'[i] = Queue(q)[i]
      /\ \A q \in Calls : \A i \in DOMAIN Queue(q)' :
             i \in DOMAIN Queue(q) \/ (q = run /\ i = Len(Queue(run)) + 1 /\ Queue(q)'[i] = m)
      /\ pipeline[run].alive => pipeline'[run].queue[Len(Queue(run)) + 1] = m
                                /\ Len(pipeline'[run].queue) = Len(Queue(run)) + 1
      /\ \A q \in Calls \ {run} : pipeline'[q] = pipeline[q]
  <2>1. \A r \in Calls : Queue(r)' = pipeline'[r].queue
    BY Zenon DEF Queue
  <2>2. PICK r \in Calls : r = run
    BY <1>1, Zenon
  <2>3. RunTypes /\ pipeline' = Send(r, m)
    BY <1>1, <2>2, Zenon DEF IInv
  <2> QED BY <1>2, <2>1, <2>2, <2>3, SendEffect
<1> HIDE DEF m
<1>4. taken[c] = NoRun /\ result[c].kind # "report"
  BY <1>1, Zenon DEF IInv, TakerIsAlone, ResultIsTaken
<1>5. /\ pipeline[run].alive /\ call[run] \in {"broadcast", "wait", "take"}
      /\ ~Queued(run, "Finalize") /\ ~Queued(run, "Shutdown") /\ \A d \in Calls : taken[d] # run
  BY <1>1, Zenon DEF IInv, ActiveIsUntouched, SlotIsOwned
<1>6. \A q \in Calls : \A i \in DOMAIN Queue(q)' : Queue(q)'[i].op # "Finalize" \/ q # run =>
          i \in DOMAIN Queue(q) /\ Queue(q)'[i] = Queue(q)[i]
  BY <1>2, <1>3, Zenon
<1>7. RunTypes'
  BY <1>1, <1>3, Zenon DEF IInv, RunTypes, Closed, Stages
<1>8. SlotIsOwned'
  BY <1>1, Zenon DEF SlotIsOwned
<1>9. UninstalledIsFresh'
  <2> SUFFICES ASSUME NEW q \in Calls, call'[q] \in {"barrier", "install"}
               PROVE  /\ run' # q /\ pipeline'[q] = [alive |-> FALSE, queue |-> <<>>, batches |-> {}]
                      /\ settled'[q] = {}
                      /\ \A w \in Workers : <<"START", w, q>> \notin commands'
                                            /\ stream'[<<w, q>>] = [at |-> "reading", read |-> 0]
                      /\ \A d \in Calls : taken'[d] # q
    BY Zenon DEF UninstalledIsFresh
  <2>1. q # run /\ q # c /\ call[q] \in {"barrier", "install"}
    BY <1>1, <1>5, Zenon
  <2>2. pipeline'[q] = pipeline[q] /\ settled'[q] = settled[q] /\ \A d \in Calls : taken'[d] \in {taken[d], run}
    BY <1>1, <1>3, <2>1, Zenon
  <2> QED BY <1>1, <2>1, <2>2, Zenon DEF IInv, UninstalledIsFresh
<1>10. OwnerHasSlot'
  BY <1>1, Zenon DEF IInv, OwnerHasSlot
<1>11. ActiveIsUntouched'
  BY <1>1, Zenon DEF ActiveIsUntouched
<1>12. TakerIsAlone'
  <2>1. ASSUME NEW d \in Calls, taken'[d] # NoRun, Queued(taken[d], "Shutdown")'
        PROVE  call'[d] = "returned"
    <3>1. PICK r \in Calls : r = taken'[d]
      BY <1>1, <2>1, Zenon
    <3>2. PICK i \in DOMAIN Queue(r)' : Queue(r)'[i].op = "Shutdown"
      BY <2>1, <3>1, Zenon DEF Queued, Queue
    <3>3. Queued(r, "Shutdown")
      BY <1>2, <1>3, <3>2, SMTT(20) DEF Queued
    <3>4. d # c
      BY <1>1, <1>5, <3>1, <3>3, Zenon
    <3>5. taken'[d] = taken[d] /\ call'[d] = call[d]
      BY <1>1, <3>4, Zenon
    <3> QED BY <2>1, <3>1, <3>3, <3>5, Zenon DEF IInv, TakerIsAlone
  <2>2. \A d, e \in Calls : taken'[d] = taken'[e] /\ taken'[d] # NoRun => d = e
    BY <1>1, <1>5, Zenon DEF IInv, TakerIsAlone
  <2>3. \A d \in Calls : /\ taken'[d] # NoRun => call'[d] \in {"finalize", "returned"}
                         /\ call'[d] = "finalize" => taken'[d] # NoRun
    BY <1>1, Zenon DEF IInv, TakerIsAlone
  <2> QED BY <2>1, <2>2, <2>3, Zenon DEF TakerIsAlone
<1>13. ResultIsTaken'
  BY <1>1, <1>4, Zenon DEF IInv, ResultIsTaken
<1>14. FinalizeIsPending'
  <2>1. ASSUME NEW d \in Calls, call'[d] = "finalize", result'[d].kind # "report"
        PROVE  /\ pipeline'[taken'[d]].alive
               /\ \E i \in DOMAIN pipeline'[taken'[d]].queue :
                     pipeline'[taken'[d]].queue[i] = Message("Finalize", d)
    <3>1. PICK r \in Calls : r = taken'[d]
      BY <1>1, <2>1, Zenon DEF IInv, TakerIsAlone
    <3>2. Queue(r)' = pipeline'[r].queue
      BY Zenon DEF Queue
    <3>3. CASE d = c
      <4>1. r = run
        BY <1>1, <3>1, <3>3, Zenon
      <4>2. /\ Len(Queue(r)) + 1 \in DOMAIN Queue(r)'
            /\ Queue(r)'[Len(Queue(r)) + 1] = Message("Finalize", d) /\ pipeline'[r].alive
        BY <1>3, <1>5, <3>2, <3>3, <4>1 DEF m
      <4> QED BY <3>1, <3>2, <4>2, Zenon
    <3>4. CASE d # c
      <4>1. call[d] = "finalize" /\ r = taken[d] /\ result[d].kind # "report"
        BY <1>1, <2>1, <3>1, <3>4, Zenon
      <4>2. PICK i \in DOMAIN Queue(r) : Queue(r)[i] = Message("Finalize", d)
        BY <4>1, Zenon DEF IInv, FinalizeIsPending
      <4>3. pipeline[r].alive
        BY <4>1, Zenon DEF IInv, FinalizeIsPending
      <4>4. i \in DOMAIN Queue(r)' /\ Queue(r)'[i] = Queue(r)[i] /\ pipeline'[r].alive
        BY <1>3, <4>2, <4>3, SMTT(20)
      <4> QED BY <3>1, <3>2, <4>2, <4>4, Zenon
    <3> QED BY <3>3, <3>4, Zenon
  <2>2. ASSUME NEW q \in Calls, NEW i \in DOMAIN Queue(q)', Queue(q)'[i].op = "Finalize"
        PROVE  taken'[Queue(q)'[i].payload] = q
    <3>1. CASE i \in DOMAIN Queue(q)
      <4>0. Queue(q)'[i] = Queue(q)[i] /\ Queue(q)[i].op = "Finalize"
        BY <1>3, <2>2, <3>1, Zenon
      <4>1. Queue(q)'[i] = Queue(q)[i] /\ taken[Queue(q)[i].payload] = q
        BY <3>1, <4>0, Zenon DEF IInv, FinalizeIsPending
      <4>2. q # run
        BY <1>5, <2>2, <3>1, <4>1, Zenon DEF Queued
      <4>3. Queue(q)[i].payload # c
        BY <1>1, <1>4, <4>1, Zenon
      <4> QED BY <1>1, <4>1, <4>3
    <3>2. CASE i \notin DOMAIN Queue(q)
      BY <1>1, <1>2, <1>3, <3>2, ZenonT(40)
    <3> QED BY <3>1, <3>2, Zenon
  <2> QED BY <2>1, <2>2, Zenon DEF FinalizeIsPending, Queue
<1>15. BatchesAreOwn'
  <2>1. ASSUME NEW q \in Calls, NEW i \in DOMAIN Queue(q)', Queue(q)'[i].op = "Batch"
        PROVE  Queue(q)'[i].payload.run = q
    BY <1>6, <2>1, ZenonT(40) DEF IInv, BatchesAreOwn
  <2>2. \A q \in Calls : \A b \in pipeline'[q].batches : b.run = q
    BY <1>3, SMTT(20) DEF IInv, BatchesAreOwn
  <2>3. NoForeignBatches'
    BY <1>1, Zenon DEF IInv, BatchesAreOwn, NoForeignBatches
  <2> QED BY <2>1, <2>2, <2>3, Zenon DEF BatchesAreOwn
<1>16. ReadIsHeld'
  <2>1. \A q \in Calls : \A b, k : HeldBefore(q, b, k) => HeldBefore(q, b, k)'
    BY <1>3, Zenon DEF HeldBefore
  <2>2. \A q \in Calls : settled'[q] \subseteq Closed(q)'
    BY <1>1, Zenon DEF Closed, IInv, ReadIsHeld
  <2>3. ASSUME NEW d \in Calls, result[d].kind = "report"
        PROVE  settled'[result[d].run] = settled[result[d].run]
    <3>1. result[d].run \in Calls \ {run}
      BY <1>1, <1>5, <2>3, ZenonT(40) DEF IInv, ResultIsTaken
    <3> QED BY <1>1, <3>1, Zenon
  <2>4. ClosedStreamsAreReported'
    BY <1>1, <2>3, Zenon DEF IInv, ReadIsHeld, ClosedStreamsAreReported
  <2>5. ASSUME NEW q \in Calls, NEW i \in DOMAIN Queue(q)', Queue(q)'[i].op = "Finalize",
               NEW w \in settled'[q], NEW n \in 1 .. stream'[<<w, q>>].read
        PROVE  HeldBefore(q, BatchOf(w, q, n), i)'
    <3>1. CASE i \in DOMAIN Queue(q)
      <4>1. Queue(q)'[i] = Queue(q)[i]
        BY <1>3, <3>1, Zenon
      <4>2. q # run
        BY <1>5, <2>5, <3>1, <4>1, Zenon DEF Queued
      <4>3. w \in settled[q] /\ n \in 1 .. stream[<<w, q>>].read
        BY <1>1, <2>5, <4>2, Zenon
      <4>4. HeldBefore(q, BatchOf(w, q, n), i)
        BY <2>5, <3>1, <4>1, <4>3, Zenon DEF IInv, ReadIsHeld
      <4> QED BY <2>1, <4>4, Zenon
    <3>2. CASE i \notin DOMAIN Queue(q)
      <4>1. q = run /\ i = Len(Queue(run)) + 1
        BY <1>3, <3>2, Zenon
      <4>2. w \in Workers /\ stream[<<w, run>>].at = "closed" /\ n \in 1 .. stream[<<w, run>>].read
        BY <1>1, <2>5, <4>1, Zenon DEF Closed
      <4>3. HeldBefore(run, BatchOf(w, run, n), Len(Queue(run)) + 1)
        BY <1>1, <4>2, MasterRunAssumption, Zenon DEF IInv, ReadIsHeld
      <4> QED BY <2>1, <4>1, <4>3, Zenon
    <3> QED BY <3>1, <3>2, Zenon
  <2> QED BY <1>1, <2>2, <2>4, <2>5, Zenon DEF ReadIsHeld, BatchOf
<1> QED BY <1>7, <1>8, <1>9, <1>10, <1>11, <1>12, <1>13, <1>14, <1>15, <1>16, Zenon DEF IInv

-----------------------------------------------------------------------------
(* A telemetry stream reads a batch, hands it over, closes.                *)

\* Queues keep what they hold; r's may get b at its end.
Grows(r, b) ==
    /\ pipeline' \in [Calls -> PipelineType]
    /\ \A q \in Calls : /\ pipeline'[q].alive = pipeline[q].alive
                        /\ pipeline'[q].batches = pipeline[q].batches
                        /\ Len(Queue(q)) \in Nat /\ Len(Queue(q)') \in Nat
                        /\ Len(Queue(q)) <= Len(Queue(q)')
                        /\ DOMAIN Queue(q) = 1 .. Len(Queue(q))
                        /\ DOMAIN Queue(q)' = 1 .. Len(Queue(q)')
    /\ \A q \in Calls : \A i \in DOMAIN Queue(q) :
           i \in DOMAIN Queue(q)' /\ Queue(q)'[i] = Queue(q)[i]
    /\ \A q \in Calls : \A i \in DOMAIN Queue(q)' :
           i \in DOMAIN Queue(q) \/ (q = r /\ Queue(q)'[i] = Message("Batch", b))
    /\ \A q \in Calls \ {r} : pipeline'[q] = pipeline[q]

\* A stream that was not closed moves, and the pipeline of its run may get batch n.
StreamMoves(w, r, n) ==
    /\ <<"START", w, r>> \in commands
    /\ Grows(r, BatchOf(w, r, n))
    /\ stream' \in [Workers \X Calls ->
                      [at : {"reading", "ingesting", "closed"}, read : 0 .. MaxBatches]]
    /\ stream'[<<w, r>>].at = "ingesting" => stream'[<<w, r>>].read > 0
    /\ stream[<<w, r>>].at # "closed"
    /\ \A v \in Workers : \A q \in Calls : v # w \/ q # r => stream'[<<v, q>>] = stream[<<v, q>>]
    /\ UNCHANGED <<run, call, taken, result, settled, aborts, commands>>
    /\ run = r => \A k \in 1 .. stream'[<<w, r>>].read :
           (stream'[<<w, r>>].at = "ingesting" /\ k = stream'[<<w, r>>].read)
           \/ HeldBefore(r, BatchOf(w, r, k), Len(Queue(r)) + 1)'

\* A stream that sends a batch, or closes, keeps the invariant.
LEMMA StreamKeepsInv ==
    ASSUME IInv, NEW w \in Workers, NEW r \in Calls, NEW m \in Nat, StreamMoves(w, r, m)
    PROVE  IInv'
<1> USE MasterRunAssumption
<1> DEFINE b == BatchOf(w, r, m)
<1>0. /\ <<"START", w, r>> \in commands /\ b.run = r /\ Grows(r, b)
      /\ stream' \in [Workers \X Calls ->
                        [at : {"reading", "ingesting", "closed"}, read : 0 .. MaxBatches]]
      /\ stream'[<<w, r>>].at = "ingesting" => stream'[<<w, r>>].read > 0
      /\ stream[<<w, r>>].at # "closed"
      /\ \A v \in Workers : \A q \in Calls : v # w \/ q # r => stream'[<<v, q>>] = stream[<<v, q>>]
      /\ UNCHANGED <<run, call, taken, result, settled, aborts, commands>>
      /\ run = r => \A n \in 1 .. stream'[<<w, r>>].read :
             (stream'[<<w, r>>].at = "ingesting" /\ n = stream'[<<w, r>>].read)
             \/ HeldBefore(r, BatchOf(w, r, n), Len(Queue(r)) + 1)'
  BY Zenon DEF StreamMoves, BatchOf
<1> HIDE DEF b
<1> USE <1>0
<1>1. call[r] \notin {"barrier", "install"}
  BY Zenon DEF IInv, UninstalledIsFresh
<1>2. \A q \in Calls : \A i \in DOMAIN Queue(q)' : Queue(q)'[i].op # "Batch" \/ q # r =>
          i \in DOMAIN Queue(q) /\ Queue(q)'[i] = Queue(q)[i]
  BY DEF Grows, Message
<1>3. \A q \in Calls : \A op : op # "Batch" => Queued(q, op)' = Queued(q, op)
  BY <1>2, SMTT(20) DEF Grows, Queued
<1>4. \A q \in Calls : \A c, k : HeldBefore(q, c, k) => HeldBefore(q, c, k)'
  BY Zenon DEF Grows, HeldBefore
<1>5. \A q \in Calls : \A v \in settled[q] : v \in Workers /\ stream'[<<v, q>>] = stream[<<v, q>>]
  BY Zenon DEF IInv, ReadIsHeld, Closed
<1>6. RunTypes'
  <2>1. pipeline' \in [Calls -> [alive : BOOLEAN, queue : Seq(PipelineMessage), batches : SUBSET Batch]]
    BY Zenon DEF Grows, PipelineType
  <2>2. \A v \in Workers, q \in Calls : stream'[<<v, q>>].at = "ingesting" => stream'[<<v, q>>].read > 0
    <3>1. \A v \in Workers, q \in Calls : stream[<<v, q>>].at = "ingesting" => stream[<<v, q>>].read > 0
      BY Zenon DEF IInv, RunTypes
    <3> QED BY <3>1, Zenon
  <2> QED BY <2>1, <2>2, Zenon DEF IInv, RunTypes
<1>7. SlotIsOwned' /\ OwnerHasSlot' /\ ResultIsTaken'
  BY Zenon DEF IInv, SlotIsOwned, OwnerHasSlot, ResultIsTaken
<1>8. UninstalledIsFresh'
  <2> SUFFICES ASSUME NEW q \in Calls, call'[q] \in {"barrier", "install"}
               PROVE  /\ run' # q /\ pipeline'[q] = [alive |-> FALSE, queue |-> <<>>, batches |-> {}]
                      /\ settled'[q] = {}
                      /\ \A v \in Workers : <<"START", v, q>> \notin commands'
                                            /\ stream'[<<v, q>>] = [at |-> "reading", read |-> 0]
                      /\ \A d \in Calls : taken'[d] # q
    BY Zenon DEF UninstalledIsFresh
  <2>1. q # r /\ call[q] \in {"barrier", "install"}
    BY <1>1, Zenon
  <2>2. pipeline'[q] = pipeline[q] /\ \A v \in Workers : stream'[<<v, q>>] = stream[<<v, q>>]
    BY <2>1, Zenon DEF Grows
  <2> QED BY <2>1, <2>2 DEF IInv, UninstalledIsFresh
<1>9. ActiveIsUntouched'
  <2> SUFFICES ASSUME run # NoRun
               PROVE  /\ pipeline'[run].alive /\ ~Queued(run, "Finalize")' /\ ~Queued(run, "Shutdown")'
                      /\ \A c \in Calls : taken[c] # run
    BY Zenon DEF ActiveIsUntouched
  <2>1. PICK q \in Calls : q = run /\ run' = q
    BY Zenon DEF IInv, RunTypes
  <2>2. pipeline'[q].alive = pipeline[q].alive /\ ~Queued(q, "Finalize")' /\ ~Queued(q, "Shutdown")'
    <3>1. ~Queued(q, "Finalize") /\ ~Queued(q, "Shutdown")
      BY <2>1, Zenon DEF IInv, ActiveIsUntouched
    <3>2. ~Queued(q, "Finalize")' /\ ~Queued(q, "Shutdown")'
      BY <1>3, <3>1, Zenon
    <3> QED BY <3>2, Zenon DEF Grows
  <2> QED BY <2>1, <2>2, Zenon DEF IInv, ActiveIsUntouched, Queued, Queue
<1>10. TakerIsAlone'
  <2>1. ASSUME NEW c \in Calls, taken'[c] # NoRun, Queued(taken[c], "Shutdown")'
        PROVE  call'[c] = "returned"
    <3>1. PICK q \in Calls : q = taken[c] /\ taken'[c] = q
      BY <2>1, Zenon DEF IInv, RunTypes
    <3>2. Queued(q, "Shutdown")'
      BY <2>1, <3>1, Zenon DEF Queued, Queue
    <3>3. Queued(q, "Shutdown")
      BY <1>3, <3>2, Zenon
    <3> QED BY <2>1, <3>1, <3>3, Zenon DEF IInv, TakerIsAlone
  <2> QED BY <2>1, Zenon DEF IInv, TakerIsAlone
<1>11. FinalizeIsPending'
  <2>1. ASSUME NEW c \in Calls, call'[c] = "finalize", result'[c].kind # "report"
        PROVE  /\ pipeline'[taken'[c]].alive
               /\ \E i \in DOMAIN pipeline'[taken'[c]].queue :
                     pipeline'[taken'[c]].queue[i] = Message("Finalize", c)
    <3>1. PICK q \in Calls : q = taken[c] /\ taken'[c] = q
      BY <2>1, Zenon DEF IInv, RunTypes, TakerIsAlone
    <3>2. PICK i \in DOMAIN Queue(q) : Queue(q)[i] = Message("Finalize", c)
      BY <2>1, <3>1 DEF IInv, FinalizeIsPending
    <3>3. pipeline[q].alive
      BY <2>1, <3>1, Zenon DEF IInv, FinalizeIsPending
    <3>4. /\ i \in DOMAIN Queue(q)' /\ Queue(q)'[i] = Queue(q)[i] /\ pipeline'[q].alive
          /\ Queue(q)' = pipeline'[q].queue
      BY <3>2, <3>3, SMTT(20) DEF Grows, Queue
    <3> QED BY <3>1, <3>2, <3>4
  <2>2. ASSUME NEW q \in Calls, NEW i \in DOMAIN Queue(q)', Queue(q)'[i].op = "Finalize"
        PROVE  taken'[Queue(q)'[i].payload] = q
    BY <1>2, <2>2 DEF IInv, FinalizeIsPending
  <2> QED BY <2>1, <2>2, Zenon DEF FinalizeIsPending, Queue
<1>12. BatchesAreOwn'
  <2>1. ASSUME NEW q \in Calls, NEW i \in DOMAIN Queue(q)', Queue(q)'[i].op = "Batch"
        PROVE  Queue(q)'[i].payload.run = q
    BY <2>1, SMTT(20) DEF Grows, Message, IInv, BatchesAreOwn
  <2>2. \A q \in Calls : \A c \in pipeline'[q].batches : c.run = q
    BY Zenon DEF Grows, IInv, BatchesAreOwn
  <2>3. NoForeignBatches'
    BY Zenon DEF IInv, BatchesAreOwn, NoForeignBatches
  <2> QED BY <2>1, <2>2, <2>3, Zenon DEF BatchesAreOwn
<1>13. ReadIsHeld'
  <2>1. \A q \in Calls : settled'[q] \subseteq Closed(q)'
    BY <1>5 DEF IInv, ReadIsHeld, Closed
  <2>2. ClosedStreamsAreReported'
    <3>1. \A c \in Calls : result[c].kind = "report" => result[c].run \in Calls
      BY SMTT(20) DEF IInv, RunTypes, ResultIsTaken
    <3>2. ASSUME NEW c \in Calls, result[c].kind = "report",
                 NEW v \in settled[result[c].run], NEW n \in 1 .. stream'[<<v, result[c].run>>].read
          PROVE  [worker |-> v, run |-> result[c].run, id |-> n] \in result[c].batches
      <4>1. stream'[<<v, result[c].run>>] = stream[<<v, result[c].run>>]
        BY <1>5, <3>1, <3>2, Zenon
      <4> QED BY <3>2, <4>1, SMTT(20) DEF IInv, ReadIsHeld, ClosedStreamsAreReported
    <3> QED BY <3>2, SMTT(20) DEF ClosedStreamsAreReported
  <2>3. ASSUME NEW q \in Calls, q = run, NEW v \in Workers, NEW n \in 1 .. stream'[<<v, q>>].read
        PROVE  (stream'[<<v, q>>].at = "ingesting" /\ n = stream'[<<v, q>>].read)
               \/ HeldBefore(q, BatchOf(v, q, n), Len(Queue(q)) + 1)'
    <3>1. CASE v = w /\ q = r
      BY <2>3, <3>1, Zenon
    <3>2. CASE v # w \/ q # r
      <4>1. stream'[<<v, q>>] = stream[<<v, q>>]
        BY <3>2, Zenon
      <4>2. \/ stream'[<<v, q>>].at = "ingesting" /\ n = stream'[<<v, q>>].read
            \/ HeldBefore(q, BatchOf(v, q, n), Len(Queue(q)) + 1)
        BY <2>3, <4>1, Zenon DEF IInv, ReadIsHeld
      <4>3. HeldBefore(q, BatchOf(v, q, n), Len(Queue(q)) + 1) =>
                HeldBefore(q, BatchOf(v, q, n), Len(Queue(q)) + 1)'
        BY SMTT(20) DEF Grows, HeldBefore
      <4> QED BY <4>2, <4>3, Zenon
    <3> QED BY <3>1, <3>2, Zenon
  <2>4. run' # NoRun =>
            \A v \in Workers : \A n \in 1 .. stream'[<<v, run'>>].read :
                (stream'[<<v, run'>>].at = "ingesting" /\ n = stream'[<<v, run'>>].read)
                \/ HeldBefore(run, BatchOf(v, run, n), Len(Queue(run)) + 1)'
    <3> SUFFICES ASSUME run' # NoRun
                 PROVE  \A v \in Workers : \A n \in 1 .. stream'[<<v, run'>>].read :
                            (stream'[<<v, run'>>].at = "ingesting" /\ n = stream'[<<v, run'>>].read)
                            \/ HeldBefore(run, BatchOf(v, run, n), Len(Queue(run)) + 1)'
      OBVIOUS
    <3>1. PICK q \in Calls : q = run /\ run' = q
      BY Zenon DEF IInv, RunTypes
    <3>2. \A v \in Workers : \A n \in 1 .. stream'[<<v, q>>].read :
              (stream'[<<v, q>>].at = "ingesting" /\ n = stream'[<<v, q>>].read)
              \/ HeldBefore(q, BatchOf(v, q, n), Len(Queue(q)) + 1)'
      BY <2>3, <3>1, Zenon
    <3> QED BY <3>1, <3>2, SMTT(20) DEF HeldBefore, Queue, BatchOf
  <2>5. ASSUME NEW q \in Calls, NEW i \in DOMAIN Queue(q)', Queue(q)'[i].op = "Finalize",
               NEW v \in settled'[q], NEW n \in 1 .. stream'[<<v, q>>].read
        PROVE  HeldBefore(q, BatchOf(v, q, n), i)'
    BY <1>2, <1>4, <1>5, <2>5, Zenon DEF IInv, ReadIsHeld
  <2> QED BY <2>1, <2>2, <2>4, <2>5, Zenon DEF ReadIsHeld, BatchOf
<1> QED BY <1>6, <1>7, <1>8, <1>9, <1>10, <1>11, <1>12, <1>13, Zenon DEF IInv

\* Each step of StreamMetrics is of that form.
LEMMA StreamStepKeepsInv ==
    ASSUME IInv, NEW w \in Workers, NEW r \in Calls, Stream(w, r)
    PROVE  IInv'
<1> USE MasterRunAssumption
<1> DEFINE S == [at : {"reading", "ingesting", "closed"}, read : 0 .. MaxBatches]
<1>1. <<"START", w, r>> \in commands /\ <<w, r>> \in Workers \X Calls
  BY Zenon DEF Stream
<1>2. stream \in [Workers \X Calls -> S] /\ stream[<<w, r>>] \in S
  BY <1>1, Zenon DEF IInv, RunTypes
<1>3. ASSUME pipeline' = pipeline PROVE Grows(r, BatchOf(w, r, 1))
  <2>1. \A q \in Calls : Queue(q) \in Seq(PipelineMessage) /\ Queue(q)' = Queue(q)
    BY <1>3, Zenon DEF IInv, RunTypes, Queue
  <2>2. \A q \in Calls : /\ Len(Queue(q)) \in Nat /\ Len(Queue(q)') = Len(Queue(q))
                         /\ DOMAIN Queue(q) = 1 .. Len(Queue(q))
    BY <2>1
  <2> QED BY <1>3, <2>1, <2>2 DEF Grows, IInv, RunTypes, PipelineType
<1>4. CASE StreamReads(w, r)
  <2>1. /\ stream[<<w, r>>].at = "reading" /\ stream[<<w, r>>].read < MaxBatches
        /\ stream' = [stream EXCEPT ![<<w, r>>].read = @ + 1,
                                    ![<<w, r>>].at = IF run = r THEN "ingesting" ELSE "reading"]
        /\ pipeline' = pipeline
        /\ UNCHANGED <<run, call, taken, result, settled, aborts, commands>>
    BY <1>4, Zenon DEF StreamReads, callVars
  <2>2. /\ stream' \in [Workers \X Calls -> S]
        /\ stream'[<<w, r>>].read = stream[<<w, r>>].read + 1 /\ stream[<<w, r>>].read \in Nat
        /\ stream'[<<w, r>>].at = IF run = r THEN "ingesting" ELSE "reading"
        /\ \A v \in Workers : \A q \in Calls : v # w \/ q # r => stream'[<<v, q>>] = stream[<<v, q>>]
    BY <1>1, <1>2, <2>1
  <2>3. ASSUME run = r, NEW n \in 1 .. stream'[<<w, r>>].read
        PROVE  (stream'[<<w, r>>].at = "ingesting" /\ n = stream'[<<w, r>>].read)
               \/ HeldBefore(r, BatchOf(w, r, n), Len(Queue(r)) + 1)'
    <3>1. CASE n = stream'[<<w, r>>].read
      BY <2>2, <2>3, <3>1, Zenon
    <3>2. CASE n # stream'[<<w, r>>].read
      <4>1. \A a \in Nat : \A k \in 1 .. a + 1 : k # a + 1 => k \in 1 .. a
        OBVIOUS
      <4>2. n \in 1 .. stream[<<w, r>>].read
        BY <2>2, <2>3, <3>2, <4>1, Zenon
      <4>3. HeldBefore(r, BatchOf(w, r, n), Len(Queue(r)) + 1)
        BY <2>1, <2>3, <4>2, Zenon DEF IInv, ReadIsHeld
      <4> QED BY <2>1, <4>3, Zenon DEF HeldBefore, Queue, BatchOf
    <3> QED BY <3>1, <3>2, Zenon
  <2>4. StreamMoves(w, r, 1)
    BY <1>1, <1>3, <2>1, <2>2, <2>3, SMTT(20) DEF StreamMoves
  <2> QED BY <2>4, StreamKeepsInv, Zenon
<1>5. CASE StreamIngests(w, r)
  <2> DEFINE b == BatchOf(w, r, stream[<<w, r>>].read)
  <2>1. /\ stream[<<w, r>>].at = "ingesting"
        /\ stream' = [stream EXCEPT ![<<w, r>>].at = "reading"]
        /\ pipeline' = Send(r, Message("Batch", b))
        /\ UNCHANGED <<run, call, taken, result, settled, aborts, commands>>
    BY <1>5, Zenon DEF StreamIngests, callVars, BatchOf
  <2>2. /\ stream' \in [Workers \X Calls -> S]
        /\ stream'[<<w, r>>].read = stream[<<w, r>>].read /\ stream[<<w, r>>].read \in 1 .. MaxBatches
        /\ stream'[<<w, r>>].at = "reading"
        /\ \A v \in Workers : \A q \in Calls : v # w \/ q # r => stream'[<<v, q>>] = stream[<<v, q>>]
    BY <1>1, <1>2, <2>1 DEF IInv, RunTypes
  <2>3. b \in Batch /\ Message("Batch", b) \in PipelineMessage
    BY <2>2, Zenon DEF Batch, BatchOf, Message, PipelineMessage
  <2> HIDE DEF b
  <2>4. Grows(r, b)
    BY <2>1, <2>3, SendEffect, Zenon DEF Grows, IInv, PipelineType
  <2>5. ASSUME run = r, NEW n \in 1 .. stream'[<<w, r>>].read
        PROVE  HeldBefore(r, BatchOf(w, r, n), Len(Queue(r)) + 1)'
    <3>1. /\ pipeline[r].alive /\ Len(Queue(r)') = Len(Queue(r)) + 1
          /\ Queue(r)'[Len(Queue(r)) + 1] = Message("Batch", b)
      BY <2>1, <2>3, <2>5, SendEffect, Zenon DEF IInv, ActiveIsUntouched
    <3>2. CASE n = stream[<<w, r>>].read
      <4>1. Len(Queue(r)) + 1 \in DOMAIN Queue(r)' /\ Len(Queue(r)) + 1 < Len(Queue(r)') + 1
        BY <2>4, <3>1 DEF Grows
      <4> QED BY <3>1, <3>2, <4>1, Zenon DEF HeldBefore, b
    <3>3. CASE n # stream[<<w, r>>].read
      <4>1. HeldBefore(r, BatchOf(w, r, n), Len(Queue(r)) + 1)
        BY <2>2, <2>5, <3>3, Zenon DEF IInv, ReadIsHeld
      <4> QED BY <2>4, <4>1 DEF HeldBefore, Grows
    <3> QED BY <3>2, <3>3, Zenon
  <2>6. PICK m \in Nat : m = stream[<<w, r>>].read
    BY <2>2
  <2>7. StreamMoves(w, r, m)
    BY <1>1, <2>1, <2>2, <2>4, <2>5, <2>6, Zenon DEF StreamMoves, b
  <2> QED BY <2>7, StreamKeepsInv, Zenon
<1>6. CASE StreamCloses(w, r)
  <2>1. /\ stream[<<w, r>>].at = "reading"
        /\ stream' = [stream EXCEPT ![<<w, r>>].at = "closed"]
        /\ pipeline' = pipeline
        /\ UNCHANGED <<run, call, taken, result, settled, aborts, commands>>
    BY <1>6, Zenon DEF StreamCloses, callVars
  <2>2. /\ stream' \in [Workers \X Calls -> S]
        /\ stream'[<<w, r>>].read = stream[<<w, r>>].read
        /\ stream'[<<w, r>>].at = "closed"
        /\ \A v \in Workers : \A q \in Calls : v # w \/ q # r => stream'[<<v, q>>] = stream[<<v, q>>]
    BY <1>1, <1>2, <2>1, Zenon
  <2>3. ASSUME run = r, NEW n \in 1 .. stream'[<<w, r>>].read
        PROVE  HeldBefore(r, BatchOf(w, r, n), Len(Queue(r)) + 1)'
    <3>1. HeldBefore(r, BatchOf(w, r, n), Len(Queue(r)) + 1)
      BY <2>1, <2>2, <2>3, Zenon DEF IInv, ReadIsHeld
    <3> QED BY <2>1, <3>1, Zenon DEF HeldBefore, Queue, BatchOf
  <2>4. StreamMoves(w, r, 1)
    BY <1>1, <1>3, <2>1, <2>2, <2>3, Zenon DEF StreamMoves
  <2> QED BY <2>4, StreamKeepsInv, Zenon
<1> QED BY <1>4, <1>5, <1>6, Zenon DEF Stream

-----------------------------------------------------------------------------
(* Steps of a pipeline task.                                               *)

\* The task of r handles its first message, a batch or a Finalize.
Handles(r) ==
    /\ pipeline[r].alive /\ Queue(r) # <<>>
    /\ Queue(r)' = Tail(Queue(r)) /\ pipeline'[r].alive
    /\ \A q \in Calls \ {r} : pipeline'[q] = pipeline[q]
    /\ pipeline' \in [Calls -> PipelineType]
    /\ result' \in [Calls -> Result]
    /\ \A b, k : HeldBefore(r, b, k + 1) /\ k \in Nat => HeldBefore(r, b, k)'
    /\ \A b \in pipeline'[r].batches : b.run = r
    /\ \A c \in Calls : result'[c].kind # "report" => result'[c] = result[c] /\ Queue(r)[1] # Message("Finalize", c)
    /\ ResultIsTaken' /\ NoForeignBatches' /\ ClosedStreamsAreReported'
    /\ UNCHANGED <<run, call, taken, stream, settled, aborts, commands>>

\* A task that receives a message and stays alive keeps the invariant.
LEMMA HandlesKeepsInv ==
    ASSUME IInv, NEW r \in Calls, Handles(r)
    PROVE  IInv'
<1> USE MasterRunAssumption
<1>1. /\ pipeline[r].alive /\ Queue(r) # <<>> /\ Queue(r)' = Tail(Queue(r)) /\ pipeline'[r].alive
      /\ \A q \in Calls \ {r} : pipeline'[q] = pipeline[q] /\ Queue(q)' = Queue(q)
      /\ UNCHANGED <<run, call, taken, stream, settled, aborts, commands>>
  BY Zenon DEF Handles, Queue
<1>2. /\ \A q \in Calls : /\ DOMAIN Queue(q) = 1 .. Len(Queue(q))
                          /\ DOMAIN Queue(q)' = 1 .. Len(Queue(q)')
                          /\ Len(Queue(q)) \in Nat /\ Len(Queue(q)') \in Nat
      /\ Len(Queue(r)) = Len(Queue(r)') + 1
      /\ \A i \in DOMAIN Queue(r)' : i + 1 \in DOMAIN Queue(r) /\ Queue(r)'[i] = Queue(r)[i + 1]
      /\ \A i \in DOMAIN Queue(r) : i # 1 => i - 1 \in DOMAIN Queue(r)'
                                           /\ Queue(r)'[i - 1] = Queue(r)[i]
  BY <1>1, ReceiveEffect, Zenon DEF IInv
<1>3. \A q \in Calls : \A i \in DOMAIN Queue(q)' :
          \E j \in DOMAIN Queue(q) : Queue(q)'[i] = Queue(q)[j] /\ (q # r => j = i) /\ (q = r => j = i + 1)
  BY <1>1, <1>2, Zenon
<1>4. \A q \in Calls : \A op : Queued(q, op)' => Queued(q, op)
  BY <1>3 DEF Queued
<1>5. RunTypes'
  BY <1>1, ZenonT(40) DEF Handles, IInv, RunTypes, PipelineType
<1>6. SlotIsOwned' /\ OwnerHasSlot' /\ ResultIsTaken'
  BY <1>1, Zenon DEF Handles, IInv, SlotIsOwned, OwnerHasSlot
<1>7. UninstalledIsFresh'
  <2>1. \A q \in Calls : call[q] \in {"barrier", "install"} => pipeline'[q] = pipeline[q]
    BY <1>1 DEF IInv, UninstalledIsFresh
  <2> QED BY <1>1, <2>1 DEF IInv, UninstalledIsFresh
<1>8. ActiveIsUntouched'
  <2> SUFFICES ASSUME run # NoRun
               PROVE  /\ pipeline'[run].alive /\ ~Queued(run, "Finalize")' /\ ~Queued(run, "Shutdown")'
                      /\ \A c \in Calls : taken[c] # run
    BY <1>1, Zenon DEF ActiveIsUntouched
  <2>1. PICK q \in Calls : q = run /\ run' = q
    BY <1>1, Zenon DEF IInv, RunTypes
  <2>2. pipeline'[q].alive /\ ~Queued(q, "Finalize")' /\ ~Queued(q, "Shutdown")'
    BY <1>1, <1>4, <2>1, Zenon DEF IInv, ActiveIsUntouched
  <2> QED BY <2>1, <2>2, Zenon DEF IInv, ActiveIsUntouched, Queued, Queue
<1>9. TakerIsAlone'
  <2>1. ASSUME NEW c \in Calls, taken'[c] # NoRun, Queued(taken[c], "Shutdown")'
        PROVE  call'[c] = "returned"
    <3>1. PICK q \in Calls : q = taken[c] /\ taken'[c] = q
      BY <1>1, <2>1, Zenon DEF IInv, RunTypes
    <3>2. Queued(q, "Shutdown")'
      BY <2>1, <3>1, Zenon DEF Queued, Queue
    <3>3. Queued(q, "Shutdown")
      BY <1>4, <3>2, Zenon
    <3> QED BY <1>1, <2>1, <3>1, <3>3, Zenon DEF IInv, TakerIsAlone
  <2> QED BY <1>1, <2>1, Zenon DEF IInv, TakerIsAlone
<1>10. FinalizeIsPending'
  <2>1. ASSUME NEW c \in Calls, call'[c] = "finalize", result'[c].kind # "report"
        PROVE  /\ pipeline'[taken'[c]].alive
               /\ \E i \in DOMAIN pipeline'[taken'[c]].queue :
                     pipeline'[taken'[c]].queue[i] = Message("Finalize", c)
    <3>1. PICK q \in Calls : q = taken[c] /\ taken'[c] = q
      BY <1>1, <2>1 DEF IInv, RunTypes, TakerIsAlone
    <3>2. result[c].kind # "report" /\ Queue(r)[1] # Message("Finalize", c)
      BY <2>1, Zenon DEF Handles
    <3>3. PICK i \in DOMAIN Queue(q) : Queue(q)[i] = Message("Finalize", c)
      BY <1>1, <2>1, <3>1, <3>2 DEF IInv, FinalizeIsPending
    <3>4. pipeline[q].alive
      BY <1>1, <2>1, <3>1, <3>2, Zenon DEF IInv, FinalizeIsPending
    <3>5. PICK j \in DOMAIN Queue(q)' : Queue(q)'[j] = Message("Finalize", c)
      <4>1. CASE q = r   BY <1>2, <3>2, <3>3, <4>1
      <4>2. CASE q # r   BY <1>1, <3>3, <4>2
      <4> QED BY <4>1, <4>2, Zenon
    <3>6. pipeline'[q].alive /\ Queue(q)' = pipeline'[q].queue
      BY <1>1, <3>4, Zenon DEF Queue
    <3> QED BY <3>1, <3>5, <3>6, Zenon
  <2>2. ASSUME NEW q \in Calls, NEW i \in DOMAIN Queue(q)', Queue(q)'[i].op = "Finalize"
        PROVE  taken'[Queue(q)'[i].payload] = q
    BY <1>1, <1>3, <2>2 DEF IInv, FinalizeIsPending
  <2> QED BY <2>1, <2>2, Zenon DEF FinalizeIsPending, Queue
<1>11. BatchesAreOwn'
  <2>1. ASSUME NEW q \in Calls, NEW i \in DOMAIN Queue(q)', Queue(q)'[i].op = "Batch"
        PROVE  Queue(q)'[i].payload.run = q
    BY <1>3, <2>1 DEF IInv, BatchesAreOwn
  <2>2. \A q \in Calls : \A b \in pipeline'[q].batches : b.run = q
    BY <1>1, Zenon DEF Handles, IInv, BatchesAreOwn
  <2> QED BY <2>1, <2>2, Zenon DEF Handles, BatchesAreOwn
<1>12. ReadIsHeld'
  <2>1. \A q \in Calls : settled'[q] \subseteq Closed(q)'
    BY <1>1, Zenon DEF IInv, ReadIsHeld, Closed
  <2>2. \A q \in Calls \ {r} : \A b, k : HeldBefore(q, b, k) => HeldBefore(q, b, k)'
    BY <1>1, Zenon DEF HeldBefore
  <2>3. \A b : \A k \in Nat : HeldBefore(r, b, k + 1) => HeldBefore(r, b, k)'
    BY Zenon DEF Handles
  <2>4. ASSUME NEW q \in Calls, q = run, NEW v \in Workers, NEW n \in 1 .. stream[<<v, q>>].read
        PROVE  (stream[<<v, q>>].at = "ingesting" /\ n = stream[<<v, q>>].read)
               \/ HeldBefore(q, BatchOf(v, q, n), Len(Queue(q)) + 1)'
    <3>1. \/ stream[<<v, q>>].at = "ingesting" /\ n = stream[<<v, q>>].read
          \/ HeldBefore(q, BatchOf(v, q, n), Len(Queue(q)) + 1)
      BY <2>4, Zenon DEF IInv, ReadIsHeld
    <3> DEFINE b == BatchOf(v, q, n)
    <3>2. CASE q = r
      <4>1. PICK k \in Nat : k = Len(Queue(r)') + 1 /\ Len(Queue(r)) + 1 = k + 1
        BY <1>2, Zenon
      <4>2. HeldBefore(r, b, k + 1) => HeldBefore(r, b, k)'
        BY <2>3, <4>1, Zenon
      <4>3. HeldBefore(r, b, k)' => HeldBefore(q, b, Len(Queue(q)) + 1)'
        BY <3>2, <4>1, Zenon DEF HeldBefore
      <4> QED BY <3>1, <3>2, <4>1, <4>2, <4>3, Zenon
    <3>3. CASE q # r
      <4>1. HeldBefore(q, b, Len(Queue(q)) + 1) => HeldBefore(q, b, Len(Queue(q)) + 1)'
        BY <1>1, <3>3, Zenon DEF HeldBefore
      <4> QED BY <3>1, <4>1, Zenon
    <3> QED BY <3>2, <3>3, Zenon
  <2>5. run' # NoRun =>
            \A v \in Workers : \A n \in 1 .. stream'[<<v, run'>>].read :
                (stream'[<<v, run'>>].at = "ingesting" /\ n = stream'[<<v, run'>>].read)
                \/ HeldBefore(run, BatchOf(v, run, n), Len(Queue(run)) + 1)'
    <3> SUFFICES ASSUME run' # NoRun
                 PROVE  \A v \in Workers : \A n \in 1 .. stream'[<<v, run'>>].read :
                            (stream'[<<v, run'>>].at = "ingesting" /\ n = stream'[<<v, run'>>].read)
                            \/ HeldBefore(run, BatchOf(v, run, n), Len(Queue(run)) + 1)'
      BY Zenon
    <3>1. PICK q \in Calls : q = run /\ run' = q
      BY <1>1, Zenon DEF IInv, RunTypes
    <3>2. \A v \in Workers : \A n \in 1 .. stream'[<<v, q>>].read :
              (stream'[<<v, q>>].at = "ingesting" /\ n = stream'[<<v, q>>].read)
              \/ HeldBefore(q, BatchOf(v, q, n), Len(Queue(q)) + 1)'
      BY <1>1, <2>4, <3>1, Zenon
    <3> QED BY <3>1, <3>2, Zenon DEF HeldBefore, Queue, BatchOf
  <2>6. ASSUME NEW q \in Calls, NEW i \in DOMAIN Queue(q)', Queue(q)'[i].op = "Finalize",
               NEW v \in settled'[q], NEW n \in 1 .. stream'[<<v, q>>].read
        PROVE  HeldBefore(q, BatchOf(v, q, n), i)'
    <3>1. PICK j \in DOMAIN Queue(q) : /\ Queue(q)'[i] = Queue(q)[j]
                                       /\ q # r => j = i
                                       /\ q = r => j = i + 1
      BY <1>3, Zenon
    <3>2. HeldBefore(q, BatchOf(v, q, n), j)
      BY <1>1, <2>6, <3>1, Zenon DEF IInv, ReadIsHeld
    <3>3. i \in Nat
      BY <1>2
    <3> QED BY <2>2, <2>3, <3>1, <3>2, <3>3, Zenon
  <2> QED BY <2>1, <2>5, <2>6, Zenon DEF Handles, ReadIsHeld, BatchOf
<1> QED BY <1>5, <1>6, <1>7, <1>8, <1>9, <1>10, <1>11, <1>12, Zenon DEF IInv

\* A batch that is ingested leaves the queue for the report.
LEMMA IngestsKeepsInv ==
    ASSUME IInv, NEW r \in Calls, PipelineIngests(r)
    PROVE  IInv'
<1> USE MasterRunAssumption
<1> DEFINE m == Queue(r)[1]
<1>1. /\ pipeline[r].alive /\ Queue(r) # <<>> /\ Head(Queue(r)).op = "Batch"
      /\ pipeline' = [pipeline EXCEPT ![r].queue = Tail(@),
                                      ![r].batches = @ \cup {Head(Queue(r)).payload}]
      /\ UNCHANGED <<run, call, taken, result, stream, settled, aborts, commands>>
  BY Zenon DEF PipelineIngests, Receives, Queue, callVars
<1>2. /\ Queue(r) \in Seq(PipelineMessage) /\ Tail(Queue(r)) \in Seq(PipelineMessage)
      /\ Head(Queue(r)) = m /\ m \in PipelineMessage /\ 1 \in DOMAIN Queue(r)
  BY <1>1 DEF IInv, RunTypes, Queue
<1>3. m.op = "Batch" /\ m.payload \in Batch /\ m.payload.run = r /\ m = Message("Batch", m.payload)
  BY <1>1, <1>2, Zenon DEF IInv, BatchesAreOwn, PipelineMessage, Message
<1>4. /\ pipeline'[r].queue = Tail(Queue(r)) /\ pipeline'[r].alive
      /\ pipeline'[r].batches = pipeline[r].batches \cup {m.payload}
      /\ \A q \in Calls \ {r} : pipeline'[q] = pipeline[q]
      /\ pipeline' \in [Calls -> PipelineType]
  <2> DEFINE p == [pipeline[r] EXCEPT !.queue = Tail(Queue(r)), !.batches = @ \cup {m.payload}]
  <2>1. pipeline \in [Calls -> PipelineType] /\ pipeline[r] \in PipelineType
    BY Zenon DEF IInv, RunTypes, PipelineType
  <2>2. p \in PipelineType /\ p.queue = Tail(Queue(r)) /\ p.alive = pipeline[r].alive
        /\ p.batches = pipeline[r].batches \cup {m.payload}
    BY <1>2, <1>3, <2>1, Zenon DEF PipelineType
  <2>3. pipeline' = [pipeline EXCEPT ![r] = p]
    BY <1>1, <1>2, <2>1, Zenon DEF Queue
  <2> HIDE DEF p
  <2> QED BY <1>1, <2>1, <2>2, <2>3, Zenon
<1>5. /\ \A i \in DOMAIN Queue(r) : i # 1 => i - 1 \in DOMAIN Queue(r)' /\ Queue(r)'[i - 1] = Queue(r)[i]
      /\ DOMAIN Queue(r) = 1 .. Len(Queue(r)) /\ Len(Queue(r)) \in Nat /\ Queue(r)' = Tail(Queue(r))
  BY <1>1, <1>4, ReceiveEffect, SMTT(20) DEF IInv, Queue
<1> HIDE DEF m
<1>6. ASSUME NEW b, NEW k \in Nat, HeldBefore(r, b, k + 1) PROVE HeldBefore(r, b, k)'
  <2>1. CASE b \in pipeline[r].batches
    BY <1>4, <2>1, Zenon DEF HeldBefore
  <2>2. ASSUME NEW j \in DOMAIN Queue(r), j < k + 1, Queue(r)[j] = Message("Batch", b)
        PROVE  HeldBefore(r, b, k)'
    <3>1. CASE j = 1
      <4>1. b = m.payload
        BY <1>3, <2>2, <3>1 DEF m, Message
      <4> QED BY <1>4, <4>1, Zenon DEF HeldBefore
    <3>2. CASE j # 1
      <4>1. j - 1 \in DOMAIN Queue(r)' /\ Queue(r)'[j - 1] = Message("Batch", b) /\ j - 1 < k
        BY <1>5, <2>2, <3>2
      <4> QED BY <4>1, Zenon DEF HeldBefore
    <3> QED BY <3>1, <3>2, Zenon
  <2> QED BY <1>6, <2>1, <2>2, Zenon DEF HeldBefore
<1>7. /\ result' \in [Calls -> Result] /\ ResultIsTaken' /\ NoForeignBatches' /\ ClosedStreamsAreReported'
      /\ \A b \in pipeline'[r].batches : b.run = r
  BY <1>1, <1>3, <1>4, SMTT(20)
     DEF IInv, RunTypes, ResultIsTaken, BatchesAreOwn, NoForeignBatches, ReadIsHeld, ClosedStreamsAreReported
<1>8. \A c \in Calls : m # Message("Finalize", c)
  BY <1>3 DEF Message
<1>9. Handles(r)
  BY <1>1, <1>4, <1>5, <1>6, <1>7, <1>8, SMTT(20) DEF Handles, m
<1> QED BY <1>9, HandlesKeepsInv, Zenon

\* Finalize answers with the report of what was ingested.
LEMMA FinalizesKeepsInv ==
    ASSUME IInv, NEW r \in Calls, PipelineFinalizes(r)
    PROVE  IInv'
<1> USE MasterRunAssumption
<1>1. /\ pipeline[r].alive /\ Queue(r) # <<>> /\ Head(Queue(r)).op = "Finalize"
      /\ result' = [result EXCEPT ![Head(Queue(r)).payload] =
                       [kind |-> "report", run |-> r, batches |-> pipeline[r].batches]]
      /\ pipeline' = [pipeline EXCEPT ![r].queue = Tail(@)]
      /\ UNCHANGED <<run, call, taken, stream, settled, aborts, commands>>
  BY Zenon DEF PipelineFinalizes, Receives, Queue
<1>2. /\ Queue(r) \in Seq(PipelineMessage) /\ Tail(Queue(r)) \in Seq(PipelineMessage)
      /\ Head(Queue(r)) = Queue(r)[1] /\ Queue(r)[1] \in PipelineMessage /\ 1 \in DOMAIN Queue(r)
  BY <1>1 DEF IInv, RunTypes, Queue
<1>3. PICK c \in Calls : Queue(r)[1] = Message("Finalize", c)
  BY <1>1, <1>2, Zenon DEF PipelineMessage, Message
<1>4. Queue(r)[1].op = "Finalize" /\ Queue(r)[1].payload = c /\ taken[c] = r
  BY <1>2, <1>3 DEF IInv, FinalizeIsPending, Message
<1>5. /\ pipeline'[r].queue = Tail(Queue(r)) /\ pipeline'[r].alive
      /\ pipeline'[r].batches = pipeline[r].batches /\ pipeline[r].batches \in SUBSET Batch
      /\ \A q \in Calls \ {r} : pipeline'[q] = pipeline[q]
      /\ pipeline' \in [Calls -> PipelineType]
  BY <1>1, <1>2, Zenon DEF IInv, RunTypes, Queue, PipelineType
<1>6. /\ \A i \in DOMAIN Queue(r) : i # 1 => i - 1 \in DOMAIN Queue(r)' /\ Queue(r)'[i - 1] = Queue(r)[i]
      /\ DOMAIN Queue(r) = 1 .. Len(Queue(r)) /\ Len(Queue(r)) \in Nat /\ Queue(r)' = Tail(Queue(r))
  BY <1>1, <1>5, ReceiveEffect, SMTT(20) DEF IInv, Queue
<1>7. ASSUME NEW b, NEW k \in Nat, HeldBefore(r, b, k + 1) PROVE HeldBefore(r, b, k)'
  <2>1. CASE b \in pipeline[r].batches
    BY <1>5, <2>1, Zenon DEF HeldBefore
  <2>2. ASSUME NEW j \in DOMAIN Queue(r), j < k + 1, Queue(r)[j] = Message("Batch", b)
        PROVE  HeldBefore(r, b, k)'
    <3>1. j # 1
      BY <1>4, <2>2 DEF Message
    <3>2. j - 1 \in DOMAIN Queue(r)' /\ Queue(r)'[j - 1] = Message("Batch", b) /\ j - 1 < k
      BY <1>6, <2>2, <3>1
    <3> QED BY <3>2, Zenon DEF HeldBefore
  <2> QED BY <1>7, <2>1, <2>2, Zenon DEF HeldBefore
<1>8. /\ result' = [result EXCEPT ![c] = [kind |-> "report", run |-> r, batches |-> pipeline[r].batches]]
      /\ result \in [Calls -> Result]
  BY <1>1, <1>2, <1>4, Zenon DEF IInv, RunTypes
<1>9. /\ result' \in [Calls -> Result]
      /\ result'[c].kind = "report" /\ result'[c].run = r /\ result'[c].batches = pipeline[r].batches
      /\ \A d \in Calls : d # c => result'[d] = result[d]
  BY <1>5, <1>8, Zenon DEF Result
<1>10. ResultIsTaken'
  BY <1>1, <1>4, <1>9 DEF IInv, ResultIsTaken
<1>11. (\A b \in pipeline'[r].batches : b.run = r) /\ NoForeignBatches'
  BY <1>5, <1>9 DEF IInv, BatchesAreOwn, NoForeignBatches
<1>12. ClosedStreamsAreReported'
  <2>1. ASSUME NEW w \in settled[r], NEW n \in 1 .. stream[<<w, r>>].read
        PROVE  [worker |-> w, run |-> r, id |-> n] \in pipeline[r].batches
    <3>1. HeldBefore(r, BatchOf(w, r, n), 1)
      BY <1>2, <1>4, Zenon DEF IInv, ReadIsHeld
    <3> QED BY <1>6, <3>1 DEF HeldBefore, BatchOf
  <2>2. ASSUME NEW d \in Calls, result'[d].kind = "report",
               NEW w \in settled[result'[d].run], NEW n \in 1 .. stream[<<w, result'[d].run>>].read
        PROVE  [worker |-> w, run |-> result'[d].run, id |-> n] \in result'[d].batches
    <3>1. CASE d = c
      <4>1. result'[d].run = r /\ result'[d].batches = pipeline[r].batches
        BY <1>9, <3>1, Zenon
      <4> QED BY <2>1, <2>2, <4>1, Zenon
    <3>2. CASE d # c
      BY <1>9, <2>2, <3>2, Zenon DEF IInv, ReadIsHeld, ClosedStreamsAreReported
    <3> QED BY <3>1, <3>2, Zenon
  <2> QED BY <1>1, <2>2, Zenon DEF ClosedStreamsAreReported
<1>13. \A d \in Calls : result'[d].kind # "report" =>
           result'[d] = result[d] /\ Queue(r)[1] # Message("Finalize", d)
  BY <1>4, <1>9 DEF Message
<1>14. Handles(r)
  BY <1>1, <1>5, <1>6, <1>7, <1>9, <1>10, <1>11, <1>12, <1>13, SMTT(20) DEF Handles
<1> QED BY <1>14, HandlesKeepsInv, Zenon

\* A task stops when its run is in nobody's hands.
LEMMA StopsKeepsInv ==
    ASSUME IInv, NEW r \in Calls, PipelineStops(r)
    PROVE  IInv'
<1> USE MasterRunAssumption
<1>1. /\ pipeline[r].alive /\ Queue(r) # <<>> /\ Head(Queue(r)).op = "Shutdown"
      /\ pipeline' = [pipeline EXCEPT ![r] = [alive |-> FALSE, queue |-> <<>>, batches |-> {}]]
      /\ UNCHANGED <<run, call, taken, result, stream, settled, aborts, commands>>
  BY Zenon DEF PipelineStops, Receives, Queue, callVars
<1>2. /\ Queue(r) \in Seq(PipelineMessage) /\ pipeline \in [Calls -> PipelineType]
  BY Zenon DEF IInv, RunTypes, Queue, PipelineType
<1>3. Queued(r, "Shutdown")
  <2>1. 1 \in DOMAIN Queue(r) /\ Head(Queue(r)) = Queue(r)[1]
    BY <1>1, <1>2
  <2> QED BY <1>1, <2>1, Zenon DEF Queued
<1>4. /\ pipeline'[r] = [alive |-> FALSE, queue |-> <<>>, batches |-> {}]
      /\ \A q \in Calls \ {r} : pipeline'[q] = pipeline[q]
      /\ pipeline' \in [Calls -> PipelineType]
  BY <1>1, <1>2 DEF PipelineType
<1>5. /\ Queue(r)' = <<>> /\ \A q \in Calls \ {r} : Queue(q)' = Queue(q)
  BY <1>4 DEF Queue
<1>6. run # r /\ \A c \in Calls : taken[c] = r => call[c] = "returned"
  BY <1>3, Zenon DEF IInv, ActiveIsUntouched, TakerIsAlone
<1>7. \A q \in Calls : \A i \in DOMAIN Queue(q)' : q # r
  BY <1>5
<1>8. RunTypes'
  BY <1>1, <1>4, Zenon DEF IInv, RunTypes, PipelineType
<1>9. SlotIsOwned' /\ OwnerHasSlot' /\ ResultIsTaken'
  BY <1>1, Zenon DEF IInv, SlotIsOwned, OwnerHasSlot, ResultIsTaken
<1>10. UninstalledIsFresh'
  <2>1. \A q \in Calls : call[q] \in {"barrier", "install"} =>
            pipeline'[q] = [alive |-> FALSE, queue |-> <<>>, batches |-> {}]
    BY <1>4, Zenon DEF IInv, UninstalledIsFresh
  <2> QED BY <1>1, <2>1 DEF IInv, UninstalledIsFresh
<1>11. ActiveIsUntouched'
  <2>1. run # NoRun => run \in Calls \ {r}
    BY <1>6, Zenon DEF IInv, RunTypes
  <2>2. run # NoRun => pipeline'[run] = pipeline[run] /\ run' = run
    BY <1>1, <1>4, <2>1, Zenon
  <2> QED BY <1>1, <2>2, Zenon DEF IInv, ActiveIsUntouched, Queued, Queue
<1>12. TakerIsAlone'
  <2>1. ASSUME NEW c \in Calls, taken'[c] # NoRun, Queued(taken[c], "Shutdown")'
        PROVE  call'[c] = "returned"
    <3>1. PICK q \in Calls : q = taken[c] /\ taken'[c] = q
      BY <1>1, <2>1, Zenon DEF IInv, RunTypes
    <3>2. Queued(q, "Shutdown")'
      BY <2>1, <3>1, Zenon DEF Queued, Queue
    <3>3. Queued(q, "Shutdown")
      BY <1>5, <1>7, <3>2, Zenon DEF Queued
    <3> QED BY <1>1, <2>1, <3>1, <3>3, Zenon DEF IInv, TakerIsAlone
  <2> QED BY <1>1, <2>1, Zenon DEF IInv, TakerIsAlone
<1>13. FinalizeIsPending'
  <2>1. ASSUME NEW c \in Calls, call[c] = "finalize", result[c].kind # "report"
        PROVE  /\ pipeline'[taken[c]].alive
               /\ \E i \in DOMAIN pipeline'[taken[c]].queue :
                     pipeline'[taken[c]].queue[i] = Message("Finalize", c)
    <3>1. taken[c] \in Calls \ {r}
      BY <1>6, <2>1, Zenon DEF IInv, RunTypes, TakerIsAlone
    <3>2. pipeline'[taken[c]] = pipeline[taken[c]]
      BY <1>4, <3>1, Zenon
    <3> QED BY <2>1, <3>2 DEF IInv, FinalizeIsPending, Queue
  <2>2. ASSUME NEW q \in Calls, NEW i \in DOMAIN Queue(q)', Queue(q)'[i].op = "Finalize"
        PROVE  taken[Queue(q)'[i].payload] = q
    BY <1>5, <1>7, <2>2 DEF IInv, FinalizeIsPending
  <2> QED BY <1>1, <2>1, <2>2, SMTT(20) DEF FinalizeIsPending, Queue
<1>14. BatchesAreOwn'
  <2>1. ASSUME NEW q \in Calls, NEW i \in DOMAIN Queue(q)', Queue(q)'[i].op = "Batch"
        PROVE  Queue(q)'[i].payload.run = q
    BY <1>5, <1>7, <2>1, Zenon DEF IInv, BatchesAreOwn
  <2>2. \A q \in Calls : \A b \in pipeline'[q].batches : b.run = q
    BY <1>4 DEF IInv, BatchesAreOwn
  <2>3. NoForeignBatches'
    BY <1>1, Zenon DEF IInv, BatchesAreOwn, NoForeignBatches
  <2> QED BY <2>1, <2>2, <2>3, Zenon DEF BatchesAreOwn
<1>15. ReadIsHeld'
  <2>1. \A q \in Calls : settled'[q] \subseteq Closed(q)'
    BY <1>1, Zenon DEF IInv, ReadIsHeld, Closed
  <2>2. \A q \in Calls \ {r} : \A b, k : HeldBefore(q, b, k) => HeldBefore(q, b, k)'
    BY <1>4, <1>5, Zenon DEF HeldBefore
  <2>3. ClosedStreamsAreReported'
    BY <1>1, Zenon DEF IInv, ReadIsHeld, ClosedStreamsAreReported
  <2>4. run' # NoRun => pipeline'[run] = pipeline[run] /\ run' = run /\ run \in Calls
    BY <1>1, <1>4, <1>6, Zenon DEF IInv, RunTypes
  <2>5. run' # NoRun =>
            \A w \in Workers : \A n \in 1 .. stream'[<<w, run'>>].read :
                (stream'[<<w, run'>>].at = "ingesting" /\ n = stream'[<<w, run'>>].read)
                \/ HeldBefore(run, BatchOf(w, run, n), Len(Queue(run)) + 1)'
    BY <1>1, <2>4, SMTT(20) DEF IInv, ReadIsHeld, HeldBefore, Queue, BatchOf
  <2>6. ASSUME NEW q \in Calls, NEW i \in DOMAIN Queue(q)', Queue(q)'[i].op = "Finalize",
               NEW w \in settled'[q], NEW n \in 1 .. stream'[<<w, q>>].read
        PROVE  HeldBefore(q, BatchOf(w, q, n), i)'
    BY <1>1, <1>5, <1>7, <2>2, <2>6, Zenon DEF IInv, ReadIsHeld
  <2> QED BY <2>1, <2>3, <2>5, <2>6, Zenon DEF ReadIsHeld, BatchOf
<1> QED BY <1>8, <1>9, <1>10, <1>11, <1>12, <1>13, <1>14, <1>15, Zenon DEF IInv

-----------------------------------------------------------------------------
(* The theorems.                                                           *)

\* Nobody has called, and nothing was sent.
LEMMA InitInv == Init => IInv
<1> SUFFICES ASSUME Init PROVE IInv
  OBVIOUS
<1> USE MasterRunAssumption
<1>1. \A r \in Calls : Queue(r) = <<>> /\ \A op : ~Queued(r, op)
  BY DEF Init, Queue, Queued
<1>2. RunTypes
  BY DEF Init, RunTypes, Stages, Result, Pending, PipelineMessage
<1>3. SlotIsOwned /\ UninstalledIsFresh /\ OwnerHasSlot /\ ActiveIsUntouched
  BY Zenon DEF Init, SlotIsOwned, UninstalledIsFresh, OwnerHasSlot, ActiveIsUntouched
<1>4. TakerIsAlone /\ ResultIsTaken
  BY Zenon DEF Init, TakerIsAlone, ResultIsTaken, Pending
<1>5. FinalizeIsPending
  BY <1>1 DEF Init, FinalizeIsPending
<1>6. BatchesAreOwn
  BY <1>1 DEF Init, BatchesAreOwn, NoForeignBatches, Pending
<1>7. ReadIsHeld
  BY <1>1, Zenon DEF Init, ReadIsHeld, ClosedStreamsAreReported, Pending
<1> QED BY <1>2, <1>3, <1>4, <1>5, <1>6, <1>7, Zenon DEF IInv

\* A step that changes nothing keeps the invariant.
LEMMA StutterKeepsInv == IInv /\ UNCHANGED vars => IInv'
<1> SUFFICES ASSUME IInv, UNCHANGED vars PROVE IInv'
  OBVIOUS
<1>1. RunTypes' /\ SlotIsOwned' /\ OwnerHasSlot'
  BY Zenon DEF vars, IInv, RunTypes, SlotIsOwned, OwnerHasSlot
<1>2. UninstalledIsFresh'
  BY Zenon DEF vars, IInv, UninstalledIsFresh
<1>3. ActiveIsUntouched' /\ TakerIsAlone'
  BY Zenon DEF vars, IInv, ActiveIsUntouched, TakerIsAlone, Queued, Queue
<1>4. ResultIsTaken' /\ FinalizeIsPending'
  BY SMTT(20) DEF vars, IInv, ResultIsTaken, FinalizeIsPending, Queue
<1>5. BatchesAreOwn'
  BY Zenon DEF vars, IInv, BatchesAreOwn, NoForeignBatches, Queue
<1>6. ReadIsHeld'
  <2>1. \A r, b, k : HeldBefore(r, b, k)' = HeldBefore(r, b, k)
    BY Zenon DEF vars, HeldBefore, Queue
  <2>2. \A r : Closed(r)' = Closed(r) /\ Queue(r)' = Queue(r)
    BY Zenon DEF vars, Closed, Queue
  <2>3. ClosedStreamsAreReported'
    BY Zenon DEF vars, IInv, ReadIsHeld, ClosedStreamsAreReported
  <2> QED BY <2>1, <2>2, <2>3, Zenon DEF vars, IInv, ReadIsHeld
<1> QED BY <1>1, <1>2, <1>3, <1>4, <1>5, <1>6, Zenon DEF IInv

\* IInv is inductive: every step of a call, an abort, a stream or a pipeline keeps it.
THEOREM RunInvariant == Spec => []IInv
<1>1. IInv /\ [Next]_vars => IInv'
  <2> SUFFICES ASSUME IInv, [Next]_vars PROVE IInv'
    OBVIOUS
  <2>1. ASSUME NEW c \in Calls, Call(c) PROVE IInv'
    <3>1. CASE Install(c)   BY <3>1, InstallKeepsInv
    <3>2. CASE Take(c)      BY <3>2, TakeKeepsInv
    <3>3. CASE Returns(c)   BY <3>3, ReturnsKeepsInv
    <3>4. CASE \/ \E ws \in SUBSET Workers : BarrierReleases(c, ws)
               \/ BarrierFails(c) \/ InstallRejected(c) \/ \E w \in Workers : BroadcastStart(c, w)
               \/ BroadcastEnds(c) \/ NobodyStarted(c) \/ WaitEnds(c) \/ WaitExpires(c) \/ TakeFails(c)
      <4>1. PICK to \in Stages : Quiet(c, to)
        BY <3>4, QuietSteps, Zenon
      <4> QED BY <4>1, QuietKeepsInv, Zenon
    <3> QED BY <2>1, <3>1, <3>2, <3>3, <3>4, Zenon DEF Call
  <2>2. CASE Abort   BY <2>2, AbortKeepsInv
  <2>3. ASSUME NEW w \in Workers, NEW r \in Calls, Stream(w, r) PROVE IInv'
    BY <2>3, StreamStepKeepsInv, Zenon
  <2>4. ASSUME NEW r \in Calls, Pipeline(r) PROVE IInv'
    BY <2>4, IngestsKeepsInv, FinalizesKeepsInv, StopsKeepsInv, Zenon DEF Pipeline
  <2>5. CASE UNCHANGED vars   BY <2>5, StutterKeepsInv
  <2> QED BY <2>1, <2>2, <2>3, <2>4, <2>5, Zenon DEF Next
<1> QED BY <1>1, InitInv, PTL DEF Spec

\* No sequence of starts, aborts, failed broadcasts and deadlines leaves a run in the
\* slot that no start_run will take out (run.rs, MasterState.run).
THEOREM SlotOwnership == Spec => []SlotIsOwned
<1>1. IInv => SlotIsOwned
  BY Zenon DEF IInv
<1> QED BY <1>1, RunInvariant, PTL

\* A caller that took a run from the slot has its report or a living pipeline that
\* will send it: "telemetry pipeline stopped" is never returned.
THEOREM TakerIsAnswered == Spec => []TakenRunIsReported
<1>1. IInv => TakenRunIsReported
  BY Zenon DEF IInv, FinalizeIsPending, TakenRunIsReported
<1> QED BY <1>1, RunInvariant, PTL

\* As long as nobody aborts, start_run reports the run it started.
THEOREM OwnReport == Spec => []ReportIsOwn
<1>1. IInv => ReportIsOwn
  BY Zenon DEF IInv, ResultIsTaken, OwnerHasSlot, ReportIsOwn
<1> QED BY <1>1, RunInvariant, PTL

\* A report holds every batch of the streams that closed before its run was taken,
\* and no batch of another run.
THEOREM ReportContents == Spec => []ReportHoldsItsBatches
<1>1. IInv => ReportHoldsItsBatches
  BY Zenon DEF IInv, ReadIsHeld, BatchesAreOwn, ReportHoldsItsBatches
<1> QED BY <1>1, RunInvariant, PTL
=============================================================================
