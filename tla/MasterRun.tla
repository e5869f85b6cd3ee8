----------------------------- MODULE MasterRun -----------------------------
(***************************************************************************)
(* Runs on the master (distributed/master/run.rs): concurrent calls of     *)
(* MasterHandle::start_run and abort, the slot MasterState.run they share, *)
(* the StreamMetrics calls of the workers (server.rs), and the task that   *)
(* drives each run's telemetry pipeline (pipeline.rs).                     *)
(*                                                                         *)
(* A call of start_run has a run id of its own, so runs are named by their *)
(* calls.  The barrier is WorkerRegistry's; here it releases any workers,  *)
(* or times out.  A worker is the environment: told to START, it may open  *)
(* a telemetry stream, send batches, close it, lose it, or do nothing.     *)
(* ActiveRun.acked is written by record_ack and never read: left out.      *)
(***************************************************************************)
EXTENDS Naturals, Sequences, FiniteSets

CONSTANTS
    Calls,        \* calls of start_run, and the ids of their runs
    Workers,
    NoRun,        \* MasterState.run is None
    MaxBatches,   \* bound: batches in a telemetry stream
    MaxAborts     \* bound: calls of abort

ASSUME MasterRunAssumption ==
    /\ NoRun \notin Calls
    /\ IsFiniteSet(Workers) /\ Workers # {}
    /\ MaxBatches \in Nat /\ MaxAborts \in Nat

VARIABLES
    run,        \* MasterState.run: NoRun, or the id of the active run
    done,       \* telemetry_done of the active run
    call,       \* call[c]: where start_run is
    allocated,  \* allocated[c]: the workers the barrier released
    unsent,     \* unsent[c]: those the START loop has not come to
    commands,   \* <<kind, worker, run>> sent on the command streams
    expired,    \* expired[c]: c's wait ended by its deadline
    taken,      \* taken[c]: the run that c took from the slot
    result,     \* result[c]: what start_run returned
    stream,     \* stream[<<w, r>>]: the StreamMetrics call of worker w for run r
    pipeline,   \* pipeline[r]: the pipeline task of run r
    settled,    \* history, settled[r]: streams of r closed when r was taken
    aborts      \* calls of abort

vars == <<run, done, call, allocated, unsent, commands, expired, taken, result,
          stream, pipeline, settled, aborts>>
callVars == <<allocated, unsent, commands, taken, result, settled>>

Batch == [worker : Workers, run : Calls, id : 1 .. MaxBatches]
Result == [kind : {"pending", "error", "report"}, run : Calls \cup {NoRun},
           batches : SUBSET Batch]
Pending == [kind |-> "pending", run |-> NoRun, batches |-> {}]

Message(op, payload) == [op |-> op, payload |-> payload]

\* Put a message in the unbounded channel of r's pipeline task; it is lost if
\* the task has stopped.
Send(r, msg) ==
    [pipeline EXCEPT ![r].queue = IF pipeline[r].alive THEN Append(@, msg) ELSE @]

Init ==
    /\ run = NoRun
    /\ done = {}
    /\ call = [c \in Calls |-> "barrier"]
    /\ allocated = [c \in Calls |-> {}]
    /\ unsent = [c \in Calls |-> {}]
    /\ commands = {}
    /\ expired = [c \in Calls |-> FALSE]
    /\ taken = [c \in Calls |-> NoRun]
    /\ result = [c \in Calls |-> Pending]
    /\ stream = [s \in Workers \X Calls |-> [at |-> "reading", read |-> 0]]
    /\ pipeline = [r \in Calls |-> [alive |-> FALSE, queue |-> <<>>, batches |-> {}]]
    /\ settled = [r \in Calls |-> {}]
    /\ aborts = 0

-----------------------------------------------------------------------------
(* start_run.                                                              *)

CallAt(c, from, to) ==
    /\ call[c] = from
    /\ call' = [call EXCEPT ![c] = to]

ReturnsError(c) == result' = [result EXCEPT ![c].kind = "error"]

BarrierReleases(c, ws) ==
    /\ ws # {}
    /\ CallAt(c, "barrier", "install")
    /\ allocated' = [allocated EXCEPT ![c] = ws]
    /\ UNCHANGED <<run, done, unsent, commands, expired, taken, result, stream,
                   pipeline, settled, aborts>>

\* The barrier times out, or releases nobody.
BarrierFails(c) ==
    /\ CallAt(c, "barrier", "returned")
    /\ ReturnsError(c)
    /\ UNCHANGED <<run, done, allocated, unsent, commands, expired, taken, stream,
                   pipeline, settled, aborts>>

InstallRun(c) ==
    /\ CallAt(c, "install", "broadcast")
    /\ run' = c
    /\ done' = {}
    /\ unsent' = [unsent EXCEPT ![c] = allocated[c]]
    /\ pipeline' = [pipeline EXCEPT ![c].alive = TRUE]
    /\ UNCHANGED <<allocated, commands, expired, taken, result, stream, settled, aborts>>

\* Faulty variant: a run is installed over the active one.
InstallOver(c) == InstallRun(c)

Install(c) ==
    /\ run = NoRun
    /\ InstallRun(c)

InstallRejected(c) ==
    /\ run # NoRun
    /\ CallAt(c, "install", "returned")
    /\ ReturnsError(c)
    /\ UNCHANGED <<run, done, allocated, unsent, commands, expired, taken, stream,
                   pipeline, settled, aborts>>

\* One turn of the START loop: delivered, or the worker has no live stream.
BroadcastStart(c, w) ==
    /\ call[c] = "broadcast" /\ w \in unsent[c]
    /\ unsent' = [unsent EXCEPT ![c] = @ \ {w}]
    /\ commands' \in {commands, commands \cup {<<"START", w, c>>}}
    /\ UNCHANGED <<run, done, call, allocated, expired, taken, result, stream,
                   pipeline, settled, aborts>>

Delivered(c) == {w \in Workers : <<"START", w, c>> \in commands}

BroadcastEnds(c) ==
    /\ unsent[c] = {} /\ Delivered(c) # {}
    /\ CallAt(c, "broadcast", "wait")
    /\ UNCHANGED <<run, done, expired, stream, pipeline, aborts>>
    /\ UNCHANGED callVars

\* Faulty variant: nobody got the START, and the run stays in the slot.
NobodyStartedKeepsRun(c) ==
    /\ unsent[c] = {} /\ Delivered(c) = {}
    /\ CallAt(c, "broadcast", "returned")
    /\ ReturnsError(c)
    /\ UNCHANGED <<run, done, allocated, unsent, commands, expired, taken, stream,
                   pipeline, settled, aborts>>

\* Nobody got the START: whatever run the slot holds is dropped.
NobodyStarted(c) ==
    /\ unsent[c] = {} /\ Delivered(c) = {}
    /\ CallAt(c, "broadcast", "returned")
    /\ ReturnsError(c)
    /\ run' = NoRun
    /\ done' = {}
    /\ UNCHANGED <<allocated, unsent, commands, expired, taken, stream, pipeline,
                   settled, aborts>>

\* The wait loop looks at whatever run the slot holds.
AllDone == run # NoRun /\ Cardinality(done) >= Cardinality(allocated[run])

WaitEnds(c) ==
    /\ AllDone \/ run = NoRun
    /\ CallAt(c, "wait", "take")
    /\ UNCHANGED <<run, done, expired, stream, pipeline, aborts>>
    /\ UNCHANGED callVars

\* Faulty variant: past the deadline the loop still waits for somebody to close.
WaitExpiresOnceAnswered(c) ==
    /\ run # NoRun /\ ~AllDone /\ done # {}
    /\ CallAt(c, "wait", "take")
    /\ expired' = [expired EXCEPT ![c] = TRUE]
    /\ UNCHANGED <<run, done, stream, pipeline, aborts>>
    /\ UNCHANGED callVars

\* The deadline passes first.
WaitExpires(c) ==
    /\ run # NoRun /\ ~AllDone
    /\ CallAt(c, "wait", "take")
    /\ expired' = [expired EXCEPT ![c] = TRUE]
    /\ UNCHANGED <<run, done, stream, pipeline, aborts>>
    /\ UNCHANGED callVars

Closed(r) == {w \in Workers : stream[<<w, r>>].at = "closed"}

\* Faulty variant: Finalize overtakes the batches that are still queued.
TakeJumpsQueue(c) ==
    /\ run # NoRun
    /\ CallAt(c, "take", "finalize")
    /\ taken' = [taken EXCEPT ![c] = run]
    /\ settled' = [settled EXCEPT ![run] = Closed(run)]
    /\ pipeline' = [pipeline EXCEPT ![run].queue = <<Message("Finalize", c)>> \o @]
    /\ run' = NoRun
    /\ done' = {}
    /\ UNCHANGED <<allocated, unsent, commands, expired, result, stream, aborts>>

\* The caller takes the run from the slot and asks its pipeline to finalize.
Take(c) ==
    /\ run # NoRun
    /\ CallAt(c, "take", "finalize")
    /\ taken' = [taken EXCEPT ![c] = run]
    /\ settled' = [settled EXCEPT ![run] = Closed(run)]
    /\ pipeline' = Send(run, Message("Finalize", c))
    /\ run' = NoRun
    /\ done' = {}
    /\ UNCHANGED <<allocated, unsent, commands, expired, result, stream, aborts>>

\* "active run disappeared".
TakeFails(c) ==
    /\ run = NoRun
    /\ CallAt(c, "take", "returned")
    /\ ReturnsError(c)
    /\ UNCHANGED <<run, done, allocated, unsent, commands, expired, taken, stream,
                   pipeline, settled, aborts>>

\* The report arrived; the pipeline is told to stop.  TakenRunIsReported shows
\* that the other answer, "telemetry pipeline stopped", never comes.
Returns(c) ==
    /\ result[c].kind = "report"
    /\ CallAt(c, "finalize", "returned")
    /\ pipeline' = Send(taken[c], Message("Shutdown", NoRun))
    /\ UNCHANGED <<run, done, expired, stream, aborts>>
    /\ UNCHANGED callVars

Call(c) ==
    \/ \E ws \in SUBSET Workers : BarrierReleases(c, ws)
    \/ BarrierFails(c) \/ Install(c) \/ InstallRejected(c)
    \/ \E w \in Workers : BroadcastStart(c, w)
    \/ BroadcastEnds(c) \/ NobodyStarted(c)
    \/ WaitEnds(c) \/ WaitExpires(c)
    \/ Take(c) \/ TakeFails(c) \/ Returns(c)

(* Faulty variant: abort stops the pipeline but leaves the run installed.  *)
AbortKeepsRun ==
    /\ aborts < MaxAborts /\ run # NoRun
    /\ aborts' = aborts + 1
    /\ pipeline' = Send(run, Message("Shutdown", NoRun))
    /\ commands' = commands \cup {<<"ABORT", w, run>> : w \in allocated[run]}
    /\ UNCHANGED <<run, done, call, allocated, unsent, expired, taken, result, stream, settled>>

\* abort: takes the run, stops its pipeline and tells its workers.
Abort ==
    /\ aborts < MaxAborts /\ run # NoRun
    /\ aborts' = aborts + 1
    /\ pipeline' = Send(run, Message("Shutdown", NoRun))
    /\ commands' = commands \cup {<<"ABORT", w, run>> : w \in allocated[run]}
    /\ run' = NoRun
    /\ done' = {}
    /\ UNCHANGED <<call, allocated, unsent, expired, taken, result, stream, settled>>

-----------------------------------------------------------------------------
(* stream_metrics, one call per worker and run.  A stream that breaks ends *)
(* the call with an error and marks nothing: it is a stream that takes no  *)
(* further step, as is one that a silent worker never opens.               *)

\* A batch arrives.  ingest_batch looks at the slot under its lock: a batch of
\* the active run gets a clone of the pipeline handle, any other is dropped.
StreamReads(w, r) ==
    /\ stream[<<w, r>>].at = "reading" /\ stream[<<w, r>>].read < MaxBatches
    /\ stream' = [stream EXCEPT ![<<w, r>>].read = @ + 1,
                                ![<<w, r>>].at = IF run = r THEN "ingesting" ELSE "reading"]
    /\ UNCHANGED <<run, done, call, expired, pipeline, aborts>>
    /\ UNCHANGED callVars

\* The batch goes to the pipeline, whose run may have been taken meanwhile.
StreamIngests(w, r) ==
    /\ stream[<<w, r>>].at = "ingesting"
    /\ stream' = [stream EXCEPT ![<<w, r>>].at = "reading"]
    /\ pipeline' = Send(r, Message("Batch", [worker |-> w, run |-> r, id |-> stream[<<w, r>>].read]))
    /\ UNCHANGED <<run, done, call, expired, aborts>>
    /\ UNCHANGED callVars

\* Half-close: mark_telemetry_done names the worker, if a batch did, and puts it
\* in telemetry_done of whatever run is active.
StreamCloses(w, r) ==
    /\ stream[<<w, r>>].at = "reading"
    /\ stream' = [stream EXCEPT ![<<w, r>>].at = "closed"]
    /\ done' = IF run # NoRun /\ stream[<<w, r>>].read > 0 THEN done \cup {w} ELSE done
    /\ UNCHANGED <<run, call, expired, pipeline, aborts>>
    /\ UNCHANGED callVars

Stream(w, r) ==
    /\ <<"START", w, r>> \in commands
    /\ StreamReads(w, r) \/ StreamIngests(w, r) \/ StreamCloses(w, r)

-----------------------------------------------------------------------------
(* run_pipeline: the task that owns a run's TelemetryPipeline.             *)

Receives(r, op) ==
    /\ pipeline[r].alive /\ pipeline[r].queue # <<>>
    /\ Head(pipeline[r].queue).op = op

PipelineIngests(r) ==
    /\ Receives(r, "Batch")
    /\ pipeline' = [pipeline EXCEPT ![r].queue = Tail(@),
                                    ![r].batches = @ \cup {Head(pipeline[r].queue).payload}]
    /\ UNCHANGED <<run, done, call, expired, stream, aborts>>
    /\ UNCHANGED callVars

PipelineFinalizes(r) ==
    /\ Receives(r, "Finalize")
    /\ result' = [result EXCEPT ![Head(pipeline[r].queue).payload] =
                     [kind |-> "report", run |-> r, batches |-> pipeline[r].batches]]
    /\ pipeline' = [pipeline EXCEPT ![r].queue = Tail(@)]
    /\ UNCHANGED <<run, done, call, allocated, unsent, commands, expired, taken,
                   stream, settled, aborts>>

PipelineStops(r) ==
    /\ Receives(r, "Shutdown")
    /\ pipeline' = [pipeline EXCEPT ![r] = [alive |-> FALSE, queue |-> <<>>, batches |-> {}]]
    /\ UNCHANGED <<run, done, call, expired, stream, aborts>>
    /\ UNCHANGED callVars

Pipeline(r) == PipelineIngests(r) \/ PipelineFinalizes(r) \/ PipelineStops(r)

-----------------------------------------------------------------------------
Next ==
    \/ \E c \in Calls : Call(c)
    \/ Abort
    \/ \E w \in Workers, r \in Calls : Stream(w, r)
    \/ \E r \in Calls : Pipeline(r)

Spec == Init /\ [][Next]_vars

(* Calls and pipelines are tasks of a fair runtime, the barrier times out, *)
(* the clock reaches the deadline.  Workers owe the master nothing.        *)
Fairness ==
    /\ \A c \in Calls : WF_vars(Call(c))
    /\ \A r \in Calls : WF_vars(Pipeline(r))

FairSpec == Spec /\ Fairness

-----------------------------------------------------------------------------
(* Properties.                                                             *)

\* The variables have their types, and a run that got past the barrier has
\* workers (run.rs 217-219).
TypeOK ==
    /\ run \in Calls \cup {NoRun}
    /\ done \in SUBSET Workers
    /\ call \in [Calls -> {"barrier", "install", "broadcast", "wait", "take",
                           "finalize", "returned"}]
    /\ allocated \in [Calls -> SUBSET Workers]
    /\ unsent \in [Calls -> SUBSET Workers]
    /\ commands \subseteq {"START", "ABORT"} \X Workers \X Calls
    /\ expired \in [Calls -> BOOLEAN]
    /\ taken \in [Calls -> Calls \cup {NoRun}]
    /\ result \in [Calls -> Result]
    /\ stream \in [Workers \X Calls ->
                     [at : {"reading", "ingesting", "closed"},
                      read : 0 .. MaxBatches]]
    /\ settled \in [Calls -> SUBSET Workers]
    /\ aborts \in 0 .. MaxAborts
    /\ \A c \in Calls : allocated[c] = {} => call[c] \in {"barrier", "returned"}

\* A run in the slot belongs to a start_run call that will still take it out, so
\* no sequence of starts, aborts, failed broadcasts and deadlines leaves a run
\* behind that would have every later start_run rejected.
SlotIsOwned == run # NoRun => call[run] \in {"broadcast", "wait", "take"}

\* Whoever takes a run from the slot gets a report: its pipeline lives until it
\* has answered, whatever aborts and other callers do.
TakenRunIsReported ==
    \A c \in Calls : call[c] = "finalize" =>
        result[c].kind = "report" \/ pipeline[taken[c]].alive

\* A report holds every batch of each stream that closed before its run was
\* taken: closing follows the last batch, and Finalize queues behind them all.
ClosedStreamsAreReported ==
    \A c \in Calls : result[c].kind = "report" =>
        LET r == result[c].run IN
        \A w \in settled[r] : \A n \in 1 .. stream[<<w, r>>].read :
            [worker |-> w, run |-> r, id |-> n] \in result[c].batches

\* A report holds batches of its own run only, even while streams of earlier
\* runs are still open.
NoForeignBatches ==
    \A c \in Calls : \A b \in result[c].batches : b.run = result[c].run

\* A report holds the batches of its own run and of no other.
ReportHoldsItsBatches == ClosedStreamsAreReported /\ NoForeignBatches

\* As long as nobody aborts, start_run returns the report of its own run.
ReportIsOwn == aborts = 0 => \A c \in Calls : result[c].run \in {c, NoRun}

\* Every start_run returns, even if its workers never open, never close or break
\* their streams, and whoever takes its run.
StartRunReturns == \A c \in Calls : <>(call[c] = "returned")

-----------------------------------------------------------------------------
(* What the source says of runs and its code does not keep.                *)

\* "collect telemetry until every worker finishes, and return the report" (run.rs
\* 205): the report is that of the run the caller started.
CallerGetsOwnReport == \A c \in Calls : result[c].run \in {c, NoRun}

\* "Wait until every allocated worker's telemetry stream closes, with a
\* duration-derived deadline as a safety bound" (run.rs 277).
WaitsForEveryStream ==
    \A c \in Calls :
        aborts = 0 /\ ~expired[c] /\ call[c] = "finalize" => allocated[c] \subseteq Closed(c)
=============================================================================
