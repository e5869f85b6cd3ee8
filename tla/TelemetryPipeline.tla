------------------------- MODULE TelemetryPipeline -------------------------
(***************************************************************************)
(* The master's aggregation of telemetry (master/pipeline.rs): batches of  *)
(* several workers, in the order the pipeline task receives them, merged   *)
(* into epochs, per-worker tallies and a cumulative total; live snapshots; *)
(* and the figures of the final report.  MasterRun models who sends what   *)
(* to the task and when it is finalized.                                   *)
(*                                                                         *)
(* A worker streams its windows in order, but those of two workers are     *)
(* interleaved at will, so the pipeline may meet a later epoch first.      *)
(* The requests of a batch fall in one latency bucket, whose index stands  *)
(* for their latency.  Successes, bytes and error classes are summed like  *)
(* failures and left out.  A worker's id is never empty and its batches    *)
(* always carry a latency summary, so those two tests of the code are not  *)
(* modelled.                                                               *)
(***************************************************************************)
EXTENDS Integers, Sequences, FiniteSetsExt, Functions

CONSTANTS
    Workers,
    Times,          \* window_start_unix_ms of batches
    EpochMs,        \* EPOCH_MS
    WindowEpochs,   \* window_epochs
    BucketCount,    \* bucket_count, as the master is configured
    WorkerBuckets,  \* length of the histogram a worker sends
    MaxBatches      \* bound: batches of the run

ASSUME TelemetryPipelineAssumption ==
    /\ Times \subseteq Nat
    /\ EpochMs \in Nat \ {0} /\ WindowEpochs \in Nat \ {0} /\ BucketCount \in Nat \ {0}
    /\ WorkerBuckets \in Nat \ {0}
    /\ MaxBatches \in Nat

VARIABLES
    epochs,                \* epochs[e]: metrics of the epoch that starts at e
    workers,               \* workers[w]: metrics of worker w
    cumulative,
    started_at_ms,         \* <<>>, or <<epoch>>
    last_published_epoch,  \* <<>>, or <<epoch>>
    live,                  \* the snapshots published
    ingested               \* history: the batches ingested, in order

vars == <<epochs, workers, cumulative, started_at_ms, last_published_epoch, live, ingested>>

Buckets == 1 .. BucketCount

Batch ==
    [worker : Workers, start : Times, total : {1, 2}, failure : {0, 1}, bucket : 1 .. WorkerBuckets]

-----------------------------------------------------------------------------
(* Metrics.                                                                *)

NewMetrics ==
    [total |-> 0, failure |-> 0, sample_count |-> 0, buckets |-> [i \in Buckets |-> 0], extremes |-> {}]

\* min_ms and max_ms of a set of latencies; neither is set while it is empty.
Extremes(S) == IF S = {} THEN {} ELSE {Min(S), Max(S)}

\* merge_batch; a count whose bucket the master does not have is dropped.
MergeBatch(m, b) ==
    [total |-> m.total + b.total,
     failure |-> m.failure + b.failure,
     sample_count |-> m.sample_count + b.total,
     buckets |-> [i \in Buckets |-> IF i = b.bucket THEN m.buckets[i] + b.total ELSE m.buckets[i]],
     extremes |-> Extremes(m.extremes \cup {b.bucket})]

Merge(m, n) ==
    [total |-> m.total + n.total,
     failure |-> m.failure + n.failure,
     sample_count |-> m.sample_count + n.sample_count,
     buckets |-> [i \in Buckets |-> m.buckets[i] + n.buckets[i]],
     extremes |-> Extremes(m.extremes \cup n.extremes)]

\* Faulty variant: the entry is replaced rather than merged into.
EntryReplaced(map, key, b) ==
    [k \in DOMAIN map \cup {key} |-> IF k = key THEN MergeBatch(NewMetrics, b) ELSE map[k]]

\* map.entry(key).or_insert_with(new).merge_batch(b)
EntryMerged(map, key, b) ==
    [k \in DOMAIN map \cup {key} |->
        IF k # key THEN map[k]
        ELSE MergeBatch(IF key \in DOMAIN map THEN map[key] ELSE NewMetrics, b)]

EpochOf(ms) == ms - (ms % EpochMs)

-----------------------------------------------------------------------------
Init ==
    /\ epochs = << >>
    /\ workers = << >>
    /\ cumulative = NewMetrics
    /\ started_at_ms = <<>>
    /\ last_published_epoch = <<>>
    /\ live = <<>>
    /\ ingested = <<>>

\* Faulty variant: the window reaches one epoch too far back.
WindowMetricsWide(es, epoch) ==
    FoldFunctionOnSet(Merge, NewMetrics, es,
        {e \in DOMAIN es : epoch - WindowEpochs * EpochMs <= e /\ e <= epoch})

\* window_metrics: the trailing window that ends at epoch.
WindowMetrics(es, epoch) ==
    FoldFunctionOnSet(Merge, NewMetrics, es,
        {e \in DOMAIN es : epoch - (WindowEpochs - 1) * EpochMs <= e /\ e <= epoch})

\* Faulty variant: only an epoch later than the last one is published.
PublishesAdvance(epoch) ==
    last_published_epoch = <<>> \/ (last_published_epoch # <<>> /\ last_published_epoch[1] < epoch)

\* ingest returns a snapshot when the epoch is not the one published last.
Publishes(epoch) == last_published_epoch # <<epoch>>

\* elapsed_secs, in milliseconds.
Elapsed(start, epoch) == IF epoch >= start THEN epoch - start ELSE 0

\* A worker's windows open one after the other and its stream keeps their order.
InOrder(b) == \A i \in 1 .. Len(ingested) : ingested[i].worker = b.worker => ingested[i].start <= b.start

Ingest(b) ==
    LET epoch == EpochOf(b.start) IN
    /\ Len(ingested) < MaxBatches
    /\ InOrder(b)
    /\ ingested' = Append(ingested, b)
    /\ started_at_ms' = IF started_at_ms = <<>> THEN <<epoch>> ELSE started_at_ms
    /\ epochs' = EntryMerged(epochs, epoch, b)
    /\ workers' = EntryMerged(workers, b.worker, b)
    /\ cumulative' = MergeBatch(cumulative, b)
    /\ IF Publishes(epoch)
       THEN /\ last_published_epoch' = <<epoch>>
            /\ live' = Append(live, [epoch |-> epoch, window |-> WindowMetrics(epochs', epoch),
                                     elapsed |-> Elapsed(started_at_ms'[1], epoch),
                                     total |-> cumulative'.total,
                                     active_workers |-> DOMAIN workers',
                                     at |-> Len(ingested')])
       ELSE UNCHANGED <<last_published_epoch, live>>

Next == \E b \in Batch : Ingest(b)

Spec == Init /\ [][Next]_vars

-----------------------------------------------------------------------------
(* finalize.                                                               *)

\* duration_secs, in milliseconds; the last key of epochs is the latest epoch.
Duration ==
    IF started_at_ms = <<>> THEN 0
    ELSE IF Max(DOMAIN epochs) >= started_at_ms[1]
         THEN Max(DOMAIN epochs) - started_at_ms[1] + EpochMs
         ELSE 0

-----------------------------------------------------------------------------
(* Properties.                                                             *)

Merged(map) == FoldFunctionOnSet(Merge, NewMetrics, map, DOMAIN map)

\* What the first n batches add up to, those that satisfy P.
TotalOf(n, P(_)) == MapThenSumSet(LAMBDA i : ingested[i].total, {i \in 1 .. n : P(ingested[i])})

\* The variables have their types.
TypeOK ==
    /\ DOMAIN epochs \subseteq {e \in 0 .. Max(Times) : e % EpochMs = 0}
    /\ DOMAIN workers \subseteq Workers
    /\ ingested \in Seq(Batch)
    /\ Len(started_at_ms) = (IF ingested = <<>> THEN 0 ELSE 1)
    /\ Len(last_published_epoch) = Len(started_at_ms)

\* The histogram of every tally accounts for each of its samples, so percentiles
\* are taken over all requests.  It needs WorkerBuckets <= BucketCount, which
\* the operator sees to.
HistogramIsComplete ==
    \A m \in Range(epochs) \cup Range(workers) \cup {cumulative} :
        SumFunction(m.buckets) = m.sample_count

\* The timeline, the worker shares and the totals of the report agree, counter by
\* counter and bucket by bucket, in whatever order the workers' batches came, and
\* their histograms are complete.
TalliesAgree ==
    /\ Merged(epochs) = cumulative
    /\ Merged(workers) = cumulative
    /\ HistogramIsComplete

\* Every snapshot showed exactly the batches of its sliding window that had been
\* ingested by then, late batches of earlier epochs included.
SnapshotCoversWindow ==
    \A s \in Range(live) :
        s.window.total =
            TotalOf(s.at, LAMBDA b : b.start < s.epoch + EpochMs
                                     /\ b.start >= s.epoch - (WindowEpochs - 1) * EpochMs)

\* No epoch of the timeline goes unseen: each has been published, even one that
\* starts before epochs that were published already.
EveryEpochIsPublished == DOMAIN epochs \subseteq {s.epoch : s \in Range(live)}

-----------------------------------------------------------------------------
(* What the source says of the pipeline and its code does not keep.        *)

\* "publishes a LiveSnapshot once per epoch" (pipeline.rs 6-7).
PublishedOncePerEpoch ==
    \A i, j \in 1 .. Len(live) : live[i].epoch = live[j].epoch => i = j

\* duration_secs: "Observed wall-clock span in seconds." (reporting.rs 105).
DurationIsSpan ==
    ingested # <<>> => Duration = Max(DOMAIN epochs) - Min(DOMAIN epochs) + EpochMs
=============================================================================
