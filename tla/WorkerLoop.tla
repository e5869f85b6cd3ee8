----------------------------- MODULE WorkerLoop -----------------------------
(***************************************************************************)
(* A worker that drives one protocol session (spawn_worker in lib.rs): it  *)
(* runs iterations one after the other, drops the future of one that       *)
(* exceeds its deadline or is cancelled, at whatever await it is, and      *)
(* hands each metric to the aggregator.  The modules of the protocols      *)
(* extend this one with the steps of an iteration.                         *)
(*                                                                         *)
(* A step ends at an await.  Dropping the future leaves the session as the *)
(* last await left it.  Clocks are abstracted: every measured time is 0,   *)
(* and an inner timeout may expire whenever its await is pending.          *)
(***************************************************************************)
EXTENDS Aggregation

CONSTANTS
    Chaos,           \* the faults that select_fault may return
    MaxIterations,   \* bound: iterations of the worker
    MaxLosses,       \* bound: connections the peer closes or loses
    MaxFrames        \* bound: frames the peers send of their own accord

Faults == {"LatencySpike", "CorruptedPayload", "MetadataCorruption", "ConnectionDrop"}

ASSUME WorkerLoopAssumption ==
    /\ Chaos \subseteq Faults
    /\ MaxIterations \in Nat
    /\ MaxLosses \in Nat
    /\ MaxFrames \in Nat

VARIABLES
    pc,        \* the await at which the iteration is suspended; idle; left
    it,        \* the iteration's fault and local variables
    session,   \* the worker's session: the fields of its struct
    peer,      \* the server's side of the latest connection
    report,    \* what the aggregator has recorded
    past,      \* what the worker and the peer have done so far
    truth      \* what really happened on the wire, for the properties

loopVars == <<pc, it, session, peer, report, past, truth>>

\* ChaosEngine::select_fault
SelectFault == {<<>>} \cup {<<f>> : f \in Chaos}

Is(f, name) == f = <<name>>

NoIteration == [fault |-> <<>>]

NoPast == [iterations |-> 0, selected |-> 0, cut |-> 0, dropped |-> 0, losses |-> 0, connections |-> 0,
           frames |-> 0]

\* The part of AggregatedMetrics that the properties of a session read.
NoReport == [metrics |-> 0, errors |-> 0, injected |-> 0, protocol |-> ProtocolDefault]

-----------------------------------------------------------------------------
(* The loop of spawn_worker.                                               *)

\* Faulty variant: only iterations that got an answer count the fault they met.
AddAnswered(m) ==
    [metrics |-> report.metrics + 1,
     errors |-> report.errors + IF IsError(m) THEN 1 ELSE 0,
     injected |-> report.injected + IF m.status = 0 THEN 0 ELSE Len(m.fault),
     protocol |-> RecordProtocol(report.protocol, m.sample)]

\* The worker counts and sends the metric, finalize_metrics records it.
Add(m) ==
    [metrics |-> report.metrics + 1,
     errors |-> report.errors + IF IsError(m) THEN 1 ELSE 0,
     injected |-> report.injected + Len(m.fault),
     protocol |-> RecordProtocol(report.protocol, m.sample)]

MayBegin == pc = "idle" /\ past.iterations < MaxIterations

Begun(f) == [past EXCEPT !.iterations = @ + 1, !.selected = @ + Len(f)]

End(m) ==
    /\ pc' = "idle"
    /\ it' = NoIteration
    /\ report' = Add(m)

\* An iteration that ends before its first await.
EndAtOnce(f, m) ==
    /\ MayBegin
    /\ past' = Begun(f)
    /\ End(m)

\* Elapsed in the select: the deadline's metric knows nothing of the iteration.
CutShort ==
    /\ pc \notin {"idle", "left"}
    /\ End(Builder(0, <<>>))
    /\ past' = [past EXCEPT !.cut = @ + Len(it.fault)]

\* The test is over or the token is cancelled: an iteration under way is dropped
\* without a metric, and the session is shut down.
Leave(closed) ==
    /\ pc # "left"
    /\ pc' = "left"
    /\ it' = NoIteration
    /\ session' = closed
    /\ past' = [past EXCEPT !.cut = @ + Len(it.fault), !.dropped = @ + IF pc = "idle" THEN 0 ELSE 1]
    /\ UNCHANGED <<peer, report, truth>>

-----------------------------------------------------------------------------
(* The peer and the network.                                               *)

\* A frame on its way to the client: its kind, and a number that tells it apart.
Frame(kind, n) == [kind |-> kind, n |-> n]

NoPeer == [up |-> FALSE, inbox |-> <<>>]

MayRead == peer.inbox # <<>>

Received == Head(peer.inbox)

Take == [peer EXCEPT !.inbox = Tail(@)]

\* Frames that tell the client that the connection is gone.
Ends == {"close", "eof", "error"}

\* The peer, which is now in state p, sends a frame.
Deliver(frame, p) ==
    /\ peer.up
    /\ peer' = [p EXCEPT !.inbox = Append(@, frame)]
    /\ UNCHANGED <<pc, it, session, report, truth>>

\* A frame that answers nothing.
Volunteer(frame, p) ==
    /\ past.frames < MaxFrames
    /\ past' = [past EXCEPT !.frames = @ + 1]
    /\ Deliver(frame, p)

\* The connection ends: what was sent before can still be read.
Lose(kind) ==
    /\ peer.up
    /\ past.losses < MaxLosses
    /\ peer' = [peer EXCEPT !.up = FALSE, !.inbox = Append(@, Frame(kind, 0))]
    /\ past' = [past EXCEPT !.losses = @ + 1]
    /\ UNCHANGED <<pc, it, session, report, truth>>

\* A new connection replaces the latest one.
Connected == [past EXCEPT !.connections = @ + 1]

-----------------------------------------------------------------------------
(* What holds whatever the protocol.                                       *)

\* Every fault that chaos selects is counted in chaos_injected_total, also by
\* iterations that fail, unless the deadline or the end of the test dropped the
\* iteration that met it.
FaultsAreReported == report.injected + past.cut + Len(it.fault) = past.selected

\* Every iteration is a metric of the report, except the one under way and the
\* one dropped when the worker left: total_requests counts those too.
IterationsAreReported ==
    report.metrics + past.dropped + (IF pc \in {"idle", "left"} THEN 0 ELSE 1) = past.iterations
=============================================================================
