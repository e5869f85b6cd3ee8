-------------------------- MODULE WorkerRegistry --------------------------
(***************************************************************************)
(* The master's view of its workers: Registry (master/registry.rs), the    *)
(* RPC handlers that change it (master/server.rs), the health sweep, and   *)
(* the barrier that gates a run on it (master/barrier.rs), against workers *)
(* that connect, register, heartbeat, watch for commands, get lost and     *)
(* come back, and a master that restarts with an empty registry.           *)
(*                                                                         *)
(* An RPC is one action: the registry is behind one lock, and a request    *)
(* dies with the session that made it.  A worker heartbeats READY or       *)
(* RUNNING only (WorkerSession never leaves these states).                 *)
(***************************************************************************)
EXTENDS Naturals, FiniteSets, FiniteSetsExt

CONSTANTS
    Workers,
    Expected,        \* start_run's expected; 0 means any number
    MaxFailures      \* bound: lost sessions and master restarts

ASSUME WorkerRegistryAssumption ==
    /\ IsFiniteSet(Workers)
    /\ Expected \in 0 .. Cardinality(Workers)
    /\ MaxFailures \in Nat

VARIABLES
    record,     \* record[w]: the WorkerRecord, or None
    session,    \* session[w]: w's session with the master
    busy,       \* busy[w]: w executes a run
    barrier,    \* where the caller of wait_for_ready is
    allocated,  \* the workers it was given and has not dispatched to
    failures,
    sweeping    \* health_sweep_loop was spawned: serve does not, a program that embeds it may

vars == <<record, session, busy, barrier, allocated, failures, sweeping>>

Status == {"Registered", "Ready", "Running", "Disconnected", "Failed"}

None == [status |-> "none", stream |-> "none", late |-> FALSE]

\* A record: its status, its command_tx (none, that of the worker's present
\* session, or that of one that ended), and whether its last heartbeat is older
\* than the timeout.
Record == [status : Status, stream : {"none", "live", "dead"}, late : BOOLEAN]

Init ==
    /\ record = [w \in Workers |-> None]
    /\ session = [w \in Workers |-> "down"]
    /\ busy = [w \in Workers |-> FALSE]
    /\ barrier = "waiting"
    /\ allocated = {}
    /\ failures = 0
    /\ sweeping \in BOOLEAN

-----------------------------------------------------------------------------
(* RPCs of the workers.                                                    *)

\* Faulty variant: a worker that registers again keeps its command channel.
RegisterKeepsStream(w) ==
    /\ session[w] = "down"
    /\ session' = [session EXCEPT ![w] = "registered"]
    /\ record' = [record EXCEPT ![w].status = "Registered", ![w].late = FALSE]
    /\ UNCHANGED <<busy, barrier, allocated, failures, sweeping>>

\* register_worker: a fresh record replaces the old one.
Register(w) ==
    /\ session[w] = "down"
    /\ session' = [session EXCEPT ![w] = "registered"]
    /\ record' = [record EXCEPT ![w] = [status |-> "Registered", stream |-> "none", late |-> FALSE]]
    /\ UNCHANGED <<busy, barrier, allocated, failures, sweeping>>

\* WorkerStatus::from_wire of what a worker sends.
FromWire(state) ==
    CASE state = "Ready" -> "Ready"
      [] state \in {"Running", "Draining"} -> "Running"
      [] state = "Error" -> "Failed"
      [] state = "Unregistered" -> "Disconnected"
      [] state = "Unspecified" -> "Registered"

Connected(w) == session[w] \in {"registered", "watching"}

Heartbeat(w) ==
    /\ Connected(w) /\ record[w] # None
    /\ record' = [record EXCEPT ![w].status = FromWire(IF busy[w] THEN "Running" ELSE "Ready"),
                                ![w].late = FALSE]
    /\ UNCHANGED <<session, busy, barrier, allocated, failures, sweeping>>

\* heartbeat or watch_commands answers "not registered": the session ends.
NotRegistered(w) ==
    /\ Connected(w) /\ record[w] = None
    /\ session' = [session EXCEPT ![w] = "down"]
    /\ busy' = [busy EXCEPT ![w] = FALSE]
    /\ UNCHANGED <<record, barrier, allocated, failures, sweeping>>

\* watch_commands attaches the command channel; it does not notify the barrier.
Watch(w) ==
    /\ session[w] = "registered" /\ record[w] # None
    /\ session' = [session EXCEPT ![w] = "watching"]
    /\ record' = [record EXCEPT ![w].stream = "live"]
    /\ UNCHANGED <<busy, barrier, allocated, failures, sweeping>>

\* The session ends (connection lost, worker crashed or stopped); the worker
\* comes back, or is gone for good.  Nobody calls detach_commands: the record
\* keeps its sender.
SessionLost(w, then) ==
    /\ Connected(w) /\ failures < MaxFailures
    /\ failures' = failures + 1
    /\ session' = [session EXCEPT ![w] = then]
    /\ busy' = [busy EXCEPT ![w] = FALSE]
    /\ record' = [record EXCEPT ![w].stream = IF @ = "live" THEN "dead" ELSE @]
    /\ UNCHANGED <<barrier, allocated, sweeping>>

\* The master restarts: its registry and its caller start anew.
MasterRestarts ==
    /\ failures < MaxFailures
    /\ failures' = failures + 1
    /\ record' = [w \in Workers |-> None]
    /\ barrier' = "waiting"
    /\ allocated' = {}
    /\ UNCHANGED <<session, busy, sweeping>>

-----------------------------------------------------------------------------
(* Time and the health sweep.                                              *)

\* Faulty variant: only a worker that reported READY can be late.
AgesIfReady(w) ==
    /\ sweeping
    /\ record[w].status = "Ready" /\ ~record[w].late
    /\ record' = [record EXCEPT ![w].late = TRUE]
    /\ UNCHANGED <<session, busy, barrier, allocated, failures, sweeping>>

\* The timeout passes since the last heartbeat.
Ages(w) ==
    /\ sweeping
    /\ record[w] # None /\ ~record[w].late
    /\ record' = [record EXCEPT ![w].late = TRUE]
    /\ UNCHANGED <<session, busy, barrier, allocated, failures, sweeping>>

Late == {w \in Workers : record[w] # None /\ record[w].late /\ record[w].status # "Disconnected"}

Sweep ==
    /\ sweeping /\ Late # {}
    /\ record' = [w \in Workers |->
                    IF w \in Late THEN [record[w] EXCEPT !.status = "Disconnected", !.stream = "none"]
                    ELSE record[w]]
    /\ UNCHANGED <<session, busy, barrier, allocated, failures, sweeping>>

-----------------------------------------------------------------------------
(* wait_for_ready and the START loop of start_run.                         *)

AllocatableWorkers == {w \in Workers : record[w].status = "Ready" /\ record[w].stream # "none"}

Required == Max({Expected, 1})

\* Faulty variant: the barrier waits for one worker too many.
BarrierNeedsMore ==
    /\ barrier = "waiting" /\ Cardinality(AllocatableWorkers) > Required
    /\ barrier' = "released"
    /\ allocated' \in IF Expected = 0 THEN {AllocatableWorkers} ELSE kSubset(Required, AllocatableWorkers)
    /\ UNCHANGED <<record, session, busy, failures, sweeping>>

\* The barrier is woken by a notification or its poll and finds enough workers.
\* It takes the first ones by name: any, as far as the model can tell.  A barrier
\* that times out changes nothing; the next start_run waits in its place.
BarrierReleases ==
    /\ barrier = "waiting" /\ Cardinality(AllocatableWorkers) >= Required
    /\ barrier' = "released"
    /\ allocated' \in IF Expected = 0 THEN {AllocatableWorkers} ELSE kSubset(Required, AllocatableWorkers)
    /\ UNCHANGED <<record, session, busy, failures, sweeping>>

\* START is sent on the recorded channel; it arrives if that is the channel of
\* the worker's present session.
Dispatch(w) ==
    /\ barrier = "released" /\ w \in allocated
    /\ allocated' = allocated \ {w}
    /\ busy' = [busy EXCEPT ![w] = @ \/ record[w].stream = "live"]
    /\ UNCHANGED <<record, session, barrier, failures, sweeping>>

\* The run is over (MasterRun), and the caller comes back for the next one.
NextRun ==
    /\ barrier = "released" /\ allocated = {}
    /\ barrier' = "waiting"
    /\ UNCHANGED <<record, session, busy, allocated, failures, sweeping>>

\* The worker's run ends.
RunEnds(w) ==
    /\ busy[w]
    /\ busy' = [busy EXCEPT ![w] = FALSE]
    /\ UNCHANGED <<record, session, barrier, allocated, failures, sweeping>>

-----------------------------------------------------------------------------
Next ==
    \/ \E w \in Workers :
          \/ Register(w) \/ Heartbeat(w) \/ NotRegistered(w) \/ Watch(w)
          \/ SessionLost(w, "down") \/ SessionLost(w, "gone")
          \/ Ages(w) \/ Dispatch(w) \/ RunEnds(w)
    \/ MasterRestarts \/ Sweep \/ BarrierReleases \/ NextRun

Spec == Init /\ [][Next]_vars

(* Workers keep trying to register, heartbeat and watch; time passes; the  *)
(* barrier polls; runs end.  Weak fairness of the barrier is enough: a     *)
(* worker stays READY until it is given a run.                             *)
Fairness ==
    /\ \A w \in Workers :
          /\ WF_vars(Register(w)) /\ WF_vars(Heartbeat(w)) /\ WF_vars(NotRegistered(w))
          /\ WF_vars(Watch(w)) /\ WF_vars(Ages(w)) /\ WF_vars(Dispatch(w)) /\ WF_vars(RunEnds(w))
    /\ WF_vars(Sweep) /\ WF_vars(BarrierReleases) /\ WF_vars(NextRun)

FairSpec == Spec /\ Fairness

-----------------------------------------------------------------------------
(* Properties.                                                             *)

\* The variables have their types, and only a released barrier has allocated.
TypeOK ==
    /\ \A w \in Workers : record[w] = None \/ record[w] \in Record
    /\ session \in [Workers -> {"down", "registered", "watching", "gone"}]
    /\ busy \in [Workers -> BOOLEAN]
    /\ barrier \in {"waiting", "released"}
    /\ allocated \in SUBSET Workers
    /\ barrier = "waiting" => allocated = {}
    /\ failures \in 0 .. MaxFailures
    /\ sweeping \in BOOLEAN

\* While a worker has a session, START for it never goes into the channel of an
\* earlier one: registering again drops the old channel.
NoStaleChannel == \A w \in Workers : Connected(w) => record[w].stream # "dead"

\* Without a sweep, a worker that watches for commands is one the registry has a
\* channel for, unless the master has just restarted: no sequence of losses and
\* registrations leaves a connected worker that cannot be given a run.
WatcherHasChannel ==
    ~sweeping =>
        \A w \in Workers : session[w] = "watching" /\ record[w] # None => record[w].stream = "live"

\* The registry's channels are those of the sessions: START for a connected worker
\* goes to the session that watches for it.
ChannelsAreLive == NoStaleChannel /\ WatcherHasChannel

\* Without a sweep, and as long as lost workers come back, the barrier keeps releasing runs after any
\* lost sessions and restarts: workers register again, are READY after a
\* heartbeat, and the poll sees them.
BarrierIsSatisfied ==
    ~sweeping /\ [](\A w \in Workers : session[w] # "gone") => (barrier = "waiting" ~> barrier = "released")

\* With a sweep, a worker that is gone for good is DISCONNECTED in the end,
\* whatever it reported last.
LostWorkerIsDisconnected ==
    \A w \in Workers :
        sweeping /\ session[w] = "gone" ~> record[w].status \in {"none", "Disconnected"}

-----------------------------------------------------------------------------
(* What the source says of the registry and its code does not keep.        *)

\* allocatable_workers: "READY and have a live command stream, i.e. workers the
\* master can actually dispatch a run to" (registry.rs 222-223).
AllocatableIsLive == \A w \in AllocatableWorkers : session[w] = "watching"

\* "a worker marked DISCONNECTED by the health sweep is re-added once it registers
\* again" (docs/distributed.md): not before.
DisconnectedUntilRegistered ==
    [][\A w \in Workers :
          record[w].status = "Disconnected" /\ record'[w].status = "Ready" => session[w] = "down"]_vars
=============================================================================
