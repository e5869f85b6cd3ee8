--------------------------- MODULE WorkerSession ---------------------------
(***************************************************************************)
(* The worker daemon (distributed/worker.rs): its sessions with the        *)
(* master, the heartbeat and command loops of a session, and the runs that *)
(* START commands spawn.  A run is the task RunTask promises: it executes, *)
(* it drains, it is done; RunOrchestrator models what happens inside.      *)
(*                                                                         *)
(* The tokio runtime has several threads, so code without an await runs    *)
(* concurrently with other tasks: an action is one access to state that    *)
(* another task also uses.  The master is the environment: it may push any *)
(* command and answer a heartbeat with any directive.                      *)
(***************************************************************************)
EXTENDS Naturals, FiniteSets

CONSTANTS
    Runs,          \* the runs that START commands ask for
    NoRun,         \* shared.run is None
    VirtualUsers,  \* plan.virtual_users
    MaxSessions    \* bound: sessions of the daemon

ASSUME WorkerSessionAssumption ==
    /\ NoRun \notin Runs
    /\ VirtualUsers \in Nat \ {0}
    /\ MaxSessions \in Nat \ {0}

VARIABLES
    daemon,     \* where Worker::run and session are
    shutdown,   \* the daemon's CancellationToken
    session,    \* number of the current session
    awaited,    \* the run whose handle session awaits in stop_run
    shared,     \* shared[s]: the Shared of session s: state, active_vus, run
    command,    \* the command loop: where it is, and the run it deals with
    heartbeat,  \* where the heartbeat loop is
    task,       \* task[r]: the run_orchestrator task of run r
    cancel,     \* cancel[r]: its CancellationToken
    home,       \* home[r]: the session whose Shared it holds
    verdict,    \* verdict[r]: what the worker answered to r's START
    vus_seen    \* vus_seen[r]: active_vus as its collector read it

vars == <<daemon, shutdown, session, awaited, shared, command, heartbeat,
          task, cancel, home, verdict, vus_seen>>
runVars == <<task, cancel, home, verdict, vus_seen>>
sessionVars == <<daemon, shutdown, session, awaited>>

WorkerState == {"Ready", "Running", "Draining", "Error"}

\* WorkerState::can_transition_to
CanTransition ==
    {<<"Ready", "Running">>, <<"Ready", "Draining">>, <<"Ready", "Error">>,
     <<"Running", "Draining">>, <<"Running", "Ready">>, <<"Running", "Error">>,
     <<"Draining", "Ready">>, <<"Draining", "Error">>,
     <<"Error", "Ready">>, <<"Error", "Draining">>}

\* Shared::set_state: the state after asking for next; an illegal transition is
\* ignored.
Transition(state, next) ==
    IF next = state \/ <<state, next>> \in CanTransition THEN next ELSE state

Sessions == 1 .. MaxSessions
NewShared == [state |-> "Ready", active_vus |-> 0, run |-> NoRun]

\* The run in the slot of the current session.
ActiveRun == shared[session].run

\* cancel_run, and the first half of stop_run: the active run's token.
CancelActive == cancel' = [r \in Runs |-> cancel[r] \/ r = ActiveRun]

\* The virtual users of r may be executing requests.
Executing(r) == task[r] \in {"spawned", "running"}

Init ==
    /\ daemon = "connecting"
    /\ shutdown = FALSE
    /\ session = 1
    /\ awaited = NoRun
    /\ shared = [s \in Sessions |-> NewShared]
    /\ command = [at |-> "off", run |-> NoRun]
    /\ heartbeat = "off"
    /\ task = [r \in Runs |-> "none"]
    /\ cancel = [r \in Runs |-> FALSE]
    /\ home = [r \in Runs |-> 0]
    /\ verdict = [r \in Runs |-> "none"]
    /\ vus_seen = [r \in Runs |-> 0]

-----------------------------------------------------------------------------
(* Worker::run and Worker::session.                                        *)

Shutdown ==
    /\ ~shutdown
    /\ shutdown' = TRUE
    /\ UNCHANGED <<daemon, session, awaited, shared, command, heartbeat>>
    /\ UNCHANGED runVars

\* connect and register succeed; the session gets a Shared and its two loops.
SessionStarts ==
    /\ daemon = "connecting"
    /\ daemon' = "active"
    /\ command' = [at |-> "subscribe", run |-> NoRun]
    /\ heartbeat' = "running"
    /\ UNCHANGED <<shutdown, session, awaited, shared>>
    /\ UNCHANGED runVars

\* connect or register fails: session returns an error.
ConnectFails ==
    /\ daemon = "connecting"
    /\ daemon' = IF shutdown THEN "exited" ELSE "backoff"
    /\ UNCHANGED <<shutdown, session, awaited, shared, command, heartbeat>>
    /\ UNCHANGED runVars

\* Faulty variant: stop_run awaits the run without cancelling its token.
SessionEndsUncancelled ==
    /\ daemon = "active"
    /\ shutdown \/ heartbeat = "returned" \/ command.at = "returned"
    /\ daemon' = "stopping"
    /\ awaited' = ActiveRun
    /\ shared' = [shared EXCEPT ![session].run = NoRun]
    /\ UNCHANGED <<shutdown, session, command, heartbeat>>
    /\ UNCHANGED runVars

\* The select of session: shutdown, or one of the loops returned.  stop_run
\* takes the run and cancels it; the other loop goes on meanwhile.
SessionEnds ==
    /\ daemon = "active"
    /\ shutdown \/ heartbeat = "returned" \/ command.at = "returned"
    /\ daemon' = "stopping"
    /\ awaited' = ActiveRun
    /\ shared' = [shared EXCEPT ![session].run = NoRun]
    /\ CancelActive
    /\ UNCHANGED <<shutdown, session, command, heartbeat, task, home, verdict, vus_seen>>

\* start_run has no await, so an abort of the command loop takes effect after
\* it: the step waits for it.
InStartRun == command.at \in {"begin_run", "set_running", "store_vus"}

\* The awaited run is done: both loops are aborted and session returns.
SessionReturns ==
    /\ daemon = "stopping" /\ ~InStartRun
    /\ awaited # NoRun => task[awaited] = "done"
    /\ daemon' = IF shutdown THEN "exited" ELSE "backoff"
    /\ awaited' = NoRun
    /\ shared' = [shared EXCEPT ![session].active_vus = 0]
    /\ command' = [at |-> "off", run |-> NoRun]
    /\ heartbeat' = "off"
    /\ UNCHANGED <<shutdown, session>>
    /\ UNCHANGED runVars

\* The backoff delay passes, or shutdown cuts it short.
Reconnects ==
    /\ daemon = "backoff" /\ ~shutdown
    /\ session < MaxSessions
    /\ daemon' = "connecting"
    /\ session' = session + 1
    /\ UNCHANGED <<shutdown, awaited, shared, command, heartbeat>>
    /\ UNCHANGED runVars

ShutdownInBackoff ==
    /\ daemon = "backoff" /\ shutdown
    /\ daemon' = "exited"
    /\ UNCHANGED <<shutdown, session, awaited, shared, command, heartbeat>>
    /\ UNCHANGED runVars

-----------------------------------------------------------------------------
(* heartbeat_loop.  A heartbeat reads state and active_vus; what it        *)
(* reports is left to the properties of shared, and one that the master    *)
(* answers with CONTINUE changes nothing.                                  *)

\* ABORT cancels the run and leaves the worker's state alone.
HeartbeatAborts ==
    /\ heartbeat = "running"
    /\ CancelActive
    /\ UNCHANGED <<shared, command, heartbeat, task, home, verdict, vus_seen>>
    /\ UNCHANGED sessionVars

\* The RPC fails, the master answers SYNCHRONIZE, or shutdown is cancelled.
HeartbeatReturns ==
    /\ heartbeat = "running"
    /\ heartbeat' = "returned"
    /\ UNCHANGED <<shared, command>>
    /\ UNCHANGED sessionVars
    /\ UNCHANGED runVars

-----------------------------------------------------------------------------
(* command_loop and handle_command.                                        *)

CommandAt(from, to) ==
    /\ command.at = from
    /\ command' = [command EXCEPT !.at = to]

Subscribed ==
    /\ CommandAt("subscribe", "idle")
    /\ UNCHANGED <<shared, heartbeat>>
    /\ UNCHANGED sessionVars
    /\ UNCHANGED runVars

\* watch_commands fails, the stream fails or closes, an acknowledgment fails,
\* or shutdown is cancelled.
CommandLoopReturns ==
    /\ command.at \in {"subscribe", "idle", "ack", "stopped"}
    /\ command' = [command EXCEPT !.at = "returned"]
    /\ UNCHANGED <<shared, heartbeat>>
    /\ UNCHANGED sessionVars
    /\ UNCHANGED runVars

\* START with a usable configuration: start_run spawns the orchestrator before
\* it asks begin_run whether the worker is free.
StartSpawns(r) ==
    /\ command.at = "idle" /\ task[r] = "none"
    /\ task' = [task EXCEPT ![r] = "spawned"]
    /\ home' = [home EXCEPT ![r] = session]
    /\ command' = [at |-> "begin_run", run |-> r]
    /\ UNCHANGED <<shared, heartbeat, cancel, verdict, vus_seen>>
    /\ UNCHANGED sessionVars

\* Faulty variant: begin_run replaces whatever run the slot holds.
BeginRunReplaces ==
    /\ command.at = "begin_run"
    /\ shared' = [shared EXCEPT ![session].run = command.run]
    /\ command' = [command EXCEPT !.at = "set_running"]
    /\ verdict' = [verdict EXCEPT ![command.run] = "acknowledged"]
    /\ UNCHANGED <<heartbeat, task, cancel, home, vus_seen>>
    /\ UNCHANGED sessionVars

\* begin_run installs the run, or rejects it because the slot is taken.
BeginRun ==
    /\ command.at = "begin_run"
    /\ \/ /\ ActiveRun = NoRun
          /\ shared' = [shared EXCEPT ![session].run = command.run]
          /\ command' = [command EXCEPT !.at = "set_running"]
          /\ verdict' = [verdict EXCEPT ![command.run] = "acknowledged"]
       \/ /\ ActiveRun # NoRun
          /\ command' = [command EXCEPT !.at = "ack"]
          /\ verdict' = [verdict EXCEPT ![command.run] = "rejected"]
          /\ UNCHANGED shared
    /\ UNCHANGED <<heartbeat, task, cancel, home, vus_seen>>
    /\ UNCHANGED sessionVars

StartSetsRunning ==
    /\ CommandAt("set_running", "store_vus")
    /\ shared' = [shared EXCEPT ![session].state = Transition(@, "Running")]
    /\ UNCHANGED heartbeat
    /\ UNCHANGED sessionVars
    /\ UNCHANGED runVars

StartStoresVus ==
    /\ CommandAt("store_vus", "ack")
    /\ shared' = [shared EXCEPT ![session].active_vus = VirtualUsers]
    /\ UNCHANGED heartbeat
    /\ UNCHANGED sessionVars
    /\ UNCHANGED runVars

\* START without configuration or with an unusable one, or an unspecified
\* command: answered, nothing else.
CommandRefused ==
    /\ CommandAt("idle", "ack")
    /\ UNCHANGED <<shared, heartbeat>>
    /\ UNCHANGED sessionVars
    /\ UNCHANGED runVars

\* Faulty variant: stop_run takes and awaits the run without cancelling it.
StopTakesUncancelled ==
    /\ command.at = "idle"
    /\ command' = [at |-> "stop_await", run |-> ActiveRun]
    /\ shared' = [shared EXCEPT ![session].run = NoRun]
    /\ UNCHANGED heartbeat
    /\ UNCHANGED sessionVars
    /\ UNCHANGED runVars

\* STOP: stop_run takes the run, cancels it and awaits it ...
StopTakesRun ==
    /\ command.at = "idle"
    /\ command' = [at |-> "stop_await", run |-> ActiveRun]
    /\ CancelActive
    /\ shared' = [shared EXCEPT ![session].run = NoRun]
    /\ UNCHANGED <<heartbeat, task, home, verdict, vus_seen>>
    /\ UNCHANGED sessionVars

\* Faulty variant: STOP is answered without awaiting the run.
StopCompletesEarly ==
    /\ CommandAt("stop_await", "stopped")
    /\ shared' = [shared EXCEPT ![session].active_vus = 0,
                                ![session].state = Transition(@, "Ready")]
    /\ UNCHANGED heartbeat
    /\ UNCHANGED sessionVars
    /\ UNCHANGED runVars

\* ... and the worker is READY again.
StopCompletes ==
    /\ CommandAt("stop_await", "stopped")
    /\ command.run # NoRun => task[command.run] = "done"
    /\ shared' = [shared EXCEPT ![session].active_vus = 0,
                                ![session].state = Transition(@, "Ready")]
    /\ UNCHANGED heartbeat
    /\ UNCHANGED sessionVars
    /\ UNCHANGED runVars

\* ABORT cancels the run without awaiting it or emptying the slot.
AbortCancels ==
    /\ command.at = "idle"
    /\ command' = [at |-> "ack", run |-> ActiveRun]
    /\ CancelActive
    /\ shared' = [shared EXCEPT ![session].state = Transition(@, "Ready")]
    /\ UNCHANGED <<heartbeat, task, home, verdict, vus_seen>>
    /\ UNCHANGED sessionVars

CommandAcknowledged ==
    /\ command.at \in {"ack", "stopped"}
    /\ command' = [at |-> "idle", run |-> NoRun]
    /\ UNCHANGED <<shared, heartbeat>>
    /\ UNCHANGED sessionVars
    /\ UNCHANGED runVars

-----------------------------------------------------------------------------
(* run_orchestrator, seen from Shared.                                     *)

TaskAt(r, from, to) ==
    /\ task[r] = from
    /\ task' = [task EXCEPT ![r] = to]

\* The collector is told active_vus once, when the run starts.
RunReadsVus(r) ==
    /\ TaskAt(r, "spawned", "running")
    /\ vus_seen' = [vus_seen EXCEPT ![r] = shared[home[r]].active_vus]
    /\ UNCHANGED <<shared, command, heartbeat, cancel, home, verdict>>
    /\ UNCHANGED sessionVars

\* The run is over by itself, or because its token was cancelled: its virtual
\* users have returned and its telemetry stream is closed (RunTask is done).
RunCompletes(r) ==
    /\ TaskAt(r, "running", "storing")
    /\ UNCHANGED <<shared, command, heartbeat, cancel, home, verdict, vus_seen>>
    /\ UNCHANGED sessionVars

RunCancelled(r) == cancel[r] /\ RunCompletes(r)

RunStoresZero(r) ==
    /\ TaskAt(r, "storing", "readying")
    /\ shared' = [shared EXCEPT ![home[r]].active_vus = 0]
    /\ UNCHANGED <<command, heartbeat, cancel, home, verdict, vus_seen>>
    /\ UNCHANGED sessionVars

\* Faulty variant: all sessions use one Shared, so that a run left over from an
\* earlier session resets the state of the current one.
RunSetsAnyReady(r) ==
    /\ TaskAt(r, "readying", "done")
    /\ shared' = [shared EXCEPT ![session].state = Transition(@, "Ready")]
    /\ UNCHANGED <<command, heartbeat, cancel, home, verdict, vus_seen>>
    /\ UNCHANGED sessionVars

\* The slot keeps the finished run.
RunSetsReady(r) ==
    /\ TaskAt(r, "readying", "done")
    /\ shared' = [shared EXCEPT ![home[r]].state = Transition(@, "Ready")]
    /\ UNCHANGED <<command, heartbeat, cancel, home, verdict, vus_seen>>
    /\ UNCHANGED sessionVars

-----------------------------------------------------------------------------
Session ==
    \/ SessionStarts \/ ConnectFails \/ SessionEnds \/ SessionReturns
    \/ Reconnects \/ ShutdownInBackoff

Heartbeat == HeartbeatAborts \/ HeartbeatReturns

\* The part of the command loop that needs no message from the master.
Handler ==
    \/ BeginRun \/ StartSetsRunning \/ StartStoresVus
    \/ StopCompletes \/ CommandAcknowledged

Commands ==
    \/ Subscribed \/ CommandLoopReturns
    \/ \E r \in Runs : StartSpawns(r)
    \/ CommandRefused \/ StopTakesRun \/ AbortCancels
    \/ Handler

Run(r) == RunReadsVus(r) \/ RunStoresZero(r) \/ RunSetsReady(r)

Next ==
    \/ Shutdown \/ Session \/ Heartbeat \/ Commands
    \/ \E r \in Runs : Run(r) \/ RunCompletes(r)

Spec == Init /\ [][Next]_vars

(* The daemon, the handlers and the runs are tasks of a fair runtime; a    *)
(* connection attempt succeeds or fails.  A run whose token is cancelled   *)
(* ends: RunOrchestrator!RoomyCancelEnds says when that is so.  A run that *)
(* is not cancelled need not end (a plan without duration), and the master *)
(* need not push anything.                                                 *)
Fairness ==
    /\ WF_vars(Session)
    /\ WF_vars(Handler)
    /\ \A r \in Runs : WF_vars(Run(r)) /\ WF_vars(RunCancelled(r))

FairSpec == Spec /\ Fairness

-----------------------------------------------------------------------------
(* Properties.                                                             *)

SharedType == [state : WorkerState, active_vus : {0, VirtualUsers}, run : Runs \cup {NoRun}]
CommandType ==
    [at : {"off", "subscribe", "idle", "begin_run", "set_running", "store_vus",
           "stop_await", "stopped", "ack", "returned"},
     run : Runs \cup {NoRun}]

\* The variables have their types; a run that exists belongs to a session, and
\* what stop_run awaits and what the slots hold are runs that were spawned.
TypeOK ==
    /\ daemon \in {"connecting", "active", "stopping", "backoff", "exited"}
    /\ shutdown \in BOOLEAN
    /\ session \in Sessions
    /\ awaited \in Runs \cup {NoRun}
    /\ shared \in [Sessions -> SharedType]
    /\ command \in CommandType
    /\ heartbeat \in {"off", "running", "returned"}
    /\ task \in [Runs -> {"none", "spawned", "running", "storing", "readying", "done"}]
    /\ cancel \in [Runs -> BOOLEAN]
    /\ home \in [Runs -> 0 .. MaxSessions]
    /\ verdict \in [Runs -> {"none", "acknowledged", "rejected"}]
    /\ vus_seen \in [Runs -> {0, VirtualUsers}]
    /\ \A r \in Runs : task[r] # "none" => home[r] \in 1 .. session

Accepted(r) == home[r] = session /\ verdict[r] = "acknowledged"

\* While a session is served, a run that was acknowledged in it, executes and
\* has not been cancelled is the one in the slot, where STOP, ABORT, a heartbeat
\* directive and the end of the session find it.
AcceptedRunIsReachable ==
    daemon = "active" =>
        \A r \in Runs :
            Accepted(r) /\ Executing(r) /\ ~cancel[r] => ActiveRun = r

\* A session never executes two acknowledged runs at once, not even across a
\* STOP followed by a START or an ABORT that leaves the old run draining.
OneAcceptedRun ==
    daemon = "active" =>
        \A r, q \in Runs :
            Accepted(r) /\ Executing(r) /\ Accepted(q) /\ Executing(q) => r = q

\* The operator's view of the two: what was acknowledged is one run, and the one
\* that STOP and ABORT reach.
OneReachableRun == AcceptedRunIsReachable /\ OneAcceptedRun

\* When STOP is answered COMPLETED, every run the session acknowledged has
\* returned from its virtual users and closed its telemetry.
StopMeansStopped ==
    daemon = "active" /\ command.at = "stopped" =>
        \A r \in Runs : Accepted(r) => ~Executing(r)

\* In a session all of whose runs were acknowledged, one that executes and is not
\* cancelled shows: the state is RUNNING and active_vus its virtual users,
\* whatever runs of earlier sessions still do.
AcceptedRunShows ==
    /\ daemon = "active"
    /\ command.at \notin {"set_running", "store_vus"}
    /\ \A r \in Runs : home[r] = session => verdict[r] = "acknowledged"
    => \A r \in Runs :
          Accepted(r) /\ Executing(r) /\ ~cancel[r] =>
              shared[session].state = "Running" /\ shared[session].active_vus = VirtualUsers

\* Told to shut down, the daemon exits, whatever its session is doing: runs are
\* cancelled before they are awaited, and stop_run never waits for a loop.
ShutdownExits == shutdown ~> daemon = "exited"

\* A STOP that is being served is answered, or its session ends.
StopIsAnswered == command.at = "stop_await" ~> command.at # "stop_await"

-----------------------------------------------------------------------------
(* What the source says of a worker and its code does not keep.            *)

\* REJECTED: "Not applicable / not accepted." (proto 65): the run of a rejected
\* START does not execute.
RejectedStartsNothing ==
    \A r \in Runs : verdict[r] = "rejected" => task[r] # "running"

\* "rejecting a START while one is already active" (worker.rs 104): a START is
\* rejected only for a run that is still active.
RejectedOnlyWhileActive ==
    [][\A r \in Runs :
          verdict'[r] = "rejected" /\ verdict[r] # "rejected" => task[ActiveRun] # "done"]_vars

\* Ready: "Idle and available for a new run." (state.rs 9).
ReadyMeansIdle ==
    daemon = "active" /\ command.at = "idle" /\ shared[session].state = "Ready" =>
        ~\E r \in Runs : Accepted(r) /\ Executing(r)

\* Running: "Actively executing a test." (state.rs 11).
RunningMeansBusy ==
    daemon = "active" /\ command.at = "idle" /\ shared[session].state = "Running" =>
        \E r \in Runs : home[r] = session /\ task[r] # "done"

\* "cancel the token to shut down cleanly" (worker.rs 6): when the daemon has
\* exited, no acknowledged run is cut off in the middle.
ExitIsClean ==
    daemon = "exited" => ~\E r \in Runs : verdict[r] = "acknowledged" /\ Executing(r)

\* active_vus of a batch: "VUs active at the end of the window." (proto 303).
BatchesShowVus ==
    \A r \in Runs : verdict[r] = "acknowledged" /\ task[r] = "running"
        => vus_seen[r] = VirtualUsers
=============================================================================
