-------------------------- MODULE ComponentProofs ---------------------------
(***************************************************************************)
(* Proofs about the components that stand by themselves: the session of a  *)
(* worker, load profiles, reconnect delays, the set-up of a test, the      *)
(* resource sampler, the registry of the master and the telemetry          *)
(* pipeline.  Each but the first is a named instance of its module.  What  *)
(* a theorem about an instance needs of the constants is among its         *)
(* hypotheses; it is part of the assumptions of WorkerRegistry,            *)
(* TelemetryPipeline and Sequential.                                       *)
(***************************************************************************)
EXTENDS WorkerSession, Integers, Sequences, SequenceTheorems, FiniteSetTheorems, WellFoundedInduction, TLAPS

-----------------------------------------------------------------------------
(* A worker session keeps its promises to the master, for any number of    *)
(* runs and sessions: the run it acknowledged is the one STOP and ABORT    *)
(* reach, STOP is answered only when nothing executes, and the run shows   *)
(* in the state and active_vus that heartbeats report.                     *)
(*                                                                         *)
(* The three rest on one inductive invariant.  An acknowledged run that is *)
(* not done is in the slot, or STOP has taken it and waits for it; a run   *)
(* without a verdict is the one start_run is busy with.                    *)
\* The loops exist while the session does.
LoopsServeSession == command.at = "off" <=> daemon \notin {"active", "stopping"}

\* A run holds the Shared of a session that has been; while the daemon connects, the
\* session has no run yet.  A START that has not come has no verdict.
RunsHaveHome ==
    \A r \in Runs :
        /\ task[r] = "none" <=> home[r] = 0
        /\ task[r] = "none" => verdict[r] = "none"
        /\ home[r] <= session
        /\ daemon = "connecting" => home[r] # session

\* Only the run that start_run is busy with waits for its verdict.
VerdictIsPending ==
    /\ command.at = "begin_run" =>
           command.run \in Runs /\ home[command.run] = session /\ verdict[command.run] = "none"
    /\ \A r \in Runs :
           home[r] = session /\ verdict[r] = "none" =>
               command.at = "begin_run" /\ command.run = r

\* An acknowledged run that is not done is in the slot, or in the hands of STOP.
AcceptedIsHeld ==
    daemon = "active" =>
        \A r \in Runs :
            Accepted(r) /\ task[r] # "done" =>
                \/ ActiveRun = r
                \/ command.at = "stop_await" /\ command.run = r

\* STOP has emptied the slot and cancelled what it took.
StopHoldsRun ==
    /\ daemon = "active" /\ command.at = "stop_await" => ActiveRun = NoRun
    /\ command.at = "stop_await" /\ command.run # NoRun => cancel[command.run]

\* STOP is answered when every acknowledged run is done.
StoppedIsDone ==
    daemon = "active" /\ command.at = "stopped" =>
        \A r \in Runs : Accepted(r) => task[r] = "done"

\* Shared never enters DRAINING or ERROR, from which RUNNING cannot be entered.
OnlyReadyOrRunning == \A s \in Sessions : shared[s].state \in {"Ready", "Running"}

AllAcknowledged == \A r \in Runs : home[r] = session => verdict[r] = "acknowledged"

\* AcceptedRunShows, and what start_run has already set when it stores active_vus.
RunShows ==
    daemon = "active" /\ AllAcknowledged =>
        \A r \in Runs :
            Accepted(r) /\ Executing(r) /\ ~cancel[r] =>
                /\ command.at # "set_running" => shared[session].state = "Running"
                /\ command.at \notin {"set_running", "store_vus"} =>
                       shared[session].active_vus = VirtualUsers

IInv ==
    /\ TypeOK
    /\ LoopsServeSession
    /\ RunsHaveHome
    /\ VerdictIsPending
    /\ AcceptedIsHeld
    /\ StopHoldsRun
    /\ StoppedIsDone
    /\ OnlyReadyOrRunning
    /\ RunShows

-----------------------------------------------------------------------------
(* What a step does to the Shared of one session.                          *)

\* Session s's Shared gets these fields; the other sessions' stay as they are.
Becomes(s, state, vus, run) ==
    /\ shared' \in [Sessions -> SharedType]
    /\ shared'[s].state = state
    /\ shared'[s].active_vus = vus
    /\ shared'[s].run = run
    /\ \A t \in Sessions \ {s} : shared'[t] = shared[t]

\* What an assignment to one field of a Shared leaves alone.
LEMMA SharedFields ==
    ASSUME NEW x \in SharedType
    PROVE  /\ \A r \in Runs \cup {NoRun} :
                  /\ [x EXCEPT !.run = r] \in SharedType
                  /\ [x EXCEPT !.run = r].run = r
                  /\ [x EXCEPT !.run = r].state = x.state
                  /\ [x EXCEPT !.run = r].active_vus = x.active_vus
           /\ \A n \in {0, VirtualUsers} :
                  /\ [x EXCEPT !.active_vus = n] \in SharedType
                  /\ [x EXCEPT !.active_vus = n].run = x.run
                  /\ [x EXCEPT !.active_vus = n].state = x.state
                  /\ [x EXCEPT !.active_vus = n].active_vus = n
           /\ \A w \in WorkerState :
                  /\ [x EXCEPT !.state = w] \in SharedType
                  /\ [x EXCEPT !.state = w].run = x.run
                  /\ [x EXCEPT !.state = w].state = w
                  /\ [x EXCEPT !.state = w].active_vus = x.active_vus
BY Zenon DEF SharedType

\* A new Shared for session s.
LEMMA SharedReplaced ==
    ASSUME shared \in [Sessions -> SharedType], NEW s \in Sessions, NEW x \in SharedType,
           shared' = [shared EXCEPT ![s] = x]
    PROVE  Becomes(s, x.state, x.active_vus, x.run)
BY Zenon DEF Becomes

\* begin_run and stop_run assign the slot.
LEMMA SlotAssigned ==
    ASSUME shared \in [Sessions -> SharedType], NEW s \in Sessions, NEW r \in Runs \cup {NoRun},
           shared' = [shared EXCEPT ![s].run = r]
    PROVE  Becomes(s, shared[s].state, shared[s].active_vus, r)
<1> DEFINE x == [shared[s] EXCEPT !.run = r]
<1>1. x \in SharedType /\ x.state = shared[s].state /\ x.active_vus = shared[s].active_vus /\ x.run = r
  <2>1. shared[s] \in SharedType
    OBVIOUS
  <2> QED BY <2>1, SharedFields, Zenon
<1>2. shared' = [shared EXCEPT ![s] = x]
  OBVIOUS
<1> HIDE DEF x
<1> QED BY <1>1, <1>2, SharedReplaced, Zenon

\* active_vus is stored.
LEMMA VusStored ==
    ASSUME shared \in [Sessions -> SharedType], NEW s \in Sessions, NEW n \in {0, VirtualUsers},
           shared' = [shared EXCEPT ![s].active_vus = n]
    PROVE  Becomes(s, shared[s].state, n, shared[s].run)
<1> DEFINE x == [shared[s] EXCEPT !.active_vus = n]
<1>1. x \in SharedType /\ x.state = shared[s].state /\ x.active_vus = n /\ x.run = shared[s].run
  <2>1. shared[s] \in SharedType
    OBVIOUS
  <2> QED BY <2>1, SharedFields, Zenon
<1>2. shared' = [shared EXCEPT ![s] = x]
  OBVIOUS
<1> HIDE DEF x
<1> QED BY <1>1, <1>2, SharedReplaced, Zenon

\* Between READY and RUNNING set_state never refuses.
LEMMA StateSet ==
    ASSUME shared \in [Sessions -> SharedType], NEW s \in Sessions, NEW next \in {"Ready", "Running"},
           shared[s].state \in {"Ready", "Running"},
           shared' = [shared EXCEPT ![s].state = Transition(@, next)]
    PROVE  Becomes(s, next, shared[s].active_vus, shared[s].run)
<1> DEFINE x == [shared[s] EXCEPT !.state = next]
<1>1. Transition(shared[s].state, next) = next /\ next \in WorkerState
  BY Zenon DEF Transition, CanTransition, WorkerState
<1>2. x \in SharedType /\ x.state = next /\ x.active_vus = shared[s].active_vus /\ x.run = shared[s].run
  BY <1>1, SharedFields, Zenon
<1>3. shared' = [shared EXCEPT ![s] = [shared[s] EXCEPT !.state = Transition(shared[s].state, next)]]
  OBVIOUS
<1>4. shared' = [shared EXCEPT ![s] = x]
  BY <1>1, <1>3, Zenon
<1> HIDE DEF x
<1> QED BY <1>2, <1>4, SharedReplaced, Zenon

\* The last step of STOP resets both.
LEMMA VusAndStateReset ==
    ASSUME shared \in [Sessions -> SharedType], NEW s \in Sessions,
           shared[s].state \in {"Ready", "Running"},
           shared' = [shared EXCEPT ![s].active_vus = 0, ![s].state = Transition(@, "Ready")]
    PROVE  Becomes(s, "Ready", 0, shared[s].run)
<1>1. Transition(shared[s].state, "Ready") = "Ready" /\ "Ready" \in WorkerState
  BY Zenon DEF Transition, CanTransition, WorkerState
<1> DEFINE x == [shared[s] EXCEPT !.active_vus = 0]
<1>2. x \in SharedType /\ x.run = shared[s].run /\ x.state = shared[s].state /\ x.active_vus = 0
  BY SharedFields, Zenon
<1>3. shared' = [shared EXCEPT ![s] = [x EXCEPT !.state = Transition(x.state, "Ready")]]
  BY Zenon
<1> HIDE DEF x
<1> DEFINE y == [x EXCEPT !.state = "Ready"]
<1>4. y \in SharedType /\ y.state = "Ready" /\ y.active_vus = 0 /\ y.run = shared[s].run
  BY <1>1, <1>2, SharedFields, Zenon
<1>5. shared' = [shared EXCEPT ![s] = y]
  BY <1>1, <1>2, <1>3, Zenon
<1> HIDE DEF y
<1> QED BY <1>4, <1>5, SharedReplaced, Zenon DEF Becomes

-----------------------------------------------------------------------------
\* The daemon starts with no session, no run and every Shared new.
LEMMA InitInv == Init => IInv
<1> SUFFICES ASSUME Init PROVE IInv
  OBVIOUS
<1>1. NewShared \in SharedType /\ NewShared.state = "Ready"
  BY Zenon DEF NewShared, SharedType, WorkerState
<1>2. shared \in [Sessions -> SharedType] /\ OnlyReadyOrRunning
  BY <1>1, Zenon DEF Init, OnlyReadyOrRunning
<1>3. command \in CommandType /\ command.at = "off"
  BY Zenon DEF Init, CommandType
<1>4. TypeOK
  <2>1. cancel \in [Runs -> BOOLEAN] /\ shutdown \in BOOLEAN
    BY Zenon DEF Init
  <2>2. home \in [Runs -> 0 .. MaxSessions] /\ vus_seen \in [Runs -> {0, VirtualUsers}]
    BY WorkerSessionAssumption DEF Init
  <2> QED BY <1>2, <1>3, <2>1, <2>2, WorkerSessionAssumption DEF Init, TypeOK, Sessions
<1> QED
  BY <1>2, <1>3, <1>4, WorkerSessionAssumption
     DEF Init, IInv, LoopsServeSession, RunsHaveHome, VerdictIsPending, AcceptedIsHeld, StopHoldsRun,
         StoppedIsDone, RunShows, AllAcknowledged, Accepted, Executing

\* The steps of the daemon and the heartbeat loop that leave the Shareds alone.
LEMMA DaemonKeepsInv ==
    ASSUME IInv,
           \/ Shutdown \/ SessionStarts \/ ConnectFails \/ Reconnects \/ ShutdownInBackoff
           \/ HeartbeatAborts \/ HeartbeatReturns
    PROVE  IInv'
<1> USE WorkerSessionAssumption
        DEF IInv, TypeOK, LoopsServeSession, RunsHaveHome, VerdictIsPending, AcceptedIsHeld, StopHoldsRun,
            StoppedIsDone, OnlyReadyOrRunning, RunShows, AllAcknowledged, Accepted, Executing, ActiveRun,
            Sessions, sessionVars, runVars
<1>1. CASE Shutdown
  BY <1>1 DEF Shutdown
<1>2. CASE SessionStarts
  BY <1>2, Zenon DEF SessionStarts, CommandType
<1>3. CASE ConnectFails
  BY <1>3, Zenon DEF ConnectFails
<1>4. CASE Reconnects
  BY <1>4 DEF Reconnects
<1>5. CASE ShutdownInBackoff
  BY <1>5, Zenon DEF ShutdownInBackoff
<1>6. CASE HeartbeatAborts
  <2>1. cancel' \in [Runs -> BOOLEAN] /\ \A r \in Runs : cancel[r] => cancel'[r]
    BY <1>6, Zenon DEF HeartbeatAborts, CancelActive
  <2> QED BY <1>6, <2>1 DEF HeartbeatAborts, CommandType
<1>7. CASE HeartbeatReturns
  BY <1>7 DEF HeartbeatReturns
<1> QED BY <1>1, <1>2, <1>3, <1>4, <1>5, <1>6, <1>7, Zenon

\* The steps of the command loop that leave the Shareds alone.
LEMMA CommandKeepsInv ==
    ASSUME IInv,
           \/ Subscribed \/ CommandLoopReturns \/ CommandRefused \/ CommandAcknowledged
           \/ \E r \in Runs : StartSpawns(r)
    PROVE  IInv'
<1> USE WorkerSessionAssumption
        DEF IInv, TypeOK, LoopsServeSession, RunsHaveHome, VerdictIsPending, AcceptedIsHeld, StopHoldsRun,
            StoppedIsDone, OnlyReadyOrRunning, RunShows, AllAcknowledged, Accepted, Executing, ActiveRun,
            Sessions, sessionVars, runVars
<1>1. CASE Subscribed
  <2>1. /\ command' \in CommandType /\ command.at = "subscribe" /\ command'.at = "idle"
        /\ command'.run = command.run
    BY <1>1, Zenon DEF Subscribed, CommandAt, CommandType
  <2> QED BY <1>1, <2>1 DEF Subscribed
<1>2. CASE CommandLoopReturns
  <2>1. /\ command' \in CommandType /\ command.at \in {"subscribe", "idle", "ack", "stopped"} /\ command'.at = "returned"
        /\ command'.run = command.run
    BY <1>2, Zenon DEF CommandLoopReturns, CommandType
  <2>2. command.at \notin {"off", "begin_run", "set_running", "store_vus", "stop_await"}
    BY <2>1, Zenon
  <2>3. UNCHANGED <<daemon, shutdown, session, awaited, shared, heartbeat, task, cancel, home, verdict, vus_seen>>
    BY <1>2, Zenon DEF CommandLoopReturns
  <2> QED BY <2>1, <2>2, <2>3, Zenon
<1>3. CASE CommandRefused
  <2>1. /\ command' \in CommandType /\ command.at = "idle" /\ command'.at = "ack"
        /\ command'.run = command.run
    BY <1>3, Zenon DEF CommandRefused, CommandAt, CommandType
  <2> QED BY <1>3, <2>1 DEF CommandRefused
<1>4. CASE CommandAcknowledged
  BY <1>4 DEF CommandAcknowledged, CommandType
<1>5. ASSUME NEW r \in Runs, StartSpawns(r) PROVE IInv'
  BY <1>5 DEF StartSpawns, CommandType
<1> QED BY <1>1, <1>2, <1>3, <1>4, <1>5, Zenon

\* The steps of a run that leave the Shareds alone.
LEMMA RunKeepsInv ==
    ASSUME IInv, NEW r \in Runs, RunReadsVus(r) \/ RunCompletes(r)
    PROVE  IInv'
<1> USE WorkerSessionAssumption
        DEF IInv, TypeOK, LoopsServeSession, RunsHaveHome, VerdictIsPending, AcceptedIsHeld, StopHoldsRun,
            StoppedIsDone, OnlyReadyOrRunning, RunShows, AllAcknowledged, Accepted, Executing, ActiveRun,
            Sessions, sessionVars, runVars
<1>1. CASE RunReadsVus(r)
  BY <1>1 DEF RunReadsVus, TaskAt, SharedType
<1>2. CASE RunCompletes(r)
  BY <1>2 DEF RunCompletes, TaskAt
<1> QED BY <1>1, <1>2, Zenon

\* The end of a session: stop_run empties the slot, and active_vus is zeroed.
LEMMA SessionEndKeepsInv ==
    ASSUME IInv, SessionEnds \/ SessionReturns
    PROVE  IInv'
<1>0. shared \in [Sessions -> SharedType] /\ session \in Sessions
  BY Zenon DEF IInv, TypeOK
<1>a. SessionEnds => Becomes(session, shared[session].state, shared[session].active_vus, NoRun)
  BY <1>0, SlotAssigned, Zenon DEF SessionEnds
<1>b. SessionReturns => Becomes(session, shared[session].state, 0, shared[session].run)
  BY <1>0, VusStored, Zenon DEF SessionReturns
<1> USE WorkerSessionAssumption
        DEF IInv, TypeOK, LoopsServeSession, RunsHaveHome, VerdictIsPending, AcceptedIsHeld, StopHoldsRun,
            StoppedIsDone, OnlyReadyOrRunning, RunShows, AllAcknowledged, Accepted, Executing, ActiveRun,
            Sessions, sessionVars, runVars
<1>1. CASE SessionEnds
  <2>1. cancel' \in [Runs -> BOOLEAN] /\ \A r \in Runs : cancel[r] => cancel'[r]
    BY <1>1, Zenon DEF SessionEnds, CancelActive
  <2>2. awaited' \in Runs \cup {NoRun}
    BY <1>0, <1>1, Zenon DEF SessionEnds, SharedType
  <2> QED BY <1>a, <1>1, <2>1, <2>2 DEF SessionEnds, Becomes, CommandType
<1>2. CASE SessionReturns
  BY <1>b, <1>2 DEF SessionReturns, Becomes, CommandType, InStartRun
<1> QED BY <1>1, <1>2, Zenon

\* STOP and ABORT.
LEMMA StopKeepsInv ==
    ASSUME IInv, StopTakesRun \/ StopCompletes \/ AbortCancels
    PROVE  IInv'
<1>0. /\ shared \in [Sessions -> SharedType] /\ session \in Sessions
      /\ shared[session].state \in {"Ready", "Running"}
  BY Zenon DEF IInv, TypeOK, OnlyReadyOrRunning
<1>a. StopTakesRun => Becomes(session, shared[session].state, shared[session].active_vus, NoRun)
  BY <1>0, SlotAssigned, Zenon DEF StopTakesRun
<1>b. StopCompletes => Becomes(session, "Ready", 0, shared[session].run)
  BY <1>0, VusAndStateReset, Zenon DEF StopCompletes
<1>c. AbortCancels => Becomes(session, "Ready", shared[session].active_vus, shared[session].run)
  BY <1>0, StateSet, Zenon DEF AbortCancels
<1>d. StopTakesRun \/ AbortCancels =>
          /\ cancel' \in [Runs -> BOOLEAN]
          /\ \A r \in Runs : (cancel[r] => cancel'[r]) /\ (r = ActiveRun => cancel'[r])
          /\ ActiveRun \in Runs \cup {NoRun}
  <2>1. ActiveRun \in Runs \cup {NoRun}
    BY <1>0, Zenon DEF ActiveRun, SharedType
  <2> QED BY <2>1, Zenon DEF StopTakesRun, AbortCancels, CancelActive, IInv, TypeOK
<1> USE WorkerSessionAssumption
        DEF IInv, TypeOK, LoopsServeSession, RunsHaveHome, VerdictIsPending, AcceptedIsHeld, StopHoldsRun,
            StoppedIsDone, OnlyReadyOrRunning, RunShows, AllAcknowledged, Accepted, Executing, ActiveRun,
            Sessions, sessionVars, runVars
<1>1. CASE StopTakesRun
  BY <1>a, <1>d, <1>1 DEF StopTakesRun, Becomes, CommandType
<1>2. CASE StopCompletes
  <2>1. command' \in CommandType /\ command.at = "stop_await" /\ command'.at = "stopped"
    BY <1>2, Zenon DEF StopCompletes, CommandAt, CommandType
  <2>2. daemon = "active" => \A r \in Runs : Accepted(r) => task[r] = "done"
    <3> SUFFICES ASSUME daemon = "active", NEW r \in Runs, Accepted(r), task[r] # "done"
                 PROVE  FALSE
      OBVIOUS
    <3>1. ActiveRun = NoRun /\ NoRun # r
      BY <2>1, Zenon
    <3>2. command.run = r
      BY <3>1, Zenon
    <3> QED BY <1>2, <3>1, <3>2, Zenon DEF StopCompletes
  <2>3. OnlyReadyOrRunning' /\ shared' \in [Sessions -> SharedType]
    BY <1>b, <1>2, <2>1, Zenon DEF StopCompletes, Becomes
  <2>4. UNCHANGED <<daemon, shutdown, session, awaited, heartbeat, task, cancel, home, verdict, vus_seen>>
    BY <1>2, Zenon DEF StopCompletes
  <2>5. TypeOK'
    BY <2>1, <2>3, <2>4, Zenon
  <2>6. AcceptedIsHeld' /\ StoppedIsDone' /\ RunShows'
    BY <2>1, <2>2, <2>4, Zenon
  <2> QED BY <2>1, <2>3, <2>4, <2>5, <2>6
<1>3. CASE AbortCancels
  BY <1>c, <1>d, <1>3 DEF AbortCancels, Becomes, CommandType
<1> QED BY <1>1, <1>2, <1>3, Zenon

\* start_run after the spawn.
LEMMA StartKeepsInv ==
    ASSUME IInv, BeginRun \/ StartSetsRunning \/ StartStoresVus
    PROVE  IInv'
<1>0. /\ shared \in [Sessions -> SharedType] /\ session \in Sessions
      /\ shared[session].state \in {"Ready", "Running"}
  BY Zenon DEF IInv, TypeOK, OnlyReadyOrRunning
<1>a. BeginRun /\ ActiveRun = NoRun =>
          Becomes(session, shared[session].state, shared[session].active_vus, command.run)
  BY <1>0, SlotAssigned, Zenon DEF BeginRun, IInv, VerdictIsPending
<1>b. StartSetsRunning => Becomes(session, "Running", shared[session].active_vus, shared[session].run)
  BY <1>0, StateSet, Zenon DEF StartSetsRunning
<1>c. StartStoresVus => Becomes(session, shared[session].state, VirtualUsers, shared[session].run)
  BY <1>0, VusStored, Zenon DEF StartStoresVus
<1> USE WorkerSessionAssumption
        DEF IInv, TypeOK, LoopsServeSession, RunsHaveHome, VerdictIsPending, AcceptedIsHeld, StopHoldsRun,
            StoppedIsDone, OnlyReadyOrRunning, RunShows, AllAcknowledged, Accepted, Executing, ActiveRun,
            Sessions, sessionVars, runVars
<1>1. CASE BeginRun /\ ActiveRun = NoRun
  <2>1. /\ command' \in CommandType /\ command.at = "begin_run" /\ command'.at = "set_running"
        /\ command'.run = command.run /\ command.run \in Runs
        /\ verdict' = [verdict EXCEPT ![command.run] = "acknowledged"]
        /\ UNCHANGED <<daemon, shutdown, session, awaited, heartbeat, task, cancel, home, vus_seen>>
    BY <1>1 DEF BeginRun, CommandType
  <2>2. OnlyReadyOrRunning' /\ shared' \in [Sessions -> SharedType] /\ shared'[session].run = command.run
    BY <1>a, <1>1, <2>1, ZenonT(40) DEF Becomes
  <2>3. TypeOK'
    BY <2>1, <2>2, Zenon
  <2>4. AcceptedIsHeld'
    BY <1>1, <2>1, <2>2, ZenonT(40)
  <2>5. RunShows'
    BY <2>1, Zenon
  <2> QED BY <2>1, <2>2, <2>3, <2>4, <2>5
<1>2. CASE BeginRun /\ ActiveRun # NoRun
  <2>1. /\ command' \in CommandType /\ command.at = "begin_run" /\ command'.at = "ack"
        /\ command'.run = command.run /\ command.run \in Runs
        /\ verdict' = [verdict EXCEPT ![command.run] = "rejected"]
        /\ UNCHANGED <<daemon, shutdown, session, awaited, shared, heartbeat, task, cancel, home, vus_seen>>
    BY <1>2, Zenon DEF BeginRun, CommandType
  <2>2. TypeOK' /\ OnlyReadyOrRunning'
    BY <2>1, Zenon
  <2>3. AcceptedIsHeld'
    BY <2>1, Zenon
  <2>4. RunShows'
    BY <2>1, Zenon
  <2> QED BY <2>1, <2>2, <2>3, <2>4
<1>3. CASE StartSetsRunning
  <2>1. /\ command' \in CommandType /\ command.at = "set_running" /\ command'.at = "store_vus"
        /\ UNCHANGED <<daemon, shutdown, session, awaited, heartbeat, task, cancel, home, verdict, vus_seen>>
    BY <1>3, Zenon DEF StartSetsRunning, CommandAt, CommandType
  <2>2. /\ OnlyReadyOrRunning' /\ shared' \in [Sessions -> SharedType] /\ ActiveRun' = ActiveRun
        /\ shared'[session].state = "Running"
    BY <1>b, <1>3, <2>1, ZenonT(40) DEF Becomes
  <2>3. TypeOK'
    BY <2>1, <2>2, Zenon
  <2>4. AcceptedIsHeld'
    BY <2>1, <2>2, Zenon
  <2>5. RunShows'
    BY <2>1, <2>2, Zenon
  <2> QED BY <2>1, <2>2, <2>3, <2>4, <2>5
<1>4. CASE StartStoresVus
  <2>1. /\ command' \in CommandType /\ command.at = "store_vus" /\ command'.at = "ack"
        /\ UNCHANGED <<daemon, shutdown, session, awaited, heartbeat, task, cancel, home, verdict, vus_seen>>
    BY <1>4, Zenon DEF StartStoresVus, CommandAt, CommandType
  <2>2. /\ OnlyReadyOrRunning' /\ shared' \in [Sessions -> SharedType] /\ ActiveRun' = ActiveRun
        /\ shared'[session].state = shared[session].state /\ shared'[session].active_vus = VirtualUsers
    BY <1>c, <1>4, <2>1, Zenon DEF Becomes
  <2>3. TypeOK'
    BY <2>1, <2>2, Zenon
  <2>4. AcceptedIsHeld'
    BY <2>1, <2>2, Zenon
  <2>5. RunShows'
    BY <2>1, <2>2, Zenon
  <2> QED BY <2>1, <2>2, <2>3, <2>4, <2>5
<1> QED BY <1>1, <1>2, <1>3, <1>4, Zenon

\* The end of a run.
LEMMA RunEndKeepsInv ==
    ASSUME IInv, NEW r \in Runs, RunStoresZero(r) \/ RunSetsReady(r)
    PROVE  IInv'
<1>0. /\ shared \in [Sessions -> SharedType] /\ home[r] \in Sessions
      /\ shared[home[r]].state \in {"Ready", "Running"}
  BY WorkerSessionAssumption
     DEF IInv, TypeOK, OnlyReadyOrRunning, RunsHaveHome, RunStoresZero, RunSetsReady, TaskAt, Sessions
<1>a. RunStoresZero(r) => Becomes(home[r], shared[home[r]].state, 0, shared[home[r]].run)
  BY <1>0, VusStored, Zenon DEF RunStoresZero
<1>b. RunSetsReady(r) => Becomes(home[r], "Ready", shared[home[r]].active_vus, shared[home[r]].run)
  BY <1>0, StateSet, Zenon DEF RunSetsReady
<1> USE WorkerSessionAssumption
        DEF IInv, TypeOK, LoopsServeSession, RunsHaveHome, VerdictIsPending, AcceptedIsHeld, StopHoldsRun,
            StoppedIsDone, OnlyReadyOrRunning, RunShows, AllAcknowledged, Accepted, Executing, ActiveRun,
            Sessions, sessionVars, runVars
<1>1. CASE RunStoresZero(r)
  <2>1. /\ task[r] = "storing" /\ task' = [task EXCEPT ![r] = "readying"]
        /\ UNCHANGED <<daemon, shutdown, session, awaited, command, heartbeat, cancel, home, verdict, vus_seen>>
    BY <1>1, Zenon DEF RunStoresZero, TaskAt
  <2>2. OnlyReadyOrRunning' /\ shared' \in [Sessions -> SharedType] /\ ActiveRun' = ActiveRun
    BY <1>a, <1>1, <2>1, ZenonT(40) DEF Becomes
  <2>3. TypeOK'
    BY <2>1, <2>2, Zenon
  <2>4. AcceptedIsHeld'
    BY <2>1, <2>2, Zenon
  <2>5. RunShows'
    <3>1. CASE home[r] # session
      <4>1. shared'[session] = shared[session]
        BY <1>a, <1>1, <3>1, Zenon DEF Becomes
      <4> QED BY <2>1, <4>1
    <3>2. CASE home[r] = session
      <4>1. ASSUME daemon = "active", AllAcknowledged, NEW q \in Runs, Accepted(q), Executing(q), ~cancel[q]
            PROVE  FALSE
        <5>1. task[q] # "done" /\ q # r /\ Accepted(r) /\ task[r] # "done"
          BY <2>1, <3>2, <4>1, Zenon
        <5>2. ActiveRun = q
          BY <4>1, <5>1, Zenon
        <5>3. ActiveRun # r /\ command.at # "stop_await"
          BY <4>1, <5>1, <5>2, Zenon
        <5> QED BY <4>1, <5>1, <5>3, Zenon
      <4> QED BY <2>1, <4>1
    <3> QED BY <3>1, <3>2, Zenon
  <2> QED BY <2>1, <2>2, <2>3, <2>4, <2>5
<1>2. CASE RunSetsReady(r)
  BY <1>b, <1>2 DEF RunSetsReady, TaskAt, Becomes
<1> QED BY <1>1, <1>2, Zenon

-----------------------------------------------------------------------------
\* Every step of the daemon, its loops and its runs keeps the invariant.
LEMMA StepKeepsInv == IInv /\ [Next]_vars => IInv'
<1> SUFFICES ASSUME IInv, [Next]_vars PROVE IInv'
  OBVIOUS
<1>1. CASE Next
  BY <1>1, DaemonKeepsInv, SessionEndKeepsInv, CommandKeepsInv, StopKeepsInv, StartKeepsInv, RunKeepsInv,
     RunEndKeepsInv, Zenon DEF Next, Session, Heartbeat, Commands, Handler, Run
<1>2. CASE UNCHANGED vars
  BY <1>2, ZenonT(40)
     DEF vars, IInv, TypeOK, LoopsServeSession, RunsHaveHome, VerdictIsPending, AcceptedIsHeld, StopHoldsRun,
         StoppedIsDone, OnlyReadyOrRunning, RunShows, AllAcknowledged, Accepted, Executing, ActiveRun
<1> QED BY <1>1, <1>2, Zenon

\* The invariant holds in every state a worker reaches, whatever the master sends.
THEOREM Invariance == Spec => []IInv
BY InitInv, StepKeepsInv, PTL DEF Spec

\* What was acknowledged is one run, and the one that STOP and ABORT reach: with no
\* bound on the runs and sessions.
THEOREM ReachableRun == Spec => []OneReachableRun
<1>1. IInv => OneReachableRun
  <2> SUFFICES ASSUME IInv, daemon = "active" PROVE OneReachableRun
    BY Zenon DEF OneReachableRun, AcceptedRunIsReachable, OneAcceptedRun
  <2>1. ASSUME NEW r \in Runs, Accepted(r), Executing(r)
        PROVE  ActiveRun = r \/ (command.at = "stop_await" /\ command.run = r /\ cancel[r] /\ ActiveRun = NoRun)
    BY <2>1, WorkerSessionAssumption, Zenon DEF IInv, AcceptedIsHeld, StopHoldsRun, Executing
  <2> QED
    BY <2>1, WorkerSessionAssumption, Zenon DEF OneReachableRun, AcceptedRunIsReachable, OneAcceptedRun
<1> QED BY <1>1, Invariance, PTL

\* A STOP is answered COMPLETED only when no acknowledged run executes.
THEOREM StoppedRuns == Spec => []StopMeansStopped
<1>1. IInv => StopMeansStopped
  BY Zenon DEF IInv, StoppedIsDone, StopMeansStopped, Executing
<1> QED BY <1>1, Invariance, PTL

\* A run that executes shows in the state and active_vus of its session.
THEOREM ShownRuns == Spec => []AcceptedRunShows
<1>1. IInv => AcceptedRunShows
  BY Zenon DEF IInv, RunShows, AllAcknowledged, AcceptedRunShows
<1> QED BY <1>1, Invariance, PTL

-----------------------------------------------------------------------------
(* The constants and variables of the instances.                           *)
CONSTANTS
    MaxConcurrency, Levels, Spans,                                          \* of LoadProfile
    Schedules, MaxExponent, MaxAttempt, JitterSteps,                        \* of Backoff
    MaxAssignments,                                                         \* of Setup
    Capacity, MaxSamples,                                                   \* of ResourceSampler
    Workers, Expected, MaxFailures,                                         \* of WorkerRegistry
    Times, EpochMs, WindowEpochs, BucketCount, WorkerBuckets, MaxBatches    \* of TelemetryPipeline

VARIABLES
    input, state, output,
    record, busy, barrier, allocated, failures, sweeping,
    epochs, workers, cumulative, started_at_ms, last_published_epoch, live, ingested

-----------------------------------------------------------------------------
(* Load profiles.                                                          *)
Profile == INSTANCE LoadProfile

\* Rounding keeps the order of two fractions of one denominator.
LEMMA RoundIsMonotone ==
    ASSUME NEW d \in Nat \ {0}, NEW n \in Nat, NEW m \in Nat, n <= m
    PROVE  Profile!Round(n, d) <= Profile!Round(m, d) /\ Profile!Round(n, d) \in Nat
BY DEF Profile!Round

\* A whole number is its own rounding.
LEMMA RoundOfWhole ==
    ASSUME NEW d \in Nat \ {0}, NEW k \in Nat
    PROVE  Profile!Round(k * d, d) = k
BY DEF Profile!Round

\* A ramp between two times goes towards its target, and no further.
LEMMA RampIsMonotone ==
    ASSUME NEW p, p.kind = "Ramp", p.start \in Nat, p.target \in Nat, p.ramp \in Nat,
           NEW t \in Nat, NEW u \in Nat, t <= u
    PROVE  LET before == Profile!TargetConcurrency(p, t)
               after == Profile!TargetConcurrency(p, u)
           IN /\ before \in Nat /\ after \in Nat
              /\ p.start <= p.target => p.start <= before /\ before <= after /\ after <= p.target
              /\ p.target < p.start => after <= before /\ before <= p.start /\ p.target <= after
<1> DEFINE a == p.start
           b == p.target
           r == p.ramp
           N(x) == a * r + (b - a) * x
           T(x) == Profile!TargetConcurrency(p, x)
<1>1. ASSUME NEW x \in Nat
      PROVE  T(x) = IF x < r THEN Profile!Round(N(x), r) ELSE b
  BY Zenon DEF Profile!TargetConcurrency
<1>2. ASSUME NEW x \in Nat, x < r
      PROVE  /\ N(x) \in Nat
             /\ a <= b => a * r <= N(x) /\ N(x) <= b * r
             /\ b < a => b * r <= N(x) /\ N(x) <= a * r
  <2> DEFINE y == r - x
  <2>1. y \in Nat /\ r = x + y /\ a \in Nat /\ b \in Nat
    BY <1>2
  <2> HIDE DEF y, a, b, r
  <2>2. N(x) = a * y + b * x /\ a * r = a * y + a * x /\ b * r = b * y + b * x
    BY <1>2, <2>1
  <2>3. a * x \in Nat /\ a * y \in Nat /\ b * x \in Nat /\ b * y \in Nat
    BY <1>2, <2>1
  <2>4. (a <= b => a * x <= b * x /\ a * y <= b * y) /\ (b < a => b * x <= a * x /\ b * y <= a * y)
    BY <1>2, <2>1
  <2> HIDE DEF N
  <2> QED BY <2>2, <2>3, <2>4
<1>3. ASSUME NEW x \in Nat
      PROVE  /\ T(x) \in Nat
             /\ a <= b => a <= T(x) /\ T(x) <= b
             /\ b < a => b <= T(x) /\ T(x) <= a
  <2>1. CASE x < r
    <3>1. a * r \in Nat /\ b * r \in Nat /\ r \in Nat \ {0} /\ a \in Nat /\ b \in Nat
      BY <2>1
    <3>2. Profile!Round(a * r, r) = a /\ Profile!Round(b * r, r) = b
      BY <3>1, RoundOfWhole, Zenon
    <3>3. T(x) = Profile!Round(N(x), r)
      BY <1>1, <2>1, Zenon
    <3> HIDE DEF N, a, b, r, T
    <3> QED BY <1>2, <2>1, <3>1, <3>2, <3>3, RoundIsMonotone
  <2>2. CASE ~(x < r)
    BY <1>1, <2>2
  <2> QED BY <2>1, <2>2, Zenon
<1>4. u < r => (a <= b => T(t) <= T(u)) /\ (b < a => T(u) <= T(t))
  <2> SUFFICES ASSUME u < r PROVE (a <= b => T(t) <= T(u)) /\ (b < a => T(u) <= T(t))
    OBVIOUS
  <2>1. t < r /\ r \in Nat \ {0} /\ a \in Nat /\ b \in Nat
    OBVIOUS
  <2>2. N(t) \in Nat /\ N(u) \in Nat
    BY <1>2, <2>1, Zenon
  <2>3. T(t) = Profile!Round(N(t), r) /\ T(u) = Profile!Round(N(u), r)
    BY <1>1, <2>1, Zenon
  <2>4. (a <= b => N(t) <= N(u)) /\ (b < a => N(u) <= N(t))
    <3> HIDE DEF a, b, r
    <3> QED BY <2>1
  <2> HIDE DEF N, a, b, r, T
  <2> QED BY <2>1, <2>2, <2>3, <2>4, RoundIsMonotone, Zenon
<1>5. ~(u < r) => T(u) = b
  BY <1>1, Zenon
<1> HIDE DEF T
<1>6. T(t) \in Nat /\ T(u) \in Nat
  BY <1>3, Zenon
<1>7. /\ T(t) \in Nat /\ T(u) \in Nat
      /\ a <= b => a <= T(t) /\ T(t) <= T(u) /\ T(u) <= b
      /\ b < a => T(u) <= T(t) /\ T(t) <= a /\ b <= T(u)
  BY <1>3, <1>4, <1>5, <1>6, Zenon
<1> QED BY <1>7, Zenon DEF T

\* What a profile asks for is within its upper bound.
LEMMA TargetIsWithin ==
    ASSUME Levels \subseteq Nat, Spans \subseteq Nat, NEW p \in Profile!Profiles, NEW t \in Nat
    PROVE  /\ Profile!TargetConcurrency(p, t) \in Nat
           /\ Profile!TargetConcurrency(p, t) <= Profile!UpperBound(p)
<1>1. CASE p \in [kind : {"Constant"}, concurrency : Levels, duration : Spans]
  BY <1>1 DEF Profile!TargetConcurrency, Profile!UpperBound
<1>2. CASE p \in [kind : {"Ramp"}, start : Levels, target : Levels, ramp : Spans, hold : Spans]
  <2>1. p.kind = "Ramp" /\ p.start \in Nat /\ p.target \in Nat /\ p.ramp \in Nat
    BY <1>2, Zenon
  <2>2. Profile!UpperBound(p) = Profile!Larger(p.start, p.target)
    BY <2>1, Zenon DEF Profile!UpperBound
  <2> QED BY <2>1, <2>2, RampIsMonotone DEF Profile!Larger
<1>3. CASE p \in [kind : {"Spike"}, baseline : Levels, peak : Levels, pre : Spans, spike : Spans, post : Spans]
  BY <1>3 DEF Profile!TargetConcurrency, Profile!UpperBound, Profile!Larger
<1> QED BY <1>1, <1>2, <1>3, Zenon DEF Profile!Profiles

\* What was last asked for is the target of some earlier time, of a profile whose upper
\* bound was admitted.
ProfileInv ==
    /\ input \in Profile!Profiles
    /\ state \in [elapsed : Nat, admitted : BOOLEAN]
    /\ state.admitted => Profile!UpperBound(input) \in 1 .. MaxConcurrency
    /\ output # <<>> =>
          state.admitted /\ \E t \in 0 .. state.elapsed : output = <<Profile!TargetConcurrency(input, t)>>

\* Load profiles (config.rs): a profile that ensure_concurrency_limit admitted asks for no
\* more workers than the limit, and a ramp moves one way only, to its target.
THEOREM ProfilesAreFollowed ==
    ASSUME Levels \subseteq Nat, Spans \subseteq Nat, MaxConcurrency \in Nat
    PROVE  Profile!Spec => Profile!ProfileIsFollowed
<1>1. Profile!Init => ProfileInv
  BY DEF Profile!Init, ProfileInv
<1>2. ASSUME ProfileInv, [Profile!Next]_(Profile!vars)
      PROVE  /\ ProfileInv' /\ input' = input /\ state'.elapsed \in Nat /\ state'.elapsed >= state.elapsed
             /\ output' = output \/ output' = <<Profile!TargetConcurrency(input, state.elapsed)>>
  <2>1. CASE Profile!Admit
    <3>1. /\ state' \in [elapsed : Nat, admitted : BOOLEAN] /\ state'.elapsed = state.elapsed /\ state'.admitted
          /\ Profile!UpperBound(input) \in 1 .. MaxConcurrency /\ input' = input /\ output' = output
      BY <1>2, <2>1, Zenon DEF Profile!Admit, ProfileInv
    <3> QED BY <1>2, <3>1 DEF ProfileInv
  <2>2. CASE Profile!Supervise
    <3>1. state' = state /\ input' = input /\ output' = <<Profile!TargetConcurrency(input, state.elapsed)>>
          /\ state.admitted
      BY <2>2, Zenon DEF Profile!Supervise
    <3> QED BY <1>2, <3>1 DEF ProfileInv
  <2>3. CASE Profile!Tick
    <3>1. input' = input /\ output' = output /\ state.elapsed \in Nat /\ state.elapsed + 1 \in Nat
      BY <1>2, <2>3 DEF Profile!Tick, ProfileInv
    <3>2. /\ state' \in [elapsed : Nat, admitted : BOOLEAN] /\ state'.elapsed = state.elapsed + 1
          /\ state'.admitted = state.admitted
      BY <1>2, <2>3, <3>1, Zenon DEF Profile!Tick, ProfileInv
    <3> QED BY <1>2, <3>1, <3>2 DEF ProfileInv
  <2>4. CASE UNCHANGED Profile!vars
    BY <1>2, <2>4 DEF Profile!vars, ProfileInv
  <2> QED BY <1>2, <2>1, <2>2, <2>3, <2>4, Zenon DEF Profile!Next
<1>3. ASSUME ProfileInv PROVE Profile!LimitIsKept
  <2> SUFFICES ASSUME output # <<>> PROVE output[1] <= MaxConcurrency
    BY Zenon DEF Profile!LimitIsKept
  <2>1. PICK t \in Nat : output = <<Profile!TargetConcurrency(input, t)>>
    BY <1>3 DEF ProfileInv
  <2>2. /\ Profile!TargetConcurrency(input, t) \in Nat
        /\ Profile!TargetConcurrency(input, t) <= Profile!UpperBound(input)
    BY <1>3, TargetIsWithin, Zenon DEF ProfileInv
  <2>3. Profile!UpperBound(input) \in 1 .. MaxConcurrency
    BY <1>3, Zenon DEF ProfileInv
  <2> QED BY <2>1, <2>2, <2>3
<1>4. ASSUME ProfileInv, [Profile!Next]_(Profile!vars), input.kind = "Ramp", output # <<>>
      PROVE  Profile!RampStep
  <2>1. input.start \in Nat /\ input.target \in Nat /\ input.ramp \in Nat
    BY <1>4, Zenon DEF ProfileInv, Profile!Profiles
  <2>2. PICK t \in 0 .. state.elapsed : output = <<Profile!TargetConcurrency(input, t)>>
    BY <1>4, Zenon DEF ProfileInv
  <2>3. state.elapsed \in Nat /\ t \in Nat /\ t <= state.elapsed
    BY <1>4, <2>2 DEF ProfileInv
  <2> DEFINE before == Profile!TargetConcurrency(input, t)
             after == Profile!TargetConcurrency(input, state.elapsed)
  <2>4. output[1] = before /\ (output' = output \/ output' = <<after>>)
    BY <1>2, <1>4, <2>2, Zenon
  <2>5. /\ before \in Nat /\ after \in Nat
        /\ input.start <= input.target => before <= after /\ before <= input.target /\ after <= input.target
        /\ input.target < input.start => after <= before /\ input.target <= before /\ input.target <= after
    <3>1. /\ before \in Nat /\ after \in Nat
          /\ input.start <= input.target =>
                input.start <= before /\ before <= after /\ after <= input.target
          /\ input.target < input.start =>
                after <= before /\ before <= input.start /\ input.target <= after
      BY <1>4, <2>1, <2>3, RampIsMonotone, Zenon
    <3> HIDE DEF before, after
    <3> QED BY <2>1, <3>1
  <2>6. state.elapsed >= input.ramp => after = input.target
    BY <1>4, <2>1, <2>3 DEF Profile!TargetConcurrency
  <2> HIDE DEF before, after
  <2>7. CASE output' = output
    BY <2>1, <2>4, <2>5, <2>7 DEF Profile!RampStep
  <2>8. CASE output' = <<after>>
    BY <2>1, <2>4, <2>5, <2>6, <2>8 DEF Profile!RampStep
  <2> QED BY <2>4, <2>7, <2>8, Zenon
<1>5. ProfileInv /\ [Profile!Next]_(Profile!vars) => ProfileInv'
  BY <1>2, Zenon
<1>6. ProfileInv' => Profile!LimitIsKept'
  BY <1>3, PTL
<1>7. ProfileInv /\ [Profile!Next]_(Profile!vars) =>
        [Profile!LimitIsKept' /\ (input.kind = "Ramp" /\ output # <<>> => Profile!RampStep)]_(Profile!vars)
  BY <1>4, <1>5, <1>6, Zenon
<1> QED BY <1>1, <1>5, <1>7, PTL DEF Profile!Spec, Profile!ProfileIsFollowed

-----------------------------------------------------------------------------
(* Reconnect delays.                                                       *)
Delays == INSTANCE Backoff

\* A set of naturals that has 0 and, with each number, the next has them all.
LEMMA NatSetInduction ==
    ASSUME NEW S \in SUBSET Nat, 0 \in S, \A n \in S : n + 1 \in S
    PROVE  S = Nat
<1> SUFFICES ASSUME Nat \ S # {} PROVE FALSE
  BY Zenon
<1> DEFINE T == {0 .. n : n \in Nat \ S}
           R == StrictSubsetOrdering(Nat)
<1>1. IsWellFoundedOn(R, FiniteSubsetsOf(Nat))
  BY FS_StrictSubsetOrderingWellFounded, Zenon
<1>2. T \subseteq FiniteSubsetsOf(Nat) /\ T # {}
  <2>1. \A n \in Nat : 0 .. n \in SUBSET Nat /\ IsFiniteSet(0 .. n)
    <3> TAKE n \in Nat
    <3>1. IsFiniteSet(0 .. n)
      BY FS_Interval, 0 \in Int, n \in Int, Zenon
    <3> QED BY <3>1
  <2> QED BY <2>1, Zenon DEF FiniteSubsetsOf
<1> HIDE DEF T, R
<1>3. PICK X \in T : \A Y \in T : ~(<<Y, X>> \in R)
  BY <1>1, <1>2, WFMin, Zenon
<1>4. PICK x \in Nat \ S : X = 0 .. x
  BY <1>3, Zenon DEF T
<1>5. x # 0 /\ x - 1 \in Nat /\ (x - 1) + 1 = x
  BY <1>4
<1>6. /\ 0 .. (x - 1) \subseteq 0 .. x /\ 0 .. (x - 1) # 0 .. x
      /\ 0 .. x \in SUBSET Nat /\ 0 .. (x - 1) \in SUBSET Nat
  BY <1>5
<1>7. 0 .. (x - 1) \notin T
  BY <1>3, <1>4, <1>6, Zenon DEF R, StrictSubsetOrdering
<1>8. x - 1 \in S
  BY <1>5, <1>7, Zenon DEF T
<1> QED BY <1>4, <1>5, <1>8, Zenon

\* g tells the powers of f up to the n-th.
IsPowers(f, g, n) == g \in [0 .. n -> Nat] /\ g[0] = 1 /\ \A k \in 1 .. n : g[k] = f * g[k - 1]

\* The powers up to any exponent exist.
LEMMA PowersExist ==
    ASSUME NEW f \in Nat \ {0}, NEW n \in Nat
    PROVE  \E g : IsPowers(f, g, n)
<1> DEFINE S == {m \in Nat : \E g : IsPowers(f, g, m)}
<1>1. 0 \in S
  <2>1. IsPowers(f, [k \in 0 .. 0 |-> 1], 0)
    BY DEF IsPowers
  <2> QED BY <2>1, Zenon
<1>2. ASSUME NEW m \in S PROVE m + 1 \in S
  <2>1. PICK g : IsPowers(f, g, m)
    BY <1>2, Zenon
  <2> DEFINE h == [k \in 0 .. m + 1 |-> IF k = m + 1 THEN f * g[m] ELSE g[k]]
  <2>2. IsPowers(f, h, m + 1)
    <3>1. g[m] \in Nat /\ f * g[m] \in Nat
      BY <2>1 DEF IsPowers
    <3>2. h \in [0 .. m + 1 -> Nat]
      BY <2>1, <3>1 DEF IsPowers
    <3>3. h[0] = 1
      BY <2>1 DEF IsPowers
    <3>4. ASSUME NEW k \in 1 .. m + 1 PROVE h[k] = f * h[k - 1]
      <4>1. k - 1 \in 0 .. m /\ h[k - 1] = g[k - 1]
        OBVIOUS
      <4>2. CASE k = m + 1
        BY <4>1, <4>2
      <4>3. CASE k # m + 1
        BY <2>1, <4>1, <4>3 DEF IsPowers
      <4> QED BY <4>2, <4>3, Zenon
    <3> QED BY <3>2, <3>3, <3>4, Zenon DEF IsPowers
  <2> QED BY <2>2
<1> HIDE DEF S
<1>3. S = Nat
  BY <1>1, <1>2, NatSetInduction, Zenon DEF S
<1> QED BY <1>3, Zenon DEF S

\* Powers up to different exponents agree.
LEMMA PowersAgree ==
    ASSUME NEW f \in Nat \ {0}, NEW n \in Nat, NEW m \in Nat, n <= m,
           NEW g, NEW h, IsPowers(f, g, n), IsPowers(f, h, m)
    PROVE  \A k \in 0 .. n : g[k] = h[k]
<1> DEFINE S == {k \in Nat : k <= n => g[k] = h[k]}
<1>1. 0 \in S
  BY Zenon DEF IsPowers
<1>2. ASSUME NEW k \in S PROVE k + 1 \in S
  <2> SUFFICES ASSUME k + 1 <= n PROVE g[k + 1] = h[k + 1]
    OBVIOUS
  <2>1. g[k] = h[k] /\ k + 1 \in 1 .. n /\ k + 1 \in 1 .. m /\ (k + 1) - 1 = k
    OBVIOUS
  <2>2. g[k + 1] = f * g[k] /\ h[k + 1] = f * h[k]
    BY <2>1, Zenon DEF IsPowers
  <2> QED BY <2>1, <2>2, Zenon
<1> HIDE DEF S
<1>3. S = Nat
  BY <1>1, <1>2, NatSetInduction, Zenon DEF S
<1> QED BY <1>3 DEF S

\* powi of a natural number is repeated multiplication, and never shrinks.
LEMMA PowiGrows ==
    ASSUME NEW f \in Nat \ {0}
    PROVE  /\ Delays!Powi(f)[0] = 1
           /\ \A n \in Nat : Delays!Powi(f)[n] \in Nat \ {0} /\ Delays!Powi(f)[n] <= Delays!Powi(f)[n + 1]
<1> DEFINE P == Delays!Powi(f)
           G(n) == CHOOSE g : IsPowers(f, g, n)
           Q == [n \in Nat |-> G(n)[n]]
<1>1. ASSUME NEW n \in Nat PROVE IsPowers(f, G(n), n)
  BY PowersExist, Zenon
<1>2. Q = [n \in Nat |-> IF n = 0 THEN 1 ELSE f * Q[n - 1]]
  <2> HIDE DEF G
  <2> SUFFICES ASSUME NEW n \in Nat PROVE G(n)[n] = IF n = 0 THEN 1 ELSE f * Q[n - 1]
    BY Zenon
  <2>1. CASE n = 0
    BY <1>1, <2>1, Zenon DEF IsPowers
  <2>2. CASE n # 0
    <3>1. n - 1 \in Nat /\ n - 1 <= n /\ n \in 1 .. n /\ n - 1 \in 0 .. n - 1
      BY <2>2
    <3>2. G(n)[n] = f * G(n)[n - 1]
      BY <1>1, <3>1, Zenon DEF IsPowers
    <3>3. G(n - 1)[n - 1] = G(n)[n - 1]
      BY <1>1, <3>1, PowersAgree
    <3> QED BY <2>2, <3>1, <3>2, <3>3, Zenon
  <2> QED BY <2>1, <2>2, Zenon
<1>3. P = [n \in Nat |-> IF n = 0 THEN 1 ELSE f * P[n - 1]]
  <2> HIDE DEF Q
  <2> QED BY <1>2, Zenon DEF Delays!Powi
<1> HIDE DEF P
<1>4. P[0] = 1 /\ \A n \in Nat : P[n + 1] = f * P[n]
  BY <1>3
<1> DEFINE S == {n \in Nat : P[n] \in Nat \ {0}}
<1>5. 0 \in S
  BY <1>4
<1>6. ASSUME NEW n \in S PROVE n + 1 \in S
  BY <1>4, <1>6
<1> HIDE DEF S
<1>7. S = Nat
  BY <1>5, <1>6, NatSetInduction, Zenon DEF S
<1>8. ASSUME NEW n \in Nat PROVE P[n] \in Nat \ {0} /\ P[n] <= P[n + 1]
  <2>1. P[n] \in Nat \ {0} /\ P[n + 1] = f * P[n]
    BY <1>4, <1>7 DEF S
  <2> QED BY <2>1
<1> QED BY <1>4, <1>8, Zenon DEF P

\* delay_for is within the maximum, and grows from one attempt to the next.
LEMMA DelayForGrows ==
    ASSUME MaxExponent \in Nat, NEW b \in [base : Nat, max : Nat, factor : Nat \ {0}, jitter : BOOLEAN],
           NEW n \in Nat
    PROVE  /\ Delays!DelayFor(b, n) \in Nat /\ Delays!DelayFor(b, n) <= b.max
           /\ Delays!DelayFor(b, n) <= Delays!DelayFor(b, n + 1)
<1> DEFINE P == Delays!Powi(b.factor)
           m == IF n < MaxExponent THEN n ELSE MaxExponent
           M == IF n + 1 < MaxExponent THEN n + 1 ELSE MaxExponent
<1>1. b.base \in Nat /\ b.max \in Nat /\ b.factor \in Nat \ {0}
  OBVIOUS
<1>2. \A k \in Nat : P[k] \in Nat \ {0} /\ P[k] <= P[k + 1]
  BY <1>1, PowiGrows, Zenon
<1>3. /\ Delays!DelayFor(b, n) = IF b.base * P[m] < b.max THEN b.base * P[m] ELSE b.max
      /\ Delays!DelayFor(b, n + 1) = IF b.base * P[M] < b.max THEN b.base * P[M] ELSE b.max
  BY Zenon DEF Delays!DelayFor, Delays!Smaller
<1>4. m \in Nat /\ M \in Nat /\ (M = m \/ M = m + 1)
  OBVIOUS
<1> HIDE DEF P, m, M
<1>5. P[m] \in Nat /\ P[M] \in Nat /\ P[m] <= P[M]
  BY <1>2, <1>4
<1>6. b.base * P[m] \in Nat /\ b.base * P[M] \in Nat /\ b.base * P[m] <= b.base * P[M]
  BY <1>1, <1>5
<1> QED BY <1>1, <1>3, <1>6

\* The last delay is that of the attempt before, or of the last one the counter can tell.
DelaysInv ==
    /\ input \in Schedules /\ state \in Nat /\ state <= MaxAttempt
    /\ output \in Nat /\ output <= input.max * JitterSteps
    /\ state # 0 /\ ~input.jitter =>
          \/ output = Delays!DelayFor(input, state - 1) * JitterSteps
          \/ output = Delays!DelayFor(input, state) * JitterSteps

\* Reconnect delays (backoff.rs): no delay exceeds the maximum and, without jitter, none is
\* shorter than the one before it until a reset.
THEOREM BoundedDelays ==
    ASSUME MaxExponent \in Nat, MaxAttempt \in Nat, JitterSteps \in Nat \ {0},
           Schedules \subseteq [base : Nat, max : Nat, factor : Nat \ {0}, jitter : BOOLEAN]
    PROVE  Delays!Spec => Delays!DelaysAreBounded
<1> DEFINE Types == [base : Nat, max : Nat, factor : Nat \ {0}, jitter : BOOLEAN]
<1>1. Delays!Init => DelaysInv
  <2> SUFFICES ASSUME Delays!Init PROVE DelaysInv
    OBVIOUS
  <2>1. input \in Schedules /\ input.max \in Nat /\ state = 0 /\ output = 0
    BY Zenon DEF Delays!Init
  <2> QED BY <2>1 DEF DelaysInv
<1>2. ASSUME DelaysInv, NEW jitter \in 0 .. (JitterSteps - 1), Delays!NextDelay(jitter)
      PROVE  DelaysInv' /\ Delays!DelayStep
  <2> DEFINE d == Delays!DelayFor(input, state)
             k == IF input.jitter THEN jitter ELSE JitterSteps
  <2>1. input \in Types /\ state \in Nat /\ input' = input /\ output' = d * k /\ output \in Nat
    BY <1>2, Zenon DEF DelaysInv, Delays!NextDelay
  <2>2. d \in Nat /\ d <= input.max /\ input.max \in Nat
    BY <2>1, DelayForGrows, Zenon
  <2>3. k \in Nat /\ k <= JitterSteps
    BY <1>2
  <2>4. state' - 1 = state \/ state' = state
    BY <1>2, <2>1 DEF Delays!NextDelay, DelaysInv
  <2>5. state' \in Nat /\ state' <= MaxAttempt
    BY <1>2, <2>1 DEF Delays!NextDelay, DelaysInv
  <2>6. ~input.jitter => output' = d * JitterSteps
    BY <2>1, Zenon
  <2>7. output' \in Nat /\ output' <= input.max * JitterSteps
    <3> HIDE DEF d, k
    <3> QED BY <2>1, <2>2, <2>3
  <2>8. DelaysInv'
    <3>1. state' # 0 /\ ~input.jitter =>
            \/ output' = Delays!DelayFor(input, state' - 1) * JitterSteps
            \/ output' = Delays!DelayFor(input, state') * JitterSteps
      BY <2>4, <2>5, <2>6, Zenon
    <3> QED BY <1>2, <2>1, <2>5, <2>7, <3>1, Zenon DEF DelaysInv
  <2>9. ASSUME ~input.jitter, state # 0 PROVE output <= output'
    <3>1. state - 1 \in Nat /\ (state - 1) + 1 = state
      BY <2>1, <2>9
    <3> DEFINE c == Delays!DelayFor(input, state - 1)
    <3>2. c \in Nat /\ c <= d
      BY <2>1, <3>1, DelayForGrows, Zenon
    <3>3. output = c * JitterSteps \/ output = d * JitterSteps
      BY <1>2, <2>9, Zenon DEF DelaysInv
    <3> HIDE DEF c, d
    <3> QED BY <2>2, <2>6, <2>9, <3>2, <3>3
  <2> QED BY <2>7, <2>8, <2>9, Zenon DEF Delays!DelayStep
<1>3. ASSUME DelaysInv, Delays!Reset PROVE DelaysInv' /\ Delays!DelayStep
  BY <1>3 DEF DelaysInv, Delays!Reset, Delays!DelayStep
<1>4. ASSUME DelaysInv, UNCHANGED Delays!vars PROVE DelaysInv'
  BY <1>4, Zenon DEF DelaysInv, Delays!vars
<1>5. DelaysInv /\ [Delays!Next]_(Delays!vars) => DelaysInv' /\ [Delays!DelayStep]_(Delays!vars)
  BY <1>2, <1>3, <1>4, Zenon DEF Delays!Next
<1> QED BY <1>1, <1>5, PTL DEF Delays!Spec, Delays!DelaysAreBounded

-----------------------------------------------------------------------------
(* The set-up of a test.                                                   *)
Config == INSTANCE Setup

\* The pool sizes that Next sets.
Pools == {<<0>>, <<2>>}

\* The configurations that the arguments of the constructor and the setters can make.
Configurations ==
    [url : {"http", "ws", "grpc", "grpcs", "http3", "sse", "stomp", "sqlite"}, concurrency : Nat,
     graphql : BOOLEAN, variables : BOOLEAN, soap : BOOLEAN, body : BOOLEAN, form : BOOLEAN, sse : BOOLEAN,
     multiplex : BOOLEAN, destination : BOOLEAN, receipt : BOOLEAN, consume : BOOLEAN, query : BOOLEAN,
     malformed : BOOLEAN, pool : {<<>>} \cup Pools]

\* A configuration is valid from New to the first assignment after it; and a test that
\* started has the engine and the pool of its configuration.
ConfigInv ==
    /\ input \in Configurations
    /\ state \in [made : BOOLEAN, touched : BOOLEAN, assignments : Nat]
    /\ state.made /\ ~state.touched => Config!Validate(input)
    /\ output # <<>> =>
          /\ state.made /\ Config!EnsureConcurrencyLimit(input.concurrency)
          /\ Config!BuildEngine(input) # <<>>
          /\ output = <<[engine |-> Config!BuildEngine(input)[1], pool |-> Config!PoolMax(input)]>>

\* A configuration stays one under every assignment that Next makes.
LEMMA AssignKeepsType ==
    ASSUME MaxConcurrency \in Nat, NEW c \in Configurations
    PROVE  /\ \A f \in Config!Flags : [c EXCEPT ![f] = TRUE] \in Configurations
           /\ \A n \in Nat : [c EXCEPT !["concurrency"] = n] \in Configurations
           /\ \A p \in Pools : [c EXCEPT !["pool"] = p] \in Configurations
<1>1. ASSUME NEW f \in Config!Flags PROVE [c EXCEPT ![f] = TRUE] \in Configurations
  BY Zenon DEF Configurations, Config!Flags
<1>2. ASSUME NEW n \in Nat PROVE [c EXCEPT !["concurrency"] = n] \in Configurations
  BY Zenon DEF Configurations
<1>3. ASSUME NEW p \in Pools PROVE [c EXCEPT !["pool"] = p] \in Configurations
  BY Zenon DEF Configurations
<1> QED BY <1>1, <1>2, <1>3, Zenon

\* Setting up a test (config.rs, lib.rs): a test that starts has an admissible concurrency
\* and a pool, and the engine of a configuration that was not changed after validation has
\* what it needs.
THEOREM TestsStartSound ==
    ASSUME MaxConcurrency \in Nat \ {0}
    PROVE  Config!Spec => []Config!StartedTestsAreSound
<1>1. Config!Init => ConfigInv
  <2> SUFFICES ASSUME Config!Init PROVE ConfigInv
    OBVIOUS
  <2>1. PICK u \in {"http", "ws", "grpc", "grpcs", "http3", "sse", "stomp", "sqlite"} :
              input = [Config!Default EXCEPT !.url = u]
    BY Zenon DEF Config!Init
  <2>2. input \in Configurations
    BY <2>1, Zenon DEF Configurations, Config!Default
  <2>3. state.made = FALSE /\ state \in [made : BOOLEAN, touched : BOOLEAN, assignments : Nat] /\ output = <<>>
    BY Zenon DEF Config!Init
  <2> QED BY <2>2, <2>3, Zenon DEF ConfigInv
<1>2. ASSUME ConfigInv, NEW field, NEW value, Config!Assign(field, value),
             [input EXCEPT ![field] = value] \in Configurations
      PROVE  ConfigInv'
  <2>1. /\ input' \in Configurations /\ output' = <<>> /\ state.assignments + 1 \in Nat
    BY <1>2 DEF Config!Assign, ConfigInv
  <2>2. state' = [state EXCEPT !.assignments = state.assignments + 1, !.touched = state.made]
    BY <1>2, Zenon DEF Config!Assign
  <2>3. /\ state' \in [made : BOOLEAN, touched : BOOLEAN, assignments : Nat]
        /\ state'.made = state.made /\ state'.touched = state.made
    BY <1>2, <2>1, <2>2, Zenon DEF ConfigInv
  <2> QED BY <2>1, <2>3, Zenon DEF ConfigInv
<1>3. ASSUME ConfigInv, Config!New PROVE ConfigInv'
  <2>1. /\ state' \in [made : BOOLEAN, touched : BOOLEAN, assignments : Nat]
        /\ input' = input /\ output' = output /\ ~state.made /\ Config!Validate(input)
    BY <1>3, Zenon DEF Config!New, ConfigInv
  <2>2. output = <<>>
    BY <1>3, <2>1, Zenon DEF ConfigInv
  <2> QED BY <1>3, <2>1, <2>2, Zenon DEF ConfigInv
<1>4. ASSUME ConfigInv, Config!RunLoadTest PROVE ConfigInv'
  BY <1>4, Zenon DEF Config!RunLoadTest, ConfigInv
<1>5. ConfigInv /\ [Config!Next]_(Config!vars) => ConfigInv'
  <2> SUFFICES ASSUME ConfigInv, [Config!Next]_(Config!vars) PROVE ConfigInv'
    OBVIOUS
  <2>0. input \in Configurations
    BY Zenon DEF ConfigInv
  <2>1. ASSUME NEW field \in Config!Flags, Config!Assign(field, TRUE) PROVE ConfigInv'
    BY <1>2, <2>0, <2>1, AssignKeepsType, Zenon
  <2>2. ASSUME NEW n \in {0, MaxConcurrency, MaxConcurrency + 1}, Config!Assign("concurrency", n)
        PROVE ConfigInv'
    <3>1. n \in Nat
      BY <2>2
    <3>2. [input EXCEPT !["concurrency"] = n] \in Configurations
      BY <2>0, <3>1, AssignKeepsType, MaxConcurrency \in Nat, Zenon
    <3> QED BY <1>2, <2>2, <3>2, Zenon
  <2>3. ASSUME NEW pool \in Pools, Config!Assign("pool", pool) PROVE ConfigInv'
    BY <1>2, <2>0, <2>3, AssignKeepsType, Zenon
  <2>4. CASE UNCHANGED Config!vars
    BY <2>4, Zenon DEF Config!vars, ConfigInv
  <2> QED BY <1>3, <1>4, <2>1, <2>2, <2>3, <2>4, Zenon DEF Config!Next, Pools
<1>6. ConfigInv => Config!StartedTestsAreSound
  <2> SUFFICES ASSUME ConfigInv, output # <<>> PROVE Config!StartedTestsAreSound
    BY Zenon DEF Config!StartedTestsAreSound
  <2> DEFINE e == Config!BuildEngine(input)[1]
             p == Config!PoolMax(input)
  <2>1. output[1].engine = e /\ output[1].pool = p
    <3> HIDE DEF e, p
    <3>1. output = <<[engine |-> e, pool |-> p]>>
      BY Zenon DEF ConfigInv, e, p
    <3> QED BY <3>1, Zenon
  <2>2. input.concurrency \in 1 .. MaxConcurrency
    BY DEF ConfigInv, Configurations, Config!EnsureConcurrencyLimit
  <2>3. p >= 1
    BY DEF ConfigInv, Configurations, Pools, Config!PoolMax
  <2>4. ASSUME ~state.touched
        PROVE  /\ input.graphql <=> e \in {"graphql", "graphql_ws"}
               /\ input.soap <=> e = "soap"
               /\ e = "soap" => input.body
               /\ e = "stomp" => input.destination
               /\ e = "db" => input.query
               /\ e \in {"http", "soap", "graphql"} => ~(input.body /\ input.form)
    <3>1. Config!Validate(input) /\ Config!BuildEngine(input) # <<>>
      BY <2>4, Zenon DEF ConfigInv
    <3>2. input \in Configurations
      BY Zenon DEF ConfigInv
    <3> DEFINE d == Config!DetectProtocol(input)
    <3>3. /\ d \in {"ws", "grpc", "grpc_h2", "http3", "sse", "stomp", "db", "http"}
          /\ d = "stomp" => input.url \in Config!Stomp
          /\ d = "db" => input.url \in Config!Database
          /\ d = "http" => ~Config!IsProtocolUrl(input.url) /\ ~input.sse
      BY <3>2, Zenon DEF Configurations, Config!DetectProtocol, Config!WebSocket, Config!Grpc, Config!Http3,
                  Config!Sse, Config!Stomp, Config!Database, Config!Http, Config!IsProtocolUrl
    <3>4. CASE input.graphql
      BY <3>1, <3>4, Zenon DEF Config!BuildEngine, Config!Validate, Config!ValidateGraphql, Config!ValidateSoap
    <3>5. CASE ~input.graphql /\ input.soap
      BY <3>1, <3>5, Zenon DEF Config!BuildEngine, Config!Validate, Config!ValidateSoap
    <3>6. CASE ~input.graphql /\ ~input.soap /\ (Config!IsProtocolUrl(input.url) \/ input.sse)
      <4>1. e = d
        BY <3>6, Zenon DEF Config!BuildEngine
      <4> QED BY <3>1, <3>3, <3>6, <4>1, Zenon
        DEF Config!Validate, Config!ValidateStomp, Config!ValidateDatabase
    <3>7. CASE ~input.graphql /\ ~input.soap /\ ~(Config!IsProtocolUrl(input.url) \/ input.sse)
      <4>1. e = "http" /\ ~(input.body /\ input.form)
        BY <3>1, <3>7, Zenon DEF Config!BuildEngine
      <4> QED BY <3>7, <4>1, Zenon
    <3> QED BY <3>4, <3>5, <3>6, <3>7, Zenon
  <2> HIDE DEF e, p
  <2> QED BY <2>1, <2>2, <2>3, <2>4, Zenon DEF Config!StartedTestsAreSound
<1> QED BY <1>1, <1>5, <1>6, PTL DEF Config!Spec

-----------------------------------------------------------------------------
(* The resource sampler.                                                   *)
Sampler == INSTANCE ResourceSampler

\* The first samples of a test that took n, as many as the channel holds.
Kept(n) == IF n < Capacity THEN n ELSE Capacity
First(n) == [i \in 1 .. Kept(n) |-> i]

\* The thread, its channel and the token.
SamplerState ==
    [thread : {"sleeping", "sampled", "stopped"}, channel : Seq(Nat), cancelled : BOOLEAN]

\* What was kept of the samples, collected or not.
Taken == output \o state.channel

\* What is kept is the beginning and, once the token is cancelled and the collector makes
\* room, at most one sample more.
SamplerInv ==
    /\ input \in Nat
    /\ output \in Seq(Nat)
    /\ state \in SamplerState
    /\ ~state.cancelled => output = <<>>
    /\ state.thread = "stopped" => state.cancelled
    /\ state.thread = "sampled" => input > 0 /\ Taken = First(input - 1)
    /\ state.thread = "sleeping" /\ ~state.cancelled => Taken = First(input)
    /\ state.thread # "sampled" => Taken \in {First(input), Append(First(input), input)}

\* Moving the head of one sequence to the end of another keeps their concatenation.
LEMMA ConcatMoves ==
    ASSUME NEW a \in Seq(Nat), NEW b \in Seq(Nat), NEW x \in Nat
    PROVE  /\ a \o b \in Seq(Nat) /\ Len(a \o b) = Len(a) + Len(b)
           /\ a \o Append(b, x) = Append(a \o b, x)
           /\ b # <<>> => Append(a, Head(b)) \o Tail(b) = a \o b
<1>1. a \o b \in Seq(Nat) /\ Len(a \o b) = Len(a) + Len(b)
  BY ConcatProperties, Zenon
<1>2. a \o Append(b, x) = Append(a \o b, x)
  <2>1. a \o Append(b, x) = a \o (b \o <<x>>)
    BY AppendIsConcat, Zenon
  <2>2. Append(a \o b, x) = (a \o b) \o <<x>>
    BY <1>1, AppendIsConcat, Zenon
  <2>3. <<x>> \in Seq(Nat)
    OBVIOUS
  <2>4. a \o (b \o <<x>>) = (a \o b) \o <<x>>
    BY <2>3, ConcatAssociative
  <2> QED BY <2>1, <2>2, <2>4, Zenon
<1>3. b # <<>> => Append(a, Head(b)) \o Tail(b) = a \o b
  <2> SUFFICES ASSUME b # <<>> PROVE Append(a, Head(b)) \o Tail(b) = a \o b
    BY SMTT(30)
  <2>1. Head(b) \in Nat /\ Tail(b) \in Seq(Nat) /\ <<Head(b)>> \in Seq(Nat)
    OBVIOUS
  <2>2. Append(a, Head(b)) = a \o <<Head(b)>>
    BY <2>1, AppendIsConcat, Zenon
  <2>3. (a \o <<Head(b)>>) \o Tail(b) = a \o (<<Head(b)>> \o Tail(b))
    BY <2>1, ConcatAssociative, SMTT(30)
  <2>4. <<Head(b)>> \o Tail(b) = b
    BY <2>1
  <2> QED BY <2>2, <2>3, <2>4, Zenon
<1> QED BY <1>1, <1>2, <1>3, Zenon

\* How the beginning grows with the samples taken.
LEMMA FirstIsSeq ==
    ASSUME Capacity \in Nat \ {0}, NEW n \in Nat
    PROVE  /\ First(n) \in Seq(Nat) /\ Len(First(n)) = Kept(n)
           /\ n + 1 <= Capacity => First(n + 1) = Append(First(n), n + 1)
           /\ n >= Capacity => First(n + 1) = First(n)
BY DEF First, Kept

\* The sampler (metrics/system.rs): a report has the first samples of the test, as many as the
\* channel holds, and at most the last one besides.
THEOREM SamplesAreTheFirst ==
    ASSUME Capacity \in Nat \ {0}
    PROVE  Sampler!Spec => []Sampler!BeginningIsKept
<1>1. Sampler!Init => SamplerInv
  BY DEF Sampler!Init, SamplerInv, SamplerState, Taken, First, Kept
<1>2. ASSUME SamplerInv, Sampler!Refresh PROVE SamplerInv'
  <2>1. /\ state' \in SamplerState /\ state'.thread = "sampled" /\ state'.channel = state.channel
        /\ state'.cancelled = state.cancelled
    BY <1>2, Zenon DEF Sampler!Refresh, SamplerInv, SamplerState
  <2>2. input' - 1 = input /\ input' \in Nat /\ input' > 0 /\ output' = output /\ Taken = First(input)
    BY <1>2 DEF Sampler!Refresh, SamplerInv
  <2>3. Taken' = First(input' - 1)
    BY <2>1, <2>2, Zenon DEF Taken
  <2> QED BY <1>2, <2>1, <2>2, <2>3, Zenon DEF SamplerInv
<1>3. ASSUME SamplerInv, Sampler!TrySend PROVE SamplerInv'
  <2> DEFINE channel == IF Len(state.channel) < Capacity THEN Append(state.channel, input) ELSE state.channel
  <2>1. /\ state.thread = "sampled" /\ input \in Nat /\ input - 1 \in Nat /\ input = (input - 1) + 1
        /\ state.channel \in Seq(Nat) /\ output \in Seq(Nat) /\ channel \in Seq(Nat)
    BY <1>3 DEF Sampler!TrySend, SamplerInv, SamplerState
  <2>2. /\ state' = [state EXCEPT !.thread = "sleeping", !.channel = channel]
        /\ input' = input /\ output' = output
    BY <1>3, Zenon DEF Sampler!TrySend
  <2>3. /\ state' \in SamplerState /\ state'.thread = "sleeping" /\ state'.channel = channel
        /\ state'.cancelled = state.cancelled
    <3> HIDE DEF channel
    <3> QED BY <1>3, <2>1, <2>2, Zenon DEF SamplerInv, SamplerState
  <2>4. /\ Taken = First(input - 1) /\ Taken \in Seq(Nat)
        /\ Len(Taken) = Len(output) + Len(state.channel) /\ Len(Taken) = Kept(input - 1)
    <3>1. Taken = First(input - 1)
      BY <1>3, <2>1, Zenon DEF SamplerInv
    <3>2. Taken \in Seq(Nat) /\ Len(Taken) = Len(output) + Len(state.channel)
      BY <2>1, ConcatMoves, Zenon DEF Taken
    <3> QED BY <2>1, <3>1, <3>2, FirstIsSeq, Zenon
  <2>5. CASE Len(state.channel) < Capacity
    <3>1. Taken' = Append(Taken, input)
      BY <2>1, <2>2, <2>3, <2>5, ConcatMoves, SMTT(30) DEF Taken
    <3>2. ~state.cancelled => input <= Capacity
      <4> SUFFICES ASSUME ~state.cancelled PROVE input <= Capacity
        OBVIOUS
      <4>1. Len(output) = 0
        BY <1>3 DEF SamplerInv
      <4>2. Kept(input - 1) < Capacity
        BY <2>1, <2>4, <2>5, <4>1
      <4> QED BY <2>1, <4>2 DEF Kept
    <3>3. input <= Capacity => Taken' = First(input)
      BY <2>1, <2>4, <3>1, FirstIsSeq, Zenon
    <3>4. ~(input <= Capacity) => Taken' = Append(First(input), input)
      <4> SUFFICES ASSUME ~(input <= Capacity) PROVE Taken' = Append(First(input), input)
        OBVIOUS
      <4>1. First(input) = First(input - 1)
        BY <2>1 DEF First, Kept
      <4> QED BY <2>4, <3>1, <4>1, Zenon
    <3> QED BY <1>3, <2>2, <2>3, <3>2, <3>3, <3>4, Zenon DEF SamplerInv
  <2>6. CASE ~(Len(state.channel) < Capacity)
    <3>1. Taken' = Taken
      BY <2>2, <2>3, <2>6, Zenon DEF Taken
    <3>2. input - 1 >= Capacity
      <4>1. Len(output) \in Nat /\ Len(state.channel) \in Nat
        BY <2>1
      <4> QED BY <2>1, <2>4, <2>6, <4>1 DEF Kept
    <3>3. Taken' = First(input)
      BY <2>1, <2>4, <3>1, <3>2, FirstIsSeq, Zenon
    <3> QED BY <1>3, <2>2, <2>3, <3>3, Zenon DEF SamplerInv
  <2> QED BY <2>5, <2>6, Zenon
<1>4. ASSUME SamplerInv, Sampler!Stop PROVE SamplerInv'
  <2>1. /\ state' \in SamplerState /\ state'.thread = "stopped" /\ state'.channel = state.channel
        /\ state'.cancelled = state.cancelled
    BY <1>4, Zenon DEF Sampler!Stop, SamplerInv, SamplerState
  <2> QED BY <1>4, <2>1, Zenon DEF Sampler!Stop, SamplerInv, Taken
<1>5. ASSUME SamplerInv, Sampler!Cancel PROVE SamplerInv'
  <2>1. /\ state' \in SamplerState /\ state'.thread = state.thread /\ state'.channel = state.channel
        /\ state'.cancelled
    BY <1>5, Zenon DEF Sampler!Cancel, SamplerInv, SamplerState
  <2> QED BY <1>5, <2>1, Zenon DEF Sampler!Cancel, SamplerInv, Taken
<1>6. ASSUME SamplerInv, Sampler!Collect PROVE SamplerInv'
  <2> DEFINE channel == Tail(state.channel)
  <2>1. state.channel \in Seq(Nat) /\ state.channel # <<>> /\ channel \in Seq(Nat) /\ output \in Seq(Nat)
    BY <1>6 DEF Sampler!Collect, SamplerInv, SamplerState
  <2>2. output' = Append(output, Head(state.channel)) /\ input' = input /\ output' \in Seq(Nat)
    BY <1>6, <2>1 DEF Sampler!Collect
  <2>3. /\ state' \in SamplerState /\ state'.thread = state.thread /\ state'.channel = channel
        /\ state'.cancelled = state.cancelled /\ state.cancelled
    <3>1. state' = [state EXCEPT !.channel = channel] /\ state.cancelled
      BY <1>6, Zenon DEF Sampler!Collect
    <3> HIDE DEF channel
    <3> QED BY <1>6, <2>1, <3>1, Zenon DEF SamplerInv, SamplerState
  <2>4. Taken' = Taken
    <3>1. Append(output, Head(state.channel)) \o channel = output \o state.channel
      BY <2>1, ConcatMoves, 0 \in Nat, Zenon
    <3> QED BY <2>2, <2>3, <3>1, Zenon DEF Taken
  <2> QED BY <1>6, <2>2, <2>3, <2>4, Zenon DEF SamplerInv
<1>7. SamplerInv /\ [Sampler!Next]_(Sampler!vars) => SamplerInv'
  <2>1. SamplerInv /\ UNCHANGED Sampler!vars => SamplerInv'
    BY Zenon DEF Sampler!vars, SamplerInv, Taken
  <2> QED BY <1>2, <1>3, <1>4, <1>5, <1>6, <2>1, Zenon DEF Sampler!Next
<1>8. SamplerInv => Sampler!BeginningIsKept
  <2> SUFFICES ASSUME SamplerInv, state.thread = "stopped", state.channel = <<>>
               PROVE  output \in {First(input), Append(First(input), input)}
    BY Zenon DEF First, Kept, Sampler!BeginningIsKept
  <2>1. Taken = output
    BY DEF SamplerInv, Taken
  <2> QED BY <2>1, Zenon DEF SamplerInv
<1> QED BY <1>1, <1>7, <1>8, PTL DEF Sampler!Spec

-----------------------------------------------------------------------------
(* The registry of the master.                                             *)
Registry == INSTANCE WorkerRegistry

\* A worker's record, or None, which is a record with a status of its own.
RecordOrNone ==
    [status : Registry!Status \cup {"none"}, stream : {"none", "live", "dead"}, late : BOOLEAN]

\* The types, and what ChannelsAreLive says of one worker.
ChannelOf(w) ==
    /\ Registry!Connected(w) => record[w].stream # "dead"
    /\ ~sweeping /\ session[w] = "watching" /\ record[w] # Registry!None => record[w].stream = "live"

RegistryInv ==
    /\ record \in [Workers -> RecordOrNone]
    /\ session \in [Workers -> {"down", "registered", "watching", "gone"}]
    /\ \A w \in Workers : ChannelOf(w)

\* A step that gives w a record and a session keeps the invariant if w's channel is right.
LEMMA OneRecordChanges ==
    ASSUME RegistryInv, NEW w \in Workers, NEW r \in RecordOrNone,
           NEW s \in {"down", "registered", "watching", "gone"},
           record' = [record EXCEPT ![w] = r], session' = [session EXCEPT ![w] = s], sweeping' = sweeping,
           s \in {"registered", "watching"} => r.stream # "dead",
           ~sweeping /\ s = "watching" /\ r # Registry!None => r.stream = "live"
    PROVE  RegistryInv'
BY Zenon DEF RegistryInv, ChannelOf, Registry!Connected

\* What the assignments to a record's fields leave alone.
LEMMA RecordFields ==
    ASSUME NEW r \in RecordOrNone
    PROVE  /\ \A x \in Registry!Status : \A b \in BOOLEAN :
                  /\ [r EXCEPT !.status = x, !.late = b] \in RecordOrNone
                  /\ [r EXCEPT !.status = x, !.late = b].stream = r.stream
           /\ \A b \in BOOLEAN :
                  /\ [r EXCEPT !.late = b] \in RecordOrNone
                  /\ [r EXCEPT !.late = b].stream = r.stream
           /\ \A x \in {"none", "live", "dead"} :
                  /\ [r EXCEPT !.stream = x] \in RecordOrNone
                  /\ [r EXCEPT !.stream = x].stream = x
           /\ \A x \in Registry!Status :
                  [r EXCEPT !.status = x, !.stream = "none"] \in RecordOrNone
BY Zenon DEF RecordOrNone

\* Every step of the registry keeps the invariant.
LEMMA RegistryStep ==
    ASSUME RegistryInv, Registry!Next
    PROVE  RegistryInv'
<1>0. \A w \in Workers : record[w] \in RecordOrNone
  BY Zenon DEF RegistryInv
<1>1. ASSUME NEW w \in Workers, Registry!Register(w) PROVE RegistryInv'
  <2> DEFINE r == [status |-> "Registered", stream |-> "none", late |-> FALSE]
  <2>1. r \in RecordOrNone /\ r.stream = "none"
    BY Zenon DEF RecordOrNone, Registry!Status
  <2> HIDE DEF r
  <2>2. record' = [record EXCEPT ![w] = r] /\ session' = [session EXCEPT ![w] = "registered"]
        /\ sweeping' = sweeping
    BY <1>1, Zenon DEF Registry!Register, r
  <2> QED BY <2>1, <2>2, OneRecordChanges, Zenon
<1>2. ASSUME NEW w \in Workers, Registry!Heartbeat(w) PROVE RegistryInv'
  <2> DEFINE x == Registry!FromWire(IF busy[w] THEN "Running" ELSE "Ready")
             r == [record[w] EXCEPT !.status = x, !.late = FALSE]
  <2>1. x \in Registry!Status
    BY Zenon DEF Registry!FromWire, Registry!Status
  <2>2. record' = [record EXCEPT ![w] = r] /\ sweeping' = sweeping /\ session' = session /\ record[w] # Registry!None
    BY <1>2, Zenon DEF Registry!Heartbeat
  <2> HIDE DEF x
  <2>3. r \in RecordOrNone /\ r.stream = record[w].stream
    BY <1>0, <2>1, RecordFields, Zenon
  <2> HIDE DEF r
  <2>4. session[w] \in {"down", "registered", "watching", "gone"} /\ session' = [session EXCEPT ![w] = session[w]]
    BY <2>2, Zenon DEF RegistryInv
  <2>5. ChannelOf(w)
    BY Zenon DEF RegistryInv
  <2> QED BY <2>2, <2>3, <2>4, <2>5, OneRecordChanges, Zenon DEF ChannelOf, Registry!Connected
<1>3. ASSUME NEW w \in Workers, Registry!NotRegistered(w) PROVE RegistryInv'
  BY <1>3, Zenon DEF Registry!NotRegistered, RegistryInv, ChannelOf, Registry!Connected
<1>4. ASSUME NEW w \in Workers, Registry!Watch(w) PROVE RegistryInv'
  <2> DEFINE r == [record[w] EXCEPT !.stream = "live"]
  <2>1. record' = [record EXCEPT ![w] = r] /\ sweeping' = sweeping /\ session' = [session EXCEPT ![w] = "watching"]
    BY <1>4, Zenon DEF Registry!Watch
  <2>2. r \in RecordOrNone /\ r.stream = "live"
    BY <1>0, RecordFields, Zenon
  <2> HIDE DEF r
  <2> QED BY <2>1, <2>2, OneRecordChanges, Zenon
<1>5. ASSUME NEW w \in Workers, NEW then \in {"down", "gone"}, Registry!SessionLost(w, then) PROVE RegistryInv'
  <2> DEFINE x == IF record[w].stream = "live" THEN "dead" ELSE record[w].stream
             r == [record[w] EXCEPT !.stream = x]
  <2>1. record' = [record EXCEPT ![w] = r] /\ sweeping' = sweeping /\ session' = [session EXCEPT ![w] = then]
    BY <1>5, Zenon DEF Registry!SessionLost
  <2>2. x \in {"none", "live", "dead"}
    BY <1>0, Zenon DEF RecordOrNone
  <2> HIDE DEF x
  <2>3. r \in RecordOrNone
    BY <1>0, <2>2, RecordFields, Zenon
  <2> HIDE DEF r
  <2> QED BY <2>1, <2>3, OneRecordChanges, Zenon
<1>6. ASSUME NEW w \in Workers, Registry!Ages(w) PROVE RegistryInv'
  <2> DEFINE r == [record[w] EXCEPT !.late = TRUE]
  <2>1. record' = [record EXCEPT ![w] = r] /\ sweeping' = sweeping /\ session' = session /\ sweeping
    BY <1>6, Zenon DEF Registry!Ages
  <2>2. r \in RecordOrNone /\ r.stream = record[w].stream
    BY <1>0, RecordFields, Zenon
  <2> HIDE DEF r
  <2>3. session[w] \in {"down", "registered", "watching", "gone"} /\ session' = [session EXCEPT ![w] = session[w]]
    BY <2>1, Zenon DEF RegistryInv
  <2>4. ChannelOf(w)
    BY Zenon DEF RegistryInv
  <2> QED BY <2>1, <2>2, <2>3, <2>4, OneRecordChanges, Zenon DEF ChannelOf, Registry!Connected
<1>7. CASE Registry!MasterRestarts
  BY <1>7, Zenon
    DEF Registry!MasterRestarts, RegistryInv, ChannelOf, Registry!Connected, Registry!None, RecordOrNone
<1>8. CASE Registry!Sweep
  <2>1. \A w \in Workers : [record[w] EXCEPT !.status = "Disconnected", !.stream = "none"] \in RecordOrNone
    BY <1>0, RecordFields, Zenon DEF Registry!Status
  <2>2. \A w \in Workers : [record[w] EXCEPT !.status = "Disconnected", !.stream = "none"].stream = "none"
    BY <1>0, Zenon DEF RecordOrNone
  <2>3. record' \in [Workers -> RecordOrNone] /\ sweeping' /\ session' = session
        /\ \A w \in Workers : record'[w].stream \in {record[w].stream, "none"}
    BY <1>0, <1>8, <2>1, <2>2, Zenon DEF Registry!Sweep
  <2> QED BY <2>3, Zenon DEF RegistryInv, ChannelOf, Registry!Connected
<1>9. ASSUME UNCHANGED <<record, session, sweeping>> PROVE RegistryInv'
  BY <1>9, Zenon DEF RegistryInv, ChannelOf, Registry!Connected
<1> QED
  BY <1>1, <1>2, <1>3, <1>4, <1>5, <1>6, <1>7, <1>8, <1>9, Zenon
     DEF Registry!Next, Registry!Dispatch, Registry!RunEnds, Registry!BarrierReleases, Registry!NextRun

\* The registry of the master (registry.rs): START for a connected worker goes to the
\* session that watches for it, for any number of workers, lost sessions and restarts.
THEOREM LiveChannels == Registry!Spec => []Registry!ChannelsAreLive
<1>1. Registry!Init => RegistryInv
  BY DEF Registry!Init, RegistryInv, ChannelOf, Registry!Connected, Registry!None, RecordOrNone
<1>2. RegistryInv /\ [Registry!Next]_(Registry!vars) => RegistryInv'
  <2>1. RegistryInv /\ UNCHANGED Registry!vars => RegistryInv'
    BY DEF Registry!vars, RegistryInv, ChannelOf, Registry!Connected
  <2> QED BY <2>1, RegistryStep, Zenon
<1>3. RegistryInv => Registry!ChannelsAreLive
  BY Zenon
    DEF RegistryInv, ChannelOf, Registry!ChannelsAreLive, Registry!NoStaleChannel, Registry!WatcherHasChannel
<1> QED BY <1>1, <1>2, <1>3, PTL DEF Registry!Spec

-----------------------------------------------------------------------------
(* The telemetry pipeline.                                                 *)
Pipeline == INSTANCE TelemetryPipeline

\* The epochs that a snapshot on the live stream is of.
Published == {s.epoch : s \in Pipeline!Range(live)}

\* Every epoch kept was published, and so was the one published last.
PipelineInv ==
    /\ \E S : live \in Seq(S)
    /\ DOMAIN epochs \subseteq Published
    /\ \A e : last_published_epoch = <<e>> => e \in Published

\* The pipeline (distributed/master/pipeline.rs): an epoch of the window was announced on the live
\* stream, in whatever order batches come in.
THEOREM PublishedEpochs == Pipeline!Spec => []Pipeline!EveryEpochIsPublished
<1>1. Pipeline!Init => PipelineInv
  <2> SUFFICES ASSUME Pipeline!Init PROVE PipelineInv
    OBVIOUS
  <2>1. live \in Seq({})
    BY DEF Pipeline!Init
  <2> QED BY <2>1 DEF Pipeline!Init, PipelineInv, Published
<1>2. ASSUME PipelineInv, NEW b \in Pipeline!Batch, Pipeline!Ingest(b) PROVE PipelineInv'
  <2> DEFINE epoch == Pipeline!EpochOf(b.start)
  <2>1. DOMAIN epochs' = DOMAIN epochs \cup {epoch}
    BY <1>2, Zenon DEF Pipeline!Ingest, Pipeline!EntryMerged
  <2>2. CASE Pipeline!Publishes(epoch)
    <3>1. PICK s : live' = Append(live, s) /\ s.epoch = epoch /\ last_published_epoch' = <<epoch>>
      BY <1>2, <2>2, Zenon DEF Pipeline!Ingest
    <3>2. PICK S : live \in Seq(S)
      BY <1>2, Zenon DEF PipelineInv
    <3>3. live' \in Seq(S \cup {s})
      BY <3>1, <3>2
    <3>4. Pipeline!Range(live') = Pipeline!Range(live) \cup {s}
      BY <3>1, <3>2 DEF Pipeline!Range
    <3>5. Published' = Published \cup {epoch}
      BY <3>1, <3>4 DEF Published
    <3> QED BY <1>2, <2>1, <3>1, <3>3, <3>5, Zenon DEF PipelineInv
  <2>3. CASE ~Pipeline!Publishes(epoch)
    <3>1. UNCHANGED <<live, last_published_epoch>> /\ last_published_epoch = <<epoch>>
      BY <1>2, <2>3, Zenon DEF Pipeline!Ingest, Pipeline!Publishes
    <3> QED BY <1>2, <2>1, <3>1, Zenon DEF PipelineInv, Published
  <2> QED BY <2>2, <2>3, Zenon
<1>3. PipelineInv /\ [Pipeline!Next]_(Pipeline!vars) => PipelineInv'
  <2>1. PipelineInv /\ UNCHANGED Pipeline!vars => PipelineInv'
    BY Zenon DEF Pipeline!vars, PipelineInv, Published
  <2> QED BY <1>2, <2>1, Zenon DEF Pipeline!Next
<1>4. PipelineInv => Pipeline!EveryEpochIsPublished
  BY Zenon DEF PipelineInv, Pipeline!EveryEpochIsPublished, Published
<1> QED BY <1>1, <1>3, <1>4, PTL DEF Pipeline!Spec
=============================================================================
