--------------------------- MODULE SharedWorkers ----------------------------
(***************************************************************************)
(* Several workers that share one engine without a session of their own:   *)
(* the loop of WorkerLoop for each of them.  pc and it are functions on    *)
(* Workers, session is the state the engine shares.                        *)
(***************************************************************************)
EXTENDS WorkerLoop, FiniteSets

CONSTANT Workers

AllIdle == pc = [w \in Workers |-> "idle"] /\ it = [w \in Workers |-> NoIteration]

MayBeginAs(w) == pc[w] = "idle" /\ past.iterations < MaxIterations

GoTo(w, at) == pc' = [pc EXCEPT ![w] = at]

EndOf(w, m) ==
    /\ GoTo(w, "idle")
    /\ it' = [it EXCEPT ![w] = NoIteration]
    /\ report' = Add(m)

\* Chaos first: a dropped connection ends the iteration before it begins.
BeginAs(w, f, at) ==
    /\ MayBeginAs(w)
    /\ past' = Begun(f)
    /\ IF Is(f, "ConnectionDrop")
       THEN EndOf(w, Builder(0, f))
       ELSE /\ it' = [it EXCEPT ![w] = [fault |-> f]]
            /\ GoTo(w, at)
            /\ UNCHANGED report
    /\ UNCHANGED <<session, peer, truth>>

\* The deadline drops the iteration of w.
CutShortOf(w) ==
    /\ pc[w] # "idle"
    /\ EndOf(w, Builder(0, <<>>))
    /\ past' = [past EXCEPT !.cut = @ + Len(it[w].fault)]

\* FaultsAreReported for all the workers.
SharedFaultsAreReported ==
    report.injected + past.cut + Cardinality({w \in Workers : it[w].fault # <<>>}) = past.selected
=============================================================================
