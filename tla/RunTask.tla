------------------------------ MODULE RunTask ------------------------------
(***************************************************************************)
(* What the JoinHandle of a run promises to whoever awaits it (stop_run in *)
(* distributed/worker.rs): until the task is done it may execute requests  *)
(* and report them, never more than were executed; when it is done it does *)
(* neither, for ever.                                                      *)
(***************************************************************************)
EXTENDS Naturals

VARIABLES
    produced,   \* requests executed by the run
    reported,   \* requests counted in batches handed to the master
    stage       \* "collecting", "closing" (stream half-closed) or "done"

vars == <<produced, reported, stage>>

Init == produced = 0 /\ reported = 0 /\ stage = "collecting"

Produce ==
    /\ stage # "done"
    /\ produced' = produced + 1
    /\ UNCHANGED <<reported, stage>>

Report ==
    /\ stage # "done"
    /\ reported' > reported /\ reported' <= produced
    /\ UNCHANGED <<produced, stage>>

Close ==
    /\ stage = "collecting"
    /\ stage' = "closing"
    /\ UNCHANGED <<produced, reported>>

Finish ==
    /\ stage = "closing"
    /\ stage' = "done"
    /\ UNCHANGED <<produced, reported>>

Next == Produce \/ Report \/ Close \/ Finish

Spec == Init /\ [][Next]_vars
=============================================================================
