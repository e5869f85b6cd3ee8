------------------------------ MODULE Accounts ------------------------------
(***************************************************************************)
(* The account that a worker loop owes of its iterations, and what a step  *)
(* of an engine does to it.  The proofs about the engines show that each of*)
(* their steps is one of these.                                            *)
(***************************************************************************)
EXTENDS WorkerLoop

\* The account of a worker, with the types it needs.
Accounted ==
    /\ DOMAIN past = DOMAIN NoPast
    /\ past.iterations \in Nat /\ past.selected \in Nat /\ past.cut \in Nat /\ past.dropped \in Nat
    /\ report.metrics \in Nat /\ report.injected \in Nat
    /\ "fault" \in DOMAIN it /\ Len(it.fault) \in Nat /\ (pc \in {"idle", "left"} => it.fault = <<>>)
    /\ FaultsAreReported /\ IterationsAreReported

\* The part of the past that the account is about stays as it is.
SamePast ==
    /\ DOMAIN past' = DOMAIN past /\ past'.iterations = past.iterations /\ past'.selected = past.selected
    /\ past'.cut = past.cut /\ past'.dropped = past.dropped

\* What the ways to take a step do to the account.  An iteration goes on, or the peer acts:
Goes ==
    /\ report' = report
    /\ "fault" \in DOMAIN it' /\ it'.fault = it.fault
    /\ pc' \in {"idle", "left"} <=> pc \in {"idle", "left"}
    /\ SamePast

\* an iteration begins with the fault f,
Begins(f) ==
    /\ pc = "idle" /\ pc' \notin {"idle", "left"} /\ "fault" \in DOMAIN it' /\ it'.fault = f
    /\ past' = Begun(f) /\ report' = report

\* a metric with the fault f goes to the report,
Reports(f) ==
    /\ pc' = "idle" /\ it' = NoIteration
    /\ report'.metrics = report.metrics + 1 /\ report'.injected = report.injected + Len(f)

\* at the end of an iteration, at once, or instead of what the deadline drops;
Finishes == pc \notin {"idle", "left"} /\ Reports(it.fault) /\ SamePast

EndsAtOnce(f) == pc = "idle" /\ Reports(f) /\ past' = Begun(f)

IsCut == pc \notin {"idle", "left"} /\ Reports(<<>>) /\ past' = [past EXCEPT !.cut = @ + Len(it.fault)]

\* an iteration under way asks for a fault, and is over if that is a dropped connection;
Selects(f) ==
    /\ pc \notin {"idle", "left"} /\ it.fault = <<>>
    /\ DOMAIN past' = DOMAIN past /\ past'.iterations = past.iterations /\ past'.selected = past.selected + Len(f)
    /\ past'.cut = past.cut /\ past'.dropped = past.dropped
    /\ \/ Reports(f)
       \/ pc' \notin {"idle", "left"} /\ "fault" \in DOMAIN it' /\ it'.fault = f /\ report' = report

\* the worker leaves.
Leaves ==
    /\ pc # "left" /\ pc' = "left" /\ it' = NoIteration /\ report' = report
    /\ past' = [past EXCEPT !.cut = @ + Len(it.fault), !.dropped = @ + IF pc = "idle" THEN 0 ELSE 1]

\* What the steps of an engine may do to the account.
AccountStep ==
    \/ Goes
    \/ \E f \in SelectFault : Begins(f) \/ EndsAtOnce(f) \/ Selects(f)
    \/ Finishes
    \/ IsCut
    \/ Leaves
=============================================================================
