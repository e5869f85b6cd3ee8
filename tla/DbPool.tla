------------------------------- MODULE DbPool -------------------------------
(***************************************************************************)
(* DbEngine (protocols/db.rs): the workers share a connection pool that    *)
(* the first of them creates.  session has the state of the OnceCell and   *)
(* the pool's size; the pool itself is sqlx's, of which the engine uses    *)
(* that acquire waits while PoolMax connections are out and that dropping  *)
(* a connection returns it.                                                *)
(***************************************************************************)
EXTENDS SharedWorkers

CONSTANTS
    PoolMax,   \* pool_max, after DbEngine::new
    MaxRows,   \* max_rows, 0 for no cap
    Fetch      \* whether the query's rows are fetched

Nobody == "nobody"

\* truth: the iterations that asked for the pool, the failures among them, and
\* those that the deadline dropped.
Init ==
    /\ AllIdle
    /\ report = NoReport /\ past = NoPast
    /\ session = [cell |-> "empty", init |-> Nobody, size |-> 0]
    /\ peer = [up |-> TRUE]
    /\ truth = [asked |-> 0, failed |-> 0, dropped |-> 0]

Holders == {w \in Workers : pc[w] = "query"}

\* error_metric, and the metric of a query that failed.
Failed(w, acquire, query) ==
    [Builder(0, it[w].fault) EXCEPT
        !.sample = [DbSample EXCEPT !.errors = 1, !.acquire = acquire, !.query = query, !.pool = session.size]]

Fail(w, acquire, query) ==
    /\ EndOf(w, Failed(w, acquire, query))
    /\ truth' = [truth EXCEPT !.failed = @ + 1]

-----------------------------------------------------------------------------
Begin(w, f) == BeginAs(w, f, "pool")

Asked == [truth EXCEPT !.asked = @ + 1]

\* get_or_try_init: the pool is there.
PoolIsThere(w) ==
    /\ pc[w] = "pool" /\ session.cell = "full"
    /\ GoTo(w, "acquire")
    /\ truth' = Asked
    /\ UNCHANGED <<it, session, peer, report, past>>

\* One caller at a time holds the cell's permit and connects.
InitPool(w) ==
    /\ pc[w] = "pool" /\ session.cell = "empty" /\ session.init = Nobody
    /\ session' = [session EXCEPT !.init = w]
    /\ GoTo(w, "init")
    /\ truth' = Asked
    /\ UNCHANGED <<it, peer, report, past>>

PoolConnects(w) ==
    /\ pc[w] = "init" /\ peer.up
    /\ session' = [cell |-> "full", init |-> Nobody, size |-> 1]
    /\ GoTo(w, "acquire")
    /\ UNCHANGED <<it, peer, report, past, truth>>

\* The cell stays empty, so the next caller connects.
PoolConnectFails(w) ==
    /\ pc[w] = "init" /\ ~peer.up
    /\ session' = [session EXCEPT !.init = Nobody]
    /\ Fail(w, <<>>, <<>>)
    /\ UNCHANGED <<peer, past>>

\* An idle connection, or a new one while there are fewer than PoolMax.
Acquire(w) ==
    /\ pc[w] = "acquire" /\ peer.up
    /\ Cardinality(Holders) < PoolMax
    /\ session' = [session EXCEPT !.size = Larger(@, Cardinality(Holders) + 1)]
    /\ GoTo(w, "query")
    /\ UNCHANGED <<it, peer, report, past, truth>>

\* acquire_timeout
AcquireFails(w) ==
    /\ pc[w] = "acquire"
    /\ ~peer.up \/ Cardinality(Holders) = PoolMax
    /\ Fail(w, <<>>, <<>>)
    /\ UNCHANGED <<session, peer, past>>

\* run_query streams rows up to the cap, or reports the rows affected.
Rows(available) == IF Fetch /\ MaxRows # 0 THEN Smaller(available, MaxRows) ELSE available

QuerySucceeds(w, available) ==
    /\ pc[w] = "query" /\ peer.up
    /\ EndOf(w, [Builder(0, it[w].fault) EXCEPT
                   !.status = 200,
                   !.sample = [DbSample EXCEPT !.rows = Rows(available), !.acquire = <<0>>, !.query = <<0>>,
                                               !.pool = session.size]])
    /\ UNCHANGED <<session, peer, past, truth>>

\* Faulty variant: a failing query is reported as a transport error without a sample.
QueryFailsUnsampled(w) ==
    /\ pc[w] = "query"
    /\ EndOf(w, Builder(0, it[w].fault))
    /\ truth' = [truth EXCEPT !.failed = @ + 1]
    /\ UNCHANGED <<session, peer, past>>

\* effective_query corrupts the statement, an unmatched bind the parameters.
QueryFails(w) ==
    /\ pc[w] = "query"
    /\ Fail(w, <<0>>, <<0>>)
    /\ UNCHANGED <<session, peer, past>>

\* Faulty variant: a caller dropped while it connects keeps the cell's permit.
DeadlineKeepingPermit(w) ==
    /\ CutShortOf(w)
    /\ truth' = [truth EXCEPT !.dropped = @ + IF pc[w] = "pool" THEN 0 ELSE 1]
    /\ UNCHANGED <<session, peer>>

\* The permit and the connection are dropped with the iteration.
Deadline(w) ==
    /\ CutShortOf(w)
    /\ session' = [session EXCEPT !.init = IF @ = w THEN Nobody ELSE @]
    /\ truth' = [truth EXCEPT !.dropped = @ + IF pc[w] = "pool" THEN 0 ELSE 1]
    /\ UNCHANGED peer

\* The database goes away and comes back.
Outage ==
    /\ peer.up /\ past.losses < MaxLosses
    /\ peer' = [up |-> FALSE]
    /\ past' = [past EXCEPT !.losses = @ + 1]
    /\ UNCHANGED <<pc, it, session, report, truth>>

Recovery ==
    /\ ~peer.up
    /\ peer' = [up |-> TRUE]
    /\ UNCHANGED <<pc, it, session, report, past, truth>>

Next ==
    \/ \E w \in Workers :
         \/ \E f \in SelectFault : Begin(w, f)
         \/ PoolIsThere(w) \/ InitPool(w) \/ PoolConnects(w) \/ PoolConnectFails(w)
         \/ Acquire(w) \/ AcquireFails(w) \/ QueryFails(w) \/ Deadline(w)
         \/ \E available \in 0..2 : QuerySucceeds(w, available)
    \/ Outage \/ Recovery

Spec == Init /\ [][Next]_loopVars

-----------------------------------------------------------------------------
\* The permit of the cell is held only by a worker that connects: one that was
\* dropped or failed leaves it to the next, so an outage at startup disables nobody.
PermitIsHeldToConnect == \A w \in Workers : session.init = w <=> pc[w] = "init"

\* queries_total counts the iterations that asked for the pool and were not
\* dropped, errors_total the failures among them; no sample exceeds the cap on
\* rows or shows more connections than the pool may have.
CountsAreTrue ==
    LET db == report.protocol.db IN
    /\ db.queries + truth.dropped + Cardinality({w \in Workers : pc[w] \in {"init", "acquire", "query"}}) = truth.asked
    /\ db.errors = truth.failed
    /\ db.pool <= PoolMax
    /\ Fetch /\ MaxRows # 0 => db.rows <= MaxRows * (db.queries - db.errors)
=============================================================================
