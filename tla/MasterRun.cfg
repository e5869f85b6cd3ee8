\* Two callers of start_run and an operator that aborts once.
SPECIFICATION FairSpec
CONSTANTS
    Calls = {c1, c2}
    Workers = {w1}
    NoRun = NoRun
    MaxBatches = 2
    MaxAborts = 1
\* Both calls return.
CHECK_DEADLOCK FALSE
INVARIANTS
    SlotIsOwned
    TakenRunIsReported
    ReportIsOwn
    ReportHoldsItsBatches
PROPERTY StartRunReturns
