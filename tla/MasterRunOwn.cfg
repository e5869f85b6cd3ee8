SPECIFICATION Spec
CONSTANTS
    Calls = {c1, c2}
    Workers = {w1}
    NoRun = NoRun
    MaxBatches = 1
    MaxAborts = 1
CHECK_DEADLOCK FALSE
INVARIANT
    CallerGetsOwnReport
