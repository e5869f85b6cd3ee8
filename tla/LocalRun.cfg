\* Two workers at a time and a third spawned later, a channel they can fill.
SPECIFICATION FairSpec
CONSTANTS
    Concurrency = 2
    \* A profile may ask for no worker at all (a ramp from zero).
    Targets = {0, 1, 2}
    Buffer = 1
    MaxWorkers = 3
    MaxTicks = 3
    MaxIterations = 3
\* The test is over.
CHECK_DEADLOCK FALSE
INVARIANTS
    TargetIsHeld
    SummaryIsComplete
PROPERTY RunReturns
