\* Two workers, both needed for a run.
SPECIFICATION FairSpec
CONSTANTS
    Workers = {w1, w2}
    Expected = 2
    MaxFailures = 2
\* With every worker gone nothing is left to happen.
CHECK_DEADLOCK FALSE
INVARIANTS
    ChannelsAreLive
PROPERTIES
    BarrierIsSatisfied
    
