\* Two runs and two sessions: a run left over from one session and a new one.
SPECIFICATION FairSpec
CONSTANTS
    Runs = {r1, r2}
    NoRun = NoRun
    VirtualUsers = 2
    MaxSessions = 2
\* The daemon exits, or its last session is over.
CHECK_DEADLOCK FALSE
INVARIANTS
    OneReachableRun
    
    AcceptedRunShows

    
    
