SPECIFICATION Spec
CONSTANTS
    Runs = {r1, r2}
    NoRun = NoRun
    VirtualUsers = 2
    MaxSessions = 1
CHECK_DEADLOCK FALSE
INVARIANT
    RejectedStartsNothing
