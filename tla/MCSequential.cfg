SPECIFICATION Spec
CONSTANTS
    MaxConcurrency = 5
    Frames <- MCFrames
    StompOctets = {"LF", "CR", "NUL", ":", "\\", "n"}
    MaxStompOctets = 4
    CompactAt = 3
    EventOctets = {"LF", "CR", "data:", "event:", "x", "hi", "lo"}
    MaxEventOctets = 5
    Metrics <- MCMetrics
    Readings <- MCReadings
    Thresholds <- MCThresholds
    Duration = 2
    MaxMetrics = 2
    MaxDropped = 1
    Levels = {0, 1, 3, 5, 6}
    Spans = {0, 1, 2, 5}
    Schedules <- MCSchedules
    MaxExponent = 3
    MaxAttempt = 5
    JitterSteps = 3
    Capacity = 2
    MaxSamples = 4
    MaxAssignments = 4
INVARIANTS
    FramesSurviveTheWire
    ChunkingIsInvisible
    FiguresAgree
    VerdictIsEarned
    
    BeginningIsKept
    
PROPERTIES
    ProfileIsFollowed
    DelaysAreBounded
CHECK_DEADLOCK FALSE
