SPECIFICATION Spec
CONSTANTS
    Workers = {"w1", "w2"}
    Chaos = {"CorruptedPayload", "ConnectionDrop"}
    MaxIterations = 3
    MaxShared = 4
    MaxLosses = 2
    MaxFrames = 1
    MaxChunks = 3
    MaxMessages <- SomeTwo
    WarnFrames = 2
    MaxEvents <- SomeTwo
    ZeroRtt = TRUE
    MigrateEvery = 2
    MaxParse = 1
    MaxBody = 2
    MaxStreams = 1
    FrameLength = 2
    PoolMax = 1
    MaxRows = 1
    Fetch = TRUE
INVARIANT EventsAreCountedOnce
CHECK_DEADLOCK FALSE
