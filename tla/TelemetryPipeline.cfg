SPECIFICATION Spec
CONSTANTS
    Workers = {w1, w2}
    \* Two batches share an epoch, the others start on and inside later ones.
    Times = {0, 1, 2, 5}
    EpochMs = 2
    WindowEpochs = 2
    BucketCount = 2
    WorkerBuckets = 2
    MaxBatches = 3
CHECK_DEADLOCK FALSE
INVARIANTS
    TalliesAgree
    SnapshotCoversWindow
    EveryEpochIsPublished
