\* Two virtual users, a metric channel they can fill, a batch channel the
\* collector can fill.
SPECIFICATION FairSpec
CONSTANTS
    VUs = {v1, v2}
    MetricCapacity = 2
    BatchCapacity = 1
    MaxMetrics = 4
\* A run may stop for good: it is done, or its virtual users are stuck.
CHECK_DEADLOCK FALSE
INVARIANTS
    RecordedIsDelivered
PROPERTIES
    ImplementsRunTask
    HealthyRunEnds
    RoomyCancelEnds
