\* Virtual users blocked on a metric channel nobody reads any more.
SPECIFICATION FairSpec
CONSTANTS
    VUs = {v1}
    MetricCapacity = 1
    BatchCapacity = 1
    MaxMetrics = 3
CHECK_DEADLOCK FALSE
PROPERTY VusStopWhenTold
