SPECIFICATION MCSpec
CONSTANTS
    Span <- MCSpan
    KindSets <- MCKindSets
    BucketSize = 3
    MaxTime = 14
    Skew = 1
    ClockBack = TRUE
    MaxSpans = 3
    s1 = s1
    MaxSends = 4
    MaxInfos = 3
    Config = {c1, c2}
    Dep = {d1}
    Log = {l1}
    MaxItems = 1
    Lifecycle = {"Start", "Stop", "FlushMetricAggr", "FlushData", "ExtendedHeartbeat"}
    EarlyHeartbeat = TRUE
    Restartable = TRUE
    Threaded = TRUE
    MaxMsgs = 4
    Capacity = 2
    StoreItem = {d1, d2, d3, d4}
    StoreMaxItems = 2
    StoreMaxInserts = 6
CHECK_DEADLOCK FALSE
INVARIANTS RetiredClosed HitsConserved StatsKept WorkerForgets LogsReportedOnce FlushQueueIsSuffix
