SPECIFICATION MCSpec
CONSTANTS
    Fetcher = {f1, f2}
    p1 = p1
    Path = {p1, p2}
    Hash = {"x", "y"}
    Copy = {1, 2}
    Faults = FALSE
    Abandons = FALSE
    MaxRunId = 7
    Workers = 2
CHECK_DEADLOCK FALSE
INVARIANTS AdvertisedStored FilesSound
PROPERTIES PromiseKept
