SPECIFICATION MCSpec
CONSTANTS
    c1 = c1
    c2 = c2
    t1 = t1
    Runtime = {r1, r2}
    Target = {t1, t2}
    Caller = {c1}
    Insertion = {n1}
    Workers = 1
    Permits = 2
    TestToken = FALSE
    MaxGuards = 2
    MaxStarts = 3
CHECK_DEADLOCK FALSE
INVARIANTS SafeAlone TargetsSound ExclusiveFetcher PublishedFetched
