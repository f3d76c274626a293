SPECIFICATION Spec
CONSTANTS
    Runtime = {r1, r2}
    Target = {t1}
    Caller = {c1, c2}
    Insertion = {n1}
    Workers = 2
    Permits = 2
    TestToken = FALSE
    MaxGuards = 2
    MaxStarts = 2
INVARIANTS NoLockCycle
CHECK_DEADLOCK FALSE
