\* A task of a current page is refused as if an older page were open.
CONSTANTS
    t1 = t1  t2 = t2  t3 = t3
    j1 = j1  j2 = j2  j3 = j3
    g1 = g1
    Tab = {t1, t2}
    Job = {j1, j2}
    Group = {g1}
    None = None
    GroupOf <- OneGroup
    Interval <- NoInterval
    RateTTL = 1
    Legacy = {0}
    MaxTime = 1
    MaxWork = 1
    RetryAfter = {}
    Faults = {}
SPECIFICATION Spec
CHECK_DEADLOCK FALSE
INVARIANTS OverlapIsOld
