\* Slots, Retry-After and forgotten rate records as time passes.
CONSTANTS
    t1 = t1  t2 = t2  t3 = t3
    j1 = j1  j2 = j2  j3 = j3
    g1 = g1
    Tab = {t1}
    Job = {j1, j2}
    Group = {g1}
    None = None
    GroupOf <- OneGroup
    Interval <- TwoRates
    RateTTL = 2
    Legacy = {0, 2}
    MaxTime = 5
    MaxWork = 1
    RetryAfter = {3}
    Faults = {j1, j2}
SPECIFICATION Spec
CHECK_DEADLOCK FALSE
PROPERTIES SlotsSpaced
