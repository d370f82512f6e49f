\* Locks, queue, pauses, clears, crashes and refused writes.  A cooldown that an
\* old workspace left makes the first workers sleep for a tick, and the clock may
\* stop before it is over.
CONSTANTS
    t1 = t1  t2 = t2  t3 = t3
    j1 = j1  j2 = j2  j3 = j3
    g1 = g1
    Tab = {t1, t2}
    Job = {j1, j2}
    Group = {g1}
    None = None
    GroupOf <- OneGroup
    Interval <- NoInterval
    RateTTL = 1
    Legacy = {2}
    MaxTime = 2
    MaxWork = 1
    RetryAfter = {}
    Faults = {j1}
SPECIFICATION FairSpec
CHECK_DEADLOCK FALSE
INVARIANTS OneRequest RegistryTruth PhaseTruth
PROPERTIES PauseKept ImplementsQueue PauseTakesEffect QueueMoves
