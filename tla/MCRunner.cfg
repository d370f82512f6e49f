\* Blocks, saves, splits, pauses, stops and crashes; every run ends.
CONSTANTS
    Status = {400, 429, 502}
    Waits = {0, 4000}
    Cues = 3
    Blockings <- ThreeCues
    MaxRetries = 1
    MaxBusy = 1
    MaxRuns = 2
    Faults = TRUE
SPECIFICATION FairSpec
CHECK_DEADLOCK FALSE
INVARIANTS WholeBlocks BlockKept CountedFirst RetryBudget RetryAfterHeard
PROPERTIES FallbackOnlyBlocked NothingAfterStop FinishedStand RunEnds
