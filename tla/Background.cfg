\* Cycles that do not overlap; crashes; jobs that are retried and registered anew.
SPECIFICATION BackgroundSpec
CONSTANTS
    Ids = {m1, m2}
    Cycles = {c1}
    BatchSize = 2
    MaxAttempts = 3
    BackoffBase = 1
    AttemptCap = 4
    DeliveryCap = 2
    MaxCrashes = 1
    None = None
    Jobs = {j1}
    MaxConcurrency = 2
    MaxRetries = 1
    MaxExecs = 4
    MaxRegs = 2
INVARIANTS TypeOK SchedTypeOK SlotsMatchRuns StatsTellTruth
PROPERTIES NoRepublish BackoffRespected EventuallySettled EveryRunEnds
