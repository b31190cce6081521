SPECIFICATION FairSpec
CONSTANTS
    Ids = {m1, m2}
    Cycles = {c1}
    BatchSize = 1
    MaxAttempts = 2
    BackoffBase = 1
    AttemptCap = 2
    DeliveryCap = 1
    MaxCrashes = 0
    None = None
PROPERTY EveryMessageAttempted
