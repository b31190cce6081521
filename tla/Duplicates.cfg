\* Two cycles on one message, with a crash; four requests with one key, none of
\* which outlasts its lock.
SPECIFICATION DuplicatesSpec
CONSTANTS
    Ids = {m1}
    Cycles = {c1, c2}
    BatchSize = 1
    MaxAttempts = 2
    BackoffBase = 1
    AttemptCap = 3
    DeliveryCap = 6
    MaxCrashes = 1
    None = None
    Requests = {r1, r2, r3, r4}
    Ttl = 2
    MaxRun = 2
SYMMETRY Symmetry
INVARIANTS PublishedWasDelivered DeliveriesBounded IdemTypeOK LockHasOwner OneAtATime
PROPERTY NoReexecution
