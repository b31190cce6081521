SPECIFICATION MCSpec
CONSTANTS
    Callers <- MCCallers
    Attempts <- MCAttempts
    MaxAttempts <- MCMaxAttempts
    MaxConcurrent = 1
    MaxQueue = 2
    Threshold = 2
    ResetTimeout = 1
    FailureCap = 2
    Max = 2
    Amounts = {1, 2}
INVARIANTS TypeOK SlotsAccounted OutcomeTold
PROPERTIES ImplementsSemaphore ImplementsBucket AlwaysSettles
