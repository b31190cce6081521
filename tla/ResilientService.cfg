SPECIFICATION Spec
CONSTANTS
    Callers <- MCCallers
    Attempts <- MCAttempts
    MaxAttempts <- MCMaxAttempts
    MaxConcurrent = 1
    MaxQueue = 1
    Threshold = 2
    ResetTimeout = 1
    FailureCap = 2
    Max = 2
    Amounts = {1}
INVARIANT ServiceProtected
