SPECIFICATION MCSpec
CONSTANTS
    Attempts = {a1, a2, a3}
    Threshold = 2
    ResetTimeout = 1
    FailureCap = 2
    SuccessThreshold = 2
PROPERTY ClosesAfterTrials
