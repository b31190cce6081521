SPECIFICATION SchedSpec
CONSTANTS
    Jobs = {j1}
    MaxConcurrency = 1
    MaxRetries = 0
    MaxExecs = 2
    MaxRegs = 2
INVARIANT ConcurrencyRespected
