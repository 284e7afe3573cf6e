SPECIFICATION Spec
CONSTANTS
    Callers = {a, b}
    FailureThreshold = 2
    SuccessThreshold = 1
    MaxRetries = 1
    MaxAttempts = 2
    MaxFaults = 4
    NoCaller = none
CHECK_DEADLOCK FALSE
INVARIANT ReturnsItsTransaction
