\* Two overlapping invocations; two attempts inside one retry of the breaker.
SPECIFICATION FairSpec
CONSTANTS
    Callers = {a, b}
    FailureThreshold = 1
    SuccessThreshold = 1
    MaxRetries = 1
    MaxAttempts = 2
    MaxFaults = 4
    NoCaller = none
CHECK_DEADLOCK FALSE
INVARIANTS
    TypeOK
    OneSubmissionPerLostReply
    SubmissionBudget
    FreshStatusCheck
PROPERTY
    EveryInvocationSettles
