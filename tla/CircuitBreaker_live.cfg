\* Three overlapping calls against the thresholds the Soroban client configures.
SPECIFICATION BreakerFairSpec
CONSTANTS
    Callers = {c1, c2, c3}
    FailureThreshold = 5
    SuccessThreshold = 2
    MaxRetries = 1
INVARIANTS
    BreakerTypeOK
    CountersBelowThreshold
PROPERTIES
    TripsOnlyAfterThreshold
    ClosesOnlyAfterProbation
    EveryCallAnswered
    Recovers
