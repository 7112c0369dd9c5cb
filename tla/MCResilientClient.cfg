\* Two callers share the breaker; with three calls each they open, probe and close it.
SPECIFICATION Spec
CONSTANTS
    Caller = {k1, k2}
    MaxAttempts = 2
    Threshold = 2
    MaxCalls = 3
INVARIANTS
    TypeOK
    AtMostOnce
    KnownFailureDidNothing
    BreakerSettled
CHECK_DEADLOCK FALSE
