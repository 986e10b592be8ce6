SPECIFICATION Spec
CONSTANTS
    refresh = refresh
    oneshot = oneshot
    w1 = w1
    w2 = w2
    NoJob = NoJob
    Jobs <- MCJobs
    Recurring <- MCRecurring
    Interval <- MCInterval
    Workers <- MCWorkers
    HandlerSets <- MCAllHandlers
    MaxAttempts = 2
    LeaseMs = 2
    RetryBase = 1
    RetryCap = 2
    Limit = 2
    MayOverrun = FALSE
    MaxClock = 5
    MaxCrashes = 2
INVARIANT ExhaustedReachesDeadLetter
