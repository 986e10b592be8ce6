SPECIFICATION Spec
CONSTANTS
    refresh = refresh
    oneshot = oneshot
    w1 = w1
    w2 = w2
    NoJob = NoJob
    Jobs <- MCJobs
    Recurring <- MCRecurring
    Interval <- MCInterval
    Workers <- MCWorkers
    HandlerSets <- MCAllHandlers
    MaxAttempts = 2
    LeaseMs = 2
    RetryBase = 1
    RetryCap = 2
    Limit = 2
    MayOverrun = FALSE
    MaxClock = 3
    MaxCrashes = 1
SYMMETRY MCSymmetry
INVARIANTS
    TypeOK
    LeasesAreKept
PROPERTIES
    ImplementsQueue
