SPECIFICATION FairSpec
CONSTANTS
    refresh = refresh
    oneshot = oneshot
    w1 = w1
    w2 = w2
    NoJob = NoJob
    Jobs <- MCJobs
    Recurring <- MCRecurring
    Interval <- MCInterval
    Workers <- MCOneWorker
    HandlerSets <- MCOldAndNew
    MaxAttempts = 2
    LeaseMs = 2
    RetryBase = 1
    RetryCap = 2
    Limit = 1
    MayOverrun = FALSE
    MaxClock = 4
    MaxCrashes = 2
PROPERTIES
    OutcomesAreFinal
    JobsAreTakenUp
