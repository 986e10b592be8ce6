SPECIFICATION MindSpec
CONSTANTS
    c1 = c1
    c2 = c2
    deferring = deferring
    awaiting = awaiting
    p1 = p1
    p2 = p2
    Contents <- MCContents
    NoContent = NoContent
    Writers <- MCTasks
    Reviewers <- MCTasks
    MaxMemories = 2
    Claims = {"claim"}
    ConfidenceCap = 1
    ActiveConfidence = 2
    FullConfidence = 3
    MaxBeliefs = 2
    Processes <- MCProcesses
    Deferred <- MCDeferred
    ReviewInterval = 1
    BootstrapTurns = 2
    Settings <- MCSettings
    MaxTurns = 3
    MaxCrashes = 1
    TraceProcesses <- MCTraceProcesses
    Clusters = {1, 2}
    Capacity = 1
    Hysteresis = 2
    MaxTurnTraces = 3
    MaxTraces = 4
    MaxTraceFaults = 1
    WaitTimes <- MCWaitTimes
    HeartbeatAttempts = 3
    InnerSeparate = FALSE
    MaxUsers = 2
    MaxAgents = 3
    MaxVersion = 7
    InnerCrashes = 1
    Full = 10000
    NormalCap = 300
    MajorCap = 1000
    Evidence <- MCEvidence
    Named = {"m"}
    Origins = {0, 10000}
    MaxMoves = 1
    Watchers = {"gateway", "terminal"}
    Sources <- MCSources
    Keys <- MCKeys
    NoSignal = "silence"
    Material = {"new"}
    MaxTurnsOfWorld = 2
    Resters = {"gateway", "terminal"}
    Host = "gateway"
    EmotionTypes <- MCEmotions
    Radius = 2
    MaxUserTurns = 1
    MaxSteps = 3
    Starters = {"gateway", "terminal"}
    Files <- MCFiles
    Legacy <- MCLegacy
    Scripts <- MCScripts
SYMMETRY MCSymmetry
INVARIANTS
    MindTypeOK
    MemoryIsSound
    TwinsAreOfTwo
    TablesAreSound
PROPERTIES
    SelfIsEarned
    ShadowIsCurrent
    PresenceIsInformed
CHECK_DEADLOCK FALSE
