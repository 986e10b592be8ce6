SPECIFICATION StreamSpec
CONSTANTS
    e1 = e1
    e2 = e2
    s1 = s1
    f1 = f1
    f2 = f2
    Calls = {"run", "write"}
    Commands = {"run"}
    Responses <- MCResponses
    LimitReply <- MCLimit
    MaxRounds = 2
    MaxContinuations = 1
    MaxRewrites = 1
    VoiceTags = {"calm", "glad"}
    Schedule <- MCSchedule
    MaxChars = 3
    MinSoft = 1
    Modes = {"plain", "fish", "doubao"}
    Editors <- MCEditors
    Shells <- MCShells
    MaxWrites = 4
    Skills = {"s1", "s2"}
    Archives <- MCArchives
    Requesters = {"turn", "learning"}
    Foreground = "turn"
    Models = {"m1", "m2"}
    MaxRoutes = 3
    JsonRetries = 1
    ResourceRetries = 1
    Identifiers <- MCIdentifiers
    CallCount = 2
    Files <- MCFiles
    MaxAttached = 1
    MaxTurns = 3
    Hurried = {"message"}
INVARIANTS StreamSceneTypeOK ToolsAreSound ClientIsTold WorkIsKept
PROPERTIES TurnEnds
