SPECIFICATION InnerSpec
CONSTANTS
    WaitTimes <- MCWaitTimes
    HeartbeatAttempts = 3
    InnerSeparate = FALSE
    MaxUsers = 2
    MaxAgents = 3
    MaxVersion = 8
    InnerCrashes = 1
INVARIANT HeartbeatGoesOn
CHECK_DEADLOCK FALSE
