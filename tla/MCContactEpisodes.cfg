SPECIFICATION FairSpec
CONSTANTS
    e1 = e1
    NoEpisode = NoEpisode
    Episodes <- MCOneEpisode
    MaxMessages = 3
    WaitTime = 2
    Cooldown = 1
    DailyLimit = 2
    HourDelay = 1
    QuietHours = TRUE
    Separate = FALSE
    HookMayFail = TRUE
    ChannelMayFail = TRUE
    MaxFaults = 2
INVARIANTS
    TypeOK
    EpisodeIsOrderly
PROPERTIES
    EpisodeEnds
    EndIsFinal
