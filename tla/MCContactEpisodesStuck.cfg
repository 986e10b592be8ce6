SPECIFICATION FairSpec
CONSTANTS
    e1 = e1
    NoEpisode = NoEpisode
    Episodes <- MCOneEpisode
    MaxMessages = 3
    WaitTime = 2
    Cooldown = 1
    DailyLimit = 2
    HourDelay = 1
    QuietHours = FALSE
    Separate = FALSE
    HookMayFail = FALSE
    ChannelMayFail = FALSE
    MaxFaults = 1
PROPERTY ContactTerminates
