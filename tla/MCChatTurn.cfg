SPECIFICATION Spec
CONSTANTS
    gateway = gateway
    tui = tui
    t1 = t1
    t2 = t2
    t3 = t3
    Processes <- MCProcesses
    Turns <- MCTurns
    Home <- MCHome
    Clock = Clock
    NoTurn = NoTurn
    MaxTicks = 1
    MaxStops = 1
CHECK_DEADLOCK FALSE
INVARIANTS
    TypeOK
    StateIsChained
    StaleOnlyByOthers
    DoneIsWhole
PROPERTIES
    HistoryIsTraced
