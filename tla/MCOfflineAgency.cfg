SPECIFICATION AgencyFairSpec
CONSTANTS
    MaxTraces = 2
    MaxCycles = 2
    Every = 2
    HasSource = TRUE
    Reviews = 2
    Budget = 2
    Separate = TRUE
    MaxKills = 1
INVARIANTS
    AgencyTypeOK
    CompletedHasEvidence
    BooksAreKept
PROPERTY
    TraceIsStudied
