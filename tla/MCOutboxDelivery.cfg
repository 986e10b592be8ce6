SPECIFICATION FairSpec
CONSTANTS
    m1 = m1
    m2 = m2
    p1 = p1
    p2 = p2
    NoMessage = NoMessage
    Messages <- MCMessages
    Runtimes <- MCRuntimes
    MaxAttempts = 2
    LeaseMs = 2
    RetryBase = 1
    RetryCap = 2
    Lifetime = 2
    Limit = 1
    Settings <- MCSettings
INVARIANTS
    OutboxTypeOK
    DeliveryIsOrderly
PROPERTIES
    ImplementsDelivery
    MessageIsSettled
    OrphanExpires
