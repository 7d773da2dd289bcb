SPECIFICATION FairSpec
CONSTANTS
    p1 = p1
    p2 = p2
    p3 = p3
    off = off
    empty = empty
    NoJob = NoJob
    Payload <- MCPayload
    Size <- MCSize
    Enabled <- MCEnabled
    QueueSize = 1
    MaxQueueBytes = 2
    MaxAttempts = 2
INVARIANTS
    SnapshotConsistent
    ByteBudget
    QuietAfterShutdown
PROPERTIES
    ImplementsDelivery
    EveryPayloadSettled
    ShutdownReturns
CHECK_DEADLOCK FALSE
