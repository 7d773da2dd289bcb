SPECIFICATION FairSpec
CONSTANTS
    k1 = k1
    k2 = k2
    Key = {k1, k2}
    NoState = NoState
    QueueSize = 2
    MaxRetries = 2
    Policies = {TRUE, FALSE}
    MaxOffers = 3
INVARIANTS
    FinalLookupsTracked
PROPERTIES
    OnlyOwnRetryApplied
    EndedIsFinalized
    CloseReturns
CHECK_DEADLOCK FALSE
