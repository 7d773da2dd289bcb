SPECIFICATION DecoderSpec
CONSTANTS
    Names <- NameKinds
    VendorIn <- VendorPrefixes
    EndsIn <- TextSuffixes
    Services <- VendorOfService
    ResourceAttrs <- OfResource
    ScopeAttrs <- OfScope
    LogRecords <- Logged
    DataPoints <- Points
    MaxPayload = 2
    Budget = 3
    MaxRecords = 2
    MaxGroups = 3
INVARIANTS
    NothingFolded
\* A request has an end.
CHECK_DEADLOCK FALSE
