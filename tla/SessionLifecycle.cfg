SPECIFICATION FairSpec
CONSTANTS
    s1 = s1
    s2 = s2
    Session = {s1}
    IdleTime = 1
    MemoryTime = 2
    Horizon = 3
    MaxTime = 5
    MaxPending = 2
    MaxFailures = 1
    MaxCrashes = 1
INVARIANTS
    EndCoversActivity
PROPERTIES
    ReopenedByActivityOnly
    SweepSparesActive
    EverySessionEnds
CHECK_DEADLOCK FALSE
