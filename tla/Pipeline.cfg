SPECIFICATION Spec
CONSTANTS
    e1 = e1
    e2 = e2
    e3 = e3
    s1 = s1
    c1 = c1
    c2 = c2
    h1 = h1
    Events = {e1, e2, e3}
    Consumers = {c1, c2}
    Hooks = {}
    NoHook = NoHook
    NoSession = NoSession
    SessionOf <- LastWithoutSession
    Batches <- Repeats
    QueueSize = 2
    BatchEvents = 3
    MaxCarry = 2
    WindowSize = 2
    ReceiverFirst = TRUE
    MaxPayloads = 3
    MaxFailures = 1
    MaxCrashes = 1
INVARIANTS
    EventsAccountedFor
PROPERTIES
    SnapshotBeforeForgotten
SYMMETRY Workers
CHECK_DEADLOCK FALSE
