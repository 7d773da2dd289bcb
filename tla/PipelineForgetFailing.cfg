SPECIFICATION Spec
CONSTANTS
    e1 = e1
    e2 = e2
    e3 = e3
    s1 = s1
    c1 = c1
    c2 = c2
    h1 = h1
    Events = {e1, e2, e3}
    Consumers = {c1}
    Hooks = {}
    NoHook = NoHook
    NoSession = NoSession
    SessionOf <- InSession
    Batches <- One
    QueueSize = 2
    BatchEvents = 2
    MaxCarry = 2
    WindowSize = 3
    ReceiverFirst = TRUE
    MaxPayloads = 1
    MaxFailures = 1
    MaxCrashes = 0
PROPERTIES
    FailedSnapshotIsRetried
CHECK_DEADLOCK FALSE
