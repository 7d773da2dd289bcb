SPECIFICATION FairSpec
CONSTANTS
    b1 = b1
    b2 = b2
    w1 = w1
    NoBody = NoBody
    Bodies <- MCBodies
    ReceiverWorkers <- MCWorkers
    ReceiverQueueSize = 1
    MaxRestarts = 1
    MaxEpochs = 2
INVARIANTS
    OneWorker
    OrderlyShutdown
PROPERTIES
    DaemonLeaves
CHECK_DEADLOCK FALSE
