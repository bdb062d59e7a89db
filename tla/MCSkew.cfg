SPECIFICATION FairSpec
CONSTANTS
    t1 = t1
    t2 = t2
    NoThread = NoThread
    NoSample = NoSample
    Threads <- MCThreads
    Samples <- MCSamples
    Capacities = {0, 2, 3}
    MinReport = 2
    MinAdjust = 3
CHECK_DEADLOCK FALSE
INVARIANTS
    TypeOK
    RingIsWindow
    LearnedFromEnough
    SteadySamplesReported
PROPERTIES
    MutexFreed
