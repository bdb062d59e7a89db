SPECIFICATION Spec
CONSTANTS
    t1 = t1
    t2 = t2
    NoThread = NoThread
    NoSample = NoSample
    Threads <- MCThreads
    Samples <- MCSamples
    Capacities = {3}
    MinReport = 2
    MinAdjust = 3
INVARIANTS
    OffsetZeroWhenOff
