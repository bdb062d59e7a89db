SPECIFICATION TrackingSpec
CONSTANTS
    t1 = t1
    t2 = t2
    NoThread = NoThread
    NoSample = NoSample
    Threads <- MCThreads
    Samples <- MCSamples
    Windows <- MCWindows
    Drift <- MCDrift
    Capacities = {3}
    MinReport = 2
    MinAdjust = 3
INVARIANTS
    OffsetWithinDrift
