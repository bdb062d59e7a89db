SPECIFICATION Spec
CONSTANTS
    t1 = t1
    t2 = t2
    t3 = t3
    c1 = c1
    c2 = c2
    none = none
    ctx = ctx
    NoThread = NoThread
    NoCall = NoCall
    Threads <- TwoThreads
    Codes <- MCCodes
    Contexts <- MCContexts
    Calls <- MCCalls
    MaxAttempts = 2
    MaxUsed = 2
    AttemptsModulus = 8
PROPERTIES
    LockedOutRejects
