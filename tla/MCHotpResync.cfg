SPECIFICATION FairSpec
CONSTANTS
    Callers = {c1, c2}
    MaxCounter = 3
    LookAhead = 2
    Codes <- MCCodes
    Secrets <- MCSecrets
    CodeOf <- MCCodeOf
CHECK_DEADLOCK FALSE
INVARIANTS
    TypeOK
    CounterMatchedOnce
    NeverAhead
    AcceptedAsMade
PROPERTIES
    WindowReached
