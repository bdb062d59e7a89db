SPECIFICATION Spec
CONSTANTS
    t1 = t1
    t2 = t2
    alice = alice
    bob = bob
    NoCall = NoCall
    Calls = {}
    Threads <- MCThreads
    Contexts <- MCContexts
    Codes <- MCCodes
    Secrets <- MCSecrets
    CodeOf <- MCCodeOf
    MaxStep = 2
    MaxAttempts = 1
    MaxUsed = 2
    AttemptsModulus = 2
SYMMETRY MCSymmetry
INVARIANTS
    TypeOK
    OncePerStep
PROPERTIES
    RefusedIfUsed
