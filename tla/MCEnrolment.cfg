SPECIFICATION Spec
CONSTANTS
    U64Max = 127
    Base32Of <- MCBase32Of
    RandomSecrets <- MCRandomSecrets
    Accounts <- MCAccounts
    Bits <- MCBits
    Buffers <- MCBuffers
    Texts <- MCTexts
    DigitsGiven <- MCDigits
    PeriodsGiven <- MCPeriods
    AlgorithmsGiven <- MCAlgorithms
    Times <- MCTimes
    Windows <- MCWindows
    Offsets <- MCOffsets
    Contexts <- MCContexts
    Counters <- MCCounters
INVARIANTS
    TypeOK
    AppIsServer
    AccountShown
    HotpExact
    WindowExact
    HelpersAgree
    SampleIsDistance
