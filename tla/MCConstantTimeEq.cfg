SPECIFICATION Spec
CONSTANTS
    Byte <- MCByte
    Strings <- MCStrings
    LengthModulus = 4
    MaxLength = 3
CHECK_DEADLOCK FALSE
INVARIANTS
    TypeOK
    AnswersEquality
    WalksAll
