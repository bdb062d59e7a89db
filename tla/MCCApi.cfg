SPECIFICATION Spec
CONSTANTS
    Addresses = {a1, a2, a3}
    NULL = NULL
    Variables <- MCVariables
    KindOf <- MCKindOf
    Arguments <- MCArguments
    CustomKeys <- MCCustomKeys
    CustomValues <- MCCustomValues
    RawContexts <- MCRawContexts
    SortedKeys <- MCSortedKeys
    Lowercase <- MCLowercase
    MaxFields = 2
SYMMETRY MCSymmetry
INVARIANTS
    TypeOK
    OwnedOnce
    ConsumedByDelivery
    BoundByMeaning
