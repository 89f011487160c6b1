SPECIFICATION Spec
CONSTANTS
    Strings <- MCStrings
    CountSpan = 4
    MaxLength = 36
    ZeroAt = {1, 8, 9, 12, 36}
INVARIANTS
    TypeOK
    ReadsInside
    NothingStale
    TextIsSent
