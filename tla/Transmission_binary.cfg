SPECIFICATION Spec
CONSTANTS
    Strings <- MCStrings
    CountSpan = 65536
    MaxLength = 8
    ZeroAt = {1, 4, 8}
INVARIANTS
    DataIsSent
