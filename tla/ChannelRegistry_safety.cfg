SPECIFICATION Spec
CONSTANTS
    NULL = NULL
    Objects = {o1, o2}
    Keys = {0, 256, 65537}
    Threads = {t1, t2}
    Reliable = FALSE
SYMMETRY Symmetry
INVARIANTS
    TypeOK
    NoDanglingBuffer
    RegistryIsSound
    MissedStaysMissed
PROPERTIES
    ClosedForGood
    ImplementsLife
