SPECIFICATION Spec
CONSTANTS
    NULL = NULL
    Callers = {c1, c2, c3}
    Workers = {w1, w2, w3}
    Faults <- Shutdown
SYMMETRY Symmetry
INVARIANTS
    TypeOK
    HandlersOwnTheirCallback
    QueuedAreWaiting
    NoneLost
    NoLostWakeup
    KilledIsAwake
    NoLostReply
    ThreadsBounded
PROPERTIES
    ImplementsService
CHECK_DEADLOCK FALSE
