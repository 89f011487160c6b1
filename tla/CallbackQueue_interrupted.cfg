SPECIFICATION FairSpec
CONSTANTS
    NULL = NULL
    Callers = {c1, c2}
    Workers = {w1, w2}
    Faults <- AnyFault
PROPERTIES
    CallsReturnInAPause
    ServedCallReturns
    KillStops
    AbortStops
CHECK_DEADLOCK FALSE
