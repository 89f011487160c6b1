SPECIFICATION Spec
CONSTANTS
    NULL = NULL
    Objects = {o1, o2}
    Threads = {t1, t2}
    Given <- Arguments
    DeviceNumbers <- Numbers
    Timeouts = {0, 10}
SYMMETRY Symmetry
INVARIANTS
    TypeOK
    RegisteredRemembers
    LegalOnly
    ValidIsExact
