SPECIFICATION ApartSpec
CONSTANTS
    NULL = NULL
    Objects = {o1, o2}
    Keys = {0}
    Threads = {t1}
    Reliable = TRUE
SYMMETRY Symmetry
INVARIANTS
    AssignmentReserves
