SPECIFICATION Spec
CONSTANTS
    NULL = NULL
    Objects = {o1}
    Threads = {t1}
    Given <- Arguments
    DeviceNumbers = {0}
    Timeouts = {0}
PROPERTIES
    CommandsWait
