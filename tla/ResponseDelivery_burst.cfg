SPECIFICATION Spec
CONSTANTS
    NULL = NULL
    Calls = {k1}
    Channels = {1}
    Requests = {"adv_burst"}
    Commands = {"adv_burst"}
    MaxPending = 2
    MaxSent = 2
INVARIANTS
    AnswersAreGenuine
