SPECIFICATION FairSpec
CONSTANTS
    NULL = NULL
    Calls = {k1, k2}
    Channels = {1}
    Requests = {"capabilities", "adv_burst"}
    Commands = {"setting", "adv_burst"}
    MaxPending = 2
    MaxSent = 3
INVARIANTS
    TypeOK
    BlockSeesItsMessage
    StoredByItsHandler
PROPERTIES
    AnswersNeverGoBack
    ImplementsStream
    ResponsesFlow
    AnswersArrive
