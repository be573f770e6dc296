\* A callback call whose answer comes at its timeout.
CONSTANTS
    SyncCalls = {}
    CallbackCalls = {a1}
    BareCalls = {}
    Flushes = {}
    MaxCnt = 3
    CmdPendSize = 2
    NULL = NULL
SPECIFICATION Spec
CHECK_DEADLOCK FALSE
INVARIANT
    ReceiverHasCallback
