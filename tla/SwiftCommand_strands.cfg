\* Two synchronous callers, and the link may fail.
CONSTANTS
    SyncCalls = {s1, s2}
    CallbackCalls = {}
    BareCalls = {}
    Flushes = {}
    MaxCnt = 4
    CmdPendSize = 1
    NULL = NULL
SPECIFICATION LiveSpec
CHECK_DEADLOCK FALSE
PROPERTY
    CallsEnd
