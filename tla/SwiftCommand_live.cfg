\* One call of each kind and a flush under fairness.
CONSTANTS
    SyncCalls = {s1}
    CallbackCalls = {a1}
    BareCalls = {b1}
    Flushes = {f1}
    MaxCnt = 4
    CmdPendSize = 1
    NULL = NULL
SPECIFICATION LiveSpec
CHECK_DEADLOCK FALSE
INVARIANTS
    NoLostWakeup
    SleepersDepend
PROPERTIES
    FlushCovers
    CallsReturn
    CallbackRuns
    FlushReturns
