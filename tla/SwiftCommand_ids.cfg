\* One sleeping caller, two callback calls and one that nobody waits for: two
\* ids, a window of two.
CONSTANTS
    SyncCalls = {s1}
    CallbackCalls = {a1, a2}
    BareCalls = {b1}
    Flushes = {}
    MaxCnt = 3
    CmdPendSize = 2
    NULL = NULL
SPECIFICATION Spec
SYMMETRY Symmetry
CHECK_DEADLOCK FALSE
INVARIANTS
    CommandInv
    CallbackNotLost
    PendAccounting
    WindowHolds
PROPERTY
    KeepsPromise
