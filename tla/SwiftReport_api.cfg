\* One application thread and a call of each kind; the
\* arm sends two lines, answers or reports of the power.
CONSTANTS
    SyncCalls = {s1}
    CallbackCalls = {a1}
    BareCalls = {b1}
    Apps = {m1}
    Programs <- SomePrograms
    Modes = {1}
    ErrorWords = {"E25"}
    MaxSwitches = 2
    Bare = Bare
    NULL = NULL
    Receivers = {r1}
    Kinds = {"power"}
    Values = {}
    MaxLines = 2
SPECIFICATION LiveSpec
CHECK_DEADLOCK FALSE
INVARIANTS
    ArmInv
    ValuesTruthful
    CachesFaithful
PROPERTIES
    PowerForward
    CallbacksHear
