\* The reports alone: two receive threads, reports of the power, a key and the
\* limit switch, callbacks that come and go.
CONSTANTS
    SyncCalls = {}
    CallbackCalls = {}
    BareCalls = {}
    Apps = {}
    Programs <- NoPrograms
    Modes = {}
    ErrorWords = {}
    MaxSwitches = 2
    Bare = Bare
    NULL = NULL
    Receivers = {r1, r2}
    Kinds = {"power", "limit", "key0"}
    Values = {0, 1, Bare}
    MaxLines = 3
SPECIFICATION Spec
CHECK_DEADLOCK FALSE
INVARIANTS
    ReportsTold
    AbortExplained
