\* Two sessions with a call, one unplugging, under fairness.
CONSTANTS
    Calls = {c1}
    Flushes = {}
    CmdPendSize = 1
    MaxConnects = 2
    MaxUnplugs = 1
SPECIFICATION LiveSpec
PROPERTIES
    FailureNoticed
    ReceiversEnd
