\* The receive thread of an earlier session.
CONSTANTS
    Calls = {}
    Flushes = {}
    CmdPendSize = 1
    MaxConnects = 2
    MaxUnplugs = 0
SPECIFICATION Spec
PROPERTY
    StaysConnected
