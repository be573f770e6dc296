\* Two sessions, two callers and a flush, one unplugging.
CONSTANTS
    Calls = {c1, c2}
    Flushes = {f1}
    CmdPendSize = 1
    MaxConnects = 2
    MaxUnplugs = 1
SPECIFICATION Spec
SYMMETRY Symmetry
INVARIANTS
    SessionInv
    SessionAccounting
    SleptBeforeReset
    ReceiverServes
    SessionState
