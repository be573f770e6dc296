\* Two threads on a timer; two ports, two handles and one caller; two termios
\* baud rates and another; texts of up to five characters.
CONSTANTS
    Users = {u1, u2}
    Loops = {l1, l2, l3}
    Nobody = Nobody
    Names = {"p1", "p2"}
    Devices <- SomeDevices
    Platforms = {"windows", "linux", "osx"}
    NULL = NULL
    Handles = {h1, h2}
    Callers = {c1}
    Standard = {9600, 38400}
    Custom = {44100}
    BaudBase = 1500000
    Bytesizes = {7, 8}
    Terminals <- SomeTerminals
SPECIFICATION Spec
CHECK_DEADLOCK FALSE
INVARIANTS
    TurnsAreSafe
    FoundIsArm
    HandlesAccounted
    StrayExplained
    ConnectOutcome
    LineFollows
    StripKeeps
    SplitJoins
PROPERTY
    ExpireStops
