\* Two writers, a receive thread and a flush() on one opening.
CONSTANTS
    Readers = {r1}
    Writers = {w1, w2}
    Drains = {d1}
    Numbers = {3}
    Length = 2
    MaxLine = 1
    MaxOpens = 1
SPECIFICATION LiveSpec
INVARIANTS
    CommandsApart
    NoCircle
PROPERTY
    LocksComeBack
