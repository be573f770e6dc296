\* The receive threads of two sessions and a writer around two openings, two descriptor numbers.
CONSTANTS
    Readers = {r1, r2}
    Writers = {w1}
    Drains = {}
    Numbers = {3, 4}
    Length = 2
    MaxLine = 2
    MaxOpens = 2
SPECIFICATION Spec
INVARIANTS
    DescriptorsAccounted
    StraysExplained
PROPERTY
    KeepsLine
SYMMETRY
    Symmetry
