CONSTANTS
    Names = {a}
    NoName = NoName
    Slots = {s1}
    Offered = {"commit"}
    MaxEdits = 3
    MaxStarts = 1
    ErrFirst = TRUE
SPECIFICATION Spec
INVARIANTS
    NoBlindPut
CHECK_DEADLOCK FALSE
