CONSTANTS
    Names = {a}
    NoName = NoName
    Slots = {s1, s2}
    Offered = {"update", "remove"}
    MaxEdits = 1
    MaxStarts = 2
    ErrFirst = TRUE
SPECIFICATION Spec
PROPERTIES
    MarkKept
CHECK_DEADLOCK FALSE
