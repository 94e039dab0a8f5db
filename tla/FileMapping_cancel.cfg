CONSTANTS
    Names = {a}
    NoName = NoName
    Slots = {s1}
    Offered = {"update"}
    MaxEdits = 0
    MaxStarts = 1
    ErrFirst = TRUE
SPECIFICATION Spec
INVARIANTS
    OkMeansDone
CHECK_DEADLOCK FALSE
