CONSTANTS
    Names = {a}
    NoName = NoName
    Slots = {s1}
    Offered = {"commit"}
    MaxEdits = 1
    MaxStarts = 1
    ErrFirst = TRUE
SPECIFICATION FairSpec
PROPERTIES
    SentIsAnswered
CHECK_DEADLOCK FALSE
