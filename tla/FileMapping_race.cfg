CONSTANTS
    Names = {a}
    NoName = NoName
    Slots = {s1, s2}
    Offered = {"update", "update_file", "commit", "commit_file", "remove", "rename"}
    MaxEdits = 2
    MaxStarts = 2
    ErrFirst = TRUE
SPECIFICATION FairSpec

    
PROPERTIES
    KeepsPromise
    
CHECK_DEADLOCK FALSE
