CONSTANTS
    Names = {a, b}
    NoName = NoName
    Slots = {s1}
    Offered = {"update", "update_file", "commit", "commit_file", "remove", "rename"}
    MaxEdits = 2
    MaxStarts = 2
    ErrFirst = TRUE
SPECIFICATION Spec
SYMMETRY Symmetry
INVARIANTS
    TypeOK
    NoLostEdit
    
    UpdateComplete
    PutJustified
    DeleteAsked
    CommitComplete
    EndsAnswered
PROPERTIES
    NotBroughtBack
    KeepsPromise
CHECK_DEADLOCK FALSE
