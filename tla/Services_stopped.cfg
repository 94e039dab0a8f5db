CONSTANTS
    MaxTasks = 2
    MaxSteps = 2
    None = None
    MaxSearches = 2
    MaxFiles = 3
    PageSize = 2
    Changes = {a, b}
    Objects = {o1, o2, o3}
    Nil = Nil
    Scripts = {p1, p2, p3}
    NoScript = NoScript
SPECIFICATION ServicesSpec
INVARIANTS
    OwnFiles
CHECK_DEADLOCK FALSE
