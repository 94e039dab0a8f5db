CONSTANTS
    Reqs = {r1, r2}
SPECIFICATION FairSpec
INVARIANTS
    TypeOK
    Kept
    ToldDone
    Owed
PROPERTIES
    PoolsEnd
    OneAnswer
CHECK_DEADLOCK FALSE
