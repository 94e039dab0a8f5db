CONSTANTS
    Calls = {k1, k2, k3, t}
    Tests = {t}
    Conns = {c1, c2, c3}
    None = None
SPECIFICATION FairSpec
INVARIANTS
    TypeOK
    NeverTwice
    NoStray
    ReadyHasChannel
    SentIsCarried
PROPERTIES
    
    OneAnswer
CHECK_DEADLOCK FALSE
