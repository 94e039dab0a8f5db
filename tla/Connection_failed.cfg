CONSTANTS
    Calls = {k1}
    Tests = {}
    Conns = {c1, c2}
    None = None
SPECIFICATION Spec
INVARIANTS
    FailureIsThrown
CHECK_DEADLOCK FALSE
