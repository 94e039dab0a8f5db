CONSTANTS
    Reqs = {r1, r2}
SPECIFICATION Spec
SYMMETRY Symmetry
INVARIANTS
    ThreadDone
CHECK_DEADLOCK FALSE
