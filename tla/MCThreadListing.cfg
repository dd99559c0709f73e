SPECIFICATION Spec
CONSTANTS
    N = 3
    Labels = {l1}
    Limit = 1
    MaxTime = 2
    None = None
INVARIANTS
    StableIsListed
CHECK_DEADLOCK FALSE
