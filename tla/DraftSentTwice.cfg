SPECIFICATION Spec
CONSTANTS
    Drafts = {d1}
    Scheduled = {d1}
    Calls = {c1, c2}
    Original = Original
    None = None
    Serial = FALSE
INVARIANTS
    SentAtMostOnce
CHECK_DEADLOCK FALSE
