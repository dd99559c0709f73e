SPECIFICATION Spec
CONSTANTS
    Reqs = {r1, r2, r3}
    Addresses = {a1, a2, a3}
    Pods = {p1, p2}
    Limits <- MCLimits
    PolicyApplies = FALSE
    None = None
SYMMETRY Symmetry
INVARIANTS
    PodOfCreator
PROPERTIES
    SeatsHold
CHECK_DEADLOCK FALSE
