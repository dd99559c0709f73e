SPECIFICATION Spec
CONSTANTS
    Calls = {c1, c2, c3, c4}
    Domains = {d1, d2}
    RuleName <- MCRuleName
    None = None
SYMMETRY Symmetry
INVARIANTS
    RegisteredIsRouted
    NoOrphanRule
    ActiveWasPolled
CHECK_DEADLOCK FALSE
