SPECIFICATION Spec
CONSTANTS
    Threads = {t1}
    Calls = {c1, c2, c3, c4}
    Patches <- MCPatches
    None = None
SYMMETRY Symmetry
INVARIANTS
    AnnouncedInOrder
    PatchIsKept
CHECK_DEADLOCK FALSE
