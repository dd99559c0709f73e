SPECIFICATION Spec
CONSTANTS
    Drafts = {d1}
    Scheduled = {d1}
    Calls = {c1, c2, c3}
    Original = Original
    None = None
    Serial = FALSE
SYMMETRY Symmetry
INVARIANTS
    PendingHasNoMessage
    ApprovedHasMessage
    AttachmentsLinkedOnce
    AttachmentHasObject
    NoCallIsStuck
CHECK_DEADLOCK FALSE
