SPECIFICATION PipeSpec
CONSTANTS
    Drafts = {d1}
    Scheduled = {}
    Calls = {c1, c2, c3}
    Original = Original
    None = None
    Serial = TRUE
    MaxFaults = 1
SYMMETRY Symmetry
INVARIANTS
    SentAsReviewed
    EmailIsReviewed
    ReviewIsObeyed
PROPERTIES
    DecidedOnce
    MailWorks
CHECK_DEADLOCK FALSE
