SPECIFICATION Spec
CONSTANTS
    i1 = i1
    i2 = i2
    Inboxes = {i1, i2}
    Emails = {e1}
    Sends = {s1}
    Rcpts <- MCRcpts
    Refs <- MCRefs
    Attached = {e1}
    MaxReceive = 2
    None = None
INVARIANTS
    CountHasNoDrift
    ThreadInInbox
    ThreadIsConversation
    AckedIsServed
    AnnouncedIsStored
CHECK_DEADLOCK FALSE
