SPECIFICATION FairSpec
CONSTANTS
    Msgs = {m1}
    MaxFaults = 3
INVARIANTS
    NoPhantomEmail
    NegativeIsReported
    DuplicatesNeedFaults
    SendingIsQueued
PROPERTIES
    NegativeIsFinal
    OutcomeIsTrue
    JobReachesSES
CHECK_DEADLOCK FALSE
