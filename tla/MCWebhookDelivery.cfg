SPECIFICATION FairSpec
CONSTANTS
    Hooks = {h1, h2}
    Events = {e1}
    Types = {"message.received", "draft.created"}
    TypeOf <- MCTypeOf
    Lists <- MCLists
    Patches = {p1}
    MaxReceive = 2
    None = None
INVARIANTS
    PostsAreBounded
    SuccessIsAccepted
    AckedIsServed
PROPERTIES
    AnswersAreFinal
    EventSettles
CHECK_DEADLOCK FALSE
