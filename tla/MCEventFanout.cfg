SPECIFICATION FairSpec
CONSTANTS
    org = org
    Clients = {c1, c2}
    Events = {e1}
    Owner <- MCOwner
    OrgOf <- MCOrgOf
    TypeOf <- MCTypeOf
    MaxReceive = 2
INVARIANTS
    AckedIsPosted
    ListedUnlessHit
PROPERTIES
    EventReachesClients
CHECK_DEADLOCK FALSE
