--------------------------- MODULE MCEventFanout ---------------------------
(* Model-checking instance of EventFanout: one organization, and events that *)
(* go to all three queues.                                                   *)
EXTENDS EventFanout

CONSTANT org

MCOwner  == [c \in Clients |-> org]
MCOrgOf  == [e \in Events |-> org]
MCTypeOf == [e \in Events |-> "message.sent"]
=============================================================================
