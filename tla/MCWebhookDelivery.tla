------------------------- MODULE MCWebhookDelivery -------------------------
(* Model-checking instance of WebhookDelivery: all events have one type, and *)
(* a webhook subscribes to all types or to one that never comes.             *)
EXTENDS WebhookDelivery, TLC

MCTypeOf == [e \in Events |-> "message.received"]
MCLists  == {{}, {"draft.created"}}
=============================================================================
