------------------------------ MODULE MCInbound ------------------------------
(* Model-checking instances of Inbound: every email is addressed to two      *)
(* inboxes and answers every message of Send.                                *)
EXTENDS Inbound

CONSTANTS i1, i2

MCRcpts == [e \in Emails |-> <<i1, i2>>]
MCRefs  == [e \in Emails |-> Sends]
=============================================================================
