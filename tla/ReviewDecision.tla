--------------------------- MODULE ReviewDecision ---------------------------
(***************************************************************************)
(* What the review of drafts promises: a draft is decided once; it is sent *)
(* when it is approved, as one message, and in no other case.              *)
(***************************************************************************)
CONSTANTS Drafts, Messages

VARIABLES
    status,     \* review status of every draft
    sent        \* the messages made from it

Init ==
    /\ status = [d \in Drafts |-> "absent"]
    /\ sent = [d \in Drafts |-> {}]

Create(d) ==
    /\ status[d] = "absent"
    /\ status' = [status EXCEPT ![d] = "pending"]
    /\ UNCHANGED sent

Approve(d, m) ==
    /\ status[d] = "pending"
    /\ status' = [status EXCEPT ![d] = "approved"]
    /\ sent' = [sent EXCEPT ![d] = {m}]

Reject(d) ==
    /\ status[d] = "pending"
    /\ status' = [status EXCEPT ![d] = "rejected"]
    /\ UNCHANGED sent

\* A draft can be deleted at any time; a message made from it stays.
Delete(d) ==
    /\ status[d] \in {"pending", "approved", "rejected"}
    /\ status' = [status EXCEPT ![d] = "deleted"]
    /\ UNCHANGED sent

Next == \E d \in Drafts :
    \/ Create(d) \/ Reject(d) \/ Delete(d)
    \/ \E m \in Messages : Approve(d, m)

Spec == Init /\ [][Next]_<<status, sent>>
=============================================================================
