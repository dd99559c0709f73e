--------------------------- MODULE MessageOutcome ---------------------------
(***************************************************************************)
(* What the outbound pipeline promises of a message, seen by whoever reads *)
(* its status: emails leave only for a message that exists, every status   *)
(* but 'sending' is backed by SES, and once a message is settled no email  *)
(* leaves any more and a negative outcome is final.  Which of SES's          *)
(* negative answers makes a message 'failed' is left open.                 *)
(***************************************************************************)
EXTENDS Naturals

CONSTANT Messages

VARIABLES
    status,     \* status of the message, "none" before it exists
    copies,     \* how many times SES took it
    reported,   \* the outcomes SES has reported, and whether it ever refused a copy
    settled     \* the pipeline will not work on the message again

vars == <<status, copies, reported, settled>>

Outcomes == {"Delivered", "Bounced", "Failed"}
Present  == {"sending", "sent", "failed", "bounced"}

Init ==
    /\ status = [m \in Messages |-> "none"]
    /\ copies = [m \in Messages |-> 0]
    /\ reported = [m \in Messages |-> {}]
    /\ settled = [m \in Messages |-> FALSE]

Create(m) ==
    /\ status[m] = "none"
    /\ status' = [status EXCEPT ![m] = "sending"]
    /\ UNCHANGED <<copies, reported, settled>>

\* SES takes a copy: of a message that exists, or did when the copy was made.
Submit(m) ==
    /\ status[m] # "none"
    /\ ~ settled[m]
    /\ copies' = [copies EXCEPT ![m] = @ + 1]
    /\ UNCHANGED <<status, reported, settled>>

\* Another attempt begins.
Retry(m) ==
    /\ status[m] \in Present
    /\ ~ settled[m]
    /\ status' = [status EXCEPT ![m] = "sending"]
    /\ UNCHANGED <<copies, reported, settled>>

MarkSent(m) ==
    /\ status[m] = "sending"
    /\ copies[m] > 0
    /\ status' = [status EXCEPT ![m] = "sent"]
    /\ UNCHANGED <<copies, reported, settled>>

\* SES answers with an error; it may have taken the copy all the same.
Refuse(m) ==
    /\ status[m] # "none"
    /\ ~ settled[m]
    /\ copies' \in {copies, [copies EXCEPT ![m] = @ + 1]}
    /\ reported' = [reported EXCEPT ![m] = @ \cup {"Refused"}]
    /\ UNCHANGED <<status, settled>>

Report(m, k) ==
    /\ copies[m] > 0
    /\ reported' = [reported EXCEPT ![m] = @ \cup {k}]
    /\ UNCHANGED <<status, copies, settled>>

MarkBounced(m) ==
    /\ status[m] \in Present
    /\ "Bounced" \in reported[m]
    /\ status' = [status EXCEPT ![m] = "bounced"]
    /\ UNCHANGED <<copies, reported, settled>>

MarkFailed(m) ==
    /\ status[m] \in Present
    /\ reported[m] \cap {"Refused", "Bounced", "Failed"} # {}
    /\ status' = [status EXCEPT ![m] = "failed"]
    /\ UNCHANGED <<copies, reported, settled>>

Settle(m) ==
    /\ status[m] \notin {"none", "sending"}
    /\ settled' = [settled EXCEPT ![m] = TRUE]
    /\ UNCHANGED <<status, copies, reported>>

Delete(m) ==
    /\ status[m] \in Present
    /\ status' = [status EXCEPT ![m] = "deleted"]
    /\ UNCHANGED <<copies, reported, settled>>

Next == \E m \in Messages :
    \/ Create(m) \/ Submit(m) \/ Refuse(m) \/ Retry(m) \/ MarkSent(m)
    \/ MarkBounced(m) \/ MarkFailed(m) \/ Settle(m) \/ Delete(m)
    \/ \E k \in Outcomes : Report(m, k)

Spec == Init /\ [][Next]_vars
=============================================================================
