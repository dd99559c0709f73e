------------------------------ MODULE Outbound ------------------------------
(***************************************************************************)
(* The outbound mail pipeline: an API call (MessageService.Send; Draft-    *)
(* Service.Approve creates its message the same way, see DraftReview)      *)
(* inserts a message row and queues a job inside one database transaction, *)
(* the email_outbound Lambda consumes the job and calls SES, and the       *)
(* ses_events Lambda applies the notices SES sends back.  The three run    *)
(* concurrently and meet only in the message row and in the two queues.    *)
(*                                                                         *)
(* Two messages never touch each other's row, job or notices, so every     *)
(* variable is a function of the message.                                  *)
(***************************************************************************)
EXTENDS Naturals

CONSTANTS
    Msgs,       \* message UUIDs, one per Send call
    MaxFaults   \* bound: faults (crash, SES error, failed commit) per message

ASSUME OutboundAssumption == MaxFaults \in Nat

VARIABLES
    tx,         \* the transaction of the call that creates the message
    row,        \* status column of the message row, as other transactions see it
    job,        \* the job in the email_outbound FIFO queue
    worker,     \* the email_outbound invocation that holds the job
    mails,      \* how many times SES accepted the message for sending
    notices,    \* SES notices waiting in the ses_events queue
    said,       \* every outcome SES has reported so far: its notices, and "Refused"
                \* when SendEmail returned an error
    events,     \* domain events published for the message
    faults      \* faults met so far while the message was being sent

vars == <<tx, row, job, worker, mails, notices, said, events, faults>>

Present     == {"sending", "sent", "failed", "bounced"}
RowStates   == Present \cup {"none", "deleted"}
TxStates    == {"none", "inserted", "published", "committed", "announced", "aborted"}
JobStates   == {"absent", "visible", "inflight", "deleted", "expired"}
WorkerPcs   == {"idle", "started", "loaded", "accepted", "refused", "done"}
Kinds       == {"Delivered", "Bounced", "Failed"}
Reports     == Kinds \cup {"Refused"}
EventTypes  == {"message.sent", "message.bounced"}

Committed(m) == tx[m] \in {"committed", "announced"}

Init ==
    /\ tx = [m \in Msgs |-> "none"]
    /\ row = [m \in Msgs |-> "none"]
    /\ job = [m \in Msgs |-> "absent"]
    /\ worker = [m \in Msgs |-> "idle"]
    /\ mails = [m \in Msgs |-> 0]
    /\ notices = {}
    /\ said = [m \in Msgs |-> {}]
    /\ events = [m \in Msgs |-> {}]
    /\ faults = [m \in Msgs |-> 0]

\* PublishEvent is best effort: every caller drops its error.
PublishEvent(m, type) ==
    events' \in {events, [events EXCEPT ![m] = @ \cup {type}]}

\* A fault of the environment; the bound keeps the instance finite.
Fault(m) ==
    /\ faults[m] < MaxFaults
    /\ faults' = [faults EXCEPT ![m] = @ + 1]

-----------------------------------------------------------------------------
(* MessageService.Send *)

\* The transaction inserts thread, message (status 'sending') and attachments.
SendInsert(m) ==
    /\ tx[m] = "none"
    /\ tx' = [tx EXCEPT ![m] = "inserted"]
    /\ UNCHANGED <<row, job, worker, mails, notices, said, events, faults>>

\* Still inside the transaction the job is put on the queue, visible at once.
SendPublish(m) ==
    /\ tx[m] = "inserted"
    /\ tx' = [tx EXCEPT ![m] = "published"]
    /\ job' = [job EXCEPT ![m] = "visible"]
    /\ UNCHANGED <<row, worker, mails, notices, said, events, faults>>

\* The error of Publish is dropped and the transaction goes on without a job.
SendPublishFails(m) ==
    /\ tx[m] = "inserted"
    /\ Fault(m)
    /\ tx' = [tx EXCEPT ![m] = "published"]
    /\ UNCHANGED <<row, job, worker, mails, notices, said, events>>

\* Mutant: the message is inserted with status 'sent'.
SendCommit_AsSent(m) ==
    /\ tx[m] = "published"
    /\ tx' = [tx EXCEPT ![m] = "committed"]
    /\ row' = [row EXCEPT ![m] = "sent"]
    /\ UNCHANGED <<job, worker, mails, notices, said, events, faults>>

SendCommit(m) ==
    /\ tx[m] = "published"
    /\ tx' = [tx EXCEPT ![m] = "committed"]
    /\ row' = [row EXCEPT ![m] = "sending"]
    /\ UNCHANGED <<job, worker, mails, notices, said, events, faults>>

\* WithTx rolls back: the request is refused before the insert, a statement or the
\* commit fails, or the Lambda dies.
SendAbort(m) ==
    /\ tx[m] \in {"none", "inserted", "published"}
    /\ tx' = [tx EXCEPT ![m] = "aborted"]
    /\ UNCHANGED <<row, job, worker, mails, notices, said, events, faults>>

\* message.sent is published after the commit, whatever SES will say.
SendAnnounce(m) ==
    /\ tx[m] = "committed"
    /\ tx' = [tx EXCEPT ![m] = "announced"]
    /\ PublishEvent(m, "message.sent")
    /\ UNCHANGED <<row, job, worker, mails, notices, said, faults>>

\* Deleting the inbox cascades to its messages.  The messages of an inbox go
\* together; no other action relates two messages, so one at a time is the same.
DeleteInbox(m) ==
    /\ row[m] \in Present
    /\ row' = [row EXCEPT ![m] = "deleted"]
    /\ UNCHANGED <<tx, job, worker, mails, notices, said, events, faults>>

-----------------------------------------------------------------------------
(* The email_outbound queue and Lambda.  The FIFO group is the message, so  *)
(* at most one invocation holds the job of a message at a time.             *)

ReceiveJob(m) ==
    /\ job[m] = "visible"
    /\ job' = [job EXCEPT ![m] = "inflight"]
    /\ worker' = [worker EXCEPT ![m] = "started"]
    /\ UNCHANGED <<tx, row, mails, notices, said, events, faults>>

\* The invocation ends with an error: the job becomes visible again.
ReturnJob(m) ==
    /\ job' = [job EXCEPT ![m] = "visible"]
    /\ worker' = [worker EXCEPT ![m] = "idle"]

\* Mutant: a missing row is no error, the email is built from the job alone.
LoadMessage_AnyRow(m) ==
    /\ worker[m] = "started"
    /\ row' = [row EXCEPT ![m] = IF @ \in Present THEN "sending" ELSE @]
    /\ worker' = [worker EXCEPT ![m] = "loaded"]
    /\ UNCHANGED <<tx, job, mails, notices, said, events, faults>>

\* First transaction: load the row, set 'sending' whatever the status was.
LoadMessage(m) ==
    /\ worker[m] = "started"
    /\ row[m] \in Present
    /\ row' = [row EXCEPT ![m] = "sending"]
    /\ worker' = [worker EXCEPT ![m] = "loaded"]
    /\ UNCHANGED <<tx, job, mails, notices, said, events, faults>>

\* No committed row (yet, or any more): an error, so the job is retried.
LoadMissing(m) ==
    /\ worker[m] = "started"
    /\ row[m] \notin Present
    /\ ReturnJob(m)
    /\ UNCHANGED <<tx, row, mails, notices, said, events, faults>>

\* The MIME message is built and SES takes it.
Accept(m) == mails' = [mails EXCEPT ![m] = @ + 1]

SESAccept(m) ==
    /\ worker[m] = "loaded"
    /\ Accept(m)
    /\ worker' = [worker EXCEPT ![m] = "accepted"]
    /\ UNCHANGED <<tx, row, job, notices, said, events, faults>>

\* SendEmail returns an error; after a timeout SES may have the email all the same.
SESRefuse(m) ==
    /\ worker[m] = "loaded"
    /\ Fault(m)
    /\ Accept(m) \/ UNCHANGED mails
    /\ said' = [said EXCEPT ![m] = @ \cup {"Refused"}]
    /\ worker' = [worker EXCEPT ![m] = "refused"]
    /\ UNCHANGED <<tx, row, job, notices, events>>

\* UpdateMessageSentAt and the Delivered notice share this CASE expression.
AdvanceToSent(status) == IF status = "sending" THEN "sent" ELSE status

\* Second transaction, SES said yes.
RecordSent(m) ==
    /\ worker[m] = "accepted"
    /\ row[m] \in Present
    /\ row' = [row EXCEPT ![m] = AdvanceToSent(@)]
    /\ PublishEvent(m, "message.sent")
    /\ worker' = [worker EXCEPT ![m] = "done"]
    /\ UNCHANGED <<tx, job, mails, notices, said, faults>>

\* The row is gone: no row updated is an error, before any event.
RecordSentMissing(m) ==
    /\ worker[m] = "accepted"
    /\ row[m] \notin Present
    /\ ReturnJob(m)
    /\ UNCHANGED <<tx, row, mails, notices, said, events, faults>>

\* The commit fails after the event was published.
RecordSentFails(m) ==
    /\ worker[m] = "accepted"
    /\ row[m] \in Present
    /\ Fault(m)
    /\ PublishEvent(m, "message.sent")
    /\ ReturnJob(m)
    /\ UNCHANGED <<tx, row, mails, notices, said>>

\* Mutant: the error of SendEmail is logged and the job acknowledged.
RecordFailed_Acked(m) ==
    /\ worker[m] = "refused"
    /\ job' = [job EXCEPT ![m] = "deleted"]
    /\ worker' = [worker EXCEPT ![m] = "idle"]
    /\ UNCHANGED <<tx, row, mails, notices, said, events, faults>>

\* Second transaction, SES said no: the closure returns sendErr, so WithOrgTx
\* rolls the update to 'failed' back; the event is already on its queues.
RecordFailed(m) ==
    /\ worker[m] = "refused"
    /\ IF row[m] \in Present THEN PublishEvent(m, "message.bounced")
                             ELSE UNCHANGED events
    /\ ReturnJob(m)
    /\ UNCHANGED <<tx, row, mails, notices, said, faults>>

\* Mutant: a record that was processed is reported as a batch item failure.
AckJob_Reported(m) ==
    /\ worker[m] = "done"
    /\ ReturnJob(m)
    /\ UNCHANGED <<tx, row, mails, notices, said, events, faults>>

AckJob(m) ==
    /\ worker[m] = "done"
    /\ job' = [job EXCEPT ![m] = "deleted"]
    /\ worker' = [worker EXCEPT ![m] = "idle"]
    /\ UNCHANGED <<tx, row, mails, notices, said, events, faults>>

\* The invocation dies or times out; the visibility timeout returns the job.
Crash(m) ==
    /\ worker[m] # "idle"
    /\ Fault(m)
    /\ ReturnJob(m)
    /\ UNCHANGED <<tx, row, mails, notices, said, events>>

\* The queue keeps a job for one day and has no dead-letter queue.
ExpireJob(m) ==
    /\ job[m] = "visible"
    /\ job' = [job EXCEPT ![m] = "expired"]
    /\ UNCHANGED <<tx, row, worker, mails, notices, said, events, faults>>

-----------------------------------------------------------------------------
(* SES notices and the ses_events Lambda.  Delivery is at least once and    *)
(* unordered: a notice may come any number of times once SES has the email. *)

SESNotify(m, k) ==
    /\ mails[m] > 0
    /\ <<m, k>> \notin notices
    /\ notices' = notices \cup {<<m, k>>}
    /\ said' = [said EXCEPT ![m] = @ \cup {k}]
    /\ UNCHANGED <<tx, row, job, worker, mails, events, faults>>

\* One UPDATE ... RETURNING; without a row the notice is dropped.
ApplyNotice(m, k, status, type) ==
    /\ <<m, k>> \in notices
    /\ notices' = notices \ {<<m, k>>}
    /\ IF row[m] \in Present
          THEN /\ row' = [row EXCEPT ![m] = status]
               /\ PublishEvent(m, type)
          ELSE UNCHANGED <<row, events>>
    /\ UNCHANGED <<tx, job, worker, mails, said, faults>>

\* Mutants: the two negative statuses are swapped; Delivered always writes 'sent'.
EmailFailed_AsBounced(m)    == ApplyNotice(m, "Failed", "bounced", "message.bounced")
EmailDelivered_Overwrite(m) == ApplyNotice(m, "Delivered", "sent", "message.sent")

EmailBounced(m)   == ApplyNotice(m, "Bounced", "bounced", "message.bounced")
EmailFailed(m)    == ApplyNotice(m, "Failed", "failed", "message.bounced")
EmailDelivered(m) == ApplyNotice(m, "Delivered", AdvanceToSent(row[m]), "message.sent")

-----------------------------------------------------------------------------
Send(m) ==
    \/ SendInsert(m) \/ SendPublish(m) \/ SendPublishFails(m)
    \/ SendCommit(m) \/ SendAbort(m) \/ SendAnnounce(m)

\* What an invocation of email_outbound does by itself, faults apart.
ProcessRecord(m) ==
    \/ LoadMessage(m) \/ LoadMissing(m) \/ SESAccept(m)
    \/ RecordSent(m) \/ RecordSentMissing(m) \/ RecordFailed(m) \/ AckJob(m)

WorkerFault(m) == SESRefuse(m) \/ RecordSentFails(m) \/ Crash(m)

SESEvents(m) == EmailBounced(m) \/ EmailFailed(m) \/ EmailDelivered(m)

Environment(m) ==
    \/ ExpireJob(m) \/ DeleteInbox(m)
    \/ \E k \in Kinds : SESNotify(m, k)

Next == \E m \in Msgs :
    \/ Send(m) \/ ReceiveJob(m) \/ ProcessRecord(m) \/ WorkerFault(m)
    \/ SESEvents(m) \/ Environment(m)

Spec == Init /\ [][Next]_vars

\* The event source mapping keeps polling and an invocation that is not hit by
\* a fault runs to its end.  Nothing is assumed of callers, SES or retention.
Fairness == \A m \in Msgs :
    WF_vars(ReceiveJob(m)) /\ WF_vars(ProcessRecord(m))

FairSpec == Spec /\ Fairness

-----------------------------------------------------------------------------
TypeOK ==
    /\ tx \in [Msgs -> TxStates]
    /\ row \in [Msgs -> RowStates]
    /\ job \in [Msgs -> JobStates]
    /\ worker \in [Msgs -> WorkerPcs]
    /\ mails \in [Msgs -> Nat]
    /\ notices \in SUBSET (Msgs \X Kinds)
    /\ said \in [Msgs -> SUBSET Reports]
    /\ events \in [Msgs -> SUBSET EventTypes]
    /\ faults \in [Msgs -> Nat]

\* Publishing the job before the commit is safe: no email leaves for a message
\* whose creating transaction has not committed, however the job and the
\* commit or rollback race (processRecord's first transaction).
NoPhantomEmail == \A m \in Msgs : mails[m] > 0 => Committed(m)

\* A row says 'sent' only if SES has accepted the message at least once, under
\* any order of retries, crashes and notices (UpdateMessageSentAt, Delivered).
SentIsAccepted == \A m \in Msgs : row[m] = "sent" => mails[m] > 0

\* A row says 'bounced' only after SES reported a bounce, and 'failed' only after SES
\* refused the email or reported that it bounced or failed: no retry, crash or lost
\* commit of email_outbound produces either by itself.  (docs/internals.md has an
\* error of SES and a bounce recorded as 'failed', the code does neither: see
\* RecordFailed and EmailBounced.  The property asks for neither.)
NegativeIsReported == \A m \in Msgs :
    /\ row[m] = "bounced" => "Bounced" \in said[m]
    /\ row[m] = "failed"  => said[m] \cap {"Refused", "Bounced", "Failed"} # {}

\* Every copy of an email beyond the first is paid for by a fault: retries,
\* redeliveries and late notices alone never send a message twice.
DuplicatesNeedFaults == \A m \in Msgs : mails[m] <= faults[m] + 1

\* A row that says 'sending' is still being worked on: its job is queued or in an
\* invocation and not acknowledged, unless the queue dropped it after its retention
\* or Publish failed, which Send and Approve do not tell anybody.
SendingIsQueued == \A m \in Msgs : row[m] = "sending" =>
    \/ job[m] \in {"visible", "inflight", "expired"}
    \/ job[m] = "absent" /\ faults[m] > 0

\* After the acknowledgement a negative outcome is final: a Delivered notice
\* that comes late or again never turns 'bounced' or 'failed' into 'sent'.
NegativeIsFinal ==
    [][\A m \in Msgs :
          /\ job[m] = "deleted"
          /\ row[m] \in {"bounced", "failed"}
          => row'[m] \in {"bounced", "failed", "deleted"}]_vars

\* A committed message whose job is on the queue reaches SES, unless the job
\* outlives its retention or the row is deleted: no schedule of retries,
\* notices and (finitely many) faults starves it.
JobReachesSES == \A m \in Msgs :
    (Committed(m) /\ job[m] \in {"visible", "inflight"})
        ~> (mails[m] > 0 \/ job[m] = "expired" \/ row[m] = "deleted")

\* What a reader of the status may rely on, whatever goes on inside: MessageOutcome.
Outcome == INSTANCE MessageOutcome WITH
    Messages <- Msgs, status <- row, copies <- mails, reported <- said,
    settled <- [m \in Msgs |-> job[m] = "deleted"]

\* The pipeline implements MessageOutcome under every interleaving of Send, retries,
\* crashes, notices and deletions.
OutcomeIsTrue == Outcome!Spec

-----------------------------------------------------------------------------
(* The inductive invariant: what each stage of the pipeline knows of the    *)
(* others.                                                                  *)

RowFollowsTx == \A m \in Msgs :
    /\ row[m] # "none" <=> Committed(m)
    /\ tx[m] \in {"none", "inserted"} => job[m] = "absent"

WorkerHoldsJob == \A m \in Msgs : worker[m] # "idle" <=> job[m] = "inflight"

MailHasRow == \A m \in Msgs :
    /\ worker[m] \in {"loaded", "accepted", "refused", "done"} => row[m] # "none"
    /\ mails[m] > 0 \/ job[m] = "deleted" => row[m] # "none"

SESHasMail == \A m \in Msgs :
    /\ worker[m] \in {"accepted", "done"} => mails[m] > 0
    /\ said[m] \cap Kinds # {} => mails[m] > 0
    /\ \A k \in Kinds : <<m, k>> \in notices => k \in said[m]

\* A job that may still lead to an email has a fault for every earlier copy.
CopiesPaidFor == \A m \in Msgs :
    /\ mails[m] <= faults[m] + 1
    /\ worker[m] \in {"loaded", "refused"} => mails[m] <= faults[m]
    /\ /\ worker[m] \in {"idle", "started"}
       /\ job[m] # "deleted"
       /\ row[m] # "deleted"
       => mails[m] <= faults[m]

DoneIsSettled == \A m \in Msgs :
    worker[m] = "done" \/ job[m] = "deleted" => row[m] # "sending"

\* A transaction that got past Publish without a job has met a fault.
JobUnlessFault == \A m \in Msgs :
    tx[m] \in {"published", "committed", "announced"} /\ job[m] = "absent" => faults[m] > 0

\* The strengthening the proofs use: every stage of the pipeline agrees with
\* the others on how far a message has got (rows, jobs, emails, notices).
IInv ==
    /\ TypeOK
    /\ RowFollowsTx
    /\ WorkerHoldsJob
    /\ MailHasRow
    /\ SESHasMail
    /\ SentIsAccepted
    /\ NegativeIsReported
    /\ CopiesPaidFor
    /\ DoneIsSettled
    /\ JobUnlessFault

=============================================================================
