---------------------------- MODULE ReviewedMail ----------------------------
(***************************************************************************)
(* From the review of a draft to SES: DraftReview and Outbound put         *)
(* together.  An Approve is the producer of the job that email_outbound    *)
(* takes: the message it inserts, links and commits is the row that        *)
(* email_outbound loads, and the job it publishes before its commit is on  *)
(* the FIFO queue at once, when the row is not there yet.                  *)
(*                                                                         *)
(* A message is named by the call that made it.  The notices of SES, which *)
(* only change the status of a row that is there, and the deletion of an   *)
(* inbox, which takes drafts and messages together, are left to Outbound.  *)
(***************************************************************************)
EXTENDS DraftReview

CONSTANT MaxFaults      \* bound: faults per message, see Outbound

ASSUME PipeAssumption == MaxFaults \in Nat

VARIABLES row, job, worker, mails, said, mailEvents, faults    \* see Outbound

mailVars == <<row, job, worker, mails, said, mailEvents, faults>>
pipeVars == <<vars, mailVars>>

\* How far the transaction of an Approve has got with its message: inserted after
\* the attachments were listed, published with the draft row written and locked.
TxOf(c) ==
    IF call[c].op # "approve" THEN "none" ELSE
    CASE call[c].pc \in {"idle", "begun", "checked"}      -> "none"
      [] call[c].pc \in {"listed", "linked", "written"}   -> "inserted"
      [] call[c].pc = "ready"                             -> "published"
      [] call[c].pc = "committed"                         -> "committed"
      [] call[c].pc = "failed"                            -> "aborted"

Mail == INSTANCE Outbound WITH
    Msgs <- Calls, tx <- [c \in Calls |-> TxOf(c)], events <- mailEvents,
    notices <- {}

PipeInit == Init /\ Mail!Init

\* A job that was published is visible; a Publish that failed is a fault.
Published(c)     == c \in jobs' \ jobs
PublishFailed(c) == At(c, "approve", "written") /\ At(c, "approve", "ready")' /\ c \notin jobs'

\* Mutant: the message is inserted in a transaction of its own.
Handover_InsertsAlone ==
    /\ job' = [c \in Calls |-> IF Published(c) THEN "visible" ELSE job[c]]
    /\ row' = [c \in Calls |-> IF At(c, "approve", "listed")' THEN "sending" ELSE row[c]]
    /\ faults' = [c \in Calls |-> IF PublishFailed(c) THEN faults[c] + 1 ELSE faults[c]]
    /\ \A c \in Calls : faults'[c] <= MaxFaults
    /\ UNCHANGED <<worker, mails, said, mailEvents>>

\* What a step of the review does to the pipeline: the job is there with its
\* publication, the row with the commit.
Handover ==
    /\ job' = [c \in Calls |-> IF Published(c) THEN "visible" ELSE job[c]]
    /\ row' = [c \in Calls |-> IF c \in Messages' \ Messages THEN "sending" ELSE row[c]]
    /\ faults' = [c \in Calls |-> IF PublishFailed(c) THEN faults[c] + 1 ELSE faults[c]]
    /\ \A c \in Calls : faults'[c] <= MaxFaults
    /\ UNCHANGED <<worker, mails, said, mailEvents>>

\* email_outbound, SES and the queue.
MailStep(c) ==
    Mail!ReceiveJob(c) \/ Mail!ProcessRecord(c) \/ Mail!WorkerFault(c) \/ Mail!ExpireJob(c)

PipeNext ==
    \/ Next /\ Handover
    \/ UNCHANGED vars /\ \E c \in Calls : MailStep(c)

PipeSpec == PipeInit /\ [][PipeNext]_pipeVars

-----------------------------------------------------------------------------
\* Approve is a producer as Outbound takes it: everything Outbound states of
\* messages that Send makes holds of those that reviews make.
MailWorks == Mail!Spec

\* No email leaves for a draft that is still pending: neither the job, which is
\* published before the commit, nor a review that is rolled back, nor an update or
\* another review that overlaps it gets a draft sent that nobody approved.
EmailIsReviewed == \A c \in Calls : mails[c] > 0 =>
    c \in Messages /\ draft[call[c].draft].status # "pending"

\* With one call at a time, SES never gets an email of a rejected draft, and all
\* copies it gets of a draft are copies of one message.
ReviewIsObeyed == \A c, o \in Calls :
    mails[c] > 0 => /\ draft[call[c].draft].status \in {"approved", "deleted"}
                    /\ mails[o] > 0 /\ call[o].draft = call[c].draft => o = c

-----------------------------------------------------------------------------
(* The inductive invariant. *)

\* The queue has seen exactly the jobs that were published.
QueueHasJobs == \A c \in Calls : c \in jobs <=> job[c] # "absent"

\* The invariants of the two parts, and what joins them.
PipeInv == IInv /\ Mail!IInv /\ QueueHasJobs
=============================================================================
