--------------------------- MODULE OutboundProofs ---------------------------
(***************************************************************************)
(* Proofs that the outbound pipeline keeps its safety properties for any   *)
(* number of messages and any bound on faults.                             *)
(***************************************************************************)
EXTENDS Outbound, TLAPS

\* In the initial state nothing has been created, queued or sent.
LEMMA InitIInv == Init => IInv
  BY DEF Init, IInv, TypeOK, RowFollowsTx, WorkerHoldsJob, MailHasRow, SESHasMail,
         SentIsAccepted, NegativeIsReported, CopiesPaidFor, DoneIsSettled, JobUnlessFault,
         Committed, Present, RowStates, TxStates, JobStates, WorkerPcs, Kinds, Reports, EventTypes

\* A publication, successful or not, keeps the events well typed.
LEMMA PublishTyped ==
  ASSUME events \in [Msgs -> SUBSET EventTypes], NEW m \in Msgs, NEW type \in EventTypes,
         PublishEvent(m, type)
  PROVE  events' \in [Msgs -> SUBSET EventTypes]
  BY DEF PublishEvent

\* Applying a notice keeps the invariant whenever the status it writes is
\* backed by what SES did.
LEMMA NoticeStep ==
  ASSUME IInv, NEW m \in Msgs, NEW k \in Kinds, NEW status \in Present \ {"sending"},
         NEW type \in EventTypes, ApplyNotice(m, k, status, type),
         row[m] \in Present /\ status = "sent" => mails[m] > 0,
         status = "bounced" /\ row[m] # "bounced" => "Bounced" \in said[m],
         status = "failed" /\ row[m] # "failed"
            => said[m] \cap {"Refused", "Bounced", "Failed"} # {}
  PROVE  IInv'
<1> USE DEF IInv, RowFollowsTx, WorkerHoldsJob, MailHasRow, SESHasMail,
        SentIsAccepted, NegativeIsReported, CopiesPaidFor, DoneIsSettled, JobUnlessFault,
        Committed, Present
<1>1. TypeOK'
  <2>1. events' \in [Msgs -> SUBSET EventTypes]
    BY PublishTyped DEF ApplyNotice, TypeOK
  <2>2. row' \in [Msgs -> RowStates]
    BY DEF ApplyNotice, TypeOK, RowStates
  <2> QED
    BY <2>1, <2>2 DEF ApplyNotice, TypeOK
<1>2. \/ row' = row
      \/ row[m] \in Present /\ row' = [row EXCEPT ![m] = status]
  BY DEF ApplyNotice
<1>3. /\ notices' \subseteq notices
      /\ UNCHANGED <<tx, job, worker, mails, said, faults>>
  BY DEF ApplyNotice
<1>4. RowFollowsTx' /\ WorkerHoldsJob' /\ MailHasRow' /\ SESHasMail'
  BY <1>2, <1>3 DEF TypeOK
<1>5. SentIsAccepted' /\ NegativeIsReported' /\ DoneIsSettled'
  BY <1>2, <1>3 DEF TypeOK
<1>6. CopiesPaidFor' /\ JobUnlessFault'
  BY <1>2, <1>3 DEF TypeOK
<1> QED
  BY <1>1, <1>4, <1>5, <1>6

\* Every step of every process keeps the invariant.
LEMMA StepIInv == IInv /\ [Next]_vars => IInv'
<1> SUFFICES ASSUME IInv, [Next]_vars PROVE IInv'
  OBVIOUS
<1> USE OutboundAssumption
    DEF IInv, TypeOK, RowFollowsTx, WorkerHoldsJob, MailHasRow, SESHasMail,
        SentIsAccepted, NegativeIsReported, CopiesPaidFor, DoneIsSettled, JobUnlessFault,
        Committed, Present, RowStates, TxStates, JobStates, WorkerPcs, Kinds, Reports, EventTypes
<1>1. ASSUME NEW m \in Msgs, Send(m) \/ ReceiveJob(m) \/ ProcessRecord(m) \/ WorkerFault(m)
             \/ SESEvents(m) \/ Environment(m)
      PROVE  IInv'
  <2>1. CASE SendInsert(m)
    BY <2>1 DEF SendInsert
  <2>2. CASE SendPublish(m)
    BY <2>2 DEF SendPublish
  <2>3. CASE SendPublishFails(m)
    BY <2>3 DEF SendPublishFails, Fault
  <2>4. CASE SendCommit(m)
    BY <2>4 DEF SendCommit
  <2>5. CASE SendAbort(m)
    BY <2>5 DEF SendAbort
  <2>6. CASE SendAnnounce(m)
    BY <2>6 DEF SendAnnounce, PublishEvent, EventTypes
  <2>7. CASE ReceiveJob(m)
    BY <2>7 DEF ReceiveJob
  <2>8. CASE LoadMessage(m)
    BY <2>8 DEF LoadMessage
  <2>9. CASE LoadMissing(m)
    BY <2>9 DEF LoadMissing, ReturnJob
  <2>10. CASE SESAccept(m)
    BY <2>10 DEF SESAccept, Accept
  <2>11. CASE SESRefuse(m)
    <3>1. /\ said' \in [Msgs -> SUBSET Reports]
          /\ \A n \in Msgs : said'[n] \cap Kinds = said[n] \cap Kinds
          /\ \A n \in Msgs : said[n] \subseteq said'[n]
      BY <2>11 DEF SESRefuse
    <3>2. TypeOK' /\ RowFollowsTx' /\ WorkerHoldsJob'
      BY <2>11, <3>1 DEF SESRefuse, Fault, Accept
    <3>3. SESHasMail' /\ NegativeIsReported'
      BY <2>11, <3>1 DEF SESRefuse, Accept
    <3>4. MailHasRow' /\ SentIsAccepted' /\ DoneIsSettled'
      BY <2>11 DEF SESRefuse, Accept
    <3>5. CopiesPaidFor' /\ JobUnlessFault'
      BY <2>11 DEF SESRefuse, Fault, Accept
    <3> QED
      BY ONLY <3>1, <3>2, <3>3, <3>4, <3>5 DEF IInv
  <2>12. CASE RecordSent(m)
    <3>1. TypeOK'
      <4>1. events' \in [Msgs -> SUBSET EventTypes]
        BY <2>12, PublishTyped DEF RecordSent
      <4> QED
        BY <2>12, <4>1 DEF RecordSent, AdvanceToSent
    <3>2. RowFollowsTx' /\ WorkerHoldsJob' /\ MailHasRow' /\ SESHasMail'
      BY <2>12 DEF RecordSent, AdvanceToSent
    <3>3. SentIsAccepted'
      BY <2>12 DEF RecordSent, AdvanceToSent
    <3>4. NegativeIsReported'
      BY <2>12 DEF RecordSent, AdvanceToSent
    <3>5. DoneIsSettled'
      BY <2>12 DEF RecordSent, AdvanceToSent
    <3>6. CopiesPaidFor' /\ JobUnlessFault'
      BY <2>12 DEF RecordSent, AdvanceToSent
    <3> QED
      BY ONLY <3>1, <3>2, <3>3, <3>4, <3>5, <3>6 DEF IInv
  <2>13. CASE RecordSentMissing(m)
    BY <2>13 DEF RecordSentMissing, ReturnJob
  <2>14. CASE RecordSentFails(m)
    BY <2>14 DEF RecordSentFails, Fault, PublishEvent, EventTypes, ReturnJob
  <2>15. CASE RecordFailed(m)
    BY <2>15 DEF RecordFailed, PublishEvent, EventTypes, ReturnJob
  <2>16. CASE AckJob(m)
    BY <2>16 DEF AckJob
  <2>17. CASE Crash(m)
    BY <2>17 DEF Crash, Fault, ReturnJob
  <2>18. CASE ExpireJob(m)
    BY <2>18 DEF ExpireJob
  <2>19. CASE DeleteInbox(m)
    BY <2>19 DEF DeleteInbox
  <2>20. ASSUME NEW k \in Kinds, SESNotify(m, k) PROVE IInv'
    BY <2>20 DEF SESNotify
  <2>21. CASE EmailBounced(m)
    BY <2>21, NoticeStep DEF EmailBounced, ApplyNotice
  <2>22. CASE EmailFailed(m)
    BY <2>22, NoticeStep DEF EmailFailed, ApplyNotice
  <2>23. CASE EmailDelivered(m)
    <3>1. CASE row[m] \in Present
      <4>1. AdvanceToSent(row[m]) \in Present \ {"sending"}
        BY <3>1 DEF AdvanceToSent
      <4>2. mails[m] > 0
        BY <2>23 DEF EmailDelivered, ApplyNotice
      <4>3. /\ AdvanceToSent(row[m]) = "bounced" => row[m] = "bounced"
            /\ AdvanceToSent(row[m]) = "failed" => row[m] = "failed"
        BY DEF AdvanceToSent
      <4> QED
        BY <2>23, <4>1, <4>2, <4>3, NoticeStep DEF EmailDelivered
    <3>2. CASE row[m] \notin Present
      BY <2>23, <3>2 DEF EmailDelivered, ApplyNotice
    <3> QED
      BY ONLY <3>1, <3>2
  <2> QED
    BY ONLY <1>1, <2>1, <2>2, <2>3, <2>4, <2>5, <2>6, <2>7, <2>8, <2>9, <2>10, <2>11, <2>12,
       <2>13, <2>14, <2>15, <2>16, <2>17, <2>18, <2>19, <2>20, <2>21, <2>22, <2>23
       DEF Send, ProcessRecord, WorkerFault, SESEvents, Environment
<1>2. CASE UNCHANGED vars
  BY <1>2 DEF vars
<1> QED
  BY <1>1, <1>2 DEF Next

\* Type correctness of every reachable state.
THEOREM OutboundTypeOK == Spec => []TypeOK
<1>1. IInv => TypeOK
  BY DEF IInv
<1> QED
  BY <1>1, InitIInv, StepIInv, PTL DEF Spec

\* The pipeline never sends an email for a message that was not committed: the
\* job is published inside the transaction, and a worker that does not find the
\* row gives the job back.
THEOREM OutboundNoPhantomEmail == Spec => []NoPhantomEmail
<1>1. IInv => NoPhantomEmail
  BY DEF IInv, NoPhantomEmail, MailHasRow, RowFollowsTx
<1> QED
  BY <1>1, InitIInv, StepIInv, PTL DEF Spec

\* A row says 'sent' only if SES accepted an email for it, whichever of the
\* worker and the SES event handler wrote the status.
THEOREM OutboundSentIsAccepted == Spec => []SentIsAccepted
<1>1. IInv => SentIsAccepted
  BY DEF IInv
<1> QED
  BY <1>1, InitIInv, StepIInv, PTL DEF Spec

\* A 'bounced' row is backed by SES's report of a bounce and a 'failed' row by a
\* negative answer of SES, in any order of notices, crashes and redeliveries.
THEOREM OutboundNegativeIsReported == Spec => []NegativeIsReported
<1>1. IInv => NegativeIsReported
  BY DEF IInv
<1> QED
  BY <1>1, InitIInv, StepIInv, PTL DEF Spec

\* A row that says 'sending' has its job queued or in work, unless the queue dropped
\* it after its retention or Publish failed.
THEOREM OutboundSendingIsQueued == Spec => []SendingIsQueued
<1>1. IInv => SendingIsQueued
  BY DEF IInv, TypeOK, JobStates, SendingIsQueued, DoneIsSettled, JobUnlessFault, RowFollowsTx,
         Committed
<1> QED
  BY <1>1, InitIInv, StepIInv, PTL DEF Spec

\* Duplicate emails are bounded by the faults met: with no crash, SES error or
\* failed commit a message is sent at most once.
THEOREM OutboundDuplicates == Spec => []DuplicatesNeedFaults
<1>1. IInv => DuplicatesNeedFaults
  BY DEF IInv, CopiesPaidFor, DuplicatesNeedFaults
<1> QED
  BY <1>1, InitIInv, StepIInv, PTL DEF Spec

\* After the acknowledgement of its job a bounced or failed message keeps a
\* negative status for good.
THEOREM OutboundNegativeIsFinal == Spec => NegativeIsFinal
<1> DEFINE Final == \A m \in Msgs :
      /\ job[m] = "deleted"
      /\ row[m] \in {"bounced", "failed"}
      => row'[m] \in {"bounced", "failed", "deleted"}
<1>1. IInv /\ [Next]_vars => [Final]_vars
  <2> SUFFICES ASSUME IInv, Next PROVE Final
    BY DEF vars
  <2> SUFFICES ASSUME NEW n \in Msgs, job[n] = "deleted", row[n] \in {"bounced", "failed"}
               PROVE  row'[n] \in {"bounced", "failed", "deleted"}
    OBVIOUS
  <2> USE DEF IInv, TypeOK, RowFollowsTx, WorkerHoldsJob, Committed, Present
  <2>1. PICK m \in Msgs : \/ Send(m) \/ ReceiveJob(m) \/ ProcessRecord(m)
                         \/ WorkerFault(m) \/ SESEvents(m) \/ Environment(m)
    BY DEF Next
  <2>2. CASE Send(m)
    BY <2>2 DEF Send, SendInsert, SendPublish, SendPublishFails, SendCommit, SendAbort, SendAnnounce
  <2>3. CASE ReceiveJob(m) \/ WorkerFault(m) \/ Environment(m)
    BY <2>3 DEF ReceiveJob, WorkerFault, SESRefuse, RecordSentFails, Crash, Environment,
                ExpireJob, DeleteInbox, SESNotify
  <2>4. CASE ProcessRecord(m)
    BY <2>4 DEF ProcessRecord, LoadMessage, LoadMissing, SESAccept, RecordSent,
                RecordSentMissing, RecordFailed, AckJob, AdvanceToSent
  <2>5. CASE SESEvents(m)
    BY <2>5 DEF SESEvents, EmailBounced, EmailFailed, EmailDelivered, ApplyNotice, AdvanceToSent
  <2> QED
    BY <2>1, <2>2, <2>3, <2>4, <2>5
<1> QED
  BY <1>1, InitIInv, StepIInv, PTL DEF Spec, NegativeIsFinal
\* A step that neither acknowledges a job nor touches row, emails and reports is no
\* step of MessageOutcome.
LEMMA HiddenStep ==
  ASSUME IInv, NEW m \in Msgs, UNCHANGED <<row, mails, said>>,
         \/ UNCHANGED job
         \/ /\ job[m] # "deleted"
            /\ \E x \in JobStates \ {"deleted"} : job' = [job EXCEPT ![m] = x]
  PROVE  UNCHANGED Outcome!vars
<1>1. [n \in Msgs |-> job'[n] = "deleted"] = [n \in Msgs |-> job[n] = "deleted"]
  <2>1. ASSUME NEW n \in Msgs PROVE (job'[n] = "deleted") = (job[n] = "deleted")
    BY DEF IInv, TypeOK
  <2> QED
    BY <2>1
<1> QED
  BY <1>1 DEF Outcome!vars

\* Every step of the pipeline is a step of MessageOutcome or hidden from it.
LEMMA StepOutcome == IInv /\ [Next]_vars => [Outcome!Next]_Outcome!vars
<1> SUFFICES ASSUME IInv, [Next]_vars PROVE [Outcome!Next]_Outcome!vars
  OBVIOUS
<1>0. /\ row \in [Msgs -> RowStates] /\ job \in [Msgs -> JobStates]
      /\ \A m \in Msgs : worker[m] # "idle" <=> job[m] = "inflight"
  BY DEF IInv, TypeOK, WorkerHoldsJob
<1> USE DEF Outcome!Present, Present
<1>1. ASSUME NEW m \in Msgs, SendInsert(m) \/ SendPublish(m) \/ SendPublishFails(m)
                             \/ SendAbort(m) \/ SendAnnounce(m) \/ ReceiveJob(m) \/ ExpireJob(m)
      PROVE  UNCHANGED Outcome!vars
  <2>1. UNCHANGED <<row, mails, said>>
    BY <1>1 DEF SendInsert, SendPublish, SendPublishFails, SendAbort, SendAnnounce, ReceiveJob,
                ExpireJob
  <2>2. \/ UNCHANGED job
        \/ job[m] # "deleted" /\ \E x \in JobStates \ {"deleted"} : job' = [job EXCEPT ![m] = x]
    BY <1>1
       DEF SendInsert, SendPublish, SendPublishFails, SendAbort, SendAnnounce, ReceiveJob,
           ExpireJob, IInv, RowFollowsTx, JobStates
  <2> QED
    BY <2>1, <2>2, HiddenStep
<1>2. ASSUME NEW m \in Msgs, LoadMissing(m) \/ RecordSentMissing(m) \/ RecordFailed(m)
                             \/ RecordSentFails(m) \/ Crash(m)
      PROVE  UNCHANGED Outcome!vars
  <2>1. UNCHANGED <<row, mails, said>> /\ ReturnJob(m) /\ worker[m] # "idle"
    BY <1>2 DEF LoadMissing, RecordSentMissing, RecordFailed, RecordSentFails, Crash
  <2>2. job[m] # "deleted" /\ job' = [job EXCEPT ![m] = "visible"]
    BY <1>0, <2>1 DEF ReturnJob
  <2> QED
    BY <2>1, <2>2, HiddenStep DEF JobStates
<1>3. ASSUME NEW m \in Msgs, SendCommit(m) PROVE Outcome!Create(m)
  BY <1>0, <1>3 DEF SendCommit, Outcome!Create, IInv, RowFollowsTx, Committed
<1>4. ASSUME NEW m \in Msgs, LoadMessage(m) PROVE Outcome!Retry(m)
  <2>1. job[m] # "deleted"
    BY <1>0, <1>4 DEF LoadMessage
  <2> QED
    BY <1>4, <2>1 DEF LoadMessage, Outcome!Retry
<1>5. ASSUME NEW m \in Msgs, SESAccept(m) \/ SESRefuse(m)
      PROVE  Outcome!Submit(m) \/ Outcome!Refuse(m)
  <2>1. row[m] # "none" /\ job[m] # "deleted" /\ UNCHANGED <<row, job>>
    BY <1>0, <1>5 DEF SESAccept, SESRefuse, IInv, MailHasRow
  <2>2. CASE SESAccept(m)
    BY <2>1, <2>2 DEF SESAccept, Accept, Outcome!Submit
  <2>3. CASE SESRefuse(m)
    BY <2>1, <2>3 DEF SESRefuse, Accept, Outcome!Refuse
  <2> QED
    BY <1>5, <2>2, <2>3
\* RecordSent and the Delivered notice write 'sent' over 'sending' only.
<1>6. ASSUME NEW m \in Msgs, mails[m] > 0, row' = [row EXCEPT ![m] = AdvanceToSent(@)],
             UNCHANGED <<job, mails, said>>
      PROVE  Outcome!MarkSent(m) \/ UNCHANGED Outcome!vars
  <2>1. CASE row[m] = "sending"
    BY <1>6, <2>1 DEF AdvanceToSent, Outcome!MarkSent
  <2>2. CASE row[m] # "sending"
    BY <1>0, <1>6, <2>2 DEF AdvanceToSent, Outcome!vars
  <2> QED
    BY <2>1, <2>2
<1>7. ASSUME NEW m \in Msgs, RecordSent(m) \/ EmailDelivered(m)
      PROVE  Outcome!MarkSent(m) \/ UNCHANGED Outcome!vars
  <2>1. mails[m] > 0 /\ UNCHANGED <<job, mails, said>>
    BY <1>7 DEF RecordSent, EmailDelivered, ApplyNotice, IInv, SESHasMail, Kinds
  <2>2. CASE row' = [row EXCEPT ![m] = AdvanceToSent(@)]
    BY <1>6, <2>1, <2>2
  <2>3. CASE UNCHANGED row
    BY <2>1, <2>3 DEF Outcome!vars
  <2> QED
    BY <1>7, <2>2, <2>3 DEF RecordSent, EmailDelivered, ApplyNotice
<1>8. ASSUME NEW m \in Msgs, EmailBounced(m) \/ EmailFailed(m)
      PROVE  Outcome!MarkBounced(m) \/ Outcome!MarkFailed(m) \/ UNCHANGED Outcome!vars
  <2>1. UNCHANGED <<job, mails, said>>
    BY <1>8 DEF EmailBounced, EmailFailed, ApplyNotice
  <2>2. CASE UNCHANGED row
    BY <2>1, <2>2 DEF Outcome!vars
  <2>3. CASE EmailBounced(m) /\ row[m] \in Present
    BY <2>1, <2>3 DEF EmailBounced, ApplyNotice, IInv, SESHasMail, Kinds, Outcome!MarkBounced
  <2>4. CASE EmailFailed(m) /\ row[m] \in Present
    BY <2>1, <2>4 DEF EmailFailed, ApplyNotice, IInv, SESHasMail, Kinds, Outcome!MarkFailed
  <2> QED
    BY <1>8, <2>2, <2>3, <2>4 DEF EmailBounced, EmailFailed, ApplyNotice
<1>9. ASSUME NEW m \in Msgs, AckJob(m) PROVE Outcome!Settle(m)
  <2>1. row[m] \notin {"none", "sending"}
    BY <1>9 DEF AckJob, IInv, MailHasRow, DoneIsSettled
  <2>2. [n \in Msgs |-> job'[n] = "deleted"]
           = [[n \in Msgs |-> job[n] = "deleted"] EXCEPT ![m] = TRUE]
    <3>1. ASSUME NEW n \in Msgs
          PROVE  (job'[n] = "deleted") = IF n = m THEN TRUE ELSE job[n] = "deleted"
      BY <1>0, <1>9 DEF AckJob
    <3> QED
      BY <3>1
  <2> QED
    BY <1>9, <2>1, <2>2 DEF AckJob, Outcome!Settle
<1>10. ASSUME NEW m \in Msgs, NEW k \in Kinds, SESNotify(m, k) PROVE Outcome!Report(m, k)
  BY <1>10 DEF SESNotify, Outcome!Report
<1>11. ASSUME NEW m \in Msgs, DeleteInbox(m) PROVE Outcome!Delete(m)
  BY <1>11 DEF DeleteInbox, Outcome!Delete
<1>12. ASSUME NEW m \in Msgs, \/ Send(m) \/ ReceiveJob(m) \/ ProcessRecord(m)
                              \/ WorkerFault(m) \/ SESEvents(m) \/ Environment(m)
       PROVE  [Outcome!Next]_Outcome!vars
  <2> USE DEF Outcome!Next
  <2>1. CASE Send(m)
    BY <1>1, <1>3, <2>1 DEF Send
  <2>2. CASE ReceiveJob(m) \/ ProcessRecord(m)
    BY <1>1, <1>2, <1>4, <1>5, <1>7, <1>9, <2>2 DEF ProcessRecord
  <2>3. CASE WorkerFault(m)
    BY <1>2, <1>5, <2>3 DEF WorkerFault
  <2>4. CASE SESEvents(m)
    BY <1>7, <1>8, <2>4 DEF SESEvents
  <2>5. CASE Environment(m)
    BY <1>1, <1>10, <1>11, <2>5 DEF Environment, Kinds, Outcome!Outcomes
  <2> QED
    BY <1>12, <2>1, <2>2, <2>3, <2>4, <2>5
<1>13. CASE UNCHANGED vars
  BY <1>13 DEF vars, Outcome!vars
<1> QED
  BY <1>12, <1>13 DEF Next

\* The pipeline implements MessageOutcome: a reader of the status is told nothing that
\* SES has not said, and nothing happens to a message once it is settled but late
\* notices and its deletion.
THEOREM OutboundOutcomeIsTrue == Spec => OutcomeIsTrue
<1>1. Init => Outcome!Init
  BY DEF Init, Outcome!Init
<1> QED
  BY <1>1, InitIInv, StepIInv, StepOutcome, PTL DEF Spec, OutcomeIsTrue, Outcome!Spec
=============================================================================
