---------------------------- MODULE DraftReview ----------------------------
(***************************************************************************)
(* Drafts and their review: DraftService (Create, Update, Delete, Approve, *)
(* Reject) as called by the drafts Lambda, and the scheduler_drafts Lambda *)
(* that approves scheduled drafts by itself.                               *)
(*                                                                         *)
(* Every call runs one PostgreSQL transaction at READ COMMITTED: a read    *)
(* sees the rows committed so far, an UPDATE or DELETE waits for the row   *)
(* lock and then works on the row as last committed, and nothing of a      *)
(* transaction is visible before its commit.  No query takes a lock to     *)
(* read (there is no SELECT ... FOR UPDATE) and no UPDATE repeats the      *)
(* status check in its WHERE clause.                                       *)
(*                                                                         *)
(* A call is identified with the message UUID it generates (Approve) and   *)
(* with the content it uploads or writes (Update): both are fresh.         *)
(***************************************************************************)
EXTENDS Naturals, FiniteSets

CONSTANTS
    Drafts,      \* draft UUIDs
    Scheduled,   \* the drafts that have a scheduled_at
    Calls,       \* API and scheduler calls; their number bounds the instance
    Original,    \* content a draft is created with
    None,        \* NULL
    Serial       \* TRUE: one call at a time; FALSE: calls overlap

ASSUME DraftAssumption ==
    /\ Scheduled \subseteq Drafts
    /\ Original \notin Calls
    /\ None \notin Calls \cup Drafts \cup {Original}
    /\ Serial \in BOOLEAN

VARIABLES
    draft,       \* committed rows of drafts: review status, content, message_id
    attached,    \* drafts that own attachment rows (draft_id = the draft)
    object,      \* content of the S3 object under the draft's attachment key
    call,        \* the calls and what each has read and locked
    jobs,        \* messages for which an outbound job was published
    events,      \* calls that published draft.approved or draft.rejected
    batch        \* drafts the running scheduler has still to approve

vars == <<draft, attached, object, call, jobs, events, batch>>

Contents == Calls \cup {Original}
Statuses == {"absent", "pending", "approved", "rejected", "deleted"}
Ops      == {"none", "approve", "reject", "update", "delete"}
Modes    == {"keep", "clear", "replace"}   \* req.Attachments: nil, empty, given
Pcs      == {"idle", "begun", "checked", "listed", "linked", "written", "ready",
             "committed", "failed"}

Row  == [status : Statuses, text : Contents, msg : Calls \cup {None}]
Call == [pc : Pcs, op : Ops, draft : Drafts \cup {None}, mode : Modes,
         scheduler : BOOLEAN,
         text : Contents,        \* content read with the draft
         flag : BOOLEAN,         \* attachments were listed (has_attachments)
         held : BOOLEAN]         \* attachment rows linked or deleted, and locked

Idle == [pc |-> "idle", op |-> "none", draft |-> None, mode |-> "keep",
         scheduler |-> FALSE, text |-> Original, flag |-> FALSE, held |-> FALSE]

Init ==
    /\ draft = [d \in Drafts |-> [status |-> "absent", text |-> Original, msg |-> None]]
    /\ attached = {}
    /\ object = [d \in Drafts |-> None]
    /\ call = [c \in Calls |-> Idle]
    /\ jobs = {}
    /\ events = {}
    /\ batch = {}

Exists(d)  == draft[d].status \in {"pending", "approved", "rejected"}
Active(c)  == call[c].pc \notin {"idle", "committed", "failed"}
At(c, op, pc) == call[c].op = op /\ call[c].pc = pc

\* Row locks: the draft row from the UPDATE or DELETE on, attachment rows from
\* the statement that touched them on, both to the end of the transaction.
HoldsRow(c)  == call[c].pc \in {"written", "ready"}
HoldsAtts(c) == Active(c) /\ call[c].held
RowFree(c)   == ~ \E o \in Calls \ {c} : HoldsRow(o) /\ call[o].draft = call[c].draft
AttsFree(c)  == ~ \E o \in Calls \ {c} : HoldsAtts(o) /\ call[o].draft = call[c].draft

\* The messages the calls have committed, and those made from draft d.
Messages    == {c \in Calls : At(c, "approve", "committed")}
MessagesOf(d) == {c \in Messages : call[c].draft = d}

-----------------------------------------------------------------------------
(* DraftService.Create: a fresh row, so nothing can interfere. *)
Create(d) ==
    /\ draft[d].status = "absent"
    /\ draft' = [draft EXCEPT ![d].status = "pending"]
    /\ \/ /\ attached' = attached \cup {d}
          /\ object' = [object EXCEPT ![d] = Original]
       \/ UNCHANGED <<attached, object>>
    /\ UNCHANGED <<call, jobs, events, batch>>

\* Mutant: the attachments are uploaded after the transaction.
Begin_UploadsLater(c, op, d, mode) ==
    /\ call[c].pc = "idle"
    /\ Exists(d)
    /\ Serial => \A o \in Calls : ~ Active(o)
    /\ op # "update" => mode = "keep"
    /\ call' = [call EXCEPT ![c] = [Idle EXCEPT !.pc = "begun", !.op = op,
                                                !.draft = d, !.mode = mode]]
    /\ UNCHANGED <<draft, attached, object, jobs, events, batch>>

\* The drafts Lambda has loaded the draft (404 otherwise) and calls the service.
\* An update uploads its attachments first, under a key made of draft and file
\* name, before the transaction that checks the review status.
Begin(c, op, d, mode) ==
    /\ call[c].pc = "idle"
    /\ Exists(d)
    /\ Serial => \A o \in Calls : ~ Active(o)
    /\ op # "update" => mode = "keep"
    /\ call' = [call EXCEPT ![c] = [Idle EXCEPT !.pc = "begun", !.op = op,
                                                !.draft = d, !.mode = mode]]
    /\ object' = [object EXCEPT ![d] = IF mode = "replace" THEN c ELSE @]
    /\ UNCHANGED <<draft, attached, jobs, events, batch>>

\* scheduler_drafts: one query for due pending drafts (some of the scheduled ones,
\* as time goes by), then one Approve after the other; failures are skipped.
SchedulerQuery ==
    /\ batch = {}
    /\ \E due \in SUBSET {d \in Scheduled : draft[d].status = "pending"} :
          due # {} /\ batch' = due
    /\ UNCHANGED <<draft, attached, object, call, jobs, events>>

SchedulerApprove(c, d) ==
    /\ d \in batch
    /\ call[c].pc = "idle"
    /\ \A o \in Calls : call[o].scheduler => ~ Active(o)
    /\ Serial => \A o \in Calls : ~ Active(o)
    /\ batch' = batch \ {d}
    /\ call' = [call EXCEPT ![c] = [Idle EXCEPT !.pc = "begun", !.op = "approve",
                                                !.draft = d, !.scheduler = TRUE]]
    /\ UNCHANGED <<draft, attached, object, jobs, events>>

-----------------------------------------------------------------------------
Goto(c, pc) == call' = [call EXCEPT ![c].pc = pc]

\* Mutant: any draft that exists can be reviewed or edited.
CheckPending_AnyStatus(c) ==
    /\ call[c].op \in {"approve", "reject", "update"}
    /\ call[c].pc = "begun"
    /\ IF Exists(call[c].draft) THEN Goto(c, "checked") ELSE Goto(c, "failed")
    /\ UNCHANGED <<draft, attached, object, jobs, events, batch>>

\* GetByID and the status check: Approve, Reject and Update need 'pending'.
CheckPending(c) ==
    /\ call[c].op \in {"approve", "reject", "update"}
    /\ call[c].pc = "begun"
    /\ LET row == draft[call[c].draft] IN
          IF row.status = "pending"
             THEN call' = [call EXCEPT ![c].pc = "checked", ![c].text = row.text]
             ELSE Goto(c, "failed")       \* ErrNoRows, ErrInvalidReviewStatus
    /\ UNCHANGED <<draft, attached, object, jobs, events, batch>>

\* Approve: ListDraftAttachments, then the message is inserted with that flag.
ApproveList(c) ==
    /\ At(c, "approve", "checked")
    /\ call' = [call EXCEPT ![c].pc = "listed", ![c].flag = call[c].draft \in attached]
    /\ UNCHANGED <<draft, attached, object, jobs, events, batch>>

\* Mutant: the rows are linked by the ids that were listed, wherever they are now.
ApproveLink_ByListedIds(c) ==
    /\ At(c, "approve", "listed")
    /\ call' = [call EXCEPT ![c].pc = "linked", ![c].held = call[c].flag]
    /\ UNCHANGED <<draft, attached, object, jobs, events, batch>>

\* An Update that has deleted the attachment rows of the draft and not yet committed.
Replacing(d) == \E o \in Calls : At(o, "update", "ready") /\ call[o].draft = d /\ call[o].held

\* LinkDraftAttachments moves the rows that are the draft's when the UPDATE runs.  One
\* that has to wait for a replacing Update moves none: the rows it waits for are gone
\* then, and its snapshot has no new ones.  (The wait itself is the one of WriteRow:
\* the Update holds the draft row as long.  An Update rolled back after all leaves the
\* rows to move; that this outcome may miss them too is an abstraction.)
ApproveLink(c) ==
    /\ At(c, "approve", "listed")
    /\ \E moved \in BOOLEAN :
          /\ IF moved THEN call[c].flag /\ call[c].draft \in attached /\ AttsFree(c)
                      ELSE \/ ~ (call[c].flag /\ call[c].draft \in attached)
                           \/ Replacing(call[c].draft)
          /\ call' = [call EXCEPT ![c].pc = "linked", ![c].held = moved]
    /\ UNCHANGED <<draft, attached, object, jobs, events, batch>>

\* Mutant: a row that is gone is not an error, the UPDATE is tried again.
WriteRow_Retries(c) ==
    /\ \/ At(c, "approve", "linked") \/ At(c, "reject", "checked")
       \/ At(c, "update", "checked") \/ At(c, "delete", "begun")
    /\ RowFree(c) /\ Exists(call[c].draft)
    /\ Goto(c, "written")
    /\ UNCHANGED <<draft, attached, object, jobs, events, batch>>

\* draftStore.Update (UPDATE ... RETURNING) and draftStore.Delete: take the row
\* lock; a row that is gone is an error, the status is not looked at again.
WriteRow(c) ==
    /\ \/ At(c, "approve", "linked") \/ At(c, "reject", "checked")
       \/ At(c, "update", "checked") \/ At(c, "delete", "begun")
    /\ RowFree(c)
    /\ IF Exists(call[c].draft) THEN Goto(c, "written") ELSE Goto(c, "failed")
    /\ UNCHANGED <<draft, attached, object, jobs, events, batch>>

\* Approve publishes the outbound job and its event before the commit, Reject its
\* event; errors are dropped.
ApprovePublish(c) ==
    /\ At(c, "approve", "written")
    /\ jobs' \in {jobs, jobs \cup {c}}
    /\ events' \in {events, events \cup {c}}
    /\ Goto(c, "ready")
    /\ UNCHANGED <<draft, attached, object, batch>>

RejectPublish(c) ==
    /\ At(c, "reject", "written")
    /\ events' \in {events, events \cup {c}}
    /\ Goto(c, "ready")
    /\ UNCHANGED <<draft, attached, object, jobs, batch>>

\* Update with attachments: DeleteDraftAttachments and re-insert; Delete: ON DELETE
\* CASCADE.
Touches(c) == call[c].op = "delete" \/ (call[c].op = "update" /\ call[c].mode # "keep")

ReplaceAttachments(c) ==
    /\ At(c, "update", "written") \/ At(c, "delete", "written")
    /\ Touches(c) => AttsFree(c)
    /\ call' = [call EXCEPT ![c].pc = "ready",
                            ![c].held = Touches(c) /\ call[c].draft \in attached]
    /\ UNCHANGED <<draft, attached, object, jobs, events, batch>>

\* Mutants: message_id is not written; an edit reopens the review.
CommitApprove_NoMessage(c) ==
    /\ At(c, "approve", "ready")
    /\ draft' = [draft EXCEPT ![call[c].draft].status = "approved"]
    /\ attached' = IF call[c].held THEN attached \ {call[c].draft} ELSE attached
    /\ Goto(c, "committed")
    /\ UNCHANGED <<object, jobs, events, batch>>

CommitUpdate_Reopens(c) ==
    /\ At(c, "update", "ready")
    /\ draft' = [draft EXCEPT ![call[c].draft].text = c, ![call[c].draft].status = "pending"]
    /\ Goto(c, "committed")
    /\ UNCHANGED <<attached, object, jobs, events, batch>>

\* The commits: the row as last committed, with the patched columns.
CommitApprove(c) ==
    /\ At(c, "approve", "ready")
    /\ draft' = [draft EXCEPT ![call[c].draft].status = "approved", ![call[c].draft].msg = c]
    /\ attached' = IF call[c].held THEN attached \ {call[c].draft} ELSE attached
    /\ Goto(c, "committed")
    /\ UNCHANGED <<object, jobs, events, batch>>

CommitReject(c) ==
    /\ At(c, "reject", "ready")
    /\ draft' = [draft EXCEPT ![call[c].draft].status = "rejected"]
    /\ Goto(c, "committed")
    /\ UNCHANGED <<attached, object, jobs, events, batch>>

CommitUpdate(c) ==
    /\ At(c, "update", "ready")
    /\ draft' = [draft EXCEPT ![call[c].draft].text = c]
    /\ attached' = CASE call[c].mode = "keep"    -> attached
                     [] call[c].mode = "clear"   -> attached \ {call[c].draft}
                     [] call[c].mode = "replace" -> attached \cup {call[c].draft}
    /\ Goto(c, "committed")
    /\ UNCHANGED <<object, jobs, events, batch>>

CommitDelete(c) ==
    /\ At(c, "delete", "ready")
    /\ draft' = [draft EXCEPT ![call[c].draft].status = "deleted"]
    /\ attached' = attached \ {call[c].draft}
    /\ Goto(c, "committed")
    /\ UNCHANGED <<object, jobs, events, batch>>

\* A statement or the commit fails, or the Lambda dies: WithTx rolls back.
Rollback(c) ==
    /\ Active(c)
    /\ Goto(c, "failed")
    /\ UNCHANGED <<draft, attached, object, jobs, events, batch>>

\* Approve locks attachments before the draft, Update and Delete the draft before
\* attachments.  PostgreSQL aborts a transaction that closes such a cycle.
WaitsForRow(c)  == (At(c, "approve", "linked") \/ At(c, "reject", "checked")
                    \/ At(c, "update", "checked") \/ At(c, "delete", "begun")) /\ ~ RowFree(c)
WaitsForAtts(c) == call[c].pc = "written" /\ Touches(c) /\ ~ AttsFree(c)

Deadlocked(c, o) == /\ WaitsForAtts(c)
                    /\ WaitsForRow(o) /\ HoldsAtts(o)
                    /\ call[o].draft = call[c].draft

DeadlockAbort(c) ==
    /\ \E o \in Calls : Deadlocked(c, o) \/ Deadlocked(o, c)
    /\ Goto(c, "failed")
    /\ UNCHANGED <<draft, attached, object, jobs, events, batch>>

-----------------------------------------------------------------------------
Step(c) ==
    \/ CheckPending(c) \/ ApproveList(c) \/ ApproveLink(c) \/ WriteRow(c)
    \/ ApprovePublish(c) \/ RejectPublish(c) \/ ReplaceAttachments(c)
    \/ CommitApprove(c) \/ CommitReject(c) \/ CommitUpdate(c) \/ CommitDelete(c)
    \/ DeadlockAbort(c)

Next ==
    \/ \E d \in Drafts : Create(d)
    \/ \E c \in Calls, d \in Drafts, m \in Modes, op \in Ops \ {"none"} : Begin(c, op, d, m)
    \/ SchedulerQuery
    \/ \E c \in Calls, d \in Drafts : SchedulerApprove(c, d)
    \/ \E c \in Calls : Step(c) \/ Rollback(c)

Spec == Init /\ [][Next]_vars

-----------------------------------------------------------------------------
TypeOK ==
    /\ draft \in [Drafts -> Row]
    /\ attached \in SUBSET Drafts
    /\ object \in [Drafts -> Contents \cup {None}]
    /\ call \in [Calls -> Call]
    /\ jobs \in SUBSET Calls
    /\ events \in SUBSET Calls
    /\ batch \in SUBSET Drafts

\* Approval is atomic and final: as long as a draft is pending no message was
\* made from it, whatever reviews, updates and deletions overlap.
PendingHasNoMessage == \A d \in Drafts :
    draft[d].status = "pending" => MessagesOf(d) = {}

\* An approved draft names a message that exists and was made from that draft.
ApprovedHasMessage == \A d \in Drafts :
    draft[d].status = "approved" => draft[d].msg \in MessagesOf(d)

\* At most one transaction at a time has written a draft row it has not
\* committed, and no two move or delete the same attachment rows.
LocksExclude == \A c, o \in Calls :
    c # o /\ call[c].draft = call[o].draft =>
        /\ ~ (HoldsRow(c) /\ HoldsRow(o))
        /\ ~ (HoldsAtts(c) /\ HoldsAtts(o))

\* Even if a draft is approved twice its attachments go to one of the messages
\* only, unless an update gave the draft new ones (LinkDraftAttachments).
Replacements(d) == {c \in Calls : /\ At(c, "update", "committed")
                                  /\ call[c].draft = d /\ call[c].mode = "replace"}
AttachmentsLinkedOnce == \A d \in Drafts :
    Cardinality({c \in MessagesOf(d) : call[c].held}) <= 1 + Cardinality(Replacements(d))

\* An attachment row, the draft's or a message's, never names an object that is
\* not in S3: uploads come before the rows, and no rollback takes them back.
AttachmentHasObject == \A d \in Drafts :
    d \in attached \/ (\E c \in MessagesOf(d) : call[c].held) => object[d] # None

\* No call waits for ever: as long as calls are active one of them can take a
\* step, however their lock waits form chains and cycles.
NoCallIsStuck == (\E c \in Calls : Active(c)) => \E c \in Calls : Active(c) /\ ENABLED Step(c)

-----------------------------------------------------------------------------
(* The inductive invariants. *)

\* A call that has begun names a draft, and that draft was created.
CallHasDraft == \A c \in Calls : call[c].pc # "idle" =>
    /\ call[c].draft \in Drafts
    /\ call[c].op # "none"
    /\ draft[call[c].draft].status # "absent"

\* The scheduler holds drafts that were created.
BatchIsCreated == \A d \in batch : draft[d].status # "absent"

\* Nobody deletes a row under the lock of another transaction.
LockedRowExists == \A c \in Calls : HoldsRow(c) => Exists(call[c].draft)

\* The strengthening the proofs use: locks, rows and committed messages agree
\* after every interleaving of calls.
IInv ==
    /\ TypeOK
    /\ CallHasDraft
    /\ BatchIsCreated
    /\ LockedRowExists
    /\ LocksExclude
    /\ PendingHasNoMessage
    /\ ApprovedHasMessage

\* With one call at a time the status a call has checked is still the status
\* when it commits.
CheckIsFresh == Serial => \A c \in Calls :
    /\ Active(c) => \A o \in Calls \ {c} : ~ Active(o)
    /\ /\ call[c].op # "delete"
       /\ call[c].pc \in {"checked", "listed", "linked", "written", "ready"}
       => draft[call[c].draft].status = "pending"

-----------------------------------------------------------------------------
(* What the review promises.  It is kept when calls come one at a time and  *)
(* broken when two of them overlap.                                         *)

Decision == INSTANCE ReviewDecision WITH
    Messages <- Calls,
    status <- [d \in Drafts |-> draft[d].status],
    sent <- [d \in Drafts |-> MessagesOf(d)]

\* Every draft is decided once, as ReviewDecision states it.
DecidedOnce == Decision!Spec

\* What was sent is what the approved draft shows: the text Approve read is the
\* text of the row, and has_attachments says whether attachments were linked.
SentAsReviewed == \A d \in Drafts :
    draft[d].status = "approved" =>
        LET m == call[draft[d].msg] IN m.text = draft[d].text /\ m.flag = m.held

\* tests/integration/api_test.go: approving an approved draft is refused, so a
\* draft is sent at most once.
SentAtMostOnce == \A d \in Drafts : Cardinality(MessagesOf(d)) <= 1
=============================================================================
