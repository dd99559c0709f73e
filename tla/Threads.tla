------------------------------ MODULE Threads ------------------------------
(***************************************************************************)
(* PATCH of a thread (ThreadService, the threads Lambda).  A request runs  *)
(* up to three transactions, one per field it names.  The one for the      *)
(* status reads the old status, takes the row lock with its UPDATE,        *)
(* publishes thread.status_changed with old and new status and commits.    *)
(* Requests for one thread overlap, fail and die between any two steps.    *)
(* Listing threads and their labels is in ThreadListing.                   *)
(***************************************************************************)
EXTENDS Naturals

CONSTANTS
    Threads,
    Calls,       \* PATCH requests; their number bounds the instance
    Patches,     \* what a PATCH may name: records of new values, None if absent
    None

Statuses == {"open", "closed", "spam", "trash"}

ASSUME ThreadsAssumption ==
    Patches \subseteq [status  : Statuses \cup {None}, read : BOOLEAN \cup {None},
                       starred : BOOLEAN \cup {None}]

VARIABLES
    row,         \* the threads, as committed
    call,        \* the PATCH requests
    announced,   \* new_status of the last thread.status_changed event of a thread
    troubled,    \* threads whose last event was not published, or not committed
    earlier      \* history: the requests that had ended when a request began

vars == <<row, call, announced, troubled, earlier>>

Fields   == {"status", "read", "starred"}
Row      == [status : Statuses \cup {"none", "gone"}, read : BOOLEAN, starred : BOOLEAN]
Pcs      == {"idle", "status", "old", "updated", "published", "read", "starred", "ok", "failed"}
NoPatch  == [status |-> None, read |-> None, starred |-> None]
NewRow   == [status |-> "open", read |-> FALSE, starred |-> FALSE]

Exists(t) == row[t].status \in Statuses
Ended(c)  == call[c].pc \in {"ok", "failed"}

\* The row lock is held from the UPDATE of a status to its commit.
Free(t) == ~ \E c \in Calls : call[c].thread = t /\ call[c].pc \in {"updated", "published"}

Init ==
    /\ row = [t \in Threads |-> [NewRow EXCEPT !.status = "none"]]
    /\ call = [c \in Calls |-> [pc |-> "idle", thread |-> None, patch |-> NoPatch, old |-> None]]
    /\ announced = [t \in Threads |-> "none"]
    /\ troubled = {}
    /\ earlier = [c \in Calls |-> {}]

-----------------------------------------------------------------------------
(* A thread comes with its first message and goes with its inbox. *)
NewThread(t) ==
    /\ row[t].status = "none"
    /\ row' = [row EXCEPT ![t] = NewRow]
    /\ announced' = [announced EXCEPT ![t] = "open"]
    /\ UNCHANGED <<call, troubled, earlier>>

DeleteThread(t) ==
    /\ Exists(t) /\ Free(t)
    /\ row' = [row EXCEPT ![t].status = "gone"]
    /\ UNCHANGED <<call, announced, troubled, earlier>>

-----------------------------------------------------------------------------
(* PATCH /v1/inboxes/{inboxId}/threads/{threadId} *)

\* The transaction after the one at pc: fields in the order of the handler.
NextPc(patch, pc) ==
    IF pc = "begin" /\ patch.status # None THEN "status"
    ELSE IF pc \in {"begin", "status"} /\ patch.read # None THEN "read"
    ELSE IF pc # "starred" /\ patch.starred # None THEN "starred"
    ELSE "ok"

\* The handler has found the thread in the inbox.
PatchBegin(c, t, patch) ==
    /\ call[c].pc = "idle"
    /\ Exists(t)
    /\ patch # NoPatch
    /\ call' = [call EXCEPT ![c] = [pc |-> NextPc(patch, "begin"), thread |-> t,
                                    patch |-> patch, old |-> None]]
    /\ earlier' = [earlier EXCEPT ![c] = {o \in Calls : Ended(o)}]
    /\ UNCHANGED <<row, announced, troubled>>

\* UpdateStatus: GetByID, a plain read ...
ReadOldStatus(c) ==
    /\ call[c].pc = "status"
    /\ Exists(call[c].thread)
    /\ call' = [call EXCEPT ![c].pc = "old", ![c].old = row[call[c].thread].status]
    /\ UNCHANGED <<row, announced, troubled, earlier>>

\* ... the UPDATE, which waits for the row lock ...
UpdateStatus(c) ==
    /\ call[c].pc = "old"
    /\ Exists(call[c].thread) /\ Free(call[c].thread)
    /\ call' = [call EXCEPT ![c].pc = "updated"]
    /\ UNCHANGED <<row, announced, troubled, earlier>>

\* Mutant: no event if the status that was read is the new one.
PublishStatus_IfChanged(c) ==
    /\ call[c].pc = "updated"
    /\ IF call[c].old = call[c].patch.status THEN UNCHANGED announced
       ELSE announced' = [announced EXCEPT ![call[c].thread] = call[c].patch.status]
    /\ call' = [call EXCEPT ![c].pc = "published"]
    /\ UNCHANGED <<row, troubled, earlier>>

\* ... the event, still inside the transaction; its error is dropped ...
PublishStatus(c) ==
    /\ call[c].pc = "updated"
    /\ LET t == call[c].thread IN
          \/ /\ announced' = [announced EXCEPT ![t] = call[c].patch.status]
             /\ troubled' = troubled \ {t}
          \/ troubled' = troubled \cup {t} /\ UNCHANGED announced
    /\ call' = [call EXCEPT ![c].pc = "published"]
    /\ UNCHANGED <<row, earlier>>

\* Mutant: flags the patch does not name are written as their zero value.
WriteField_ZeroValues(c, field) ==
    LET t == call[c].thread
        v == call[c].patch[field]
    IN  row' = [row EXCEPT ![t] = [NewRow EXCEPT !.status = row[t].status, ![field] = v]]

\* store.Update sets the columns the patch names and no other.
WriteField(c, field) ==
    row' = [row EXCEPT ![call[c].thread][field] = call[c].patch[field]]

\* ... and the commit.
CommitStatus(c) ==
    /\ call[c].pc = "published"
    /\ WriteField(c, "status")
    /\ call' = [call EXCEPT ![c].pc = NextPc(call[c].patch, "status")]
    /\ UNCHANGED <<announced, troubled, earlier>>

\* MarkRead and MarkStarred: a transaction of one UPDATE.
MarkFlag(c, field) ==
    /\ call[c].pc = field
    /\ Exists(call[c].thread) /\ Free(call[c].thread)
    /\ WriteField(c, field)
    /\ call' = [call EXCEPT ![c].pc = NextPc(call[c].patch, field)]
    /\ UNCHANGED <<announced, troubled, earlier>>

\* A statement or a commit fails (the thread is gone, the status is not one of
\* the schema's, the connection breaks) or the Lambda dies.  What the request
\* has committed before stays, and so does an event that is out.
PatchFails(c) ==
    /\ call[c].pc \notin {"idle", "ok", "failed"}
    /\ call' = [call EXCEPT ![c].pc = "failed"]
    /\ troubled' = IF call[c].pc = "published" THEN troubled \cup {call[c].thread} ELSE troubled
    /\ UNCHANGED <<row, announced, earlier>>

-----------------------------------------------------------------------------
Patch(c) ==
    \/ \E t \in Threads, patch \in Patches : PatchBegin(c, t, patch)
    \/ ReadOldStatus(c) \/ UpdateStatus(c) \/ PublishStatus(c) \/ CommitStatus(c)
    \/ \E field \in {"read", "starred"} : MarkFlag(c, field)
    \/ PatchFails(c)

Next ==
    \/ \E t \in Threads : NewThread(t) \/ DeleteThread(t)
    \/ \E c \in Calls : Patch(c)

Spec == Init /\ [][Next]_vars

-----------------------------------------------------------------------------
TypeOK ==
    /\ row \in [Threads -> Row]
    /\ call \in [Calls -> [pc : Pcs, thread : Threads \cup {None}, patch : Patches \cup {NoPatch},
                           old : Statuses \cup {None}]]
    /\ announced \in [Threads -> Statuses \cup {"none"}]
    /\ troubled \in SUBSET Threads
    /\ earlier \in [Calls -> SUBSET Calls]

\* The thread.status_changed event that was sent last for a thread names its status,
\* however PATCH requests overlap, unless it was not published or its transaction
\* failed.  This is the order of sending: the queues behind it keep none.
AnnouncedInOrder == \A t \in Threads :
    Exists(t) /\ Free(t) /\ t \notin troubled => announced[t] = row[t].status

\* An answered PATCH is kept: a field it names has the value some request gave it that
\* names the field too and had not ended when the PATCH began.  Requests that overlap
\* on one thread merge; what one wrote is not undone by one that is about other
\* fields, nor by one that had ended, or died half way, before.
PatchIsKept == \A c \in Calls : LET t == call[c].thread IN
    call[c].pc = "ok" /\ Exists(t) =>
        \A f \in Fields : call[c].patch[f] # None =>
            \E o \in Calls \ earlier[c] : call[o].thread = t /\ call[o].patch[f] = row[t][f]
=============================================================================
