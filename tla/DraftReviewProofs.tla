------------------------- MODULE DraftReviewProofs -------------------------
(***************************************************************************)
(* Proofs about the review of drafts, for any number of drafts and calls:  *)
(* what overlapping calls cannot break, that calls which come one at a     *)
(* time implement ReviewDecision, and that the review together with        *)
(* email_outbound implements Outbound.                                     *)
(***************************************************************************)
EXTENDS ReviewedMail, FiniteSetTheorems, TLAPS

\* In the initial state there is no draft and no call has begun.
LEMMA InitIInv == Init => IInv /\ CheckIsFresh
  BY DraftAssumption
     DEF Init, IInv, TypeOK, CallHasDraft, BatchIsCreated, LockedRowExists, LocksExclude,
         PendingHasNoMessage, ApprovedHasMessage, CheckIsFresh, Idle, Row, Call, Contents,
         Statuses, Ops, Modes, Pcs, HoldsRow, HoldsAtts, Active, Exists

\* A step that only moves one call on, from an active state to one that is not
\* committed and takes no lock, keeps the invariant.
LEMMA MoveOn ==
  ASSUME IInv, NEW c \in Calls, Active(c),
         UNCHANGED <<draft, attached, object, batch>>,
         NEW r \in Call, call' = [call EXCEPT ![c] = r],
         r.pc \in {"checked", "listed", "linked", "written", "ready", "failed"},
         r.op = call[c].op, r.draft = call[c].draft,
         r.pc \in {"written", "ready"} => Exists(r.draft) /\ (HoldsRow(c) \/ RowFree(c)),
         r.held => call[c].held \/ AttsFree(c),
         jobs' \in SUBSET Calls, events' \in SUBSET Calls
  PROVE  IInv'
<1> USE DEF IInv, Active, HoldsRow, HoldsAtts
<1>1. TypeOK'
  BY DEF TypeOK
<1>2. CallHasDraft' /\ BatchIsCreated'
  BY DEF CallHasDraft, BatchIsCreated, TypeOK
<1>3. LockedRowExists'
  BY DEF LockedRowExists, TypeOK, Exists
<1>4. LocksExclude'
  BY DEF LocksExclude, TypeOK, RowFree, AttsFree
<1>5. \A d \in Drafts : MessagesOf(d)' = MessagesOf(d)
  BY DEF MessagesOf, Messages, At, TypeOK
<1>6. PendingHasNoMessage' /\ ApprovedHasMessage'
  BY <1>5 DEF PendingHasNoMessage, ApprovedHasMessage
<1> QED
  BY <1>1, <1>2, <1>3, <1>4, <1>6

\* A commit by the transaction that holds the row lock keeps the invariant: the
\* row is its own until then, so nobody else's decision is lost half-way.
LEMMA CommitStep ==
  ASSUME IInv, NEW c \in Calls, call[c].pc = "ready", NEW r \in Row,
         r.status \in {"pending", "approved", "rejected", "deleted"},
         draft' = [draft EXCEPT ![call[c].draft] = r],
         call' = [call EXCEPT ![c].pc = "committed"],
         r.status = "pending" => draft[call[c].draft].status = "pending" /\ call[c].op # "approve",
         r.status = "approved" =>
            \/ call[c].op = "approve" /\ r.msg = c
            \/ draft[call[c].draft].status = "approved" /\ r.msg = draft[call[c].draft].msg,
         attached' \in SUBSET Drafts, UNCHANGED <<object, jobs, events, batch>>
  PROVE  IInv'
<1> USE DEF IInv, Active, HoldsRow, HoldsAtts
<1>0. call[c].draft \in Drafts
  BY DEF CallHasDraft
<1>1. TypeOK'
  BY <1>0 DEF TypeOK, Call, Pcs
<1>2. CallHasDraft' /\ BatchIsCreated'
  BY <1>0 DEF CallHasDraft, BatchIsCreated, TypeOK, Call
<1>3. LockedRowExists'
  <2> SUFFICES ASSUME NEW o \in Calls, HoldsRow(o)' PROVE Exists(call[o].draft)'
    BY DEF LockedRowExists
  <2>1. o # c /\ HoldsRow(o) /\ call'[o] = call[o]
    BY DEF TypeOK, Call
  <2>2. call[o].draft # call[c].draft
    BY <2>1 DEF LocksExclude
  <2> QED
    BY <2>1, <2>2, <1>0 DEF LockedRowExists, Exists, TypeOK
<1>4. LocksExclude'
  BY DEF LocksExclude, TypeOK, Call
<1>5. \A d \in Drafts : MessagesOf(d)' =
        IF d = call[c].draft /\ call[c].op = "approve"
           THEN MessagesOf(d) \cup {c} ELSE MessagesOf(d)
  BY DEF MessagesOf, Messages, At, TypeOK, Call
<1>6. PendingHasNoMessage' /\ ApprovedHasMessage'
  BY <1>0, <1>5 DEF PendingHasNoMessage, ApprovedHasMessage, TypeOK, Row
<1> QED
  BY <1>1, <1>2, <1>3, <1>4, <1>6

\* A call that begins on an existing draft holds no lock and has no message yet.
LEMMA BeginStep ==
  ASSUME IInv, NEW c \in Calls, call[c].pc = "idle", NEW r \in Call,
         r.pc = "begun", r.op # "none", r.held = FALSE, r.draft \in Drafts,
         draft[r.draft].status # "absent",
         call' = [call EXCEPT ![c] = r],
         object' \in [Drafts -> Contents \cup {None}], batch' \subseteq batch,
         UNCHANGED <<draft, attached, jobs, events>>
  PROVE  IInv'
<1> USE DEF IInv, Active, HoldsRow, HoldsAtts
<1>1. TypeOK'
  BY DEF TypeOK
<1>2. CallHasDraft' /\ BatchIsCreated'
  BY DEF CallHasDraft, BatchIsCreated, TypeOK
<1>3. LockedRowExists' /\ LocksExclude'
  BY DEF LockedRowExists, TypeOK, Exists, LocksExclude
<1>4. \A d \in Drafts : MessagesOf(d)' = MessagesOf(d)
  BY DEF MessagesOf, Messages, At, TypeOK
<1>5. PendingHasNoMessage' /\ ApprovedHasMessage'
  BY <1>4 DEF PendingHasNoMessage, ApprovedHasMessage
<1> QED
  BY <1>1, <1>2, <1>3, <1>5

\* Every step of every call, of the scheduler and of Create keeps the invariant.
LEMMA StepIInv == IInv /\ [Next]_vars => IInv'
<1> SUFFICES ASSUME IInv, [Next]_vars PROVE IInv'
  OBVIOUS
<1>1. ASSUME NEW d \in Drafts, Create(d) PROVE IInv'
  <2> USE <1>1 DEF IInv, Create
  <2>1. TypeOK'
    BY DEF TypeOK, Row, Statuses, Contents
  <2>2. \A c \in Calls : call[c].pc # "idle" => call[c].draft # d
    BY DEF CallHasDraft
  <2>3. CallHasDraft' /\ BatchIsCreated' /\ LockedRowExists'
    BY <2>2 DEF CallHasDraft, BatchIsCreated, LockedRowExists, HoldsRow, Exists, TypeOK, Row
  <2>4. LocksExclude'
    BY DEF LocksExclude, HoldsRow, HoldsAtts, Active
  <2>5. PendingHasNoMessage' /\ ApprovedHasMessage'
    BY <2>2 DEF PendingHasNoMessage, ApprovedHasMessage, MessagesOf, Messages, At, TypeOK, Row
  <2> QED
    BY <2>1, <2>3, <2>4, <2>5
<1>2. ASSUME NEW c \in Calls, NEW op \in Ops \ {"none"}, NEW d \in Drafts, NEW mode \in Modes,
             Begin(c, op, d, mode)
      PROVE  IInv'
  <2> DEFINE r == [Idle EXCEPT !.pc = "begun", !.op = op, !.draft = d, !.mode = mode]
  <2>1. r \in Call /\ r.pc = "begun" /\ r.op = op /\ r.held = FALSE /\ r.draft = d
    BY DEF Idle, Call, Pcs, Ops, Modes, Contents
  <2>2. object' \in [Drafts -> Contents \cup {None}]
    BY <1>2 DEF Begin, IInv, TypeOK, Contents
  <2>3. draft[d].status # "absent"
    BY <1>2 DEF Begin, Exists
  <2> HIDE DEF r
  <2> QED
    BY ZenonT(40), <1>2, <2>1, <2>2, <2>3, BeginStep DEF Begin, IInv, TypeOK, r
<1>3. CASE SchedulerQuery
  <2>1. batch' \in SUBSET Drafts /\ BatchIsCreated'
    BY <1>3, DraftAssumption DEF SchedulerQuery, BatchIsCreated
  <2> QED
    BY <2>1, <1>3
       DEF SchedulerQuery, IInv, TypeOK, CallHasDraft, LockedRowExists, LocksExclude,
           PendingHasNoMessage, ApprovedHasMessage, HoldsRow, HoldsAtts, Active, Exists,
           MessagesOf, Messages, At
<1>4. ASSUME NEW c \in Calls, NEW d \in Drafts, SchedulerApprove(c, d) PROVE IInv'
  <2> DEFINE r == [Idle EXCEPT !.pc = "begun", !.op = "approve", !.draft = d,
                               !.scheduler = TRUE]
  <2>1. r \in Call /\ r.pc = "begun" /\ r.op = "approve" /\ r.held = FALSE /\ r.draft = d
    BY DEF Idle, Call, Pcs, Ops, Modes, Contents
  <2>2. batch' \subseteq batch
    BY <1>4 DEF SchedulerApprove
  <2>3. draft[d].status # "absent"
    BY <1>4 DEF SchedulerApprove, IInv, BatchIsCreated
  <2> HIDE DEF r
  <2> QED
    BY <1>4, <2>1, <2>2, <2>3, BeginStep DEF SchedulerApprove, IInv, TypeOK, r
<1>5. ASSUME NEW c \in Calls, Step(c) \/ Rollback(c) PROVE IInv'
  <2> USE DEF At, Active, HoldsRow
  <2>0. call[c] \in Call /\ call \in [Calls -> Call]
    BY DEF IInv, TypeOK
  <2>1. CASE CheckPending(c)
    <3> DEFINE cur == draft[call[c].draft]
               r == IF cur.status = "pending"
                       THEN [call[c] EXCEPT !.pc = "checked", !.text = cur.text]
                       ELSE [call[c] EXCEPT !.pc = "failed"]
    <3>1. call' = [call EXCEPT ![c] = r] /\ UNCHANGED <<draft, attached, object, jobs, events, batch>>
      BY <2>0, <2>1 DEF CheckPending, Goto
    <3>2. cur \in Row
      BY <2>1 DEF CheckPending, IInv, CallHasDraft, TypeOK
    <3>3. /\ r \in Call /\ r.pc \in {"checked", "failed"}
          /\ r.op = call[c].op /\ r.draft = call[c].draft /\ r.held = call[c].held
      BY <2>0, <3>2 DEF Call, Row, Pcs
    <3> QED
      BY <2>1, <3>1, <3>3, MoveOn DEF CheckPending, IInv, TypeOK
  <2>2. CASE ApproveList(c)
    <3> DEFINE b == call[c].draft \in attached
               r == [call[c] EXCEPT !.pc = "listed", !.flag = b]
    <3>1. call' = [call EXCEPT ![c] = r] /\ UNCHANGED <<draft, attached, object, jobs, events, batch>>
      BY <2>0, <2>2 DEF ApproveList
    <3>2. b \in BOOLEAN
      OBVIOUS
    <3>3. /\ r \in Call /\ r.pc = "listed"
          /\ r.op = call[c].op /\ r.draft = call[c].draft /\ r.held = call[c].held
      <4> HIDE DEF b
      <4> QED
        BY <2>0, <3>2 DEF Call, Pcs
    <3>4. Active(c)
      BY <2>2 DEF ApproveList
    <3> HIDE DEF r
    <3> QED
      BY <3>1, <3>3, <3>4, MoveOn DEF IInv, TypeOK
  <2>3. CASE ApproveLink(c)
    <3>0. PICK moved \in BOOLEAN :
             /\ moved => AttsFree(c)
             /\ call' = [call EXCEPT ![c].pc = "linked", ![c].held = moved]
      BY <2>3 DEF ApproveLink
    <3> DEFINE r == [call[c] EXCEPT !.pc = "linked", !.held = moved]
    <3>1. call' = [call EXCEPT ![c] = r] /\ UNCHANGED <<draft, attached, object, jobs, events, batch>>
      BY <2>0, <2>3, <3>0 DEF ApproveLink
    <3>2. /\ r \in Call /\ r.pc = "linked"
          /\ r.op = call[c].op /\ r.draft = call[c].draft
      BY <2>0 DEF Call, Pcs
    <3>3. r.held => AttsFree(c)
      BY <2>0, <3>0 DEF Call
    <3> QED
      BY <2>3, <3>1, <3>2, <3>3, MoveOn DEF ApproveLink, IInv, TypeOK
  <2>4. CASE WriteRow(c)
    <3> DEFINE r == [call[c] EXCEPT !.pc = IF Exists(call[c].draft) THEN "written" ELSE "failed"]
    <3>1. call' = [call EXCEPT ![c] = r] /\ UNCHANGED <<draft, attached, object, jobs, events, batch>>
      BY <2>0, <2>4 DEF WriteRow, Goto
    <3>2. /\ r \in Call /\ r.pc \in {"written", "failed"}
          /\ r.op = call[c].op /\ r.draft = call[c].draft /\ r.held = call[c].held
      BY <2>0 DEF Call, Pcs
    <3>3. r.pc = "written" => Exists(r.draft) /\ RowFree(c)
      BY <2>0, <2>4 DEF WriteRow, Call
    <3> QED
      BY <2>4, <3>1, <3>2, <3>3, MoveOn DEF WriteRow, IInv, TypeOK
  <2>5. CASE ApprovePublish(c) \/ RejectPublish(c)
    <3> DEFINE r == [call[c] EXCEPT !.pc = "ready"]
    <3>1. call' = [call EXCEPT ![c] = r] /\ UNCHANGED <<draft, attached, object, batch>>
      BY <2>0, <2>5 DEF ApprovePublish, RejectPublish, Goto
    <3>2. /\ r \in Call /\ r.pc = "ready" /\ r.held = call[c].held
          /\ r.op = call[c].op /\ r.draft = call[c].draft
      BY <2>0 DEF Call, Pcs
    <3>3. jobs' \in SUBSET Calls /\ events' \in SUBSET Calls
      BY <2>5 DEF ApprovePublish, RejectPublish, IInv, TypeOK
    <3>4. HoldsRow(c) /\ Exists(call[c].draft)
      BY <2>5 DEF ApprovePublish, RejectPublish, IInv, LockedRowExists
    <3> HIDE DEF r
    <3> QED
      BY <3>1, <3>2, <3>3, <3>4, MoveOn
  <2>6. CASE ReplaceAttachments(c)
    <3>0. PICK b \in BOOLEAN :
            b = (Touches(c) /\ call[c].draft \in attached)
      OBVIOUS
    <3> DEFINE r == [call[c] EXCEPT !.pc = "ready", !.held = b]
    <3>1. call' = [call EXCEPT ![c] = r] /\ UNCHANGED <<draft, attached, object, jobs, events, batch>>
      BY <2>0, <2>6, <3>0 DEF ReplaceAttachments
    <3>2. /\ r \in Call /\ r.pc = "ready" /\ r.held = b
          /\ r.op = call[c].op /\ r.draft = call[c].draft
      BY <2>0 DEF Call, Pcs
    <3>3. b => AttsFree(c)
      BY <2>6, <3>0 DEF ReplaceAttachments
    <3>4. HoldsRow(c) /\ Exists(call[c].draft)
      BY <2>6 DEF ReplaceAttachments, IInv, LockedRowExists
    <3> HIDE DEF r
    <3> QED
      BY <3>1, <3>2, <3>3, <3>4, MoveOn DEF IInv, TypeOK
  <2>7. CASE Rollback(c) \/ DeadlockAbort(c)
    <3> DEFINE r == [call[c] EXCEPT !.pc = "failed"]
    <3>1. call' = [call EXCEPT ![c] = r] /\ UNCHANGED <<draft, attached, object, jobs, events, batch>>
      BY <2>0, <2>7 DEF Rollback, DeadlockAbort, Goto
    <3>2. Active(c)
      BY <2>7 DEF Rollback, DeadlockAbort, Deadlocked, WaitsForAtts, WaitsForRow
    <3>3. /\ r \in Call /\ r.pc = "failed" /\ r.held = call[c].held
          /\ r.op = call[c].op /\ r.draft = call[c].draft
      BY <2>0 DEF Call, Pcs
    <3> QED
      BY <3>1, <3>2, <3>3, MoveOn DEF IInv, TypeOK
  <2>8. CASE CommitApprove(c) \/ CommitReject(c) \/ CommitUpdate(c) \/ CommitDelete(c)
    <3> DEFINE d == call[c].draft
               r == draft'[d]
    <3>1. call[c].pc = "ready" /\ d \in Drafts /\ draft[d] \in Row
      BY <2>8 DEF CommitApprove, CommitReject, CommitUpdate, CommitDelete, IInv, CallHasDraft, TypeOK
    <3>2. Exists(d)
      BY <3>1 DEF IInv, LockedRowExists
    <3>3. attached' \in SUBSET Drafts
      <4>1. CASE CommitUpdate(c)
        BY <2>0, <3>1, <4>1 DEF CommitUpdate, IInv, TypeOK, Call, Modes
      <4> QED
        BY <2>8, <4>1 DEF CommitApprove, CommitReject, CommitDelete, IInv, TypeOK
    <3>4. /\ draft' = [draft EXCEPT ![d] = r] /\ r \in Row
          /\ \/ call[c].op = "approve" /\ r.status = "approved" /\ r.msg = c
             \/ r.status \in {"rejected", "deleted"}
             \/ /\ call[c].op = "update" /\ r.status = draft[d].status
                /\ r.msg = draft[d].msg
      BY <2>8, <3>1
         DEF CommitApprove, CommitReject, CommitUpdate, CommitDelete, IInv, TypeOK, Row,
             Statuses, Contents
    <3>5. call' = [call EXCEPT ![c].pc = "committed"] /\ UNCHANGED <<object, jobs, events, batch>>
      BY <2>8 DEF CommitApprove, CommitReject, CommitUpdate, CommitDelete, Goto
    <3> HIDE DEF r
    <3> QED
      BY <3>1, <3>2, <3>3, <3>4, <3>5, CommitStep DEF Exists
  <2> QED
    BY <1>5, <2>1, <2>2, <2>3, <2>4, <2>5, <2>6, <2>7, <2>8 DEF Step
<1>6. CASE UNCHANGED vars
  BY <1>6 DEF vars, IInv, TypeOK, CallHasDraft, BatchIsCreated, LockedRowExists, LocksExclude,
              PendingHasNoMessage, ApprovedHasMessage, HoldsRow, HoldsAtts, Active, Exists,
              MessagesOf, Messages, At
<1> QED
  BY <1>1, <1>2, <1>3, <1>4, <1>5, <1>6 DEF Next

\* Type correctness of every reachable state.
THEOREM DraftTypeOK == Spec => []TypeOK
<1>1. IInv => TypeOK
  BY DEF IInv
<1> QED
  BY <1>1, InitIInv, StepIInv, PTL DEF Spec

\* However calls overlap, as long as a draft is pending no message was made
\* from it.
THEOREM DraftPendingHasNoMessage == Spec => []PendingHasNoMessage
<1>1. IInv => PendingHasNoMessage
  BY DEF IInv
<1> QED
  BY <1>1, InitIInv, StepIInv, PTL DEF Spec

\* An approved draft names a message that exists and was made from it, also when
\* two approvals or an approval and an update overlap.
THEOREM DraftApprovedHasMessage == Spec => []ApprovedHasMessage
<1>1. IInv => ApprovedHasMessage
  BY DEF IInv
<1> QED
  BY <1>1, InitIInv, StepIInv, PTL DEF Spec

-----------------------------------------------------------------------------
(* Attachments: what overlapping calls do to the rows and the objects. *)

\* The messages made from draft d that were given attachment rows.
Linked(d) == {c \in MessagesOf(d) : call[c].held}

\* Whoever names attachment rows, or has uploaded new ones, has an object in S3.
NamesObject ==
    /\ \A d \in attached : object[d] # None
    /\ \A c \in Calls : /\ call[c].pc # "idle"
                        /\ call[c].held \/ call[c].mode = "replace"
                        => object[call[c].draft] # None

\* Rows that are locked are still the draft's.
HeldIsAttached == \A c \in Calls : HoldsAtts(c) => call[c].draft \in attached

\* An update or a deletion about to commit holds the attachment rows there are.
TouchedIsHeld == \A c \in Calls :
    /\ call[c].pc = "ready"
    /\ Touches(c)
    /\ call[c].draft \in attached
    => call[c].held

\* Attachment rows are locked late: by an approval that has linked them, or by an
\* update or a deletion whose commit is all that is left.
HeldLate == \A c \in Calls : HoldsAtts(c) =>
    call[c].pc = "ready" \/ (call[c].op = "approve" /\ call[c].pc \in {"linked", "written"})

\* The rows were given to a draft once when it was created and once by every
\* update that replaced them; a message takes them from the draft.
LinkCount == \A d \in Drafts :
    /\ IsFiniteSet(Linked(d)) /\ IsFiniteSet(Replacements(d))
    /\ Cardinality(Linked(d)) + (IF d \in attached THEN 1 ELSE 0)
          <= 1 + Cardinality(Replacements(d))

LinkInv == NamesObject /\ HeldIsAttached /\ TouchedIsHeld /\ HeldLate /\ LinkCount

\* The steps of a call before its commit, and its end without one.
Move(c) ==
    \/ CheckPending(c) \/ ApproveList(c) \/ ApproveLink(c) \/ WriteRow(c)
    \/ ApprovePublish(c) \/ RejectPublish(c) \/ ReplaceAttachments(c)
    \/ DeadlockAbort(c) \/ Rollback(c)

\* Before its commit a call changes nothing but its own state, and locks only
\* attachment rows the draft has.
LEMMA MoveShape ==
  ASSUME IInv, NEW c \in Calls, Move(c)
  PROVE  /\ Active(c) /\ UNCHANGED <<draft, attached, object, batch>>
         /\ \A o \in Calls \ {c} : call'[o] = call[o]
         /\ call'[c].pc \in {"checked", "listed", "linked", "written", "ready", "failed"}
         /\ call'[c].op = call[c].op /\ call'[c].draft = call[c].draft
         /\ call'[c].mode = call[c].mode
         /\ call'[c].held => call[c].held \/ call[c].draft \in attached
         /\ /\ call'[c].pc = "ready" /\ call[c].draft \in attached
            /\ Touches(c)
            => call'[c].held
         /\ call'[c].held =>
               \/ call'[c].pc \in {"ready", "failed"}
               \/ call[c].op = "approve" /\ call'[c].pc \in {"linked", "written"}
               \/ call[c].held /\ call[c].pc \in {"begun", "checked"}
<1> USE DEF At, Active, Goto, Touches
<1>0. call \in [Calls -> Call] /\ call[c] \in Call
  BY DEF IInv, TypeOK
<1>1. CASE CheckPending(c)
  BY <1>0, <1>1 DEF CheckPending, Call
<1>2. CASE ApproveList(c)
  BY <1>0, <1>2 DEF ApproveList, Call
<1>3. CASE ApproveLink(c)
  BY <1>0, <1>3 DEF ApproveLink, Call
<1>4. CASE WriteRow(c)
  BY <1>0, <1>4 DEF WriteRow, Call
<1>5. CASE ApprovePublish(c) \/ RejectPublish(c)
  BY <1>0, <1>5 DEF ApprovePublish, RejectPublish, Call
<1>6. CASE ReplaceAttachments(c)
  BY <1>0, <1>6 DEF ReplaceAttachments, Call
<1>7. CASE DeadlockAbort(c) \/ Rollback(c)
  BY <1>0, <1>7 DEF DeadlockAbort, Rollback, Deadlocked, WaitsForAtts, WaitsForRow, Call
<1> QED
  BY <1>1, <1>2, <1>3, <1>4, <1>5, <1>6, <1>7 DEF Move

\* In the initial state nothing is attached, linked or replaced.
LEMMA InitLink == Init => LinkInv
<1> SUFFICES ASSUME Init PROVE LinkInv
  OBVIOUS
<1>1. NamesObject /\ HeldIsAttached /\ TouchedIsHeld /\ HeldLate
  BY DEF Init, Idle, NamesObject, HeldIsAttached, TouchedIsHeld, HeldLate, HoldsAtts, Active
<1>2. \A d \in Drafts : Linked(d) = {} /\ Replacements(d) = {} /\ d \notin attached
  BY DEF Init, Idle, Linked, MessagesOf, Messages, Replacements, At
<1>3. LinkCount
  BY <1>2, FS_EmptySet DEF LinkCount
<1> QED
  BY <1>1, <1>3 DEF LinkInv

\* As long as no call commits, no message and no replacement is added.
LEMMA SameLinks ==
  ASSUME NEW d \in Drafts,
         \A o \in Calls : \/ call'[o] = call[o]
                          \/ call[o].pc # "committed" /\ call'[o].pc # "committed"
  PROVE  Linked(d)' = Linked(d) /\ Replacements(d)' = Replacements(d)
<1>1. \A o : o \in Linked(d)' <=> o \in Linked(d)
  BY DEF Linked, MessagesOf, Messages, At
<1>2. \A o : o \in Replacements(d)' <=> o \in Replacements(d)
  BY DEF Replacements, At
<1> QED
  BY <1>1, <1>2, Zenon

\* A commit adds the call to the messages or to the replacements of its draft, if
\* it is one, and to nothing else.
LEMMA CommitLinks ==
  ASSUME IInv, NEW c \in Calls, call[c].pc = "ready", NEW d \in Drafts,
         call' = [call EXCEPT ![c].pc = "committed"]
  PROVE  /\ Linked(d)' = IF call[c].op = "approve" /\ call[c].held /\ call[c].draft = d
                            THEN Linked(d) \cup {c} ELSE Linked(d)
         /\ Replacements(d)' = IF call[c].op = "update" /\ call[c].mode = "replace" /\ call[c].draft = d
                                  THEN Replacements(d) \cup {c} ELSE Replacements(d)
         /\ c \notin Linked(d) /\ c \notin Replacements(d)
<1>0. call \in [Calls -> Call] /\ call[c] \in Call
  BY DEF IInv, TypeOK
<1>1. /\ \A o \in Calls \ {c} : call'[o] = call[o]
      /\ call'[c].pc = "committed" /\ call'[c].op = call[c].op /\ call'[c].draft = call[c].draft
      /\ call'[c].mode = call[c].mode /\ call'[c].held = call[c].held
  BY <1>0 DEF Call
<1>2. c \notin Linked(d) /\ c \notin Replacements(d)
  BY DEF Linked, MessagesOf, Messages, At, Replacements
<1>3. \A o : o \in Linked(d)' <=>
         o \in Linked(d) \/ (o = c /\ call[c].op = "approve" /\ call[c].held /\ call[c].draft = d)
  BY <1>1 DEF Linked, MessagesOf, Messages, At
<1>4. \A o : o \in Replacements(d)' <=>
         \/ o \in Replacements(d)
         \/ o = c /\ call[c].op = "update" /\ call[c].mode = "replace" /\ call[c].draft = d
  BY <1>1 DEF Replacements, At
<1>5. Linked(d)' = IF call[c].op = "approve" /\ call[c].held /\ call[c].draft = d
                      THEN Linked(d) \cup {c} ELSE Linked(d)
  BY <1>3, Zenon
<1>6. Replacements(d)' = IF call[c].op = "update" /\ call[c].mode = "replace" /\ call[c].draft = d
                            THEN Replacements(d) \cup {c} ELSE Replacements(d)
  BY <1>4, Zenon
<1> QED
  BY <1>2, <1>5, <1>6

\* A commit gives the rows of its draft to a message, deletes them or adds new
\* ones; whichever it is, the transaction holds the rows that were there.
LEMMA CommitLink ==
  ASSUME IInv, LinkInv, NEW c \in Calls,
         CommitApprove(c) \/ CommitReject(c) \/ CommitUpdate(c) \/ CommitDelete(c)
  PROVE  LinkInv'
<1> USE DEF At
<1>0. call \in [Calls -> Call] /\ call[c] \in Call /\ object \in [Drafts -> Contents \cup {None}]
      /\ attached \in SUBSET Drafts
  BY DEF IInv, TypeOK
<1>1. /\ call[c].pc = "ready" /\ call[c].op \in {"approve", "reject", "update", "delete"}
      /\ call' = [call EXCEPT ![c].pc = "committed"] /\ object' = object
  BY DEF CommitApprove, CommitReject, CommitUpdate, CommitDelete, Goto
<1>2. PICK d \in Drafts : d = call[c].draft
  BY <1>1 DEF IInv, CallHasDraft
<1>3. /\ \A o \in Calls \ {c} : call'[o] = call[o]
      /\ call'[c].pc = "committed" /\ call'[c].op = call[c].op /\ call'[c].draft = call[c].draft
      /\ call'[c].mode = call[c].mode /\ call'[c].held = call[c].held
  BY <1>0, <1>1 DEF Call
<1>4. \/ call[c].op = "approve" /\ attached' = IF call[c].held THEN attached \ {d} ELSE attached
      \/ call[c].op = "reject" /\ attached' = attached
      \/ call[c].op = "update" /\ call[c].mode = "keep" /\ attached' = attached
      \/ call[c].op = "update" /\ call[c].mode = "clear" /\ attached' = attached \ {d}
      \/ call[c].op = "update" /\ call[c].mode = "replace" /\ attached' = attached \cup {d}
      \/ call[c].op = "delete" /\ attached' = attached \ {d}
  <2>1. CASE CommitUpdate(c)
    <3>1. call[c].mode \in {"keep", "clear", "replace"}
      BY <1>0 DEF Call, Modes
    <3> QED
      BY <1>2, <2>1, <3>1 DEF CommitUpdate
  <2> QED
    BY <1>2, <2>1 DEF CommitApprove, CommitReject, CommitDelete
<1>5. \A e \in Drafts \ {d} : e \in attached' <=> e \in attached
  BY <1>4
\* Nobody else holds the row of the draft, and nobody else its attachment rows if
\* they go.
<1>6. \A o \in Calls \ {c} : call[o].draft = d => call[o].pc \notin {"written", "ready"}
  BY <1>1, <1>2 DEF IInv, LocksExclude, HoldsRow
<1>7. ASSUME d \in attached, d \notin attached'
      PROVE  call[c].held /\ \A o \in Calls \ {c} : call[o].draft = d => ~ HoldsAtts(o)
  <2>1. call[c].held
    BY <1>1, <1>2, <1>4, <1>7 DEF LinkInv, TouchedIsHeld, Touches
  <2> QED
    BY <2>1, <1>1, <1>2 DEF IInv, LocksExclude, HoldsAtts, Active
<1>8. NamesObject'
  <2>1. \A e \in attached' : object[e] # None
    <3>1. call[c].mode = "replace" => object[d] # None
      BY <1>1, <1>2 DEF LinkInv, NamesObject
    <3> QED
      BY <1>4, <3>1 DEF LinkInv, NamesObject
  <2>2. ASSUME NEW o \in Calls, call'[o].pc # "idle", call'[o].held \/ call'[o].mode = "replace"
        PROVE  object[call'[o].draft] # None
    BY <1>1, <1>3, <2>2 DEF LinkInv, NamesObject
  <2> QED
    BY <1>1, <2>1, <2>2 DEF NamesObject
<1>9. HeldIsAttached'
  <2> SUFFICES ASSUME NEW o \in Calls, HoldsAtts(o)' PROVE call'[o].draft \in attached'
    BY DEF HeldIsAttached
  <2>1. o # c /\ call'[o] = call[o] /\ HoldsAtts(o)
    BY <1>3 DEF HoldsAtts, Active
  <2>2. call[o].draft \in attached
    BY <2>1 DEF LinkInv, HeldIsAttached
  <2> QED
    BY <1>0, <1>5, <1>7, <2>1, <2>2
<1>10. TouchedIsHeld'
  <2> SUFFICES ASSUME NEW o \in Calls, call'[o].pc = "ready", call'[o].draft \in attached',
                      Touches(o)'
               PROVE  call'[o].held
    BY DEF TouchedIsHeld
  <2>1. o # c /\ call'[o] = call[o]
    BY <1>3
  <2>2. call[o].draft # d /\ call[o].draft \in Drafts
    BY <1>6, <2>1 DEF IInv, CallHasDraft
  <2>3. call[o].draft \in attached
    BY <1>5, <2>1, <2>2
  <2> QED
    BY <2>1, <2>3 DEF LinkInv, TouchedIsHeld, Touches
<1>11. LinkCount'
  <2> SUFFICES ASSUME NEW e \in Drafts
               PROVE  /\ IsFiniteSet(Linked(e)') /\ IsFiniteSet(Replacements(e)')
                      /\ Cardinality(Linked(e)') + (IF e \in attached' THEN 1 ELSE 0)
                            <= 1 + Cardinality(Replacements(e)')
    BY DEF LinkCount
  <2> DEFINE L == Linked(e)
             R == Replacements(e)
  <2>1. /\ L' = IF call[c].op = "approve" /\ call[c].held /\ d = e THEN L \cup {c} ELSE L
        /\ R' = IF call[c].op = "update" /\ call[c].mode = "replace" /\ d = e
                   THEN R \cup {c} ELSE R
        /\ c \notin L /\ c \notin R
    BY <1>1, <1>2, CommitLinks
  <2>2. /\ IsFiniteSet(L) /\ IsFiniteSet(R)
        /\ Cardinality(L) + (IF e \in attached THEN 1 ELSE 0) <= 1 + Cardinality(R)
    BY DEF LinkInv, LinkCount
  <2>3. /\ IsFiniteSet(L \cup {c}) /\ Cardinality(L \cup {c}) = Cardinality(L) + 1
        /\ IsFiniteSet(R \cup {c}) /\ Cardinality(R \cup {c}) = Cardinality(R) + 1
    BY <2>1, <2>2, FS_AddElement
  <2>4. Cardinality(L) \in Nat /\ Cardinality(R) \in Nat
    BY <2>2, FS_CardinalityType
  <2>5. call[c].op = "approve" /\ call[c].held => d \in attached
    BY <1>1, <1>2 DEF LinkInv, HeldIsAttached, HoldsAtts, Active
  <2> HIDE DEF L, R
  <2>6. CASE d # e
    <3>1. L' = L /\ R' = R /\ (e \in attached' <=> e \in attached)
      BY <2>1, <2>6, <1>5
    <3> QED
      BY <2>2, <3>1 DEF L, R
  <2>7. CASE d = e /\ call[c].op = "approve" /\ call[c].held
    <3>1. L' = L \cup {c} /\ R' = R /\ e \in attached /\ e \notin attached'
      BY <1>4, <2>1, <2>5, <2>7
    <3>2. Cardinality(L') + 0 <= 1 + Cardinality(R')
      BY <2>2, <2>3, <2>4, <3>1
    <3> QED
      BY <2>2, <2>3, <3>1, <3>2 DEF L, R
  <2>8. CASE d = e /\ call[c].op = "update" /\ call[c].mode = "replace"
    <3>1. L' = L /\ R' = R \cup {c} /\ e \in attached'
      BY <1>4, <2>1, <2>8
    <3>2. Cardinality(L') + 1 <= 1 + Cardinality(R')
      BY <2>2, <2>3, <2>4, <3>1
    <3> QED
      BY <2>2, <2>3, <3>1, <3>2 DEF L, R
  <2>9. CASE /\ d = e /\ ~ (call[c].op = "approve" /\ call[c].held)
             /\ ~ (call[c].op = "update" /\ call[c].mode = "replace")
    <3>1. L' = L /\ R' = R /\ (e \in attached' => e \in attached)
      BY <1>4, <2>1, <2>9
    <3>2. Cardinality(L') + (IF e \in attached' THEN 1 ELSE 0) <= 1 + Cardinality(R')
      BY <2>2, <2>4, <3>1
    <3> QED
      BY <2>2, <3>1, <3>2 DEF L, R
  <2> QED
    BY <2>6, <2>7, <2>8, <2>9
<1>12. HeldLate'
  BY <1>3 DEF LinkInv, HeldLate, HoldsAtts, Active
<1> QED
  BY <1>8, <1>9, <1>10, <1>11, <1>12 DEF LinkInv

\* Every step keeps the invariant of the attachments.
LEMMA StepLink == IInv /\ LinkInv /\ [Next]_vars => LinkInv'
<1> SUFFICES ASSUME IInv, LinkInv, [Next]_vars PROVE LinkInv'
  OBVIOUS
<1>0. call \in [Calls -> Call] /\ object \in [Drafts -> Contents \cup {None}]
      /\ attached \in SUBSET Drafts /\ draft \in [Drafts -> Row]
  BY DEF IInv, TypeOK
<1>1. ASSUME NEW d \in Drafts, Create(d) PROVE LinkInv'
  <2>1. \A c \in Calls : call[c].pc # "idle" => call[c].draft # d
    BY <1>1 DEF Create, IInv, CallHasDraft
  <2>2. /\ call' = call
        /\ \/ attached' = attached \cup {d} /\ object' = [object EXCEPT ![d] = Original]
           \/ UNCHANGED <<attached, object>>
    BY <1>1 DEF Create
  <2>3. NamesObject'
    BY <1>0, <2>1, <2>2, DraftAssumption DEF LinkInv, NamesObject, IInv, CallHasDraft
  <2>4. HeldIsAttached' /\ HeldLate'
    BY <2>2 DEF LinkInv, HeldIsAttached, HeldLate, HoldsAtts, Active
  <2>5. TouchedIsHeld'
    BY <2>1, <2>2 DEF LinkInv, TouchedIsHeld, Touches
  <2>6. LinkCount'
    <3>1. Linked(d) = {} /\ Replacements(d) = {}
      BY <2>1 DEF Linked, MessagesOf, Messages, Replacements, At
    <3>2. \A e \in Drafts : Linked(e)' = Linked(e) /\ Replacements(e)' = Replacements(e)
      BY <2>2, SameLinks
    <3>3. Cardinality({}) = 0 /\ IsFiniteSet({})
      BY FS_EmptySet
    <3>4. \A e \in Drafts \ {d} : e \in attached' <=> e \in attached
      BY <2>2
    <3> QED
      BY <3>1, <3>2, <3>3, <3>4 DEF LinkInv, LinkCount
  <2> QED
    BY <2>3, <2>4, <2>5, <2>6 DEF LinkInv
<1>2. ASSUME NEW c \in Calls, NEW d \in Drafts, call[c].pc = "idle",
             call'[c].pc = "begun", call'[c].held = FALSE, call'[c].draft = d,
             \A o \in Calls \ {c} : call'[o] = call[o], attached' = attached,
             object' = [object EXCEPT ![d] = IF call'[c].mode = "replace" THEN c ELSE @]
      PROVE  LinkInv'
  <2>1. NamesObject'
    <3>1. /\ \A e \in Drafts : object[e] # None => object'[e] # None
          /\ call'[c].mode = "replace" => object'[d] # None
      BY <1>0, <1>2, DraftAssumption
    <3> QED
      BY <1>0, <1>2, <3>1 DEF LinkInv, NamesObject, IInv, CallHasDraft
  <2>2. HeldIsAttached' /\ TouchedIsHeld' /\ HeldLate'
    BY <1>2 DEF LinkInv, HeldIsAttached, HoldsAtts, Active, TouchedIsHeld, HeldLate, Touches
  <2>3. LinkCount'
    <3>1. \A e \in Drafts : Linked(e)' = Linked(e) /\ Replacements(e)' = Replacements(e)
      BY <1>2, SameLinks
    <3> QED
      BY <1>2, <3>1 DEF LinkInv, LinkCount
  <2> QED
    BY <2>1, <2>2, <2>3 DEF LinkInv
<1>3. ASSUME NEW c \in Calls, NEW op \in Ops \ {"none"}, NEW d \in Drafts, NEW mode \in Modes,
             Begin(c, op, d, mode)
      PROVE  LinkInv'
  <2>1. /\ call[c].pc = "idle" /\ attached' = attached
        /\ \A o \in Calls \ {c} : call'[o] = call[o]
        /\ call'[c].pc = "begun" /\ call'[c].held = FALSE /\ call'[c].draft = d
        /\ call'[c].mode = mode
    BY <1>0, <1>3 DEF Begin, Idle
  <2> QED
    BY <1>2, <1>3, <2>1 DEF Begin
<1>4. ASSUME NEW c \in Calls, NEW d \in Drafts, SchedulerApprove(c, d) PROVE LinkInv'
  <2>1. /\ call[c].pc = "idle" /\ attached' = attached /\ object' = object
        /\ \A o \in Calls \ {c} : call'[o] = call[o]
        /\ call'[c].pc = "begun" /\ call'[c].held = FALSE /\ call'[c].draft = d
        /\ call'[c].mode = "keep"
    BY <1>0, <1>4 DEF SchedulerApprove, Idle
  <2>2. object' = [object EXCEPT ![d] = IF call'[c].mode = "replace" THEN c ELSE @]
    BY <1>0, <2>1
  <2> QED
    BY <1>2, <2>1, <2>2
<1>5. ASSUME NEW c \in Calls, Move(c) PROVE LinkInv'
  <2>1. /\ call[c].pc \notin {"idle", "committed", "failed"}
        /\ attached' = attached /\ object' = object
        /\ \A o \in Calls \ {c} : call'[o] = call[o]
        /\ call'[c].pc \in {"checked", "listed", "linked", "written", "ready", "failed"}
        /\ call'[c].op = call[c].op /\ call'[c].draft = call[c].draft
        /\ call'[c].mode = call[c].mode
        /\ call'[c].held => call[c].held \/ call[c].draft \in attached
        /\ /\ call'[c].pc = "ready" /\ call[c].draft \in attached
           /\ Touches(c)
           => call'[c].held
        /\ call'[c].held =>
              \/ call'[c].pc \in {"ready", "failed"}
              \/ call[c].op = "approve" /\ call'[c].pc \in {"linked", "written"}
              \/ call[c].held /\ call[c].pc \in {"begun", "checked"}
    BY <1>5, MoveShape DEF Active
  <2>2. NamesObject'
    BY <2>1 DEF LinkInv, NamesObject
  <2>3. HeldIsAttached'
    BY <2>1 DEF LinkInv, HeldIsAttached, HoldsAtts, Active
  <2>4. TouchedIsHeld' /\ HeldLate'
    BY <2>1 DEF LinkInv, TouchedIsHeld, Touches, HeldLate, HoldsAtts, Active
  <2>5. LinkCount'
    <3>1. \A e \in Drafts : Linked(e)' = Linked(e) /\ Replacements(e)' = Replacements(e)
      BY <2>1, SameLinks
    <3> QED
      BY <2>1, <3>1 DEF LinkInv, LinkCount
  <2> QED
    BY <2>2, <2>3, <2>4, <2>5 DEF LinkInv
<1>6. CASE UNCHANGED <<attached, object, call>>
  <2>1. \A e \in Drafts : Linked(e)' = Linked(e) /\ Replacements(e)' = Replacements(e)
    BY <1>6, SameLinks
  <2> QED
    BY <1>6, <2>1 DEF LinkInv, NamesObject, HeldIsAttached, HoldsAtts, Active, TouchedIsHeld, HeldLate,
              LinkCount, Touches
<1>7. SchedulerQuery \/ UNCHANGED vars => UNCHANGED <<attached, object, call>>
  BY DEF SchedulerQuery, vars
<1> QED
  BY <1>1, <1>3, <1>4, <1>5, <1>6, <1>7, CommitLink DEF Next, Step, Move

\* However calls overlap, an attachment row of a draft or of a message made from
\* it names an object that is in S3.
THEOREM DraftAttachmentHasObject == Spec => []AttachmentHasObject
<1>1. LinkInv => AttachmentHasObject
  BY DEF LinkInv, NamesObject, AttachmentHasObject, MessagesOf, Messages, At
<1> QED
  BY <1>1, InitIInv, InitLink, StepIInv, StepLink, PTL DEF Spec

\* However many approvals of a draft overlap, its attachment rows go to one
\* message, or to one more for every update that replaced them.
THEOREM DraftAttachmentsLinkedOnce == Spec => []AttachmentsLinkedOnce
<1>1. LinkInv => AttachmentsLinkedOnce
  <2> SUFFICES ASSUME LinkInv, NEW d \in Drafts
               PROVE  Cardinality(Linked(d)) <= 1 + Cardinality(Replacements(d))
    BY DEF AttachmentsLinkedOnce, Linked
  <2>1. Cardinality(Linked(d)) \in Nat /\ Cardinality(Replacements(d)) \in Nat
    BY FS_CardinalityType DEF LinkInv, LinkCount
  <2> QED
    BY <2>1 DEF LinkInv, LinkCount
<1> QED
  BY <1>1, InitIInv, InitLink, StepIInv, StepLink, PTL DEF Spec

-----------------------------------------------------------------------------
(* Waiting for locks. *)

WaitsForLink(c) == At(c, "approve", "listed") /\ call[c].flag /\ ~ AttsFree(c)
Blocked(c)      == WaitsForRow(c) \/ WaitsForAtts(c) \/ WaitsForLink(c)

\* The next statement of the call gets its locks, or PostgreSQL finds the cycle it
\* is in and aborts it.
CanProceed(c) == Active(c) /\ (~ Blocked(c) \/ \E o \in Calls : Deadlocked(c, o) \/ Deadlocked(o, c))

\* Behind every lock there is a call that can proceed.
LEMMA LockIsReleased ==
  ASSUME IInv, HeldLate, NEW h \in Calls, HoldsAtts(h) \/ HoldsRow(h)
  PROVE  \E c \in Calls : CanProceed(c)
<1> USE DEF Active, At, HoldsRow, HoldsAtts, CanProceed
<1>1. ASSUME NEW c \in Calls,
             call[c].pc = "ready" \/ (call[c].pc = "written" /\ ~ WaitsForAtts(c))
      PROVE  CanProceed(c)
  BY <1>1 DEF Blocked, WaitsForRow, WaitsForAtts, WaitsForLink
<1>2. ASSUME NEW a \in Calls, HoldsAtts(a) PROVE \E c \in Calls : CanProceed(c)
  <2>1. \/ call[a].pc = "ready"
        \/ call[a].op = "approve" /\ call[a].pc \in {"linked", "written"}
    BY <1>2 DEF HeldLate
  <2>2. CASE call[a].pc \in {"ready", "written"}
    BY <1>1, <2>1, <2>2 DEF WaitsForAtts, Touches
  <2>3. CASE call[a].op = "approve" /\ call[a].pc = "linked" /\ RowFree(a)
    BY <2>3 DEF Blocked, WaitsForRow, WaitsForAtts, WaitsForLink
  <2>4. CASE call[a].op = "approve" /\ call[a].pc = "linked" /\ ~ RowFree(a)
    <3>1. PICK r \in Calls \ {a} : HoldsRow(r) /\ call[r].draft = call[a].draft
      BY <2>4 DEF RowFree
    <3>2. CASE call[r].pc = "ready" \/ ~ WaitsForAtts(r)
      BY <1>1, <3>1, <3>2
    <3>3. CASE WaitsForAtts(r)
      <4>1. Deadlocked(r, a)
        BY <1>2, <2>4, <3>1, <3>3 DEF Deadlocked, WaitsForRow
      <4> QED
        BY <1>2, <4>1
    <3> QED
      BY <3>2, <3>3
  <2> QED
    BY <2>1, <2>2, <2>3, <2>4
<1>3. ASSUME NEW r \in Calls, HoldsRow(r) PROVE \E c \in Calls : CanProceed(c)
  <2>1. CASE call[r].pc = "ready" \/ ~ WaitsForAtts(r)
    BY <1>1, <1>3, <2>1
  <2>2. CASE WaitsForAtts(r)
    BY <1>2, <2>2 DEF WaitsForAtts, AttsFree
  <2> QED
    BY <2>1, <2>2
<1> QED
  BY <1>2, <1>3

\* However lock waits form chains and cycles, as long as calls are active one of
\* them waits for no lock, or is aborted to break a cycle.
THEOREM DraftNoLockWaitForever ==
  Spec => []((\E c \in Calls : Active(c)) => \E c \in Calls : CanProceed(c))
<1>1. IInv /\ LinkInv => ((\E c \in Calls : Active(c)) => \E c \in Calls : CanProceed(c))
  <2> SUFFICES ASSUME IInv, LinkInv, NEW c \in Calls, Active(c)
               PROVE  \E o \in Calls : CanProceed(o)
    OBVIOUS
  <2>1. CASE ~ Blocked(c)
    BY <2>1 DEF CanProceed
  <2>2. CASE Blocked(c)
    <3>1. \E h \in Calls : HoldsAtts(h) \/ HoldsRow(h)
      BY <2>2 DEF Blocked, WaitsForRow, WaitsForAtts, WaitsForLink, RowFree, AttsFree
    <3> QED
      BY <3>1, LockIsReleased DEF LinkInv
  <2> QED
    BY <2>1, <2>2
<1> QED
  BY <1>1, InitIInv, InitLink, StepIInv, StepLink, PTL DEF Spec

-----------------------------------------------------------------------------
(* Calls that come one at a time. *)

\* With one call at a time, the status that was checked stays what it was.
LEMMA StepFresh == IInv /\ CheckIsFresh /\ [Next]_vars => CheckIsFresh'
<1> SUFFICES ASSUME IInv, CheckIsFresh, [Next]_vars, Serial PROVE CheckIsFresh'
  BY DEF CheckIsFresh
<1> USE DEF CheckIsFresh, Active
<1>0. call \in [Calls -> Call] /\ draft \in [Drafts -> Row]
  BY DEF IInv, TypeOK
<1>1. ASSUME NEW d \in Drafts, Create(d) PROVE CheckIsFresh'
  BY <1>0, <1>1 DEF Create, IInv, CallHasDraft
<1>2. ASSUME NEW c \in Calls, NEW op \in Ops \ {"none"}, NEW d \in Drafts, NEW mode \in Modes,
             Begin(c, op, d, mode)
      PROVE  CheckIsFresh'
  BY <1>0, <1>2 DEF Begin, Idle
<1>3. CASE SchedulerQuery
  BY <1>3 DEF SchedulerQuery
<1>4. ASSUME NEW c \in Calls, NEW d \in Drafts, SchedulerApprove(c, d) PROVE CheckIsFresh'
  BY <1>0, <1>4 DEF SchedulerApprove, Idle
<1>5. ASSUME NEW c \in Calls, Step(c) \/ Rollback(c) PROVE CheckIsFresh'
  <2> USE <1>0 DEF At, Call
  <2>0. Active(c) /\ \A o \in Calls \ {c} : ~ Active(o) /\ call'[o] = call[o]
    BY <1>5 DEF Step, Rollback, CheckPending, ApproveList, ApproveLink, WriteRow, ApprovePublish,
                RejectPublish, ReplaceAttachments, CommitApprove, CommitReject, CommitUpdate,
                CommitDelete, DeadlockAbort, Deadlocked, WaitsForAtts, WaitsForRow, Goto
  <2>1. CASE CheckPending(c)
    BY <2>0, <2>1 DEF CheckPending, Goto
  <2>2. CASE ApproveList(c) \/ ApproveLink(c) \/ WriteRow(c)
    BY <2>0, <2>2 DEF ApproveList, ApproveLink, WriteRow, Goto
  <2>3. CASE ApprovePublish(c) \/ RejectPublish(c) \/ ReplaceAttachments(c)
    BY <2>0, <2>3 DEF ApprovePublish, RejectPublish, ReplaceAttachments, Goto
  <2>4. CASE CommitApprove(c) \/ CommitReject(c) \/ CommitUpdate(c) \/ CommitDelete(c)
    BY <2>0, <2>4 DEF CommitApprove, CommitReject, CommitUpdate, CommitDelete, Goto
  <2>5. CASE DeadlockAbort(c) \/ Rollback(c)
    BY <2>0, <2>5 DEF DeadlockAbort, Rollback, Goto
  <2> QED
    BY <1>5, <2>1, <2>2, <2>3, <2>4, <2>5 DEF Step
<1>6. CASE UNCHANGED vars
  BY <1>6 DEF vars
<1> QED
  BY <1>1, <1>2, <1>3, <1>4, <1>5, <1>6 DEF Next

\* With one call at a time, what an approval has read is what the draft still
\* has, and an approved draft shows what was sent.
ReadIsCurrent == Serial => \A c \in Calls : call[c].op = "approve" =>
    /\ call[c].pc \in {"checked", "listed", "linked", "written", "ready"}
          => call[c].text = draft[call[c].draft].text
    /\ call[c].pc = "listed" => (call[c].flag <=> call[c].draft \in attached)
    /\ call[c].pc \in {"linked", "written", "ready"} => call[c].flag = call[c].held

\* The initial state has read and sent nothing.
LEMMA InitRead == Init => ReadIsCurrent /\ SentAsReviewed
<1> SUFFICES ASSUME Init PROVE ReadIsCurrent /\ SentAsReviewed
  OBVIOUS
<1>1. \A c \in Calls : call[c].pc = "idle"
  BY DEF Init, Idle
<1>2. \A d \in Drafts : draft[d].status = "absent"
  BY DEF Init
<1> QED
  BY <1>1, <1>2 DEF ReadIsCurrent, SentAsReviewed

\* With one call at a time no step of a call comes between what an approval reads
\* and what it writes, and nothing edits a draft that is decided.
LEMMA StepRead ==
  ASSUME Serial
  PROVE  IInv /\ CheckIsFresh /\ ReadIsCurrent /\ SentAsReviewed /\ [Next]_vars
            => ReadIsCurrent' /\ SentAsReviewed'
<1> SUFFICES ASSUME IInv, CheckIsFresh, ReadIsCurrent, SentAsReviewed, [Next]_vars
             PROVE  ReadIsCurrent' /\ SentAsReviewed'
  OBVIOUS
<1> DEFINE Read(c) ==
      /\ call[c].pc \in {"checked", "listed", "linked", "written", "ready"}
            => call[c].text = draft[call[c].draft].text
      /\ call[c].pc = "listed" => (call[c].flag <=> call[c].draft \in attached)
      /\ call[c].pc \in {"linked", "written", "ready"} => call[c].flag = call[c].held
<1>0. /\ call \in [Calls -> Call] /\ draft \in [Drafts -> Row]
      /\ \A c \in Calls : call[c].op = "approve" => Read(c)
      /\ \A c \in Calls : call[c].pc # "idle" => call[c].draft \in Drafts
      /\ \A c, o \in Calls : c # o /\ Active(c) => ~ Active(o)
  BY DEF IInv, TypeOK, ReadIsCurrent, CallHasDraft, CheckIsFresh
\* The message of an approved draft, and what it agrees on with the draft.
<1>1. ASSUME NEW d \in Drafts, draft[d].status = "approved"
      PROVE  /\ draft[d].msg \in Calls /\ call[draft[d].msg].pc = "committed"
             /\ call[draft[d].msg].text = draft[d].text
             /\ call[draft[d].msg].flag = call[draft[d].msg].held
  BY <1>1 DEF IInv, ApprovedHasMessage, MessagesOf, Messages, At, SentAsReviewed
<1> DEFINE Goal ==
      /\ \A c \in Calls : call'[c].op = "approve" =>
                    /\ call'[c].pc \in {"checked", "listed", "linked", "written", "ready"}
                          => call'[c].text = draft'[call'[c].draft].text
                    /\ call'[c].pc = "listed" => (call'[c].flag <=> call'[c].draft \in attached')
                    /\ call'[c].pc \in {"linked", "written", "ready"} => call'[c].flag = call'[c].held
      /\ \A d \in Drafts : draft'[d].status = "approved" =>
                    /\ call'[draft'[d].msg].text = draft'[d].text
                    /\ call'[draft'[d].msg].flag = call'[draft'[d].msg].held
<1>2. SUFFICES Goal
  BY DEF ReadIsCurrent, SentAsReviewed
<1>3. ASSUME NEW d \in Drafts, Create(d) PROVE Goal
  <2>1. /\ call' = call /\ attached' \in {attached, attached \cup {d}}
        /\ draft' = [draft EXCEPT ![d].status = "pending"]
    BY <1>3 DEF Create
  <2>2. \A c \in Calls : call[c].pc # "idle" => call[c].draft # d
    BY <1>3 DEF Create, IInv, CallHasDraft
  <2>3. \A e \in Drafts \ {d} : draft'[e] = draft[e] /\ (e \in attached' <=> e \in attached)
    BY <2>1
  <2>4. draft'[d].status = "pending"
    BY <1>0, <2>1 DEF Row
  <2> QED
    BY <1>0, <1>1, <2>1, <2>2, <2>3, <2>4
\* A call that begins, checks, moves on or ends without a commit.
<1>4. ASSUME NEW c \in Calls, call[c].pc # "committed", UNCHANGED <<draft, attached>>,
             \A o \in Calls \ {c} : call'[o] = call[o],
             call'[c].op = "approve" =>
                /\ call'[c].pc \in {"checked", "listed", "linked", "written", "ready"}
                      => call'[c].text = draft[call'[c].draft].text
                /\ call'[c].pc = "listed" => (call'[c].flag <=> call'[c].draft \in attached)
                /\ call'[c].pc \in {"linked", "written", "ready"} => call'[c].flag = call'[c].held
      PROVE  Goal
  BY <1>0, <1>1, <1>4
<1>5. ASSUME NEW c \in Calls, NEW op \in Ops \ {"none"}, NEW d \in Drafts, NEW mode \in Modes,
             Begin(c, op, d, mode)
      PROVE  Goal
  <2>1. /\ call[c].pc = "idle" /\ UNCHANGED <<draft, attached>> /\ call'[c].pc = "begun"
        /\ \A o \in Calls \ {c} : call'[o] = call[o]
    BY <1>0, <1>5 DEF Begin, Idle
  <2> HIDE DEF Goal
  <2> QED
    BY <1>4, <2>1
<1>6. ASSUME NEW c \in Calls, NEW d \in Drafts, SchedulerApprove(c, d) PROVE Goal
  <2>1. /\ call[c].pc = "idle" /\ UNCHANGED <<draft, attached>> /\ call'[c].pc = "begun"
        /\ \A o \in Calls \ {c} : call'[o] = call[o]
    BY <1>0, <1>6 DEF SchedulerApprove, Idle
  <2> HIDE DEF Goal
  <2> QED
    BY <1>4, <2>1
<1>7. ASSUME NEW c \in Calls, Move(c) PROVE Goal
  <2>1. /\ Active(c) /\ UNCHANGED <<draft, attached>>
        /\ \A o \in Calls \ {c} : call'[o] = call[o]
        /\ call'[c].op = call[c].op /\ call'[c].draft = call[c].draft
    BY <1>7, MoveShape
  <2>2. call[c] \in Call /\ (call[c].op = "approve" => Read(c))
    BY <1>0
  <2>3. call'[c].op = "approve" =>
          /\ call'[c].pc \in {"checked", "listed", "linked", "written", "ready"}
                => call'[c].text = draft[call'[c].draft].text
          /\ call'[c].pc = "listed" => (call'[c].flag <=> call'[c].draft \in attached)
          /\ call'[c].pc \in {"linked", "written", "ready"} => call'[c].flag = call'[c].held
    <3> USE <1>0 DEF At, Goto
    <3>1. CASE CheckPending(c)
      BY <2>2, <3>1 DEF CheckPending, Call
    <3>2. CASE ApproveList(c)
      BY <2>2, <3>2 DEF ApproveList, Call
    <3>3. CASE ApproveLink(c)
      <4>1. ~ Replacing(call[c].draft)
        <5> SUFFICES ASSUME NEW o \in Calls, call[o].op = "update", call[o].pc = "ready"
                     PROVE  FALSE
          BY DEF Replacing
        <5>1. Active(o) /\ o # c
          BY <3>3 DEF Active, ApproveLink
        <5> QED
          BY <2>1, <5>1
      <4>2. /\ call[c].op = "approve" /\ call[c].pc = "listed"
            /\ \E moved \in BOOLEAN :
                  /\ moved => call[c].flag /\ call[c].draft \in attached
                  /\ ~ moved => ~ (call[c].flag /\ call[c].draft \in attached)
                  /\ call' = [call EXCEPT ![c].pc = "linked", ![c].held = moved]
        BY <3>3, <4>1 DEF ApproveLink
      <4> QED
        BY <2>2, <4>2 DEF Call
    <3>4. CASE WriteRow(c)
      BY <2>2, <3>4 DEF WriteRow, Call
    <3>5. CASE ApprovePublish(c) \/ RejectPublish(c)
      BY <2>2, <3>5 DEF ApprovePublish, RejectPublish, Call
    <3>6. CASE ReplaceAttachments(c)
      BY <2>1, <2>2, <3>6 DEF ReplaceAttachments, Call
    <3>7. CASE DeadlockAbort(c) \/ Rollback(c)
      BY <2>2, <3>7 DEF DeadlockAbort, Rollback, Call
    <3> QED
      BY <1>7, <3>1, <3>2, <3>3, <3>4, <3>5, <3>6, <3>7 DEF Move
  <2>4. call[c].pc # "committed"
    BY <2>1 DEF Active
  <2> HIDE DEF Goal
  <2> QED
    BY <1>4, <2>1, <2>3, <2>4
<1>8. ASSUME NEW c \in Calls,
             CommitApprove(c) \/ CommitReject(c) \/ CommitUpdate(c) \/ CommitDelete(c)
      PROVE  Goal
  <2>1. /\ call[c].pc = "ready" /\ call' = [call EXCEPT ![c].pc = "committed"]
        /\ call[c].op \in {"approve", "reject", "update", "delete"}
    BY <1>8 DEF CommitApprove, CommitReject, CommitUpdate, CommitDelete, At, Goto
  <2>2. PICK d \in Drafts : d = call[c].draft
    BY <1>0, <2>1
  <2>3. /\ \A o \in Calls \ {c} : call'[o] = call[o] /\ ~ Active(o)
        /\ call'[c].pc = "committed" /\ call'[c].text = call[c].text
        /\ call'[c].flag = call[c].flag /\ call'[c].held = call[c].held
    BY <1>0, <2>1 DEF Call, Active
  <2>4. \A e \in Drafts \ {d} : draft'[e] = draft[e]
    BY <1>0, <1>8, <2>2 DEF CommitApprove, CommitReject, CommitUpdate, CommitDelete
  <2>5. \/ /\ call[c].op = "approve" /\ draft'[d].msg = c /\ draft'[d].text = draft[d].text
        \/ call[c].op # "approve" /\ draft'[d].status # "approved"
    <3>1. CASE CommitApprove(c)
      BY <1>0, <2>2, <3>1 DEF CommitApprove, At, Row
    <3>2. CASE CommitReject(c) \/ CommitDelete(c)
      BY <1>0, <2>2, <3>2 DEF CommitReject, CommitDelete, At, Row
    <3>3. CASE CommitUpdate(c)
      <4>1. draft[d].status = "pending"
        BY <2>1, <2>2, <3>3 DEF CommitUpdate, At, CheckIsFresh
      <4> QED
        BY <1>0, <2>2, <3>3, <4>1 DEF CommitUpdate, At, Row
    <3> QED
      BY <1>8, <3>1, <3>2, <3>3
  <2>6. call[c].op = "approve" => call[c].text = draft[d].text /\ call[c].flag = call[c].held
    BY <1>0, <2>1, <2>2
  <2>7. ASSUME NEW o \in Calls, call'[o].op = "approve"
        PROVE  call'[o].pc \notin {"checked", "listed", "linked", "written", "ready"}
    BY <2>3 DEF Active
  <2>8. ASSUME NEW e \in Drafts, draft'[e].status = "approved"
        PROVE  /\ call'[draft'[e].msg].text = draft'[e].text
               /\ call'[draft'[e].msg].flag = call'[draft'[e].msg].held
    <3>1. CASE e = d
      BY <2>3, <2>5, <2>6, <2>8, <3>1
    <3>2. CASE e # d
      <4>1. draft'[e] = draft[e] /\ draft[e].msg \in Calls \ {c}
        BY <1>1, <2>1, <2>4, <2>8, <3>2
      <4>2. call'[draft[e].msg] = call[draft[e].msg]
        BY <2>3, <4>1
      <4> QED
        BY <1>1, <2>8, <4>1, <4>2
    <3> QED
      BY <3>1, <3>2
  <2> QED
    BY <2>7, <2>8
<1>9. ASSUME SchedulerQuery \/ UNCHANGED vars PROVE Goal
  <2>1. draft' = draft /\ attached' = attached /\ call' = call
    BY <1>9 DEF SchedulerQuery, vars
  <2> QED
    BY <1>0, <1>1, <2>1
<1>10. Goal
  <2> HIDE DEF Goal
  <2>1. ASSUME NEW c \in Calls, Step(c) \/ Rollback(c) PROVE Goal
    BY <1>7, <1>8, <2>1 DEF Step, Move
  <2> QED
    BY <1>3, <1>5, <1>6, <1>9, <2>1 DEF Next
<1> QED
  BY <1>10

\* When calls come one at a time an approved draft shows what was sent: its text is
\* the message's, and the message says it has attachments if and only if it got some.
THEOREM DraftSentAsReviewed ==
  ASSUME Serial
  PROVE  Spec => []SentAsReviewed
<1>1. Init => IInv /\ CheckIsFresh /\ ReadIsCurrent /\ SentAsReviewed
  BY InitIInv, InitRead
<1>2. IInv /\ CheckIsFresh /\ ReadIsCurrent /\ SentAsReviewed /\ [Next]_vars
        => IInv' /\ CheckIsFresh' /\ ReadIsCurrent' /\ SentAsReviewed'
  BY StepIInv, StepFresh, StepRead
<1> QED
  BY <1>1, <1>2, PTL DEF Spec

\* When calls come one at a time, DraftService implements ReviewDecision: every
\* draft is decided once, and sent as one message if and only if it is approved.
THEOREM DraftDecidedOnce ==
  ASSUME Serial
  PROVE  Spec => DecidedOnce
<1> DEFINE st == [d \in Drafts |-> draft[d].status]
           ms == [d \in Drafts |-> MessagesOf(d)]
<1>1. Init => Decision!Init
  BY DEF Init, Decision!Init, MessagesOf, Messages, At, Idle
<1>2. IInv /\ CheckIsFresh /\ [Next]_vars => [Decision!Next]_<<st, ms>>
  <2> SUFFICES ASSUME IInv, CheckIsFresh, [Next]_vars PROVE [Decision!Next]_<<st, ms>>
    OBVIOUS
  <2> USE DEF Exists
  <2>0. call \in [Calls -> Call] /\ draft \in [Drafts -> Row]
    BY DEF IInv, TypeOK
  <2>1. ASSUME NEW d \in Drafts, Create(d) PROVE Decision!Create(d)
    <3>1. st' = [st EXCEPT ![d] = "pending"]
      BY <2>0, <2>1 DEF Create, Row
    <3>2. ms' = ms
      BY <2>1 DEF Create, MessagesOf, Messages, At
    <3> QED
      BY <2>1, <3>1, <3>2 DEF Create, Decision!Create
  <2>2. ASSUME NEW c \in Calls, UNCHANGED draft, call'[c].pc # "committed", call[c].pc # "committed",
               \A o \in Calls \ {c} : call'[o] = call[o]
        PROVE  UNCHANGED <<st, ms>>
    BY <2>2 DEF MessagesOf, Messages, At
  <2>3. CASE SchedulerQuery
    BY <2>3 DEF SchedulerQuery, MessagesOf, Messages, At
  <2>4. /\ \A c \in Calls, d \in Drafts, op \in Ops, mode \in Modes :
             Begin(c, op, d, mode) => UNCHANGED <<st, ms>>
        /\ \A c \in Calls, d \in Drafts : SchedulerApprove(c, d) => UNCHANGED <<st, ms>>
    <3> HIDE DEF st, ms
    <3>1. ASSUME NEW c \in Calls, NEW d \in Drafts, NEW op \in Ops, NEW mode \in Modes,
                 Begin(c, op, d, mode)
          PROVE  UNCHANGED <<st, ms>>
      BY <2>0, <2>2, <3>1 DEF Begin, Idle
    <3>2. ASSUME NEW c \in Calls, NEW d \in Drafts, SchedulerApprove(c, d)
          PROVE  UNCHANGED <<st, ms>>
      BY <2>0, <2>2, <3>2 DEF SchedulerApprove, Idle
    <3> QED
      BY <3>1, <3>2
  <2>5. ASSUME NEW c \in Calls,
               \/ CheckPending(c) \/ ApproveList(c) \/ ApproveLink(c) \/ WriteRow(c)
               \/ ApprovePublish(c) \/ RejectPublish(c) \/ ReplaceAttachments(c)
               \/ DeadlockAbort(c) \/ Rollback(c)
        PROVE  UNCHANGED <<st, ms>>
    <3>1. UNCHANGED draft /\ \A o \in Calls \ {c} : call'[o] = call[o]
      BY <2>0, <2>5
         DEF CheckPending, ApproveList, ApproveLink, WriteRow, ApprovePublish, RejectPublish,
             ReplaceAttachments, DeadlockAbort, Rollback, Goto
    <3>2. call'[c].pc # "committed" /\ call[c].pc # "committed"
      BY <2>0, <2>5
         DEF CheckPending, ApproveList, ApproveLink, WriteRow, ApprovePublish, RejectPublish,
             ReplaceAttachments, DeadlockAbort, Rollback, Goto, At, Active, Deadlocked,
             WaitsForAtts, WaitsForRow, Call
    <3> QED
      BY <2>2, <3>1, <3>2
  <2>6. ASSUME NEW c \in Calls, call[c].pc = "ready", call' = [call EXCEPT ![c].pc = "committed"]
        PROVE  /\ call[c].draft \in Drafts
               /\ Exists(call[c].draft)
               /\ ms' = [ms EXCEPT ![call[c].draft] =
                            IF call[c].op = "approve" THEN @ \cup {c} ELSE @]
    <3>1. call[c].draft \in Drafts /\ Exists(call[c].draft)
      BY <2>6 DEF IInv, CallHasDraft, LockedRowExists, HoldsRow
    <3>2. \A d \in Drafts : MessagesOf(d)' =
            IF d = call[c].draft /\ call[c].op = "approve"
               THEN MessagesOf(d) \cup {c} ELSE MessagesOf(d)
      BY <2>0, <2>6 DEF MessagesOf, Messages, At, Call
    <3> QED
      BY <3>1, <3>2
  <2>7. ASSUME NEW c \in Calls, NEW d \in Drafts, d = call[c].draft, CommitApprove(c)
        PROVE  Decision!Approve(d, c)
    <3>1. d \in Drafts /\ draft[d].status = "pending"
      BY <2>6, <2>7 DEF CommitApprove, At, Goto, CheckIsFresh
    <3>2. MessagesOf(d) = {}
      BY <3>1 DEF IInv, PendingHasNoMessage
    <3>3. ms' = [ms EXCEPT ![d] = {c}]
      BY <2>6, <2>7, <3>1, <3>2 DEF CommitApprove, At, Goto
    <3>4. st' = [st EXCEPT ![d] = "approved"]
      BY <2>0, <2>7, <3>1 DEF CommitApprove, Row
    <3> QED
      BY <3>1, <3>3, <3>4 DEF Decision!Approve
  <2>8. ASSUME NEW c \in Calls, NEW d \in Drafts, d = call[c].draft, CommitReject(c)
        PROVE  Decision!Reject(d)
    <3>1. d \in Drafts /\ draft[d].status = "pending"
      BY <2>6, <2>8 DEF CommitReject, At, Goto, CheckIsFresh
    <3>2. ms' = ms
      BY ZenonT(40), <2>6, <2>8 DEF CommitReject, At, Goto
    <3>3. st' = [st EXCEPT ![d] = "rejected"]
      BY <2>0, <2>8, <3>1 DEF CommitReject, Row
    <3> QED
      BY <3>1, <3>2, <3>3 DEF Decision!Reject
  <2>9. ASSUME NEW c \in Calls, CommitUpdate(c) PROVE UNCHANGED <<st, ms>>
    <3>1. ms' = ms
      BY ZenonT(40), <2>6, <2>9 DEF CommitUpdate, At, Goto
    <3>2. st' = st
      BY <2>0, <2>6, <2>9 DEF CommitUpdate, At, Goto, Row
    <3> QED
      BY <3>1, <3>2
  <2>10. ASSUME NEW c \in Calls, NEW d \in Drafts, d = call[c].draft, CommitDelete(c)
        PROVE  Decision!Delete(d)
    <3>1. d \in Drafts /\ Exists(d) /\ ms' = ms
      BY ZenonT(40), <2>6, <2>10 DEF CommitDelete, At, Goto
    <3>2. st' = [st EXCEPT ![d] = "deleted"]
      BY <2>0, <2>10, <3>1 DEF CommitDelete, Row
    <3> QED
      BY <3>1, <3>2 DEF Decision!Delete
  <2>11. CASE UNCHANGED vars
    BY <2>11 DEF vars, MessagesOf, Messages, At
  <2>12. ASSUME NEW c \in Calls, Step(c) \/ Rollback(c) PROVE [Decision!Next]_<<st, ms>>
    <3>1. ASSUME CommitApprove(c) \/ CommitReject(c) \/ CommitDelete(c) PROVE Decision!Next
      <4>1. call[c].draft \in Drafts
        BY <2>6, <3>1 DEF CommitApprove, CommitReject, CommitDelete, At, Goto
      <4>2. PICK d \in Drafts : d = call[c].draft
        BY <4>1
      <4> HIDE DEF st, ms
      <4> QED
        BY <2>7, <2>8, <2>10, <3>1, <4>2 DEF Decision!Next
    <3> HIDE DEF st, ms
    <3> QED
      BY <2>5, <2>9, <2>12, <3>1 DEF Step
  <2>13. ASSUME NEW d \in Drafts, Create(d) PROVE Decision!Next
    BY <2>1, <2>13 DEF Decision!Next
  <2> HIDE DEF st, ms
  <2> QED
    BY <2>3, <2>4, <2>11, <2>12, <2>13 DEF Next
<1> QED
  BY <1>1, <1>2, InitIInv, StepIInv, StepFresh, PTL DEF Spec, DecidedOnce, Decision!Spec

-----------------------------------------------------------------------------
(* ReviewedMail.  The theorems of OutboundProofs speak of its own instance  *)
(* of Outbound, which is the same as Mail.                                  *)

MailProofs == INSTANCE OutboundProofs WITH
    Msgs <- Calls, tx <- [c \in Calls |-> TxOf(c)], events <- mailEvents,
    notices <- {}

\* The two instances have the same initial states, steps and invariant.
LEMMA SameMail ==
    /\ Mail!Init <=> MailProofs!Init
    /\ [Mail!Next]_Mail!vars <=> [MailProofs!Next]_MailProofs!vars
    /\ Mail!IInv <=> MailProofs!IInv
    /\ Mail!IInv' <=> MailProofs!IInv'
<1>1. Mail!Init <=> MailProofs!Init
  BY DEF Mail!Init, MailProofs!Init
<1>2. [Mail!Next]_Mail!vars <=> [MailProofs!Next]_MailProofs!vars
  BY DEF Mail!vars, MailProofs!vars, Mail!Next, MailProofs!Next, Mail!Send,
         MailProofs!Send, Mail!ReceiveJob, MailProofs!ReceiveJob, Mail!ProcessRecord,
         MailProofs!ProcessRecord, Mail!WorkerFault, MailProofs!WorkerFault,
         Mail!SESEvents, MailProofs!SESEvents, Mail!Environment, MailProofs!Environment,
         Mail!SendInsert, MailProofs!SendInsert, Mail!SendPublish,
         MailProofs!SendPublish, Mail!SendPublishFails, MailProofs!SendPublishFails,
         Mail!SendCommit, MailProofs!SendCommit, Mail!SendAbort, MailProofs!SendAbort,
         Mail!SendAnnounce, MailProofs!SendAnnounce, Mail!LoadMessage,
         MailProofs!LoadMessage, Mail!LoadMissing, MailProofs!LoadMissing,
         Mail!SESAccept, MailProofs!SESAccept, Mail!RecordSent, MailProofs!RecordSent,
         Mail!RecordSentMissing, MailProofs!RecordSentMissing, Mail!RecordSentFails,
         MailProofs!RecordSentFails, Mail!RecordFailed, MailProofs!RecordFailed,
         Mail!AckJob, MailProofs!AckJob, Mail!SESRefuse, MailProofs!SESRefuse,
         Mail!Crash, MailProofs!Crash, Mail!EmailBounced, MailProofs!EmailBounced,
         Mail!EmailFailed, MailProofs!EmailFailed, Mail!EmailDelivered,
         MailProofs!EmailDelivered, Mail!ExpireJob, MailProofs!ExpireJob,
         Mail!DeleteInbox, MailProofs!DeleteInbox, Mail!SESNotify, MailProofs!SESNotify,
         Mail!ApplyNotice, MailProofs!ApplyNotice, Mail!AdvanceToSent,
         MailProofs!AdvanceToSent, Mail!Accept, MailProofs!Accept, Mail!ReturnJob,
         MailProofs!ReturnJob, Mail!PublishEvent, MailProofs!PublishEvent, Mail!Fault,
         MailProofs!Fault, Mail!Present, MailProofs!Present, Mail!Kinds,
         MailProofs!Kinds
<1>3. (Mail!IInv <=> MailProofs!IInv) /\ (Mail!IInv' <=> MailProofs!IInv')
  BY DEF Mail!IInv, MailProofs!IInv, Mail!TypeOK, MailProofs!TypeOK, Mail!RowFollowsTx,
         MailProofs!RowFollowsTx, Mail!WorkerHoldsJob, MailProofs!WorkerHoldsJob,
         Mail!MailHasRow, MailProofs!MailHasRow, Mail!SESHasMail, MailProofs!SESHasMail,
         Mail!SentIsAccepted, MailProofs!SentIsAccepted, Mail!NegativeIsReported,
         MailProofs!NegativeIsReported, Mail!CopiesPaidFor, MailProofs!CopiesPaidFor,
         Mail!DoneIsSettled, MailProofs!DoneIsSettled,
         Mail!JobUnlessFault, MailProofs!JobUnlessFault, Mail!Committed,
         MailProofs!Committed, Mail!TxStates, MailProofs!TxStates, Mail!RowStates,
         MailProofs!RowStates, Mail!Present, MailProofs!Present, Mail!JobStates,
         MailProofs!JobStates, Mail!WorkerPcs, MailProofs!WorkerPcs, Mail!Kinds,
         MailProofs!Kinds, Mail!Reports, MailProofs!Reports, Mail!EventTypes,
         MailProofs!EventTypes
<1> QED
  BY <1>1, <1>2, <1>3

\* The pipeline starts within its invariant and its steps keep it.
LEMMA MailIInv ==
    /\ Mail!Init => Mail!IInv
    /\ Mail!IInv /\ [Mail!Next]_Mail!vars => Mail!IInv'
  BY SameMail, PipeAssumption, MailProofs!InitIInv, MailProofs!StepIInv

\* How a step of the review moves the message of call c.
TxMove(c) ==
    \/ TxOf(c) = "none" /\ TxOf(c)' = "inserted" /\ jobs' = jobs
    \/ PublishFailed(c) /\ jobs' = jobs
    \/ At(c, "approve", "written") /\ At(c, "approve", "ready")' /\ jobs' = jobs \cup {c}
    \/ TxOf(c) = "published" /\ TxOf(c)' = "committed" /\ jobs' = jobs
    \/ /\ TxOf(c) \in {"none", "inserted", "published"}
       /\ TxOf(c)' = "aborted" /\ jobs' = jobs
    \/ TxOf(c)' = TxOf(c) /\ ~ At(c, "approve", "ready")' /\ jobs' = jobs
    \/ UNCHANGED <<call, jobs>>

\* Every step of the review moves the transaction of at most one call, and an
\* Approve goes through the stages of a transaction of Outbound in their order.
LEMMA ReviewMoves ==
  ASSUME IInv, Next, \A c \in Calls : c \in jobs => TxOf(c) \notin {"none", "inserted"}
  PROVE  \/ UNCHANGED <<call, jobs>>
         \/ \E c \in Calls : TxMove(c) /\ \A o \in Calls \ {c} : call'[o] = call[o]
<1>0. call \in [Calls -> Call]
  BY DEF IInv, TypeOK
<1> DEFINE Goal == \/ UNCHANGED <<call, jobs>>
                   \/ \E c \in Calls : TxMove(c) /\ \A o \in Calls \ {c} : call'[o] = call[o]
<1>1. ASSUME NEW d \in Drafts, Create(d) PROVE Goal
  BY <1>1 DEF Create
<1>2. ASSUME SchedulerQuery PROVE Goal
  BY <1>2 DEF SchedulerQuery
<1>3. ASSUME NEW c \in Calls, NEW r \in Call, r.pc = "begun", call[c].pc = "idle",
             call' = [call EXCEPT ![c] = r], jobs' = jobs
      PROVE  Goal
  <2>1. call'[c] = r /\ \A o \in Calls \ {c} : call'[o] = call[o]
    BY <1>0, <1>3
  <2>2. TxOf(c) = "none" /\ TxOf(c)' = "none"
    BY <1>0, <1>3, <2>1 DEF TxOf
  <2>3. TxMove(c)
    BY <1>3, <2>1, <2>2 DEF TxMove, At
  <2> QED
    BY <2>1, <2>3
<1>4. ASSUME NEW c \in Calls, NEW op \in Ops \ {"none"}, NEW d \in Drafts, NEW mode \in Modes,
             Begin(c, op, d, mode)
      PROVE  Goal
  <2> DEFINE r == [Idle EXCEPT !.pc = "begun", !.op = op, !.draft = d, !.mode = mode]
  <2>1. r \in Call /\ r.pc = "begun"
    BY DEF Idle, Call, Pcs, Ops, Modes, Contents
  <2>2. call[c].pc = "idle" /\ call' = [call EXCEPT ![c] = r] /\ jobs' = jobs
    BY <1>4 DEF Begin
  <2> HIDE DEF r, Goal
  <2> QED
    BY <1>3, <2>1, <2>2
<1>5. ASSUME NEW c \in Calls, NEW d \in Drafts, SchedulerApprove(c, d) PROVE Goal
  <2> DEFINE r == [Idle EXCEPT !.pc = "begun", !.op = "approve", !.draft = d,
                               !.scheduler = TRUE]
  <2>1. r \in Call /\ r.pc = "begun"
    BY DEF Idle, Call, Pcs, Ops, Modes, Contents
  <2>2. call[c].pc = "idle" /\ call' = [call EXCEPT ![c] = r] /\ jobs' = jobs
    BY <1>5 DEF SchedulerApprove
  <2> HIDE DEF r, Goal
  <2> QED
    BY <1>3, <2>1, <2>2
<1>6. ASSUME NEW c \in Calls, Move(c) PROVE Goal
  <2>1. /\ Active(c) /\ call'[c].op = call[c].op
        /\ \A o \in Calls \ {c} : call'[o] = call[o]
    BY <1>6, MoveShape
  <2>2. TxMove(c)
    <3> USE <1>0, <2>1 DEF TxMove, TxOf, At, Goto, Call
    <3>1. CASE CheckPending(c)
      BY <3>1 DEF CheckPending
    <3>2. CASE ApproveList(c)
      BY <3>2 DEF ApproveList
    <3>3. CASE ApproveLink(c)
      BY <3>3 DEF ApproveLink
    <3>4. CASE WriteRow(c)
      BY <3>4 DEF WriteRow, Active
    <3>5. CASE ApprovePublish(c)
      BY <3>5 DEF ApprovePublish, PublishFailed
    <3>6. CASE RejectPublish(c) \/ ReplaceAttachments(c)
      BY <3>6 DEF RejectPublish, ReplaceAttachments
    <3>7. CASE DeadlockAbort(c) \/ Rollback(c)
      BY <3>7 DEF DeadlockAbort, Rollback, Active, Pcs
    <3> QED
      BY <1>6, <3>1, <3>2, <3>3, <3>4, <3>5, <3>6, <3>7 DEF Move
  <2> QED
    BY <2>1, <2>2
<1>7. ASSUME NEW c \in Calls,
             CommitApprove(c) \/ CommitReject(c) \/ CommitUpdate(c) \/ CommitDelete(c)
      PROVE  Goal
  <2>1. /\ call[c].pc = "ready" /\ jobs' = jobs
        /\ call' = [call EXCEPT ![c].pc = "committed"]
    BY <1>7 DEF CommitApprove, CommitReject, CommitUpdate, CommitDelete, At, Goto
  <2>2. TxMove(c) /\ \A o \in Calls \ {c} : call'[o] = call[o]
    BY <1>0, <2>1 DEF TxMove, TxOf, At, Call
  <2> QED
    BY <2>2
<1>8. ASSUME NEW c \in Calls, Step(c) \/ Rollback(c) PROVE Goal
  <2> HIDE DEF Goal
  <2> QED
    BY <1>6, <1>7, <1>8 DEF Step, Move
<1>9. Goal
  <2> HIDE DEF Goal
  <2> QED
    BY <1>1, <1>2, <1>4, <1>5, <1>8 DEF Next
<1> QED
  BY <1>9

\* What a step of the review does to the pipeline is a step of Send.
LEMMA HandoverIsSend ==
  ASSUME PipeInv, Next, Handover
  PROVE  [Mail!Next]_Mail!vars /\ QueueHasJobs'
<1> DEFINE T == [c \in Calls |-> TxOf(c)]
<1>0. /\ call \in [Calls -> Call] /\ row \in [Calls -> Mail!RowStates]
      /\ job \in [Calls -> Mail!JobStates] /\ faults \in [Calls -> Nat]
      /\ jobs \in SUBSET Calls
      /\ \A c \in Calls : c \in jobs <=> job[c] # "absent"
  BY DEF PipeInv, IInv, TypeOK, Mail!IInv, Mail!TypeOK, QueueHasJobs
<1>1. \A c \in Calls : c \in jobs => TxOf(c) \notin {"none", "inserted"}
  BY <1>0 DEF PipeInv, Mail!IInv, Mail!RowFollowsTx
<1>2. \A c \in Calls : /\ c \in Messages <=> TxOf(c) = "committed"
                       /\ (c \in Messages)' <=> TxOf(c)' = "committed"
  <2>1. call \in [Calls -> Call] /\ call' \in [Calls -> Call]
    BY StepIInv DEF PipeInv, IInv, TypeOK
  <2> QED
    BY <2>1 DEF Messages, At, TxOf, Call, Pcs
<1>3. CASE UNCHANGED <<call, jobs>>
  <2>1. \A c \in Calls : TxOf(c)' = TxOf(c) /\ ~ Published(c) /\ ~ PublishFailed(c)
    BY <1>3 DEF TxOf, Published, PublishFailed, At
  <2>2. Messages' = Messages
    BY <1>3 DEF Messages, At
  <2>3. T' = T /\ job' = job /\ row' = row /\ faults' = faults
    BY <1>0, <2>1, <2>2 DEF Handover
  <2>4. UNCHANGED Mail!vars
    BY <2>3 DEF Mail!vars, Handover
  <2> QED
    BY <1>3, <2>3, <2>4 DEF PipeInv, QueueHasJobs
<1>4. ASSUME NEW c \in Calls, TxMove(c), \A o \in Calls \ {c} : call'[o] = call[o]
      PROVE  [Mail!Next]_Mail!vars /\ QueueHasJobs'
  <2>1. \A o \in Calls \ {c} : /\ TxOf(o)' = TxOf(o) /\ ~ PublishFailed(o)
                               /\ (o \in Messages)' <=> o \in Messages
    <3> SUFFICES ASSUME NEW o \in Calls \ {c}
                 PROVE  /\ TxOf(o)' = TxOf(o) /\ ~ PublishFailed(o)
                        /\ (o \in Messages)' <=> o \in Messages
      OBVIOUS
    <3>1. call'[o] = call[o]
      BY <1>4
    <3>2. TxOf(o)' = TxOf(o)
      BY <3>1 DEF TxOf
    <3>3. ~ PublishFailed(o) /\ ((o \in Messages)' <=> o \in Messages)
      BY <3>1 DEF PublishFailed, Messages, At
    <3> QED
      BY <3>2, <3>3
  <2>2. PublishFailed(c) => TxOf(c) = "inserted" /\ TxOf(c)' = "published"
    BY DEF PublishFailed, At, TxOf
  <2>3. T' = [T EXCEPT ![c] = TxOf(c)']
    BY <2>1
  <2>4. /\ row' = [row EXCEPT ![c] = IF c \in Messages' \ Messages THEN "sending" ELSE @]
        /\ faults' = [faults EXCEPT ![c] = IF PublishFailed(c) THEN @ + 1 ELSE @]
        /\ faults'[c] <= MaxFaults
        /\ UNCHANGED <<worker, mails, said, mailEvents>>
    BY <1>0, <2>1 DEF Handover
  <2>5. jobs' \in {jobs, jobs \cup {c}}
    BY <1>4 DEF TxMove
  <2>6. job' = [job EXCEPT ![c] = IF Published(c) THEN "visible" ELSE @]
    BY <1>0, <2>5 DEF Handover, Published
  <2>7. QueueHasJobs'
    BY <1>0, <2>5, <2>6 DEF QueueHasJobs, Published
  <2> USE DEF Mail!vars
  <2>8. CASE TxOf(c) = "none" /\ TxOf(c)' = "inserted" /\ jobs' = jobs
    <3>1. ~ Published(c) /\ ~ PublishFailed(c) /\ c \notin Messages'
      BY <1>2, <2>2, <2>8 DEF Published
    <3>2. Mail!SendInsert(c)
      BY <1>0, <2>3, <2>4, <2>6, <2>8, <3>1 DEF Mail!SendInsert
    <3> QED
      BY <2>7, <3>2 DEF Mail!Next, Mail!Send
  <2>9. CASE PublishFailed(c) /\ jobs' = jobs
    <3>1. ~ Published(c) /\ c \notin Messages'
      BY <1>2, <2>2, <2>9 DEF Published
    <3>2. Mail!SendPublishFails(c)
      BY <1>0, <2>2, <2>3, <2>4, <2>6, <2>9, <3>1, PipeAssumption
         DEF Mail!SendPublishFails, Mail!Fault
    <3> QED
      BY <2>7, <3>2 DEF Mail!Next, Mail!Send
  <2>10. CASE /\ At(c, "approve", "written") /\ At(c, "approve", "ready")'
              /\ jobs' = jobs \cup {c}
    <3>1. TxOf(c) = "inserted" /\ TxOf(c)' = "published"
      BY <2>10 DEF At, TxOf
    <3>2. Published(c) /\ ~ PublishFailed(c) /\ c \notin Messages'
      BY <1>1, <1>2, <2>10, <3>1 DEF Published, PublishFailed
    <3>3. Mail!SendPublish(c)
      BY <1>0, <2>3, <2>4, <2>6, <3>1, <3>2 DEF Mail!SendPublish
    <3> QED
      BY <2>7, <3>3 DEF Mail!Next, Mail!Send
  <2>11. CASE TxOf(c) = "published" /\ TxOf(c)' = "committed" /\ jobs' = jobs
    <3>1. ~ Published(c) /\ ~ PublishFailed(c) /\ c \in Messages' \ Messages
      BY <1>2, <2>2, <2>11 DEF Published
    <3>2. Mail!SendCommit(c)
      BY <1>0, <2>3, <2>4, <2>6, <2>11, <3>1 DEF Mail!SendCommit
    <3> QED
      BY <2>7, <3>2 DEF Mail!Next, Mail!Send
  <2>12. CASE /\ TxOf(c) \in {"none", "inserted", "published"}
              /\ TxOf(c)' = "aborted" /\ jobs' = jobs
    <3>1. ~ Published(c) /\ ~ PublishFailed(c) /\ c \notin Messages'
      BY <1>2, <2>2, <2>12 DEF Published
    <3>2. Mail!SendAbort(c)
      BY <1>0, <2>3, <2>4, <2>6, <2>12, <3>1 DEF Mail!SendAbort
    <3> QED
      BY <2>7, <3>2 DEF Mail!Next, Mail!Send
  <2>13. CASE TxOf(c)' = TxOf(c) /\ ~ At(c, "approve", "ready")' /\ jobs' = jobs
    <3>1. ~ Published(c) /\ ~ PublishFailed(c) /\ ((c \in Messages)' <=> c \in Messages)
      BY <1>2, <2>13 DEF Published, PublishFailed
    <3>2. UNCHANGED Mail!vars
      BY <1>0, <2>3, <2>4, <2>6, <2>13, <3>1
    <3> QED
      BY <2>7, <3>2
  <2> QED
    BY <1>3, <1>4, <2>8, <2>9, <2>10, <2>11, <2>12, <2>13 DEF TxMove
<1>5. IInv
  BY DEF PipeInv
<1> QED
  BY <1>1, <1>3, <1>4, <1>5, ReviewMoves

\* Every step of the whole is a step of the pipeline, and keeps what both agree on.
LEMMA StepPipe ==
  ASSUME PipeInv, [PipeNext]_pipeVars
  PROVE  [Mail!Next]_Mail!vars /\ PipeInv'
<1>1. CASE Next /\ Handover
  BY <1>1, HandoverIsSend, MailIInv, StepIInv DEF PipeInv
<1>2. ASSUME UNCHANGED vars, NEW c \in Calls, MailStep(c)
      PROVE  [Mail!Next]_Mail!vars /\ PipeInv'
  <2>1. Mail!Next
    BY <1>2 DEF MailStep, Mail!Next, Mail!Environment
  <2>2. Mail!IInv' /\ IInv'
    BY <1>2, <2>1, MailIInv, StepIInv DEF PipeInv
  <2>3. job \in [Calls -> Mail!JobStates] /\ (worker[c] # "idle" => job[c] # "absent")
    BY DEF PipeInv, Mail!IInv, Mail!TypeOK, Mail!WorkerHoldsJob
  <2>4. \A o \in Calls : job'[o] # "absent" <=> job[o] # "absent"
    BY <1>2, <2>3
       DEF MailStep, Mail!ReceiveJob, Mail!ProcessRecord, Mail!WorkerFault, Mail!ExpireJob,
           Mail!LoadMessage, Mail!LoadMissing, Mail!SESAccept, Mail!RecordSent,
           Mail!RecordSentMissing, Mail!RecordFailed, Mail!AckJob, Mail!SESRefuse,
           Mail!RecordSentFails, Mail!Crash, Mail!ReturnJob
  <2>5. QueueHasJobs'
    BY <1>2, <2>4 DEF PipeInv, QueueHasJobs, vars
  <2> QED
    BY <2>1, <2>2, <2>5 DEF PipeInv
<1>3. CASE UNCHANGED pipeVars
  <2>1. UNCHANGED vars /\ UNCHANGED <<row, job, worker, mails, said, mailEvents, faults>>
    BY <1>3 DEF pipeVars, mailVars
  <2>2. UNCHANGED Mail!vars
    BY <2>1 DEF Mail!vars, vars, TxOf
  <2>3. Mail!IInv' /\ IInv'
    BY <2>1, <2>2, MailIInv, StepIInv DEF PipeInv
  <2>4. QueueHasJobs'
    BY <2>1 DEF PipeInv, QueueHasJobs, vars
  <2> QED
    BY <2>2, <2>3, <2>4 DEF PipeInv
<1> QED
  BY <1>1, <1>2, <1>3 DEF PipeNext

\* The whole starts with nothing made, published or sent.
LEMMA InitPipe == PipeInit => PipeInv
<1>1. PipeInit => QueueHasJobs
  BY DEF PipeInit, Init, Mail!Init, QueueHasJobs
<1> QED
  BY <1>1, InitIInv, MailIInv DEF PipeInit, PipeInv

\* Reviews and email_outbound together implement Outbound: what holds of the
\* messages that Send makes holds of those Approve makes, any calls overlapping.
THEOREM ReviewedMailWorks == PipeSpec => MailWorks
<1>1. PipeInit => Mail!Init
  BY DEF PipeInit
<1> QED
  BY <1>1, InitPipe, StepPipe, PTL DEF PipeSpec, MailWorks, Mail!Spec

\* However calls overlap, no email leaves for a draft that is still pending.
THEOREM ReviewedMailIsReviewed == PipeSpec => []EmailIsReviewed
<1>1. PipeInv => EmailIsReviewed
  <2> SUFFICES ASSUME PipeInv, NEW c \in Calls, mails[c] > 0
               PROVE  c \in Messages /\ draft[call[c].draft].status # "pending"
    BY DEF EmailIsReviewed
  <2>1. TxOf(c) \in {"committed", "announced"}
    BY DEF PipeInv, Mail!IInv, Mail!MailHasRow, Mail!RowFollowsTx, Mail!Committed
  <2>2. At(c, "approve", "committed")
    BY <2>1 DEF TxOf, At, PipeInv, IInv, TypeOK, Call, Pcs
  <2>3. call[c].draft \in Drafts /\ c \in MessagesOf(call[c].draft)
    BY <2>2 DEF PipeInv, IInv, CallHasDraft, At, Messages, MessagesOf
  <2> QED
    BY <2>3 DEF PipeInv, IInv, PendingHasNoMessage, MessagesOf
<1> QED
  BY <1>1, InitPipe, StepPipe, PTL DEF PipeSpec

\* What ReviewDecision comes to for messages: a draft that is pending or rejected
\* has none, any other at most one.
DecidedMessages == \A d \in Drafts :
    /\ draft[d].status \in {"absent", "pending", "rejected"} => MessagesOf(d) = {}
    /\ \A c, o \in MessagesOf(d) : c = o

\* When calls come one at a time this follows from DraftDecidedOnce.
LEMMA DecisionHolds ==
  ASSUME Serial
  PROVE  Spec => []DecidedMessages
<1> DEFINE st == [d \in Drafts |-> draft[d].status]
           ms == [d \in Drafts |-> MessagesOf(d)]
           Inv == /\ st \in [Drafts -> Statuses] /\ ms \in [Drafts -> SUBSET Calls]
                  /\ \A d \in Drafts :
                        /\ st[d] \in {"absent", "pending", "rejected"} => ms[d] = {}
                        /\ \A c, o \in ms[d] : c = o
<1>1. Decision!Init => Inv
  BY DEF Decision!Init, Statuses
<1>2. Inv /\ [Decision!Next]_<<st, ms>> => Inv'
  <2> SUFFICES ASSUME Inv, [Decision!Next]_<<st, ms>> PROVE Inv'
    OBVIOUS
  <2>1. ASSUME NEW d \in Drafts, Decision!Create(d) \/ Decision!Reject(d) \/ Decision!Delete(d)
        PROVE  Inv'
    <3>1. /\ ms' = ms
          /\ \/ st' = [st EXCEPT ![d] = "pending"] /\ st[d] = "absent"
             \/ st' = [st EXCEPT ![d] = "rejected"] /\ st[d] = "pending"
             \/ st' = [st EXCEPT ![d] = "deleted"]
      BY <2>1 DEF Decision!Create, Decision!Reject, Decision!Delete
    <3> HIDE DEF st, ms
    <3> QED
      BY <3>1 DEF Statuses
  <2>2. ASSUME NEW d \in Drafts, NEW m \in Calls, Decision!Approve(d, m) PROVE Inv'
    <3>1. st' = [st EXCEPT ![d] = "approved"] /\ ms' = [ms EXCEPT ![d] = {m}]
      BY <2>2 DEF Decision!Approve
    <3> HIDE DEF st, ms
    <3> QED
      BY <3>1 DEF Statuses
  <2>3. CASE UNCHANGED <<st, ms>>
    BY <2>3
  <2> QED
    BY <2>1, <2>2, <2>3 DEF Decision!Next
<1>3. Inv => DecidedMessages
  BY DEF DecidedMessages
<1> QED
  BY <1>1, <1>2, <1>3, DraftDecidedOnce, PTL DEF DecidedOnce, Decision!Spec

\* When calls come one at a time no email leaves for a rejected draft, and SES gets
\* one message of a draft at most.
THEOREM ReviewedMailIsObeyed ==
  ASSUME Serial
  PROVE  PipeSpec => []ReviewIsObeyed
<1>1. PipeInv /\ EmailIsReviewed /\ DecidedMessages => ReviewIsObeyed
  <2> SUFFICES ASSUME PipeInv, EmailIsReviewed, DecidedMessages, NEW c \in Calls, mails[c] > 0
               PROVE  /\ draft[call[c].draft].status \in {"approved", "deleted"}
                      /\ \A o \in Calls :
                            mails[o] > 0 /\ call[o].draft = call[c].draft => o = c
    BY DEF ReviewIsObeyed
  <2>1. \A o \in Calls : mails[o] > 0 => o \in MessagesOf(call[o].draft)
    BY DEF EmailIsReviewed, MessagesOf
  <2>2. call[c].draft \in Drafts
    BY <2>1 DEF PipeInv, IInv, CallHasDraft, MessagesOf, Messages, At
  <2>3. draft[call[c].draft].status \in Statuses \ {"absent", "pending", "rejected"}
    BY <2>1, <2>2 DEF DecidedMessages, PipeInv, IInv, TypeOK, Row
  <2> QED
    BY <2>1, <2>2, <2>3 DEF DecidedMessages, Statuses
<1>2. PipeInit => Init
  BY DEF PipeInit
<1>3. [PipeNext]_pipeVars => [Next]_vars
  BY DEF PipeNext, pipeVars
<1>4. PipeSpec => Spec
  BY <1>2, <1>3, PTL DEF PipeSpec, Spec
<1> QED
  BY <1>1, <1>4, InitPipe, StepPipe, ReviewedMailIsReviewed, DecisionHolds, PTL DEF PipeSpec
=============================================================================
