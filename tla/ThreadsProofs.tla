--------------------------- MODULE ThreadsProofs ---------------------------
(***************************************************************************)
(* Proofs about PATCH of threads, for any threads, patches and number of   *)
(* overlapping requests: row locks exclude each other, the last event of a *)
(* thread names its status, and an answered PATCH is undone only by one    *)
(* that names the same field and had not ended when it began.              *)
(***************************************************************************)
EXTENDS Threads, FiniteSetTheorems, WellFoundedInduction, TLAPS

Call == [pc : Pcs, thread : Threads \cup {None}, patch : Patches \cup {NoPatch},
         old : Statuses \cup {None}]

Locks(c) == call[c].pc \in {"updated", "published"}

\* A request that has begun is about a thread that exists, or did; it is at a
\* field only if its patch names it.
CallHasThread == \A c \in Calls :
    /\ call[c].pc # "idle" => call[c].thread \in Threads /\ row[call[c].thread].status # "none"
    /\ call[c].pc \in {"status", "old", "updated", "published"} => call[c].patch.status \in Statuses
    /\ call[c].pc = "read" => call[c].patch.read \in BOOLEAN
    /\ call[c].pc = "starred" => call[c].patch.starred \in BOOLEAN

\* The row lock: one holder, and the row is not deleted under it.
LocksExclude == \A c, o \in Calls :
    Locks(c) /\ Locks(o) /\ call[c].thread = call[o].thread => c = o
LockedExists == \A c \in Calls : Locks(c) => Exists(call[c].thread)

\* The last event is ahead of the row only while the request that published it
\* is about to commit.
LastEvent == \A t \in Threads : Exists(t) /\ t \notin troubled =>
    \/ announced[t] = row[t].status
    \/ \E c \in Calls : call[c].pc = "published" /\ call[c].thread = t
PublishedIsLast == \A c \in Calls :
    call[c].pc = "published" /\ call[c].thread \notin troubled =>
        announced[call[c].thread] = call[c].patch.status

\* Every request that had ended when another one began has ended, and is not that one.
EarlierEnded == \A c \in Calls : c \notin earlier[c] /\ \A o \in earlier[c] : Ended(o)

\* A request that is past a field: it has written it, or its patch does not name it.
Past(r, f) ==
    \/ r.pc = "ok"
    \/ r.pc = "starred" /\ f # "starred"
    \/ r.pc = "read" /\ f = "status"

\* What PatchIsKept says holds of a field from the moment its request is past it.
FieldIsKept == \A c \in Calls, f \in Fields :
    Past(call[c], f) /\ Exists(call[c].thread) /\ call[c].patch[f] # None =>
        \E o \in Calls \ earlier[c] : /\ call[o].pc # "idle"
                                      /\ call[o].thread = call[c].thread
                                      /\ call[o].patch[f] = row[call[c].thread][f]

IInv == TypeOK /\ CallHasThread /\ LocksExclude /\ LockedExists /\ LastEvent
        /\ PublishedIsLast /\ EarlierEnded /\ FieldIsKept


\* In the initial state there is no thread and no request.
LEMMA InitIInv == Init => IInv
<1> SUFFICES ASSUME Init PROVE IInv
  OBVIOUS
<1> USE DEF Init, NewRow, NoPatch, Statuses
<1>1. TypeOK
  BY DEF TypeOK, Row, Pcs
<1>2. CallHasThread /\ LocksExclude /\ LockedExists /\ PublishedIsLast
  BY DEF CallHasThread, LocksExclude, LockedExists, PublishedIsLast, Locks
<1>3. LastEvent /\ EarlierEnded /\ FieldIsKept
  BY DEF LastEvent, EarlierEnded, FieldIsKept, Past, Exists
<1> QED
  BY <1>1, <1>2, <1>3 DEF IInv

\* The field after one that is done is named by the patch, and the ones skipped are not.
LEMMA NextPcNamed ==
  ASSUME NEW patch \in Patches \cup {NoPatch}, NEW pc \in {"begin", "status", "read", "starred"}
  PROVE  /\ NextPc(patch, pc) \in {"status", "read", "starred", "ok"}
         /\ NextPc(patch, pc) = "status" => patch.status \in Statuses
         /\ NextPc(patch, pc) = "read" => patch.read \in BOOLEAN
         /\ NextPc(patch, pc) = "starred" => patch.starred \in BOOLEAN
         /\ pc = "begin" /\ NextPc(patch, pc) # "status" => patch.status = None
         /\ pc \in {"begin", "status"} /\ NextPc(patch, pc) \in {"starred", "ok"} => patch.read = None
         /\ pc # "starred" /\ NextPc(patch, pc) = "ok" => patch.starred = None
         /\ pc \in {"read", "starred"} => NextPc(patch, pc) # "read"
         /\ pc # "begin" => NextPc(patch, pc) # "status"
         /\ pc = "starred" => NextPc(patch, pc) = "ok"
  BY ThreadsAssumption DEF NextPc, NoPatch

\* A step of one request that writes no row, publishes nothing and takes the row
\* lock only if it is free keeps the invariant.
LEMMA MoveOn ==
  ASSUME IInv, NEW c \in Calls, call[c].pc # "published",
         NEW r \in Call, call' = [call EXCEPT ![c] = r],
         r.thread \in Threads, row[r.thread].status # "none",
         r.pc \in {"status", "old", "updated"} => r.patch.status \in Statuses,
         r.pc = "read" => r.patch.read \in BOOLEAN,
         r.pc = "starred" => r.patch.starred \in BOOLEAN,
         r.pc # "published",
         r.pc = "updated" => Exists(r.thread) /\ Free(r.thread),
         ~ Ended(c), r.pc # "idle",
         \/ call[c].pc = "idle" /\ earlier' = [earlier EXCEPT ![c] = {o \in Calls : Ended(o)}]
         \/ r.thread = call[c].thread /\ r.patch = call[c].patch /\ earlier' = earlier,
         \A f \in Fields : Past(r, f) => r.patch[f] = None,
         UNCHANGED <<row, announced, troubled>>
  PROVE  IInv'
<1> USE DEF IInv, Locks
<1>1. TypeOK'
  BY DEF TypeOK, Call
<1>2. CallHasThread'
  BY DEF CallHasThread, TypeOK, Call
<1>3. LocksExclude' /\ LockedExists'
  BY DEF LocksExclude, LockedExists, TypeOK, Free, Exists, Call
<1>4. LastEvent' /\ PublishedIsLast'
  BY DEF LastEvent, PublishedIsLast, TypeOK, Exists, Call
<1>5. \A o \in Calls : /\ o # c => call'[o] = call[o] /\ earlier'[o] = earlier[o]
                       /\ call'[c] = r
  BY DEF TypeOK
<1>6. EarlierEnded'
  <2>1. /\ c \notin earlier'[c]
        /\ \A o \in earlier'[c] : Ended(o)
    BY DEF EarlierEnded, TypeOK
  <2> QED
    BY <1>5, <2>1 DEF EarlierEnded, Ended, TypeOK
<1>7. FieldIsKept'
  <2> SUFFICES ASSUME NEW o \in Calls, NEW f \in Fields, Past(call'[o], f),
                      Exists(call'[o].thread), call'[o].patch[f] # None
               PROVE  \E q \in Calls \ earlier'[o] :
                         /\ call'[q].pc # "idle" /\ call'[q].thread = call'[o].thread
                         /\ call'[q].patch[f] = row[call'[o].thread][f]
    BY DEF FieldIsKept, Exists
  <2>1. o # c
    BY <1>5
  <2>2. PICK q \in Calls \ earlier[o] : /\ call[q].pc # "idle" /\ call[q].thread = call[o].thread
                                        /\ call[q].patch[f] = row[call[o].thread][f]
    BY <1>5, <2>1 DEF FieldIsKept
  <2>3. call'[q].pc # "idle" /\ call'[q].thread = call[q].thread /\ call'[q].patch = call[q].patch
    BY <1>5, <2>2
  <2> QED
    BY <1>5, <2>1, <2>2, <2>3
<1> QED
  BY <1>1, <1>2, <1>3, <1>4, <1>6, <1>7

\* A commit of one field keeps the invariant: the row is locked by the request,
\* or by nobody, and the status is the one its event has announced.
LEMMA CommitField ==
  ASSUME IInv, NEW c \in Calls, NEW field \in Fields,
         Exists(call[c].thread), WriteField(c, field),
         IF field = "status" THEN call[c].pc = "published"
                             ELSE call[c].pc = field /\ Free(call[c].thread),
         call' = [call EXCEPT ![c].pc = NextPc(call[c].patch, field)],
         UNCHANGED <<announced, troubled, earlier>>
  PROVE  IInv'
<1> DEFINE t == call[c].thread
           v == call[c].patch[field]
<1> USE DEF IInv, Fields
<1>1. t \in Threads /\ row[t].status \in Statuses
  BY DEF CallHasThread, Exists
<1>2. /\ field = "status" => v \in Statuses
      /\ field # "status" => v \in BOOLEAN
  BY DEF CallHasThread
<1>3. /\ NextPc(call[c].patch, field) \in Pcs \ {"idle", "old", "updated", "published"}
      /\ NextPc(call[c].patch, field) = "status" => call[c].patch.status \in Statuses
      /\ NextPc(call[c].patch, field) = "read" => call[c].patch.read \in BOOLEAN
      /\ NextPc(call[c].patch, field) = "starred" => call[c].patch.starred \in BOOLEAN
  BY NextPcNamed DEF Pcs, TypeOK
<1>4. [row[t] EXCEPT ![field] = v] \in Row
  BY SMTT(30), <1>1, <1>2 DEF TypeOK, Row
<1>5. row' = [row EXCEPT ![t] = [row[t] EXCEPT ![field] = v]]
  BY <1>1 DEF WriteField
<1>6. \A u \in Threads : /\ u # t => row'[u] = row[u]
                         /\ row'[t] = [row[t] EXCEPT ![field] = v]
  BY <1>1, <1>5 DEF TypeOK
<1>7. row'[t].status = IF field = "status" THEN v ELSE row[t].status
  BY <1>1, <1>6 DEF TypeOK, Row
<1>8. \A u \in Threads : Exists(u)' <=> Exists(u)
  BY <1>1, <1>2, <1>6, <1>7 DEF Exists
<1>9. TypeOK'
  BY SMTT(30), <1>1, <1>3, <1>4, <1>5 DEF TypeOK
<1> HIDE DEF t, v
<1>10. \A o \in Calls : /\ call'[o].thread = call[o].thread /\ call'[o].patch = call[o].patch
                        /\ o # c => call'[o] = call[o]
                        /\ call'[c].pc = NextPc(call[c].patch, field)
  BY DEF TypeOK
<1>11. CallHasThread'
  <2> SUFFICES ASSUME NEW o \in Calls
               PROVE  /\ call'[o].pc # "idle" =>
                           call'[o].thread \in Threads /\ row'[call'[o].thread].status # "none"
                      /\ call'[o].pc \in {"status", "old", "updated", "published"} =>
                           call'[o].patch.status \in Statuses
                      /\ call'[o].pc = "read" => call'[o].patch.read \in BOOLEAN
                      /\ call'[o].pc = "starred" => call'[o].patch.starred \in BOOLEAN
    BY DEF CallHasThread
  <2>1. \A u \in Threads : row[u].status # "none" => row'[u].status # "none"
    BY <1>1, <1>2, <1>6, <1>7 DEF Statuses
  <2>2. call[c].pc # "idle"
    OBVIOUS
  <2> QED
    BY <1>1, <1>3, <1>10, <2>1, <2>2 DEF CallHasThread
<1>12. LocksExclude' /\ LockedExists'
  BY <1>1, <1>3, <1>8, <1>10 DEF LocksExclude, LockedExists, Locks, CallHasThread
<1>13. LastEvent'
  BY <1>1, <1>3, <1>6, <1>7, <1>8, <1>10 DEF LastEvent, PublishedIsLast, Free, t, v
<1>14. PublishedIsLast'
  BY <1>3, <1>10 DEF PublishedIsLast
<1>15. EarlierEnded'
  BY <1>3, <1>10 DEF EarlierEnded, Ended
<1>16. FieldIsKept'
  <2> SUFFICES ASSUME NEW o \in Calls, NEW f \in Fields, Past(call'[o], f),
                      Exists(call[o].thread)', call[o].patch[f] # None
               PROVE  \E q \in Calls \ earlier[o] :
                         /\ call'[q].pc # "idle" /\ call[q].thread = call[o].thread
                         /\ call[q].patch[f] = row'[call[o].thread][f]
    BY <1>10 DEF FieldIsKept, Exists
  <2>1. c \in Calls \ earlier[o] /\ call'[c].pc # "idle"
    BY <1>3, <1>10 DEF EarlierEnded, Ended
  <2>2. call[o].thread \in Threads /\ Exists(call[o].thread)
    <3>1. call[o].pc # "idle"
      BY <1>10 DEF Past
    <3> QED
      BY <1>8, <1>10, <3>1 DEF CallHasThread
  <2>3. ASSUME f = field, call[o].thread = t
        PROVE  call[c].patch[f] = row'[t][f]
    BY <1>1, <1>6, <2>3 DEF TypeOK, Row, v
  <2>4. ASSUME ~ (f = field /\ call[o].thread = t)
        PROVE  Past(call[o], f) /\ row'[call[o].thread][f] = row[call[o].thread][f]
    <3>1. row'[call[o].thread][f] = row[call[o].thread][f]
      BY <1>1, <1>6, <2>2, <2>4 DEF TypeOK, Row
    <3>2. Past(call[o], f)
      BY <1>3, <1>10, <2>4, NextPcNamed DEF Past, TypeOK, t
    <3> QED
      BY <3>1, <3>2
  <2>5. ASSUME Past(call[o], f) /\ row'[call[o].thread][f] = row[call[o].thread][f]
        PROVE  \E q \in Calls \ earlier[o] :
                  /\ call'[q].pc # "idle" /\ call[q].thread = call[o].thread
                  /\ call[q].patch[f] = row'[call[o].thread][f]
    <3>1. PICK q \in Calls \ earlier[o] : /\ call[q].pc # "idle" /\ call[q].thread = call[o].thread
                                          /\ call[q].patch[f] = row[call[o].thread][f]
      BY <2>2, <2>5 DEF FieldIsKept
    <3>2. call'[q].pc # "idle"
      BY <1>10, <2>1, <3>1
    <3> QED
      BY <2>5, <3>1, <3>2
  <2> QED
    BY <2>1, <2>3, <2>4, <2>5 DEF t
<1> QED
  BY <1>9, <1>11, <1>12, <1>13, <1>14, <1>15, <1>16

\* A request that publishes or fails is past no field and writes none: what the others
\* have written is kept.
LEMMA EndKeeps ==
  ASSUME IInv, NEW c \in Calls, UNCHANGED <<row, earlier>>,
         call[c].pc \notin {"idle", "ok", "failed"}, call'[c].pc \in {"published", "failed"},
         \A o \in Calls : /\ call'[o].thread = call[o].thread /\ call'[o].patch = call[o].patch
                          /\ o # c => call'[o] = call[o]
  PROVE  EarlierEnded' /\ FieldIsKept'
<1> USE DEF IInv
<1>1. EarlierEnded'
  BY DEF EarlierEnded, Ended, TypeOK
<1>2. \A o \in Calls : call[o].pc # "idle" => call'[o].pc # "idle"
  OBVIOUS
<1>3. \A o \in Calls, f \in Fields : Past(call'[o], f) => Past(call[o], f)
  BY DEF Past
<1>4. FieldIsKept'
  <2> SUFFICES ASSUME NEW o \in Calls, NEW f \in Fields, Past(call'[o], f),
                      Exists(call[o].thread), call[o].patch[f] # None
               PROVE  \E q \in Calls \ earlier[o] :
                         /\ call'[q].pc # "idle" /\ call[q].thread = call[o].thread
                         /\ call[q].patch[f] = row[call[o].thread][f]
    BY DEF FieldIsKept, Exists
  <2> QED
    BY <1>2, <1>3 DEF FieldIsKept
<1> QED
  BY <1>1, <1>4

\* Every step of every request keeps the invariant.
LEMMA StepIInv == IInv /\ [Next]_vars => IInv'
<1> SUFFICES ASSUME IInv, [Next]_vars PROVE IInv'
  OBVIOUS
<1> USE DEF IInv
<1>1. ASSUME NEW t \in Threads, NewThread(t) PROVE IInv'
  <2> USE <1>1 DEF NewThread, Statuses
  <2>1. TypeOK'
    BY DEF TypeOK, NewRow, Row
  <2>2. \A c \in Calls : call[c].pc # "idle" => call[c].thread # t
    BY DEF CallHasThread
  <2>3. CallHasThread' /\ LocksExclude' /\ LockedExists' /\ PublishedIsLast'
    BY <2>2 DEF CallHasThread, LocksExclude, LockedExists, PublishedIsLast, Locks, Exists, TypeOK
  <2>4. LastEvent' /\ EarlierEnded'
    BY DEF LastEvent, EarlierEnded, Ended, Exists, TypeOK, NewRow
  <2>5. \A u \in Threads : u # t => row'[u] = row[u]
    BY DEF TypeOK
  <2>6. FieldIsKept'
    BY <2>2, <2>5 DEF FieldIsKept, Past, Exists, CallHasThread
  <2> QED
    BY <2>1, <2>3, <2>4, <2>6
<1>2. ASSUME NEW t \in Threads, DeleteThread(t) PROVE IInv'
  <2> USE <1>2 DEF DeleteThread, Exists
  <2>1. TypeOK'
    BY DEF TypeOK, Row
  <2>2. \A u \in Threads : u # t => row'[u] = row[u]
    BY DEF TypeOK
  <2>3. row'[t].status = "gone"
    BY DEF TypeOK, Row
  <2>4. CallHasThread' /\ LocksExclude' /\ LockedExists' /\ PublishedIsLast'
    BY <2>2, <2>3 DEF CallHasThread, LocksExclude, LockedExists, PublishedIsLast, Locks, Free
  <2>5. LastEvent' /\ EarlierEnded'
    BY <2>2, <2>3 DEF LastEvent, EarlierEnded, Ended, Statuses
  <2>6. FieldIsKept'
    BY <2>2, <2>3 DEF FieldIsKept, Past, Statuses, CallHasThread
  <2> QED
    BY <2>1, <2>4, <2>5, <2>6
<1>3. ASSUME NEW c \in Calls, NEW t \in Threads, NEW patch \in Patches, PatchBegin(c, t, patch)
      PROVE  IInv'
  <2> DEFINE r == [pc |-> NextPc(patch, "begin"), thread |-> t, patch |-> patch, old |-> None]
  <2>1. /\ r \in Call /\ r.pc \in {"status", "read", "starred", "ok"}
        /\ r.pc = "status" => patch.status \in Statuses
        /\ r.pc = "read" => patch.read \in BOOLEAN
        /\ r.pc = "starred" => patch.starred \in BOOLEAN
        /\ r.patch = patch /\ r.thread = t
        /\ \A f \in Fields : Past(r, f) => r.patch[f] = None
    BY NextPcNamed DEF Call, Pcs, Past, Fields
  <2>2. call' = [call EXCEPT ![c] = r] /\ call[c].pc = "idle" /\ ~ Ended(c)
        /\ earlier' = [earlier EXCEPT ![c] = {o \in Calls : Ended(o)}]
        /\ UNCHANGED <<row, announced, troubled>> /\ row[t].status # "none"
    BY <1>3 DEF PatchBegin, Exists, Statuses, Ended
  <2> HIDE DEF r
  <2> QED
    BY <2>1, <2>2, MoveOn
<1>4. ASSUME NEW c \in Calls, ReadOldStatus(c) PROVE IInv'
  <2> DEFINE r == [call[c] EXCEPT !.pc = "old", !.old = row[call[c].thread].status]
  <2>1. call[c].thread \in Threads /\ row[call[c].thread].status \in Statuses
        /\ call[c].patch.status \in Statuses
    BY <1>4 DEF ReadOldStatus, Exists, CallHasThread
  <2>2. call[c] \in Call /\ call' = [call EXCEPT ![c] = r]
        /\ UNCHANGED <<row, announced, troubled, earlier>> /\ ~ Ended(c)
    BY <1>4 DEF Ended, ReadOldStatus, TypeOK, Call
  <2>3. r \in Call /\ r.pc = "old" /\ r.thread = call[c].thread /\ r.patch = call[c].patch
        /\ \A f \in Fields : ~ Past(r, f)
    BY <2>1, <2>2 DEF Call, Pcs, Past
  <2>4. call[c].pc # "published" /\ row[call[c].thread].status # "none"
    BY <1>4, <2>1 DEF ReadOldStatus, Statuses
  <2> HIDE DEF r
  <2> QED
    BY <2>1, <2>2, <2>3, <2>4, MoveOn
<1>5. ASSUME NEW c \in Calls, UpdateStatus(c) PROVE IInv'
  <2> DEFINE r == [call[c] EXCEPT !.pc = "updated"]
  <2>1. call[c].thread \in Threads /\ Exists(call[c].thread) /\ Free(call[c].thread)
        /\ call[c].patch.status \in Statuses
    BY <1>5 DEF UpdateStatus, CallHasThread
  <2>2. call[c] \in Call /\ call' = [call EXCEPT ![c] = r]
        /\ UNCHANGED <<row, announced, troubled, earlier>> /\ ~ Ended(c)
    BY <1>5 DEF Ended, UpdateStatus, TypeOK, Call
  <2>3. r \in Call /\ r.pc = "updated" /\ r.thread = call[c].thread /\ r.patch = call[c].patch
        /\ \A f \in Fields : ~ Past(r, f)
    BY <2>1, <2>2 DEF Call, Pcs, Past
  <2>4. call[c].pc # "published" /\ row[call[c].thread].status # "none"
    BY <1>5, <2>1 DEF UpdateStatus, Statuses, Exists
  <2> HIDE DEF r
  <2> QED
    BY <2>1, <2>2, <2>3, <2>4, MoveOn
<1>6. ASSUME NEW c \in Calls, PublishStatus(c) PROVE IInv'
  <2> DEFINE t == call[c].thread
  <2>1. t \in Threads /\ call[c].patch.status \in Statuses /\ call[c].pc = "updated"
    BY <1>6 DEF PublishStatus, CallHasThread
  <2>2. \A o \in Calls : /\ call'[o].thread = call[o].thread /\ call'[o].patch = call[o].patch
                         /\ o # c => call'[o] = call[o]
                         /\ call'[c].pc = "published"
    BY <1>6 DEF PublishStatus, TypeOK
  <2>3. TypeOK'
    BY SMTT(30), <1>6, <2>1 DEF PublishStatus, TypeOK, Pcs
  <2>4. \A o \in Calls : o # c /\ Locks(o) => call[o].thread # t
    BY <2>1 DEF LocksExclude, Locks
  <2>5. /\ \A u \in Threads \ {t} : announced'[u] = announced[u] /\ (u \in troubled' <=> u \in troubled)
        /\ t \in troubled' \/ announced'[t] = call[c].patch.status
    BY <1>6, <2>1 DEF PublishStatus, TypeOK
  <2>6. row' = row /\ earlier' = earlier
    BY <1>6 DEF PublishStatus
  <2>7. CallHasThread' /\ LocksExclude' /\ LockedExists'
    BY <2>1, <2>2, <2>6
       DEF CallHasThread, LocksExclude, LockedExists, Locks, Exists
  <2>10. EarlierEnded' /\ FieldIsKept'
    BY <2>1, <2>2, <2>6, EndKeeps
  <2>8. PublishedIsLast'
    BY <2>1, <2>2, <2>4, <2>5 DEF PublishedIsLast, Locks, CallHasThread
  <2>9. LastEvent'
    BY <2>1, <2>2, <2>5, <2>6 DEF LastEvent, Exists
  <2> QED
    BY <2>3, <2>7, <2>8, <2>9, <2>10
<1>7. ASSUME NEW c \in Calls, CommitStatus(c) PROVE IInv'
  <2>1. Exists(call[c].thread)
    BY <1>7 DEF CommitStatus, LockedExists, Locks
  <2> QED
    BY <1>7, <2>1, CommitField DEF CommitStatus, Fields
<1>8. ASSUME NEW c \in Calls, NEW field \in {"read", "starred"}, MarkFlag(c, field) PROVE IInv'
  BY <1>8, CommitField DEF MarkFlag, Fields
<1>9. ASSUME NEW c \in Calls, PatchFails(c) PROVE IInv'
  <2> DEFINE t == call[c].thread
  <2>1. t \in Threads /\ row[t].status # "none"
    BY <1>9 DEF PatchFails, CallHasThread
  <2>2. \A o \in Calls : /\ call'[o].thread = call[o].thread /\ call'[o].patch = call[o].patch
                         /\ o # c => call'[o] = call[o]
                         /\ call'[c].pc = "failed"
    BY <1>9 DEF PatchFails, TypeOK
  <2>3. TypeOK'
    BY SMTT(30), <1>9, <2>1 DEF PatchFails, TypeOK, Pcs
  <2>4. UNCHANGED <<row, announced, earlier>> /\ call[c].pc \notin {"idle", "ok", "failed"}
    BY <1>9 DEF PatchFails
  <2>5. \A u \in Threads : u \notin troubled' => u \notin troubled /\ (call[c].pc = "published" => u # t)
    BY <1>9 DEF PatchFails
  <2>6. CallHasThread' /\ LocksExclude' /\ LockedExists'
    BY <2>1, <2>2, <2>4
       DEF CallHasThread, LocksExclude, LockedExists, Locks, Exists
  <2>8. EarlierEnded' /\ FieldIsKept'
    BY <2>2, <2>4, EndKeeps
  <2>7. LastEvent' /\ PublishedIsLast'
    BY <2>1, <2>2, <2>4, <2>5 DEF LastEvent, PublishedIsLast, CallHasThread, Exists
  <2> QED
    BY <2>3, <2>6, <2>7, <2>8
<1>10. CASE UNCHANGED vars
  BY <1>10 DEF vars, TypeOK, CallHasThread, LocksExclude, LockedExists, LastEvent,
               PublishedIsLast, EarlierEnded, Ended, FieldIsKept, Past, Locks, Exists
<1> QED
  BY <1>1, <1>2, <1>3, <1>4, <1>5, <1>6, <1>7, <1>8, <1>9, <1>10 DEF Next, Patch

\* The inductive invariant holds in every reachable state.
THEOREM ThreadsInvariant == Spec => []IInv
<1> QED
  BY InitIInv, StepIInv, PTL DEF Spec

\* Type correctness of PATCH, for any threads and any number of requests: in
\* particular a commit writes only values of the schema.
THEOREM ThreadsTypeOK == Spec => []TypeOK
<1>1. IInv => TypeOK
  BY DEF IInv
<1> QED
  BY <1>1, ThreadsInvariant, PTL

\* However requests overlap, fail or die, the last thread.status_changed event
\* of a thread that no transaction holds names its status: the event is
\* published under the row lock that the UPDATE takes.
THEOREM ThreadsAnnouncedInOrder == Spec => []AnnouncedInOrder
<1>1. IInv => AnnouncedInOrder
  BY DEF IInv, AnnouncedInOrder, LastEvent, Free
<1> QED
  BY <1>1, ThreadsInvariant, PTL

\* What an answered PATCH wrote is there, or was written over by a request that names
\* the same field and had not ended when the PATCH began: transactions that overlap,
\* fail or die half way undo nothing else (PatchIsKept).
THEOREM ThreadsPatchIsKept == Spec => []PatchIsKept
<1>1. IInv => PatchIsKept
  BY DEF IInv, PatchIsKept, FieldIsKept, Past
<1> QED
  BY <1>1, ThreadsInvariant, PTL
-----------------------------------------------------------------------------
(* Listing threads page by page, for any number of threads, labels and any *)
(* page size.                                                              *)

CONSTANTS N, Labels, Limit, MaxTime
VARIABLES at, open, label, applied, filter, list, stable

Listing == INSTANCE ThreadListing

\* Thread u comes before thread t in the listing.
Before(u, t) == Listing!Precedes(Listing!Key(u), Listing!Key(t))

\* How many threads of a set come before t.
Ahead(S, t) == {u \in S : Before(u, t)}
Rank(S, t)  == Cardinality(Ahead(S, t))

\* The cardinality of the listing's module is that of this one.
LEMMA SameCardinality == \A S : Listing!Cardinality(S) = Cardinality(S)
  BY DEF Listing!Cardinality, Cardinality

\* The key of a thread is a pair of numbers.
LEMMA KeyIsPair ==
  ASSUME N \in Nat, at \in [Listing!Threads -> Nat], NEW t \in Listing!Threads
  PROVE  Listing!Key(t) \in Nat \X Nat
  BY DEF Listing!Key, Listing!Threads

\* ORDER BY compares pairs transitively.
LEMMA PrecedesIsTransitive ==
  ASSUME NEW k \in Nat \X Nat, NEW l \in Nat \X Nat, NEW m \in Nat \X Nat,
         Listing!Precedes(k, l), Listing!Precedes(l, m)
  PROVE  Listing!Precedes(k, m)
  BY DEF Listing!Precedes

\* last_message_at and id order the threads totally.
LEMMA BeforeIsOrder ==
  ASSUME N \in Nat, at \in [Listing!Threads -> Nat],
         NEW s \in Listing!Threads, NEW t \in Listing!Threads, NEW u \in Listing!Threads
  PROVE  /\ ~ Before(t, t)
         /\ Before(s, t) /\ Before(t, u) => Before(s, u)
         /\ s # t => Before(s, t) \/ Before(t, s)
  BY DEF Before, Listing!Precedes, Listing!Key, Listing!Threads

\* Of two threads of a set the one before the other has the smaller rank.
LEMMA RankGrows ==
  ASSUME N \in Nat, at \in [Listing!Threads -> Nat], NEW S \in SUBSET Listing!Threads,
         NEW t \in S
  PROVE  /\ IsFiniteSet(S) /\ IsFiniteSet(Ahead(S, t)) /\ Rank(S, t) \in Nat
         /\ \A u \in S : Before(u, t) => Rank(S, u) < Rank(S, t)
<1>1. IsFiniteSet(Listing!Threads)
  BY FS_Interval DEF Listing!Threads
<1>2. IsFiniteSet(S)
  BY <1>1, FS_Subset
<1>3. ASSUME NEW u \in S
      PROVE  IsFiniteSet(Ahead(S, u)) /\ Rank(S, u) \in Nat
  <2>1. Ahead(S, u) \in SUBSET S
    BY DEF Ahead
  <2> QED
    BY <1>2, <2>1, FS_Subset, FS_CardinalityType DEF Rank
<1>4. ASSUME NEW u \in S, Before(u, t) PROVE Rank(S, u) < Rank(S, t)
  <2>1. Ahead(S, u) \in SUBSET Ahead(S, t)
    BY <1>4, BeforeIsOrder DEF Ahead
  <2>2. u \in Ahead(S, t) /\ u \notin Ahead(S, u)
    BY <1>4, BeforeIsOrder DEF Ahead
  <2>3. /\ Cardinality(Ahead(S, u)) <= Cardinality(Ahead(S, t))
        /\ Cardinality(Ahead(S, t)) # Cardinality(Ahead(S, u))
    BY <1>3, <2>1, <2>2, FS_Subset
  <2> QED
    BY <1>3, <2>3 DEF Rank
<1> QED
  BY <1>2, <1>3, <1>4

\* A set of numbers has a least one.
LEMMA LeastNumber ==
  ASSUME NEW M \in SUBSET Nat, M # {}
  PROVE  \E x \in M : \A y \in M : x <= y
<1> DEFINE R == {p \in Nat \X Nat : p[1] < p[2]}
<1>1. IsWellFoundedOn(R, Nat)
  BY NatLessThanWellFounded DEF OpToRel
<1>2. \A x \in Nat, y \in Nat : y < x => <<y, x>> \in R
  OBVIOUS
<1> HIDE DEF R
<1>3. PICK x \in M : \A y \in M : ~ (<<y, x>> \in R)
  BY <1>1, WFMin
<1>4. ASSUME NEW y \in M PROVE x <= y
  <2>1. x \in Nat /\ y \in Nat /\ ~ (y < x)
    BY <1>2, <1>3
  <2> QED
    BY <2>1
<1> QED
  BY <1>4

\* A set of threads that is not empty has a first one and a last one.
LEMMA FirstAndLast ==
  ASSUME N \in Nat, at \in [Listing!Threads -> Nat], NEW S \in SUBSET Listing!Threads,
         S # {}
  PROVE  /\ \E t \in S : \A u \in S : t = u \/ Before(t, u)
         /\ \E t \in S : \A u \in S : t = u \/ Before(u, t)
<1>1. \A t \in S : Rank(S, t) \in Nat /\ \A u \in S : Before(u, t) => Rank(S, u) < Rank(S, t)
  BY RankGrows
<1>2. \A t \in S : Rank(S, t) <= Cardinality(S) /\ Cardinality(S) \in Nat
  <2> SUFFICES ASSUME NEW t \in S PROVE Rank(S, t) <= Cardinality(S) /\ Cardinality(S) \in Nat
    OBVIOUS
  <2>1. IsFiniteSet(S) /\ Ahead(S, t) \in SUBSET S
    BY RankGrows DEF Ahead
  <2> QED
    BY <2>1, FS_Subset, FS_CardinalityType DEF Rank
<1>3. \E t \in S : \A u \in S : t = u \/ Before(t, u)
  <2> DEFINE M == {Rank(S, t) : t \in S}
  <2>1. M \in SUBSET Nat /\ M # {}
    BY <1>1
  <2>2. PICK x \in M : \A y \in M : x <= y
    BY <2>1, LeastNumber
  <2>3. PICK t \in S : x = Rank(S, t)
    BY <2>2
  <2>4. ASSUME NEW u \in S PROVE t = u \/ Before(t, u)
    <3>1. Rank(S, t) <= Rank(S, u)
      BY <2>2, <2>3
    <3>2. ~ Before(u, t)
      BY <1>1, <3>1
    <3> QED
      BY <3>2, BeforeIsOrder
  <2> QED
    BY <2>4
<1>4. \E t \in S : \A u \in S : t = u \/ Before(u, t)
  <2> DEFINE M == {Cardinality(S) - Rank(S, t) : t \in S}
  <2>1. M \in SUBSET Nat /\ M # {}
    BY <1>1, <1>2
  <2>2. PICK x \in M : \A y \in M : x <= y
    BY <2>1, LeastNumber
  <2>3. PICK t \in S : x = Cardinality(S) - Rank(S, t)
    BY <2>2
  <2>4. ASSUME NEW u \in S PROVE t = u \/ Before(u, t)
    <3>1. Cardinality(S) - Rank(S, t) <= Cardinality(S) - Rank(S, u)
      BY <2>2, <2>3
    <3>2. ~ Before(t, u)
      BY <1>1, <1>2, <3>1
    <3> QED
      BY <3>2, BeforeIsOrder
  <2> QED
    BY <2>4
<1> QED
  BY <1>3, <1>4

\* A query with LIMIT n returns a set of the first rows: whatever comes before a row
\* that is returned is returned too.
LEMMA FirstOfIsClosed ==
  ASSUME N \in Nat, at \in [Listing!Threads -> Nat], NEW S \in SUBSET Listing!Threads,
         NEW n \in Nat
  PROVE  /\ Listing!FirstOf(S, n) \in SUBSET S
         /\ \A t \in S : t \in Listing!FirstOf(S, n) <=> Rank(S, t) < n
         /\ \A u \in Listing!FirstOf(S, n), t \in S : Before(t, u) => t \in Listing!FirstOf(S, n)
<1>1. Listing!FirstOf(S, n) = {t \in S : Rank(S, t) < n}
  BY SameCardinality DEF Listing!FirstOf, Rank, Ahead, Before
<1>2. \A u \in S, t \in S : /\ Rank(S, u) \in Nat /\ Rank(S, t) \in Nat
                            /\ Before(t, u) => Rank(S, t) < Rank(S, u)
  BY RankGrows
<1> HIDE DEF Rank
<1> QED
  BY <1>1, <1>2

\* One row more than the page is read: if there is none, nothing is left to list, and
\* otherwise the page has a last row.
LEMMA PageIsFirst ==
  ASSUME Listing!ListingAssumption, at \in [Listing!Threads -> Nat],
         NEW S \in SUBSET Listing!Threads,
         NEW rows, rows = Listing!FirstOf(S, Limit + 1),
         NEW page, page = Listing!FirstOf(rows, Limit)
  PROVE  /\ page \in SUBSET S
         /\ \A u \in page, t \in S : Before(t, u) => t \in page
         /\ rows = page => page = S
         /\ rows # page => /\ Listing!LastOf(page) \in page
                           /\ \A u \in page : \/ u = Listing!LastOf(page)
                                              \/ Before(u, Listing!LastOf(page))
<1>0. N \in Nat /\ Limit \in Nat /\ Limit > 0 /\ Limit + 1 \in Nat
  BY DEF Listing!ListingAssumption
<1>1. /\ rows \in SUBSET S /\ rows \in SUBSET Listing!Threads
      /\ \A t \in S : t \in rows <=> Rank(S, t) < Limit + 1
      /\ \A u \in rows, t \in S : Before(t, u) => t \in rows
  BY <1>0, FirstOfIsClosed
<1>2. /\ page \in SUBSET rows
      /\ \A t \in rows : t \in page <=> Rank(rows, t) < Limit
      /\ \A u \in page, t \in rows : Before(t, u) => t \in page
  BY <1>0, <1>1, FirstOfIsClosed
<1>3. page \in SUBSET S /\ \A u \in page, t \in S : Before(t, u) => t \in page
  BY <1>1, <1>2
<1>4. ASSUME rows = page, page # S PROVE FALSE
  \* The first thread that was not read, and the rows ahead of it.
  <2>1. PICK m \in S \ rows : \A u \in S \ rows : m = u \/ Before(m, u)
    <3>1. S \ rows # {} /\ S \ rows \in SUBSET Listing!Threads
      BY <1>1, <1>4
    <3> QED
      BY <1>0, <3>1, FirstAndLast
  <2>2. Ahead(S, m) \in SUBSET rows
    <3> SUFFICES ASSUME NEW u \in S, Before(u, m), u \notin rows PROVE FALSE
      BY DEF Ahead
    <3>1. m = u \/ Before(m, u)
      BY <2>1
    <3> QED
      BY <1>0, <3>1, BeforeIsOrder
  <2>3. IsFiniteSet(rows) /\ Cardinality(rows) \in Nat
    <3>1. IsFiniteSet(S)
      BY <1>0, <2>1, RankGrows
    <3> QED
      BY <1>1, <3>1, FS_Subset, FS_CardinalityType
  <2>4. Cardinality(rows) >= Limit + 1
    <3>1. Rank(S, m) \in Nat /\ ~ (Rank(S, m) < Limit + 1)
      BY <1>0, <1>1, <2>1, RankGrows
    <3>2. Rank(S, m) <= Cardinality(rows)
      BY <2>2, <2>3, FS_Subset DEF Rank
    <3> QED
      BY <1>0, <2>3, <3>1, <3>2
  \* The last row has at least Limit rows ahead of it.
  <2>5. rows # {}
    BY <1>0, <2>4, FS_EmptySet
  <2>6. PICK z \in rows : \A u \in rows : z = u \/ Before(u, z)
    BY <1>0, <1>1, <2>5, FirstAndLast
  <2>7. Ahead(rows, z) = rows \ {z}
    <3>1. ~ Before(z, z)
      BY <1>0, <1>1, BeforeIsOrder
    <3> QED
      BY <2>6, <3>1 DEF Ahead
  <2>8. Rank(rows, z) = Cardinality(rows) - 1
    BY <2>3, <2>7, FS_RemoveElement DEF Rank
  <2> QED
    BY <1>0, <1>2, <1>4, <2>3, <2>4, <2>8
<1>5. ASSUME rows # page
      PROVE  /\ Listing!LastOf(page) \in page
             /\ \A u \in page : u = Listing!LastOf(page) \/ Before(u, Listing!LastOf(page))
  <2>1. rows # {}
    BY <1>2, <1>5
  <2>2. PICK f \in rows : \A u \in rows : f = u \/ Before(f, u)
    BY <1>0, <1>1, <2>1, FirstAndLast
  <2>3. Rank(rows, f) = 0
    <3>1. Ahead(rows, f) = {}
      <4> SUFFICES ASSUME NEW u \in rows, Before(u, f) PROVE FALSE
        BY DEF Ahead
      <4>1. f = u \/ Before(f, u)
        BY <2>2
      <4> QED
        BY <1>0, <1>1, <4>1, BeforeIsOrder
    <3> QED
      BY <3>1, FS_EmptySet DEF Rank
  <2>4. page # {}
    BY <1>0, <1>2, <2>3
  <2>5. \E t \in page : \A u \in page : t = u \/ Before(u, t)
    <3>1. page \in SUBSET Listing!Threads
      BY <1>1, <1>2
    <3> QED
      BY <1>0, <2>4, <3>1, FirstAndLast
  <2> QED
    BY <2>5 DEF Listing!LastOf, Before
<1> QED
  BY <1>3, <1>4, <1>5

\* A stable thread has been returned once if the cursor is past it and not at all
\* otherwise.
ListInv ==
    /\ at \in [Listing!Threads -> 0 .. MaxTime]
    /\ stable \in SUBSET Listing!Threads
    /\ list \in [pc : {"idle", "busy", "done"}, cursor : Nat \X Nat, got : [Listing!Threads -> Nat]]
    /\ list.pc = "idle" => /\ stable = {} /\ list.cursor = Listing!Start
                           /\ \A t \in Listing!Threads : list.got[t] = 0
    /\ \A t \in stable :
          /\ Listing!Match(t)
          /\ list.got[t] = IF list.pc = "busy" /\ Listing!After(list.cursor, t) THEN 0 ELSE 1

\* Before it begins the listing has returned nothing.
LEMMA InitList == Listing!ListingAssumption /\ Listing!Init => ListInv
  BY DEF Listing!ListingAssumption, Listing!Init, ListInv, Listing!Start

\* A change of threads or labels takes a thread out of the stable ones, or leaves its
\* place and what is said of it alone.
LEMMA UnsettleStep ==
  ASSUME ListInv, Listing!Unsettle, at' \in [Listing!Threads -> 0 .. MaxTime],
         list.pc # "idle" \/ stable' = {}
  PROVE  ListInv'
<1>1. /\ list' = list /\ stable' \in SUBSET stable
      /\ \A t \in stable' : Listing!Match(t)' /\ at'[t] = at[t]
  BY DEF Listing!Unsettle
<1> QED
  BY <1>1 DEF ListInv, Listing!After, Listing!Precedes, Listing!Key

\* A page: the threads it returns are between the old cursor and the new one.
LEMMA PageStep ==
  ASSUME Listing!ListingAssumption, ListInv, Listing!ListPage
  PROVE  ListInv'
<1> DEFINE S == {t \in Listing!Threads : Listing!Match(t) /\ Listing!After(list.cursor, t)}
           rows == Listing!FirstOf(S, Limit + 1)
           page == Listing!FirstOf(rows, Limit)
           last == Listing!LastOf(page)
<1>0. /\ at \in [Listing!Threads -> Nat] /\ at \in [Listing!Threads -> 0 .. MaxTime]
      /\ N \in Nat /\ Limit \in Nat /\ MaxTime \in Nat
      /\ stable \in SUBSET Listing!Threads /\ list.cursor \in Nat \X Nat
      /\ list.got \in [Listing!Threads -> Nat] /\ list.pc = "busy"
      /\ \A t \in stable : /\ Listing!Match(t)
                           /\ list.got[t] = IF Listing!After(list.cursor, t) THEN 0 ELSE 1
  BY DEF ListInv, Listing!ListPage, Listing!ListingAssumption
<1>1. /\ UNCHANGED <<at, open, applied, filter, stable>>
      /\ list' = [pc |-> IF rows # page THEN "busy" ELSE "done",
                  cursor |-> IF rows # page THEN Listing!Key(last) ELSE list.cursor,
                  got |-> [t \in Listing!Threads |-> list.got[t] + IF t \in page THEN 1 ELSE 0]]
  BY DEF Listing!ListPage
<1>2. \A t \in Listing!Threads : t \in S <=> Listing!Match(t) /\ Listing!After(list.cursor, t)
  OBVIOUS
<1>3. S \in SUBSET Listing!Threads
  OBVIOUS
<1> HIDE DEF S
<1>4. /\ page \in SUBSET S
      /\ \A u \in page, t \in S : Before(t, u) => t \in page
      /\ rows = page => page = S
      /\ rows # page => last \in page /\ \A u \in page : u = last \/ Before(u, last)
  BY <1>0, <1>3, PageIsFirst
<1>5. /\ list'.pc = IF rows # page THEN "busy" ELSE "done"
      /\ list'.cursor = IF rows # page THEN Listing!Key(last) ELSE list.cursor
      /\ \A t \in Listing!Threads : list'.got[t] = list.got[t] + IF t \in page THEN 1 ELSE 0
  BY <1>1
<1> HIDE DEF rows, page, last
<1>6. list' \in [pc : {"idle", "busy", "done"}, cursor : Nat \X Nat, got : [Listing!Threads -> Nat]]
  <2>1. rows # page => Listing!Key(last) \in Nat \X Nat
    BY <1>0, <1>3, <1>4 DEF Listing!Key, Listing!Threads
  <2>2. [t \in Listing!Threads |-> list.got[t] + IF t \in page THEN 1 ELSE 0]
          \in [Listing!Threads -> Nat]
    BY <1>0
  <2> QED
    BY <1>0, <1>1, <2>1, <2>2
<1>7. ASSUME NEW t \in stable
      PROVE  /\ Listing!Match(t)'
             /\ list'.got[t] = IF list'.pc = "busy" /\ Listing!After(list.cursor, t)' THEN 0 ELSE 1
  <2>1. Listing!Match(t)'
    BY <1>0, <1>1 DEF Listing!Match, Listing!Exists
  <2>2. \A u \in Listing!Threads : Listing!Precedes(list.cursor, Listing!Key(u)) <=> Listing!After(list.cursor, u)
    BY DEF Listing!After
  <2>3. Listing!After(list.cursor, t)' <=> Listing!Precedes(list'.cursor, Listing!Key(t))
    BY <1>1 DEF Listing!After, Listing!Key, Listing!Precedes
  <2>4. CASE rows = page
    <3>1. t \in page <=> Listing!After(list.cursor, t)
      BY <1>0, <1>2, <1>4, <2>4
    <3> QED
      BY <1>0, <1>5, <2>1, <2>4, <3>1
  <2>5. CASE rows # page
    <3>1. Listing!After(list.cursor, t)' <=> Before(last, t)
      BY <1>5, <2>3, <2>5 DEF Before
    <3>2. last \in S /\ last \in Listing!Threads /\ t \in Listing!Threads
      BY <1>0, <1>3, <1>4, <2>5
    <3>3. CASE ~ Listing!After(list.cursor, t)
      <4>1. t \notin page
        BY <1>2, <1>4, <3>2, <3>3
      <4>2. ~ Before(last, t)
        <5>1. Listing!Precedes(list.cursor, Listing!Key(last))
          BY <1>2, <3>2 DEF Listing!After
        <5>2. ~ Listing!Precedes(list.cursor, Listing!Key(t))
          BY <3>3 DEF Listing!After
        <5>3. Listing!Key(last) \in Nat \X Nat /\ Listing!Key(t) \in Nat \X Nat
          BY <1>0, <3>2, KeyIsPair
        <5> QED
          BY <1>0, <5>1, <5>2, <5>3, PrecedesIsTransitive DEF Before
      <4> QED
        BY <1>0, <1>5, <2>1, <3>1, <3>2, <3>3, <4>1, <4>2
    <3>4. CASE Listing!After(list.cursor, t) /\ t \in page
      <4>1. ~ Before(last, t)
        <5>1. t = last \/ Before(t, last)
          BY <1>4, <2>5, <3>4
        <5> QED
          BY <1>0, <3>2, <5>1, BeforeIsOrder
      <4> QED
        BY <1>0, <1>5, <2>1, <3>1, <3>2, <3>4, <4>1
    <3>5. CASE Listing!After(list.cursor, t) /\ t \notin page
      <4>1. t \in S
        BY <1>0, <1>2, <3>2, <3>5
      <4>2. Before(last, t)
        <5>1. t # last /\ ~ Before(t, last)
          BY <1>4, <2>5, <3>5, <4>1
        <5> QED
          BY <1>0, <3>2, <5>1, BeforeIsOrder
      <4> QED
        BY <1>0, <1>5, <2>1, <2>5, <3>1, <3>2, <3>5, <4>2
    <3> QED
      BY <3>3, <3>4, <3>5
  <2> QED
    BY <2>4, <2>5
<1>8. list'.pc # "idle"
  BY <1>5
<1> QED
  BY <1>0, <1>1, <1>6, <1>7, <1>8 DEF ListInv

\* Every step keeps the invariant of the listing.
LEMMA StepList ==
  ASSUME Listing!ListingAssumption
  PROVE  ListInv /\ [Listing!Next]_(Listing!vars) => ListInv'
<1> SUFFICES ASSUME ListInv, [Listing!Next]_(Listing!vars) PROVE ListInv'
  OBVIOUS
<1>0. at \in [Listing!Threads -> 0 .. MaxTime] /\ MaxTime \in Nat
  BY DEF ListInv, Listing!ListingAssumption
<1>1. ASSUME NEW f \in [label : Labels \cup {None}, open : BOOLEAN], Listing!ListBegin(f)
      PROVE  ListInv'
  <2>1. /\ list.pc = "idle" /\ at' = at /\ list' = [list EXCEPT !.pc = "busy"]
        /\ stable' \in SUBSET Listing!Threads /\ \A t \in stable' : Listing!Match(t)'
    BY <1>1 DEF Listing!ListBegin
  <2>2. list'.pc = "busy" /\ list'.cursor = Listing!Start /\ list'.got = list.got
    BY <2>1 DEF ListInv
  <2>3. ASSUME NEW t \in stable' PROVE Listing!After(list.cursor, t)' /\ list'.got[t] = 0
    <3>1. at'[t] \in 0 .. MaxTime /\ list'.cursor = <<MaxTime + 1, 0>>
      BY <1>0, <2>1, <2>2 DEF Listing!Start
    <3> QED
      BY <1>0, <2>1, <2>2, <3>1 DEF ListInv, Listing!After, Listing!Precedes, Listing!Key
  <2>4. list' \in [pc : {"idle", "busy", "done"}, cursor : Nat \X Nat, got : [Listing!Threads -> Nat]]
    BY <2>1 DEF ListInv
  <2> QED
    BY <1>0, <2>1, <2>2, <2>3, <2>4 DEF ListInv
<1>2. CASE Listing!ListPage
  BY <1>2, PageStep
<1>3. ASSUME Listing!Unsettle, at' \in [Listing!Threads -> 0 .. MaxTime] PROVE ListInv'
  <2>1. list.pc = "idle" => stable' = {}
    BY <1>3 DEF ListInv, Listing!Unsettle
  <2> QED
    BY <1>3, <2>1, UnsettleStep
<1>4. ASSUME NEW t \in Listing!Threads, NEW time \in 1 .. MaxTime,
             Listing!NewThread(t, time) \/ Listing!IncrMessageCount(t, time)
      PROVE  ListInv'
  <2>1. at' = [at EXCEPT ![t] = time] /\ Listing!Unsettle
    BY <1>4 DEF Listing!NewThread, Listing!IncrMessageCount
  <2>2. at' \in [Listing!Threads -> 0 .. MaxTime]
    BY <1>0, <2>1
  <2> QED
    BY <1>3, <2>1, <2>2
<1>5. ASSUME NEW t \in Listing!Threads, NEW l \in Labels,
             \/ Listing!PatchThread(t) \/ Listing!ApplyLabel(t, l) \/ Listing!RemoveLabel(t, l)
             \/ Listing!DeleteLabel(l)
      PROVE  ListInv'
  BY <1>0, <1>3, <1>5
     DEF Listing!PatchThread, Listing!ApplyLabel, Listing!RemoveLabel, Listing!DeleteLabel
<1>6. ASSUME UNCHANGED <<at, open, applied, filter, list, stable>> PROVE ListInv'
  BY <1>6 DEF ListInv, Listing!Match, Listing!Exists, Listing!After, Listing!Precedes, Listing!Key
<1>7. ASSUME NEW l \in Labels, Listing!DeleteLabel(l) PROVE ListInv'
  BY <1>0, <1>3, <1>7 DEF Listing!DeleteLabel
<1>8. ASSUME NEW t \in Listing!Threads, Listing!PatchThread(t) PROVE ListInv'
  BY <1>0, <1>3, <1>8 DEF Listing!PatchThread
<1>9. ASSUME NEW l \in Labels, Listing!CreateLabel(l) PROVE ListInv'
  BY <1>6, <1>9 DEF Listing!CreateLabel
<1>10. CASE UNCHANGED Listing!vars
  BY <1>6, <1>10 DEF Listing!vars
<1> QED
  BY <1>1, <1>2, <1>4, <1>5, <1>7, <1>8, <1>9, <1>10 DEF Listing!Next

\* A client that follows the cursor to the end gets every thread that kept its place
\* exactly once, however many threads move, come and go between two pages and whatever
\* the page size (StableIsListed of ThreadListing).
THEOREM ListingStableIsListed ==
  ASSUME Listing!ListingAssumption
  PROVE  Listing!Spec => []Listing!StableIsListed
<1>1. ListInv => Listing!StableIsListed
  BY DEF ListInv, Listing!StableIsListed
<1> QED
  BY <1>1, InitList, StepList, PTL DEF Listing!Spec
=============================================================================
