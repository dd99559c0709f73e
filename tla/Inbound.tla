------------------------------- MODULE Inbound -------------------------------
(***************************************************************************)
(* Reception of email and the threads it is sorted into.  The email_inbound*)
(* Lambda takes a raw email that SES stored in S3 and runs, for each of    *)
(* its recipients in turn, one transaction that finds or creates a thread, *)
(* inserts a message and counts it.  MessageService.Send adds messages to  *)
(* threads at the same time, and inboxes are patched and deleted.          *)
(*                                                                         *)
(* Transactions run at READ COMMITTED.  An insert share-locks the inbox    *)
(* and the thread it refers to (so neither can be deleted), the update of  *)
(* message_count locks the thread row, both to the end of the transaction. *)
(*                                                                         *)
(* An email stands for its S3 key and its Message-ID, a Send call for the  *)
(* Message-ID it generates.  A message UUID is generated per receive of an *)
(* email and position in its list of recipients; a thread is named by the  *)
(* message that started it.                                                *)
(***************************************************************************)
EXTENDS Naturals, Sequences, FiniteSets

CONSTANTS
    Inboxes,     \* inboxes
    Emails,      \* raw inbound emails
    Sends,       \* calls of MessageService.Send
    Rcpts,       \* the recipients of an email, To then CC
    Refs,        \* the Message-IDs its In-Reply-To and References name
    Attached,    \* emails with attachments
    MaxReceive,  \* bound on how often an email is received from the queue
    None         \* NULL

Mails == Emails \cup Sends

ASSUME InboundAssumption ==
    /\ Emails \cap Sends = {}
    /\ Rcpts \in [Emails -> Seq(Inboxes)]
    /\ Refs \in [Emails -> SUBSET Mails]
    /\ Attached \subseteq Emails
    /\ MaxReceive \in Nat \ {0}
    /\ None \notin Inboxes

VARIABLES
    inbox,       \* status of the inboxes
    place,       \* committed messages: the inbox and thread of each
    home,        \* committed threads: the inbox of each
    count,       \* message_count of the threads
    queue,       \* the notification of an email in the email_inbound queue
    receives,    \* how often it was received
    tx,          \* the invocation or call, and the transaction it runs
    lost,        \* emails and the error for which a recipient did not get it
    announced,   \* messages an event was published for
    due          \* inboxes an email is addressed to, active ever since it came

vars == <<inbox, place, home, count, queue, receives, tx, lost, announced, due>>

Causes     == {"parse", "lookup", "transaction"}
Pcs        == {"idle", "started", "next", "found", "threaded", "inserted", "counted",
               "committed", "done"}
Positions  == {1} \cup UNION {DOMAIN Rcpts[e] : e \in Emails}
Ids        == Mails \X (1 .. MaxReceive) \X Positions
Places     == [inbox : Inboxes, thread : Ids]
Idle       == [pc |-> "idle", k |-> 1, inbox |-> None, thread |-> None]

\* NULL is neither a UUID nor a row.
ASSUME NullAssumption == None \notin Ids \cup Places

Mail(m)    == m[1]
Stored     == {m \in Ids : place[m] # None}
In(t)      == {m \in Stored : place[m].thread = t}
Exists(i)  == inbox[i] # "deleted"

\* The message UUID of the transaction that mail a is in.
Id(a)      == <<a, receives[a], tx[a].k>>
IsNew(a)   == tx[a].thread = Id(a)

Init ==
    /\ inbox = [i \in Inboxes |-> "active"]
    /\ place = [m \in Ids |-> None]
    /\ home = [t \in Ids |-> None]
    /\ count = [t \in Ids |-> 0]
    /\ queue = [e \in Emails |-> "absent"]
    /\ receives = [a \in Mails |-> IF a \in Sends THEN 1 ELSE 0]
    /\ tx = [a \in Mails |-> Idle]
    /\ lost = {}
    /\ announced = {}
    /\ due = [e \in Emails |-> {}]

rows == <<inbox, place, home, count>>

-----------------------------------------------------------------------------
(* The email_inbound queue *)

Arrive(e) ==
    /\ queue[e] = "absent"
    /\ queue' = [queue EXCEPT ![e] = "visible"]
    /\ due' = [due EXCEPT ![e] = {i \in Inboxes : /\ inbox[i] = "active"
                                                  /\ \E k \in DOMAIN Rcpts[e] : Rcpts[e][k] = i}]
    /\ UNCHANGED <<rows, receives, tx, lost, announced>>

Receive(e) ==
    /\ queue[e] = "visible"
    /\ receives[e] < MaxReceive
    /\ queue' = [queue EXCEPT ![e] = "inflight"]
    /\ receives' = [receives EXCEPT ![e] = @ + 1]
    /\ tx' = [tx EXCEPT ![e].pc = "started"]
    /\ lost' = {l \in lost : l[1] # e}
    /\ UNCHANGED <<rows, announced, due>>

\* The download fails and the handler returns the error, or the invocation
\* dies: the notification becomes visible again.
Retry(e) ==
    /\ e \in Emails
    /\ tx[e].pc # "idle"
    /\ queue' = [queue EXCEPT ![e] = "visible"]
    /\ tx' = [tx EXCEPT ![e] = Idle]
    /\ UNCHANGED <<rows, receives, lost, announced, due>>

\* Retention of the queue.
Expire(e) ==
    /\ queue[e] = "visible"
    /\ queue' = [queue EXCEPT ![e] = "expired"]
    /\ UNCHANGED <<rows, receives, tx, lost, announced, due>>

-----------------------------------------------------------------------------
(* processS3Object *)

Parse(e) ==
    /\ tx[e].pc = "started"
    /\ tx' = [tx EXCEPT ![e].pc = "next"]
    /\ UNCHANGED <<rows, queue, receives, lost, announced, due>>

\* A parse error is logged and leaves an empty email, which has no recipients.
ParseFails(e) ==
    /\ tx[e].pc = "started"
    /\ tx' = [tx EXCEPT ![e].pc = "next", ![e].k = Len(Rcpts[e]) + 1]
    /\ lost' = lost \cup {<<e, "parse">>}
    /\ UNCHANGED <<rows, queue, receives, announced, due>>

\* The loop goes on whatever processForRecipient returned; its error is logged.
NextRecipient(e) ==
    tx' = [tx EXCEPT ![e] = [pc |-> "next", k |-> tx[e].k + 1, inbox |-> None, thread |-> None]]

Lose(e, cause) ==
    /\ NextRecipient(e)
    /\ lost' = lost \cup {<<e, cause>>}
    /\ UNCHANGED <<rows, queue, receives, announced, due>>

\* Mutant: a recipient without an inbox ends the loop.
LookupInbox_Stops(e) ==
    /\ tx[e].pc = "next" /\ tx[e].k <= Len(Rcpts[e])
    /\ LET i == Rcpts[e][tx[e].k] IN
          tx' = IF inbox[i] = "active" THEN [tx EXCEPT ![e].pc = "found", ![e].inbox = i]
                                       ELSE [tx EXCEPT ![e].k = Len(Rcpts[e]) + 1]
    /\ UNCHANGED <<rows, queue, receives, lost, announced, due>>

\* GetInboxByAddress, outside of the transaction: only active inboxes are found.
LookupInbox(e) ==
    /\ tx[e].pc = "next" /\ tx[e].k <= Len(Rcpts[e])
    /\ LET i == Rcpts[e][tx[e].k] IN
          IF inbox[i] = "active" THEN tx' = [tx EXCEPT ![e].pc = "found", ![e].inbox = i]
                                 ELSE NextRecipient(e)
    /\ UNCHANGED <<rows, queue, receives, lost, announced, due>>

LookupFails(e) ==
    /\ tx[e].pc = "next" /\ tx[e].k <= Len(Rcpts[e])
    /\ Lose(e, "lookup")

\* The end of the loop: nil, so the notification is deleted.
Ack(e) ==
    /\ tx[e].pc = "next" /\ tx[e].k > Len(Rcpts[e])
    /\ queue' = [queue EXCEPT ![e] = "deleted"]
    /\ tx' = [tx EXCEPT ![e] = Idle]
    /\ UNCHANGED <<rows, receives, lost, announced, due>>

-----------------------------------------------------------------------------
(* The transaction of processForRecipient, and that of Send *)

JoinOrStart(e, candidates) ==
    /\ tx[e].pc = "found"
    /\ \E t \in IF candidates = {} THEN {Id(e)} ELSE candidates :
          tx' = [tx EXCEPT ![e].pc = "threaded", ![e].thread = t]
    /\ UNCHANGED <<rows, queue, receives, lost, announced, due>>

Names(t, e) == \E m \in In(t) : Mail(m) \in Refs[e]

\* Mutants: the thread of any inbox, or any thread of the inbox.
FindThread_AnyInbox(e)  == JoinOrStart(e, {t \in Ids : Names(t, e)})
FindThread_AnyThread(e) == JoinOrStart(e, {t \in Ids : home[t] = tx[e].inbox})

\* FindThreadByMessageIDs: any thread of the inbox with a message the email names.
FindThread(e) == JoinOrStart(e, {t \in Ids : home[t] = tx[e].inbox /\ Names(t, e)})

\* Send: the parent is looked up in the organization, not in the inbox.
SendBegin(s, i, parent) ==
    /\ tx[s].pc = "idle"
    /\ Exists(i)
    /\ parent = None \/ parent \in Stored
    /\ tx' = [tx EXCEPT ![s].pc = "threaded", ![s].inbox = i,
                        ![s].thread = IF parent = None THEN Id(s) ELSE place[parent].thread]
    /\ UNCHANGED <<rows, queue, receives, lost, announced, due>>

\* A transaction that fails: the email is lost for the recipient, the caller of
\* Send gets the error.
Fail(a) ==
    IF a \in Emails THEN Lose(a, "transaction")
    ELSE /\ tx' = [tx EXCEPT ![a] = [Idle EXCEPT !.pc = "done"]]
         /\ UNCHANGED <<rows, queue, receives, lost, announced, due>>

\* CreateThread and CreateMessage: the inbox and the thread must still be there.
Insert(a) ==
    /\ tx[a].pc = "threaded"
    /\ IF Exists(tx[a].inbox) /\ (IsNew(a) \/ home[tx[a].thread] # None)
          THEN /\ tx' = [tx EXCEPT ![a].pc = "inserted"]
               /\ UNCHANGED <<rows, queue, receives, lost, announced, due>>
          ELSE Fail(a)

\* The error is only logged, but PostgreSQL has aborted the transaction: the
\* update of the count is refused and that error is returned.
AttachmentFails(e) ==
    /\ e \in Attached
    /\ tx[e].pc = "inserted"
    /\ Lose(e, "transaction")

LocksThread(a) == tx[a].pc = "counted"

\* Mutant: the event is published inside the transaction.
IncrMessageCount_Announces(a) ==
    /\ tx[a].pc = "inserted"
    /\ \A b \in Mails \ {a} : LocksThread(b) => tx[b].thread # tx[a].thread
    /\ tx' = [tx EXCEPT ![a].pc = "counted"]
    /\ announced' = announced \cup ({a} \cap Emails) \X {receives[a]} \X {tx[a].k}
    /\ UNCHANGED <<rows, queue, receives, lost, due>>

\* IncrThreadMessageCount, IncrMessageCount: the update waits for the row lock.
IncrMessageCount(a) ==
    /\ tx[a].pc = "inserted"
    /\ \A b \in Mails \ {a} : LocksThread(b) => tx[b].thread # tx[a].thread
    /\ tx' = [tx EXCEPT ![a].pc = "counted"]
    /\ UNCHANGED <<rows, queue, receives, lost, announced, due>>

\* MergeThreadParticipants, for an existing thread: again only logged, and the
\* commit of the aborted transaction is a rollback.
MergeFails(e) ==
    /\ e \in Emails
    /\ tx[e].pc = "counted" /\ ~ IsNew(e)
    /\ Lose(e, "transaction")

\* Any other statement, or the commit, fails.
StatementFails(a) ==
    /\ tx[a].pc \in {"found", "threaded", "inserted", "counted"}
    /\ Fail(a)

\* Mutant: the count is set, not incremented.
Commit_CountsOne(a) ==
    /\ tx[a].pc = "counted"
    /\ place' = [place EXCEPT ![Id(a)] = [inbox |-> tx[a].inbox, thread |-> tx[a].thread]]
    /\ home' = IF IsNew(a) THEN [home EXCEPT ![Id(a)] = tx[a].inbox] ELSE home
    /\ count' = [count EXCEPT ![tx[a].thread] = 1]
    /\ tx' = [tx EXCEPT ![a].pc = IF a \in Emails THEN "committed" ELSE "done"]
    /\ UNCHANGED <<inbox, queue, receives, lost, announced, due>>

Commit(a) ==
    /\ tx[a].pc = "counted"
    /\ place' = [place EXCEPT ![Id(a)] = [inbox |-> tx[a].inbox, thread |-> tx[a].thread]]
    /\ home' = IF IsNew(a) THEN [home EXCEPT ![Id(a)] = tx[a].inbox] ELSE home
    /\ count' = [count EXCEPT ![tx[a].thread] = @ + 1]
    /\ tx' = [tx EXCEPT ![a].pc = IF a \in Emails THEN "committed" ELSE "done"]
    /\ UNCHANGED <<inbox, queue, receives, lost, announced, due>>

\* message.received and, for a new thread, thread.created; errors are logged.
Publish(e) ==
    /\ tx[e].pc = "committed"
    /\ announced' \in {announced, announced \cup {Id(e)}}
    /\ NextRecipient(e)
    /\ UNCHANGED <<rows, queue, receives, lost, due>>

-----------------------------------------------------------------------------
(* InboxService *)

\* PATCH.  'suspended' stands for any other status too, 'deleted' among them, which
\* leaves the row: what tells them apart here is that LookupInbox finds 'active' alone.
UpdateInbox(i, status) ==
    /\ Exists(i) /\ inbox[i] # status
    /\ inbox' = [inbox EXCEPT ![i] = status]
    /\ due' = [e \in Emails |-> due[e] \ {i}]
    /\ UNCHANGED <<place, home, count, queue, receives, tx, lost, announced>>

\* DELETE cascades to threads and messages, once no transaction refers to them.
DeleteInbox(i) ==
    /\ Exists(i)
    /\ \A a \in Mails : tx[a].pc \in {"inserted", "counted"} =>
          tx[a].inbox # i /\ home[tx[a].thread] # i
    /\ inbox' = [inbox EXCEPT ![i] = "deleted"]
    /\ home' = [t \in Ids |-> IF home[t] = i THEN None ELSE home[t]]
    /\ count' = [t \in Ids |-> IF home[t] = i THEN 0 ELSE count[t]]
    /\ place' = [m \in Ids |-> IF m \in Stored /\ i \in {place[m].inbox, home[place[m].thread]}
                                  THEN None ELSE place[m]]
    /\ due' = [e \in Emails |-> due[e] \ {i}]
    /\ UNCHANGED <<queue, receives, tx, lost, announced>>

-----------------------------------------------------------------------------
ProcessS3Object(e) ==
    \/ Parse(e) \/ LookupInbox(e) \/ FindThread(e) \/ Publish(e) \/ Ack(e)

Transaction(a) == Insert(a) \/ IncrMessageCount(a) \/ Commit(a)

Faults(e) == ParseFails(e) \/ LookupFails(e) \/ AttachmentFails(e) \/ MergeFails(e) \/ Retry(e)

Next ==
    \/ \E e \in Emails : \/ Arrive(e) \/ Receive(e) \/ Expire(e)
                         \/ ProcessS3Object(e) \/ Faults(e)
    \/ \E a \in Mails : Transaction(a) \/ StatementFails(a)
    \/ \E s \in Sends, i \in Inboxes, parent \in Ids \cup {None} : SendBegin(s, i, parent)
    \/ \E i \in Inboxes, status \in {"active", "suspended"} : UpdateInbox(i, status)
    \/ \E i \in Inboxes : DeleteInbox(i)

Spec == Init /\ [][Next]_vars

-----------------------------------------------------------------------------
TypeOK ==
    /\ inbox \in [Inboxes -> {"active", "suspended", "deleted"}]
    /\ place \in [Ids -> Places \cup {None}]
    /\ home \in [Ids -> Inboxes \cup {None}]
    /\ count \in [Ids -> Nat]
    /\ queue \in [Emails -> {"absent", "visible", "inflight", "deleted", "expired"}]
    /\ receives \in [Mails -> 0 .. MaxReceive]
    /\ tx \in [Mails -> [pc : Pcs, k : Nat \ {0}, inbox : Inboxes \cup {None},
                         thread : Ids \cup {None}]]
    /\ lost \in SUBSET (Emails \X Causes)
    /\ announced \in SUBSET Ids
    /\ due \in [Emails -> SUBSET Inboxes]

\* Replies through an inbox other than that of thread t, which Send allows: they
\* leave the thread when their own inbox is deleted, and the thread remains.
Left(t) == {s \in Sends : /\ tx[s].pc = "done" /\ tx[s].thread = t
                          /\ home[t] # None /\ Id(s) \notin Stored}

\* message_count never falls below the number of messages of the thread, and runs ahead
\* of it by the replies through inboxes deleted since at most, whatever receptions,
\* replies, rollbacks and deletions overlap.  (Those replies go by ON DELETE CASCADE and
\* the code does not take them off the count; docs/data-model.md has it updated on
\* delete.  The property leaves either open.)
CountHasNoDrift == \A t \in Ids :
    LET stored == Cardinality(In(t)) IN
       count[t] \in stored .. stored + Cardinality(Left(t))

\* A message has a thread that exists, and for a received message it is one of
\* the same inbox: no email crosses from one inbox, or one tenant, to another.
ThreadInInbox == \A m \in Stored :
    LET i == home[place[m].thread] IN
       IF Mail(m) \in Emails THEN i = place[m].inbox ELSE i # None

\* A thread is a conversation: a received message that did not start its thread
\* names, in In-Reply-To or References, a message that is or was in the thread.
ThreadIsConversation == \A m \in Stored :
    LET t == place[m].thread IN
       Mail(m) \in Emails /\ t # m =>
          Names(t, Mail(m)) \/ Left(t) \cap Refs[Mail(m)] # {}

\* When the notification is deleted, every inbox the email was addressed to and
\* that was active all the time has it, or an error was logged: one recipient
\* that is skipped does not cost another its copy.
AckedIsServed == \A e \in Emails : queue[e] = "deleted" =>
    \A i \in due[e] : \/ \E m \in Stored : Mail(m) = e /\ place[m].inbox = i
                      \/ \E c \in Causes : <<e, c>> \in lost

\* An event is published for a stored message only; afterwards the message goes
\* away only with its inbox.
AnnouncedIsStored == \A m \in announced :
    m \in Stored \/ ~ Exists(Rcpts[Mail(m)][m[3]])
=============================================================================
