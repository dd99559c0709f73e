--------------------------- MODULE InboundProofs ---------------------------
(***************************************************************************)
(* Proofs about the reception of email, for any inboxes, emails, Send      *)
(* calls, recipients, references and number of receives: threads never     *)
(* cross inboxes and stay conversations, message_count stays exact, events *)
(* speak of stored messages, and no recipient is skipped silently.         *)
(***************************************************************************)
EXTENDS Inbound, FiniteSetTheorems, TLAPS

Txs == [pc : Pcs, k : Nat \ {0}, inbox : Inboxes \cup {None}, thread : Ids \cup {None}]

\* The transaction of processForRecipient is open, or just committed.
Working == {"found", "threaded", "inserted", "counted", "committed"}

\* A message UUID that will not be generated any more.
Past(m) ==
    IF Mail(m) \in Emails
       THEN /\ m[2] <= receives[Mail(m)]
            /\ tx[Mail(m)].pc # "idle" /\ m[2] = receives[Mail(m)] =>
                  \/ m[3] < tx[Mail(m)].k
                  \/ m[3] = tx[Mail(m)].k /\ tx[Mail(m)].pc = "committed"
       ELSE tx[Mail(m)].pc = "done"

\* What an invocation that processes an email holds.
EmailShape(e) ==
    /\ tx[e].pc # "done"
    /\ tx[e].pc # "idle" => queue[e] = "inflight" /\ receives[e] > 0
    /\ tx[e].pc \in {"idle", "started"} => tx[e].k = 1
    /\ tx[e].pc \in Working => tx[e].k \in DOMAIN Rcpts[e] /\ tx[e].inbox = Rcpts[e][tx[e].k]

\* What a call of Send holds.
SendShape(s) ==
    /\ receives[s] = 1 /\ tx[s].k = 1
    /\ tx[s].pc \in {"idle", "threaded", "inserted", "counted", "done"}

\* The message and the thread an open transaction refers to.
ThreadShape(a) ==
    /\ tx[a].pc \in {"idle", "started", "next", "found"} => tx[a].thread = None
    /\ tx[a].pc \in {"threaded", "inserted", "counted", "committed"} =>
          tx[a].inbox \in Inboxes /\ tx[a].thread \in Ids
    /\ tx[a].thread # None => IsNew(a) \/ Past(tx[a].thread)

\* The locks of an insert: the inbox and the thread cannot be deleted.
Referred(a) ==
    /\ tx[a].pc \in {"inserted", "counted"} =>
          Exists(tx[a].inbox) /\ (IsNew(a) \/ home[tx[a].thread] # None)
    /\ a \in Emails /\ tx[a].pc \in {"threaded", "inserted", "counted"} /\ ~ IsNew(a) =>
          home[tx[a].thread] \in {tx[a].inbox, None}

\* Email e answers a message that is or was in thread t.
Answers(t, e) == Names(t, e) \/ Left(t) \cap Refs[e] # {}

\* The thread that was found is still the conversation of the email, if it is there.
Conversation(e) ==
    tx[e].pc \in {"threaded", "inserted", "counted"} /\ ~ IsNew(e) /\ home[tx[e].thread] # None
       => Answers(tx[e].thread, e)

CommittedIsStored(e) ==
    tx[e].pc = "committed" =>
       \/ Id(e) \in Stored /\ place[Id(e)].inbox = tx[e].inbox
       \/ ~ Exists(tx[e].inbox)

Served(e, i) == \/ \E m \in Stored : Mail(m) = e /\ place[m].inbox = i
                \/ \E c \in Causes : <<e, c>> \in lost

\* The recipients the loop has passed have the email, unless an error was logged.
ServedSoFar(e) ==
    /\ \A i \in due[e] : /\ inbox[i] = "active"
                         /\ \E j \in DOMAIN Rcpts[e] : Rcpts[e][j] = i
    /\ tx[e].pc # "idle" => \A j \in DOMAIN Rcpts[e] :
          /\ Rcpts[e][j] \in due[e]
          /\ j < tx[e].k \/ (j = tx[e].k /\ tx[e].pc = "committed")
          => Served(e, Rcpts[e][j])
    /\ queue[e] = "deleted" => \A i \in due[e] : Served(e, i)

EmailInv(e) == /\ EmailShape(e) /\ ThreadShape(e) /\ Referred(e)
               /\ Conversation(e) /\ CommittedIsStored(e) /\ ServedSoFar(e)
SendInv(s)  == SendShape(s) /\ ThreadShape(s) /\ Referred(s)

\* The rows: where a stored message comes from and where it is.
MessageInv(m) ==
    /\ Past(m)
    /\ Mail(m) \in Sends => m = Id(Mail(m)) /\ tx[Mail(m)].thread = place[m].thread
    /\ Mail(m) \in Emails => /\ m[3] \in DOMAIN Rcpts[Mail(m)]
                             /\ place[m].inbox = Rcpts[Mail(m)][m[3]]

AnnouncedInv(m) ==
    Mail(m) \in Emails /\ m[3] \in DOMAIN Rcpts[Mail(m)] /\ Past(m)

CountInv(t) ==
    /\ IsFiniteSet(In(t)) /\ IsFiniteSet(Left(t))
    /\ count[t] = Cardinality(In(t)) + Cardinality(Left(t))

RowInv == /\ \A m \in Stored : MessageInv(m)
          /\ \A t \in Ids : home[t] # None => Past(t)
          /\ \A m \in announced : AnnouncedInv(m)
          /\ \A t \in Ids : CountInv(t)
          /\ ThreadInInbox /\ ThreadIsConversation /\ AnnouncedIsStored

IInv == /\ TypeOK /\ RowInv
        /\ \A e \in Emails : EmailInv(e)
        /\ \A s \in Sends : SendInv(s)

-----------------------------------------------------------------------------
\* The recipients of an email are inboxes, numbered from 1.
LEMMA RcptFacts == \A e \in Emails :
  /\ Len(Rcpts[e]) \in Nat
  /\ DOMAIN Rcpts[e] = 1 .. Len(Rcpts[e])
  /\ \A k \in DOMAIN Rcpts[e] : k \in Nat \ {0} /\ k \in Positions /\ Rcpts[e][k] \in Inboxes
<1> SUFFICES ASSUME NEW e \in Emails
             PROVE  /\ Len(Rcpts[e]) \in Nat
                    /\ DOMAIN Rcpts[e] = 1 .. Len(Rcpts[e])
                    /\ \A k \in DOMAIN Rcpts[e] : k \in Nat \ {0} /\ k \in Positions /\ Rcpts[e][k] \in Inboxes
  OBVIOUS
<1>1. Rcpts[e] \in Seq(Inboxes)
  BY InboundAssumption
<1>2. \A k \in DOMAIN Rcpts[e] : k \in Positions
  BY DEF Positions
<1> QED
  BY <1>1, <1>2

\* A message UUID has an email or a call of Send, a receive and a position.
LEMMA IdFacts ==
  /\ \A m \in Ids : /\ Mail(m) \in Mails /\ m[2] \in 1 .. MaxReceive /\ m[2] \in Nat
                    /\ m[3] \in Nat \ {0} /\ m = <<Mail(m), m[2], m[3]>>
  /\ \A a \in Mails, n \in 1 .. MaxReceive, k \in Positions :
        /\ <<a, n, k>> \in Ids /\ Mail(<<a, n, k>>) = a
        /\ <<a, n, k>>[2] = n /\ <<a, n, k>>[3] = k
  /\ 1 \in Positions /\ MaxReceive \in Nat \ {0}
  /\ \A a \in Mails : a \in Sends <=> a \notin Emails
<1>1. Positions \subseteq Nat \ {0}
  BY RcptFacts DEF Positions
<1>2. MaxReceive \in Nat \ {0} /\ 1 \in Positions
  BY InboundAssumption DEF Positions
<1>3. \A a \in Mails : a \in Sends <=> a \notin Emails
  BY InboundAssumption DEF Mails
<1>4. ASSUME NEW a \in Mails, NEW n \in 1 .. MaxReceive, NEW k \in Positions
      PROVE  /\ <<a, n, k>> \in Ids /\ Mail(<<a, n, k>>) = a
             /\ <<a, n, k>>[2] = n /\ <<a, n, k>>[3] = k
  BY DEF Ids, Mail
<1>5. ASSUME NEW m \in Ids
      PROVE  /\ Mail(m) \in Mails /\ m[2] \in 1 .. MaxReceive /\ m[2] \in Nat
             /\ m[3] \in Nat \ {0} /\ m = <<Mail(m), m[2], m[3]>>
  <2>1. Mail(m) \in Mails /\ m[2] \in 1 .. MaxReceive /\ m[3] \in Positions
    BY DEF Ids, Mail
  <2>2. m = <<Mail(m), m[2], m[3]>>
    BY DEF Ids, Mail
  <2>3. m[2] \in Nat
    BY <1>2, <2>1
  <2>4. m[3] \in Nat \ {0}
    BY <1>1, <2>1
  <2> QED
    BY <2>1, <2>2, <2>3, <2>4
<1> QED
  BY <1>2, <1>3, <1>4, <1>5

\* NULL is no UUID, no inbox and no row; a row has an inbox and a thread.
LEMMA PlaceFacts ==
  /\ None \notin Ids /\ None \notin Inboxes /\ None \notin Places
  /\ \A p \in Places : p.inbox \in Inboxes /\ p.thread \in Ids
  /\ \A i \in Inboxes, t \in Ids : /\ [inbox |-> i, thread |-> t] \in Places
                                   /\ [inbox |-> i, thread |-> t].inbox = i
                                   /\ [inbox |-> i, thread |-> t].thread = t
  BY NullAssumption, InboundAssumption DEF Places

\* The types, as the proofs use them.
LEMMA TypeFacts ==
  ASSUME TypeOK
  PROVE  /\ inbox \in [Inboxes -> {"active", "suspended", "deleted"}]
         /\ place \in [Ids -> Places \cup {None}]
         /\ \A m \in Stored : m \in Ids /\ place[m].inbox \in Inboxes /\ place[m].thread \in Ids
         /\ home \in [Ids -> Inboxes \cup {None}]
         /\ count \in [Ids -> Nat]
         /\ receives \in [Mails -> 0 .. MaxReceive] /\ \A a \in Mails : receives[a] \in Nat
         /\ tx \in [Mails -> Txs]
         /\ \A a \in Mails : /\ tx[a].pc \in Pcs /\ tx[a].k \in Nat \ {0}
                             /\ tx[a].inbox \in Inboxes \cup {None}
                             /\ tx[a].thread \in Ids \cup {None}
  BY PlaceFacts, IdFacts DEF TypeOK, Txs, Stored

\* The UUID an open transaction inserts is one, and not one that was generated before.
LEMMA FreshId ==
  ASSUME IInv, NEW a \in Mails, tx[a].pc \in {"found", "threaded", "inserted", "counted"}
  PROVE  /\ Id(a) \in Ids /\ Mail(Id(a)) = a /\ Id(a)[2] = receives[a] /\ Id(a)[3] = tx[a].k
         /\ ~ Past(Id(a))
<1>0. TypeOK
  BY DEF IInv
<1>1. CASE a \in Emails
  <2>1. EmailShape(a)
    BY <1>1 DEF IInv, EmailInv
  <2>2. receives[a] \in 1 .. MaxReceive /\ tx[a].k \in Positions
    BY <1>0, <1>1, <2>1, TypeFacts, RcptFacts, IdFacts DEF EmailShape, Working
  <2>3. Id(a) \in Ids /\ Mail(Id(a)) = a /\ Id(a)[2] = receives[a] /\ Id(a)[3] = tx[a].k
    BY <2>2, IdFacts DEF Id
  <2>4. tx[a].k \in Nat
    BY <1>0, TypeFacts
  <2> QED
    BY <1>1, <2>3, <2>4 DEF Past
<1>2. CASE a \in Sends
  <2>1. SendShape(a)
    BY <1>2 DEF IInv, SendInv
  <2>2. receives[a] \in 1 .. MaxReceive /\ tx[a].k \in Positions
    BY <2>1, IdFacts DEF SendShape
  <2>3. Id(a) \in Ids /\ Mail(Id(a)) = a /\ Id(a)[2] = receives[a] /\ Id(a)[3] = tx[a].k
    BY <2>2, IdFacts DEF Id
  <2> QED
    BY <1>2, <2>3, IdFacts DEF Past
<1> QED
  BY <1>1, <1>2 DEF Mails

\* Such a step leaves the messages of every thread alone, and those that left it.
LEMMA SameThreads ==
  ASSUME UNCHANGED rows, NEW a \in Mails,
         \A b \in Mails \ {a} : tx'[b] = tx[b] /\ receives'[b] = receives[b],
         a \in Sends => tx[a].pc # "done" /\ (tx'[a].pc = "done" => tx'[a].thread = None)
  PROVE  /\ Stored' = Stored /\ \A t : In(t)' = In(t)
         /\ \A i : Exists(i)' <=> Exists(i)
         /\ \A t \in Ids : Left(t)' = Left(t)
         /\ \A t \in Ids, e \in Emails : Answers(t, e)' <=> Answers(t, e)
<1>1. /\ Stored' = Stored /\ \A t : In(t)' = In(t)
      /\ \A i : Exists(i)' <=> Exists(i)
  BY DEF rows, Stored, In, Exists
<1>2. ASSUME NEW t \in Ids PROVE Left(t)' = Left(t)
  <2>1. ASSUME NEW s \in Sends \ {a} PROVE s \in Left(t)' <=> s \in Left(t)
    <3>1. tx'[s] = tx[s] /\ receives'[s] = receives[s]
      BY <2>1 DEF Mails
    <3> QED
      BY <1>1, <3>1 DEF Left, Id, rows
  <2>2. a \notin Left(t) /\ a \notin Left(t)'
    BY PlaceFacts DEF Left
  <2>3. Left(t) \subseteq Sends /\ Left(t)' \subseteq Sends
    BY DEF Left
  <2>4. \A s : s \in Left(t)' <=> s \in Left(t)
    BY <2>1, <2>2, <2>3
  <2> QED
    BY <2>4, Zenon
<1>3. \A t \in Ids, e \in Emails : Answers(t, e)' <=> Answers(t, e)
  BY <1>1, <1>2 DEF Answers, Names
<1> QED
  BY <1>1, <1>2, <1>3

\* A UUID that was past stays past: receives and positions only grow.
LEMMA PastGrows ==
  ASSUME TypeOK, NEW a \in Mails,
         \A b \in Mails \ {a} : tx'[b] = tx[b] /\ receives'[b] = receives[b],
         receives'[a] \in Nat, tx'[a].k \in Nat,
         a \in Emails =>
            /\ receives'[a] >= receives[a]
            /\ tx'[a].pc # "idle" /\ receives'[a] = receives[a] =>
                  /\ tx[a].pc # "idle"
                  /\ \/ tx'[a].k > tx[a].k
                     \/ /\ tx'[a].k = tx[a].k
                        /\ tx[a].pc = "committed" => tx'[a].pc = "committed",
         a \in Sends /\ tx[a].pc = "done" => tx'[a].pc = "done"
  PROVE  \A m \in Ids : Past(m) => Past(m)'
<1> SUFFICES ASSUME NEW m \in Ids, Past(m) PROVE Past(m)'
  OBVIOUS
<1>1. Mail(m) \in Mails /\ m[2] \in Nat /\ m[3] \in Nat
  BY IdFacts
<1>2. receives[a] \in Nat /\ tx[a].k \in Nat
  BY TypeFacts
<1>3. CASE Mail(m) # a
  <2>1. tx'[Mail(m)] = tx[Mail(m)] /\ receives'[Mail(m)] = receives[Mail(m)]
    BY <1>1, <1>3
  <2> QED
    BY <2>1 DEF Past, Mail
<1>4. CASE Mail(m) = a /\ a \in Emails
  <2>1. /\ m[2] <= receives[a]
        /\ tx[a].pc # "idle" /\ m[2] = receives[a] =>
             m[3] < tx[a].k \/ (m[3] = tx[a].k /\ tx[a].pc = "committed")
    BY <1>4 DEF Past
  <2>2. /\ m[2] <= receives'[a]
        /\ tx'[a].pc # "idle" /\ m[2] = receives'[a] =>
             m[3] < tx'[a].k \/ (m[3] = tx'[a].k /\ tx'[a].pc = "committed")
    BY <1>1, <1>2, <1>4, <2>1
  <2> QED
    BY <1>4, <2>2 DEF Past, Mail
<1>5. CASE Mail(m) = a /\ a \notin Emails
  BY <1>5, IdFacts DEF Past, Mail
<1> QED
  BY <1>3, <1>4, <1>5

\* A step of one email or call of Send that commits nothing, and after which every UUID
\* that was past still is, only has to keep the part of the invariant that is its own.
LEMMA TxStep ==
  ASSUME IInv, TypeOK', UNCHANGED rows, NEW a \in Mails,
         \A b \in Mails \ {a} : tx'[b] = tx[b] /\ receives'[b] = receives[b],
         \A e \in Emails \ {a} : /\ queue'[e] = queue[e] /\ due'[e] = due[e]
                                 /\ \A c \in Causes : <<e, c>> \in lost' <=> <<e, c>> \in lost,
         \A m \in Ids : Past(m) => Past(m)',
         a \in Sends => tx[a].pc # "done" /\ (tx'[a].pc = "done" => tx'[a].thread = None),
         \A m \in announced' \ announced :
            AnnouncedInv(m)' /\ (m \in Stored \/ ~ Exists(Rcpts[Mail(m)][m[3]])),
         a \in Emails => EmailInv(a)',
         a \in Sends => SendInv(a)'
  PROVE  IInv'
<1>0. TypeOK /\ RowInv
  BY DEF IInv
<1>1. /\ Stored' = Stored /\ \A t : In(t)' = In(t)
      /\ \A i : Exists(i)' <=> Exists(i)
  BY SameThreads
<1>2. \A t \in Ids : Left(t)' = Left(t)
  BY SameThreads
<1>3. \A m \in Stored : MessageInv(m)'
  <2> SUFFICES ASSUME NEW m \in Stored PROVE MessageInv(m)'
    OBVIOUS
  <2>1. MessageInv(m) /\ m \in Ids
    BY <1>0 DEF RowInv, Stored
  <2>2. Past(m) /\ Past(m)'
    BY <2>1 DEF MessageInv
  <2>3. ASSUME Mail(m) \in Sends
        PROVE  (m = Id(Mail(m)) /\ tx[Mail(m)].thread = place[m].thread)'
    <3>1. tx[Mail(m)].pc = "done"
      BY <2>1, <2>2, <2>3, IdFacts DEF Past
    <3>2. Mail(m) # a
      BY <2>3, <3>1
    <3>3. tx'[Mail(m)] = tx[Mail(m)] /\ receives'[Mail(m)] = receives[Mail(m)] /\ place' = place
      BY <2>1, <3>2, IdFacts DEF rows
    <3>4. m = Id(Mail(m)) /\ tx[Mail(m)].thread = place[m].thread
      BY <2>1, <2>3 DEF MessageInv
    <3>5. m = <<Mail(m), receives'[Mail(m)], tx'[Mail(m)].k>>
      BY <3>3, <3>4 DEF Id
    <3>6. tx'[Mail(m)].thread = place'[m].thread
      BY <3>3, <3>4
    <3> QED
      BY <3>5, <3>6 DEF Id
  <2>4. place' = place
    BY DEF rows
  <2> QED
    BY <2>1, <2>2, <2>3, <2>4 DEF MessageInv
<1>4. \A t \in Ids : home'[t] # None => Past(t)'
  BY <1>0 DEF RowInv, rows
<1>5. \A m \in announced' : AnnouncedInv(m)'
  <2>1. announced \subseteq Ids
    BY <1>0 DEF TypeOK
  <2> QED
    BY <1>0, <2>1 DEF RowInv, AnnouncedInv
<1>6. \A t \in Ids : CountInv(t)'
  BY <1>0, <1>1, <1>2 DEF RowInv, CountInv, rows
<1>7. ThreadInInbox'
  BY <1>0, <1>1 DEF RowInv, ThreadInInbox, rows
<1>8. \A t \in Ids, e \in Emails : Answers(t, e)' <=> Answers(t, e)
  BY SameThreads
<1>9. ThreadIsConversation'
  <2>1. \A m \in Stored : place[m].thread \in Ids
    BY <1>0, TypeFacts
  <2> QED
    BY <1>0, <1>1, <1>8, <2>1 DEF RowInv, ThreadIsConversation, Answers, rows
<1>10. AnnouncedIsStored'
  BY <1>0, <1>1 DEF RowInv, AnnouncedIsStored
<1>11. RowInv'
  BY <1>1, <1>3, <1>4, <1>5, <1>6, <1>7, <1>9, <1>10 DEF RowInv
<1>12. ASSUME NEW b \in Mails \ {a}, ThreadShape(b), Referred(b) PROVE ThreadShape(b)' /\ Referred(b)'
  <2>1. tx'[b] = tx[b] /\ receives'[b] = receives[b]
    OBVIOUS
  <2>2. tx[b].thread \in Ids \cup {None}
    BY <1>0, TypeFacts
  <2>3. IsNew(b)' <=> IsNew(b)
    BY <2>1 DEF IsNew, Id
  <2> QED
    BY <1>1, <1>12, <2>1, <2>2, <2>3 DEF ThreadShape, Referred, rows
<1>13. ASSUME NEW s \in Sends PROVE SendInv(s)'
  <2>1. CASE s # a
    <3>1. s \in Mails \ {a} /\ SendInv(s)
      BY <2>1 DEF Mails, IInv
    <3> QED
      BY <1>12, <3>1 DEF SendInv, SendShape
  <2> QED
    BY <2>1
<1>14. ASSUME NEW e \in Emails PROVE EmailInv(e)'
  <2>1. CASE e # a
    <3>1. e \in Mails \ {a} /\ EmailInv(e)
      BY <2>1 DEF Mails, IInv
    <3>2. /\ tx'[e] = tx[e] /\ receives'[e] = receives[e] /\ queue'[e] = queue[e] /\ due'[e] = due[e]
          /\ \A c \in Causes : <<e, c>> \in lost' <=> <<e, c>> \in lost
      BY <3>1
    <3>3. EmailShape(e)' /\ ThreadShape(e)' /\ Referred(e)'
      BY <1>12, <3>1, <3>2 DEF EmailInv, EmailShape
    <3>4. (IsNew(e)' <=> IsNew(e)) /\ Id(e)' = Id(e)
      BY <3>2 DEF IsNew, Id
    <3>5. tx[e].thread \in Ids \cup {None}
      BY <1>0, <3>1, TypeFacts
    <3>6. Conversation(e)'
      <4>1. tx[e].pc \in {"threaded", "inserted", "counted"} => tx[e].thread \in Ids
        BY <3>1 DEF EmailInv, ThreadShape
      <4> QED
        BY <1>8, <3>1, <3>2, <3>4, <4>1 DEF EmailInv, Conversation, rows
    <3>7. CommittedIsStored(e)'
      BY <1>1, <3>1, <3>2, <3>4 DEF EmailInv, CommittedIsStored, rows
    <3>8. \A i : Served(e, i)' <=> Served(e, i)
      BY <1>1, <3>2 DEF Served, rows
    <3>9. ServedSoFar(e)'
      BY <3>1, <3>2, <3>8 DEF EmailInv, ServedSoFar, rows
    <3> QED
      BY <3>3, <3>6, <3>7, <3>9 DEF EmailInv
  <2> QED
    BY <2>1
<1> QED
  BY <1>11, <1>13, <1>14 DEF IInv

\* A step inside an invocation or a call that writes nothing but its own state.
LEMMA LocalStep ==
  ASSUME IInv, UNCHANGED <<rows, queue, receives, lost, announced, due>>,
         NEW a \in Mails, NEW r \in Txs, tx' = [tx EXCEPT ![a] = r],
         tx[a].pc \notin {"committed", "done"}, r.pc \notin {"idle", "committed"},
         a \in Emails => tx[a].pc # "idle" /\ r.k = tx[a].k /\ EmailShape(a)',
         a \in Sends => SendShape(a)' /\ (r.pc = "done" => r.thread = None),
         r.pc \in {"started", "next", "found"} => r.thread = None,
         r.pc \in {"threaded", "inserted", "counted"} => r.inbox \in Inboxes /\ r.thread \in Ids,
         r.thread # None => r.thread = <<a, receives[a], r.k>> \/ Past(r.thread),
         r.pc \in {"inserted", "counted"} =>
            Exists(r.inbox) /\ (r.thread = <<a, receives[a], r.k>> \/ home[r.thread] # None),
         a \in Emails /\ r.pc \in {"threaded", "inserted", "counted"} /\ r.thread # <<a, receives[a], r.k>> =>
            /\ home[r.thread] \in {r.inbox, None}
            /\ home[r.thread] # None => Answers(r.thread, a)
  PROVE  IInv'
<1>0. TypeOK
  BY DEF IInv
<1>1. tx \in [Mails -> Txs] /\ \A b \in Mails : receives[b] \in Nat /\ tx[b].k \in Nat
  BY <1>0, TypeFacts
<1>2. /\ tx' \in [Mails -> Txs] /\ tx'[a] = r
      /\ \A b \in Mails \ {a} : tx'[b] = tx[b] /\ receives'[b] = receives[b]
  BY <1>1
<1>3. TypeOK'
  BY <1>0, <1>2 DEF TypeOK, Txs, rows
<1>4. r.k \in Nat /\ receives' = receives /\ r.thread \in Ids \cup {None}
  BY DEF Txs
<1>5. a \in Sends => tx[a].pc # "done" /\ (tx'[a].pc = "done" => tx'[a].thread = None)
  BY <1>2
<1>6. \A m \in Ids : Past(m) => Past(m)'
  <2>1. receives'[a] \in Nat /\ tx'[a].k \in Nat /\ receives'[a] = receives[a]
    BY <1>1, <1>2, <1>4
  <2> QED
    BY <1>0, <1>1, <1>2, <2>1, PastGrows
<1>7. /\ \A i : Exists(i)' <=> Exists(i)
      /\ \A t \in Ids, e \in Emails : Answers(t, e)' <=> Answers(t, e)
      /\ Stored' = Stored
  BY <1>2, <1>5, SameThreads
<1>8. IsNew(a)' <=> r.thread = <<a, receives[a], r.k>>
  BY <1>2 DEF IsNew, Id
<1>9. ThreadShape(a)' /\ Referred(a)'
  BY <1>2, <1>4, <1>6, <1>7, <1>8 DEF ThreadShape, Referred, rows
<1>10. ASSUME a \in Emails PROVE EmailInv(a)'
  <2>1. EmailInv(a)
    BY <1>10 DEF IInv
  <2>2. Conversation(a)' /\ CommittedIsStored(a)'
    BY <1>2, <1>7, <1>8, <1>10 DEF Conversation, CommittedIsStored, rows
  <2>3. \A i : Served(a, i)' <=> Served(a, i)
    BY <1>7 DEF Served, rows
  <2>4. ServedSoFar(a)'
    BY <1>2, <1>10, <2>1, <2>3 DEF EmailInv, ServedSoFar, rows
  <2> QED
    BY <1>9, <1>10, <2>2, <2>4 DEF EmailInv
<1>11. a \in Sends => SendInv(a)'
  BY <1>9 DEF SendInv
<1> QED
  BY <1>2, <1>3, <1>5, <1>6, <1>10, <1>11, TxStep

\* The loop goes on to the next recipient, once this one is served, not due or lost.
LEMMA NextStep ==
  ASSUME IInv, UNCHANGED <<rows, queue, receives, due>>, NEW e \in Emails,
         tx[e].pc # "idle", NextRecipient(e),
         lost' \in SUBSET (Emails \X Causes), lost \subseteq lost',
         \A f \in Emails \ {e}, c \in Causes : <<f, c>> \in lost' => <<f, c>> \in lost,
         announced' \in SUBSET Ids,
         \A m \in announced' \ announced :
            AnnouncedInv(m)' /\ (m \in Stored \/ ~ Exists(Rcpts[Mail(m)][m[3]])),
         \A i \in due[e] : tx[e].k \in DOMAIN Rcpts[e] /\ i = Rcpts[e][tx[e].k] => Served(e, i)'
  PROVE  IInv'
<1>0. TypeOK /\ e \in Mails /\ EmailInv(e)
  BY DEF IInv, Mails
<1>1. tx \in [Mails -> Txs] /\ tx[e].k \in Nat \ {0} /\ receives[e] \in Nat
  BY <1>0, TypeFacts
<1>2. PICK r \in Txs : r.pc = "next" /\ r.k = tx[e].k + 1 /\ r.inbox = None /\ r.thread = None
                       /\ tx' = [tx EXCEPT ![e] = r]
  <2>1. PICK n \in Nat \ {0} : n = tx[e].k + 1
    BY <1>1
  <2> DEFINE r == [pc |-> "next", k |-> n, inbox |-> None, thread |-> None]
  <2>4. r \in Txs /\ r.pc = "next" /\ r.k = n /\ r.inbox = None /\ r.thread = None
    BY DEF Txs, Pcs
  <2>5. tx' = [tx EXCEPT ![e] = r]
    BY <2>1 DEF NextRecipient
  <2> QED
    BY <2>1, <2>4, <2>5
<1>3. /\ tx' \in [Mails -> Txs] /\ tx'[e] = r
      /\ \A b \in Mails \ {e} : tx'[b] = tx[b] /\ receives'[b] = receives[b]
  BY <1>0, <1>1, <1>2
<1>4. TypeOK'
  BY <1>0, <1>3 DEF TypeOK, Txs, rows
<1>5. e \notin Sends
  BY <1>0, IdFacts
<1>6. \A m \in Ids : Past(m) => Past(m)'
  <2>1. receives'[e] = receives[e] /\ tx'[e].k \in Nat /\ tx'[e].k > tx[e].k
    BY <1>1, <1>2, <1>3
  <2> QED
    BY <1>0, <1>1, <1>3, <1>5, <2>1, PastGrows
<1>7. EmailShape(e)' /\ ThreadShape(e)' /\ Referred(e)'
  BY <1>0, <1>2, <1>3 DEF EmailInv, EmailShape, ThreadShape, Referred, Working
<1>8. Conversation(e)' /\ CommittedIsStored(e)'
  BY <1>2, <1>3 DEF Conversation, CommittedIsStored
<1>9. \A i : Served(e, i) => Served(e, i)'
  BY DEF Served, rows, Stored
<1>10. ServedSoFar(e)'
  <2>1. \A j \in DOMAIN Rcpts[e] : j < tx[e].k + 1 => j < tx[e].k \/ j = tx[e].k
    BY <1>1, RcptFacts
  <2>2. ASSUME NEW j \in DOMAIN Rcpts[e], Rcpts[e][j] \in due[e], j < tx[e].k + 1
        PROVE  Served(e, Rcpts[e][j])'
    <3>1. CASE j < tx[e].k
      BY <1>0, <1>9, <2>2, <3>1 DEF EmailInv, ServedSoFar
    <3>2. CASE j = tx[e].k
      BY <2>2, <3>2
    <3> QED
      BY <2>1, <2>2, <3>1, <3>2
  <2>3. queue[e] # "deleted"
    BY <1>0 DEF EmailInv, EmailShape
  <2> QED
    BY <1>0, <1>2, <1>3, <2>2, <2>3 DEF EmailInv, ServedSoFar, rows
<1>11. EmailInv(e)'
  BY <1>7, <1>8, <1>10 DEF EmailInv
<1>12. \A f \in Emails \ {e} : \A c \in Causes : <<f, c>> \in lost' <=> <<f, c>> \in lost
  OBVIOUS
<1> QED
  BY <1>0, <1>3, <1>4, <1>5, <1>6, <1>11, <1>12, TxStep

\* An error is logged and the loop goes on.
LEMMA LoseStep ==
  ASSUME IInv, NEW e \in Emails, NEW cause \in Causes, tx[e].pc # "idle", Lose(e, cause)
  PROVE  IInv'
<1>1. /\ UNCHANGED <<rows, queue, receives, announced, due>> /\ NextRecipient(e)
      /\ lost' = lost \cup {<<e, cause>>}
  BY DEF Lose
<1>2. lost \in SUBSET (Emails \X Causes) /\ announced \in SUBSET Ids
  BY DEF IInv, TypeOK
<1>3. \A i : Served(e, i)'
  BY <1>1 DEF Served
<1> QED
  BY <1>1, <1>2, <1>3, NextStep

\* The queue and the start of an invocation keep the invariant.
LEMMA QueueStep == \A e \in Emails :
  IInv /\ (Arrive(e) \/ Receive(e) \/ Retry(e) \/ Expire(e)) => IInv'
<1> SUFFICES ASSUME NEW e \in Emails, IInv, Arrive(e) \/ Receive(e) \/ Retry(e) \/ Expire(e)
             PROVE  IInv'
  OBVIOUS
<1>0. TypeOK /\ e \in Mails /\ EmailInv(e) /\ e \notin Sends
  BY IdFacts DEF IInv, Mails
<1>1. /\ tx \in [Mails -> Txs] /\ tx[e].k \in Nat \ {0} /\ receives[e] \in Nat
      /\ receives \in [Mails -> 0 .. MaxReceive] /\ MaxReceive \in Nat
  BY <1>0, TypeFacts, IdFacts
<1>2. CASE Arrive(e)
  <2> USE <1>2 DEF Arrive
  <2>1. TypeOK'
    BY <1>0 DEF TypeOK, rows
  <2>2. /\ tx' = tx /\ receives' = receives /\ lost' = lost /\ announced' = announced
        /\ queue'[e] = "visible"
        /\ due'[e] = {i \in Inboxes : inbox[i] = "active" /\ \E k \in DOMAIN Rcpts[e] : Rcpts[e][k] = i}
        /\ \A f \in Emails \ {e} : queue'[f] = queue[f] /\ due'[f] = due[f]
    BY <1>0 DEF TypeOK
  <2>3. tx[e].pc = "idle"
    BY <1>0 DEF EmailInv, EmailShape
  <2>4. \A m \in Ids : Past(m) => Past(m)'
    BY <2>2 DEF Past
  <2>5. EmailShape(e)' /\ Conversation(e)' /\ CommittedIsStored(e)' /\ Referred(e)'
    BY <1>0, <2>2, <2>3 DEF EmailInv, EmailShape, Conversation, CommittedIsStored, Referred, Working
  <2>6. ThreadShape(e)'
    BY <1>0, <2>2, <2>3 DEF EmailInv, ThreadShape
  <2>7. ServedSoFar(e)'
    BY <2>2, <2>3 DEF ServedSoFar, rows
  <2>8. EmailInv(e)'
    BY <2>5, <2>6, <2>7 DEF EmailInv
  <2> QED
    BY <1>0, <2>1, <2>2, <2>4, <2>8, TxStep
<1>3. CASE Receive(e)
  <2> USE <1>3 DEF Receive
  <2>0. tx[e].pc = "idle" /\ tx[e].k = 1 /\ tx[e].thread = None
    BY <1>0 DEF EmailInv, EmailShape, ThreadShape
  <2>1. /\ tx' \in [Mails -> Txs] /\ tx'[e].pc = "started" /\ tx'[e].k = 1 /\ tx'[e].thread = None
        /\ receives' \in [Mails -> 0 .. MaxReceive] /\ receives'[e] = receives[e] + 1
        /\ \A b \in Mails \ {e} : tx'[b] = tx[b] /\ receives'[b] = receives[b]
    BY <1>0, <1>1, <2>0 DEF Txs, Pcs
  <2>2. /\ queue'[e] = "inflight" /\ due' = due /\ announced' = announced
        /\ \A f \in Emails \ {e} : queue'[f] = queue[f]
        /\ \A f \in Emails \ {e} : \A c \in Causes : <<f, c>> \in lost' <=> <<f, c>> \in lost
    BY <1>0 DEF TypeOK
  <2>3. TypeOK'
    BY <1>0, <2>1 DEF TypeOK, rows, Txs
  <2>4. \A m \in Ids : Past(m) => Past(m)'
    <3>1. receives'[e] \in Nat /\ tx'[e].k \in Nat /\ receives'[e] > receives[e]
      BY <1>1, <2>1
    <3> QED
      BY <1>0, <1>1, <2>1, <3>1, PastGrows
  <2>5. EmailShape(e)' /\ Conversation(e)' /\ CommittedIsStored(e)' /\ Referred(e)' /\ ThreadShape(e)'
    BY <1>0, <1>1, <2>1, <2>2 DEF EmailShape, Conversation, CommittedIsStored, Referred, ThreadShape, Working
  <2>6. ServedSoFar(e)'
    <3>1. \A j \in DOMAIN Rcpts[e] : ~ (j < 1)
      BY RcptFacts
    <3> QED
      BY <1>0, <2>1, <2>2, <3>1 DEF EmailInv, ServedSoFar, rows
  <2>7. EmailInv(e)'
    BY <2>5, <2>6 DEF EmailInv
  <2> QED
    BY <1>0, <2>1, <2>2, <2>3, <2>4, <2>7, TxStep
<1>4. CASE Retry(e)
  <2> USE <1>4 DEF Retry
  <2>1. /\ tx' \in [Mails -> Txs] /\ tx'[e] = Idle /\ receives' = receives
        /\ \A b \in Mails \ {e} : tx'[b] = tx[b]
    BY <1>0, <1>1 DEF Txs, Pcs, Idle
  <2>2. /\ queue'[e] = "visible" /\ due' = due /\ announced' = announced /\ lost' = lost
        /\ \A f \in Emails \ {e} : queue'[f] = queue[f]
    BY <1>0 DEF TypeOK
  <2>3. TypeOK'
    BY <1>0, <2>1 DEF TypeOK, rows, Txs
  <2>4. \A m \in Ids : Past(m) => Past(m)'
    BY <1>0, <1>1, <2>1, PastGrows DEF Idle
  <2>5. EmailShape(e)' /\ Conversation(e)' /\ CommittedIsStored(e)' /\ Referred(e)' /\ ThreadShape(e)'
    BY <2>1 DEF EmailShape, Conversation, CommittedIsStored, Referred, ThreadShape, Working, Idle
  <2>6. ServedSoFar(e)'
    BY <1>0, <2>1, <2>2 DEF EmailInv, ServedSoFar, rows, Idle
  <2>7. EmailInv(e)'
    BY <2>5, <2>6 DEF EmailInv
  <2> QED
    BY <1>0, <2>1, <2>2, <2>3, <2>4, <2>7, TxStep
<1>5. CASE Expire(e)
  <2> USE <1>5 DEF Expire
  <2>1. TypeOK'
    BY <1>0 DEF TypeOK, rows
  <2>2. /\ tx' = tx /\ receives' = receives /\ lost' = lost /\ announced' = announced /\ due' = due
        /\ queue'[e] = "expired"
        /\ \A f \in Emails \ {e} : queue'[f] = queue[f]
    BY <1>0 DEF TypeOK
  <2>3. tx[e].pc = "idle"
    BY <1>0 DEF EmailInv, EmailShape
  <2>4. \A m \in Ids : Past(m) => Past(m)'
    BY <2>2 DEF Past
  <2>5. EmailShape(e)' /\ Conversation(e)' /\ CommittedIsStored(e)' /\ Referred(e)'
    BY <1>0, <2>2, <2>3 DEF EmailInv, EmailShape, Conversation, CommittedIsStored, Referred, Working
  <2>6. ThreadShape(e)'
    BY <1>0, <2>2, <2>3 DEF EmailInv, ThreadShape
  <2>7. ServedSoFar(e)'
    BY <1>0, <2>2, <2>3 DEF EmailInv, ServedSoFar, rows
  <2>8. EmailInv(e)'
    BY <2>5, <2>6, <2>7 DEF EmailInv
  <2> QED
    BY <1>0, <2>1, <2>2, <2>4, <2>8, TxStep
<1> QED
  BY <1>2, <1>3, <1>4, <1>5

\* The steps of processS3Object outside of the transaction keep the invariant.
LEMMA ProcessStep == \A e \in Emails :
  IInv /\ (Parse(e) \/ ParseFails(e) \/ LookupInbox(e) \/ LookupFails(e) \/ Ack(e) \/ Publish(e)) => IInv'
<1> SUFFICES ASSUME NEW e \in Emails, IInv,
                    Parse(e) \/ ParseFails(e) \/ LookupInbox(e) \/ LookupFails(e) \/ Ack(e) \/ Publish(e)
             PROVE  IInv'
  OBVIOUS
<1>0. /\ TypeOK /\ e \in Mails /\ EmailInv(e) /\ EmailShape(e) /\ e \notin Sends
      /\ announced \in SUBSET Ids /\ lost \in SUBSET (Emails \X Causes)
  BY IdFacts DEF IInv, Mails, EmailInv, TypeOK
<1>1. /\ tx \in [Mails -> Txs] /\ tx[e] \in Txs /\ tx[e].k \in Nat \ {0} /\ receives[e] \in Nat
      /\ receives \in [Mails -> 0 .. MaxReceive] /\ MaxReceive \in Nat
      /\ Len(Rcpts[e]) \in Nat /\ DOMAIN Rcpts[e] = 1 .. Len(Rcpts[e])
  BY <1>0, TypeFacts, IdFacts, RcptFacts
<1>2. CASE Parse(e)
  <2> USE <1>2 DEF Parse
  <2>1. PICK r \in Txs : /\ r.pc = "next" /\ r.k = tx[e].k /\ r.thread = tx[e].thread
                         /\ tx' = [tx EXCEPT ![e] = r]
    <3> DEFINE r == [tx[e] EXCEPT !.pc = "next"]
    <3>1. r \in Txs /\ r.pc = "next" /\ r.k = tx[e].k /\ r.thread = tx[e].thread
      BY <1>1 DEF Txs, Pcs
    <3> QED
      BY <1>0, <3>1
  <2>2. tx[e].thread = None
    BY <1>0 DEF EmailInv, ThreadShape
  <2>3. EmailShape(e)'
    BY <1>0, <1>1, <2>1 DEF EmailShape, Working
  <2> QED
    BY <1>0, <2>1, <2>2, <2>3, LocalStep
<1>3. CASE ParseFails(e)
  <2>0. PICK n \in Nat \ {0} : n = Len(Rcpts[e]) + 1
    BY <1>1
  <2>a. tx' = [tx EXCEPT ![e].pc = "next", ![e].k = n] /\ receives' = receives
    BY <1>3, <2>0 DEF ParseFails
  <2>b. tx \in [Mails -> Txs]
    BY <1>1
  <2>1. /\ tx' \in [Mails -> Txs] /\ tx'[e].pc = "next" /\ tx'[e].k = n
        /\ tx'[e].thread = tx[e].thread
        /\ \A b \in Mails \ {e} : tx'[b] = tx[b] /\ receives'[b] = receives[b]
        /\ receives'[e] = receives[e]
    BY <1>0, <2>a, <2>b DEF Txs, Pcs
  <2> USE <1>3 DEF ParseFails
  <2>2. TypeOK'
    BY <1>0, <2>1 DEF TypeOK, rows, Txs, Causes
  <2>3. tx[e].thread = None /\ tx[e].k = 1
    BY <1>0 DEF EmailInv, ThreadShape, EmailShape
  <2>4. \A m \in Ids : Past(m) => Past(m)'
    <3>1. tx'[e].k \in Nat /\ (tx'[e].k > tx[e].k \/ tx'[e].k = tx[e].k)
      BY <2>1, <2>3
    <3>2. tx[e].pc = "started" /\ receives'[e] >= receives[e] /\ receives'[e] \in Nat
      BY <1>1, <2>1
    <3> QED
      BY <1>0, <2>1, <3>1, <3>2, PastGrows
  <2>5. EmailShape(e)' /\ Conversation(e)' /\ CommittedIsStored(e)' /\ Referred(e)' /\ ThreadShape(e)'
    BY <1>0, <2>1, <2>3 DEF EmailShape, Conversation, CommittedIsStored, Referred, ThreadShape, Working
  <2>6. \A i : Served(e, i)'
    BY DEF Served, Causes
  <2>7. EmailInv(e)'
    BY <1>0, <2>5, <2>6 DEF EmailInv, ServedSoFar, rows
  <2>8. \A f \in Emails \ {e} : \A c \in Causes : <<f, c>> \in lost' <=> <<f, c>> \in lost
    OBVIOUS
  <2> QED
    BY <1>0, <2>1, <2>2, <2>4, <2>7, <2>8, TxStep
<1>4. CASE LookupInbox(e)
  <2> DEFINE i == Rcpts[e][tx[e].k]
  <2>1. /\ tx[e].pc = "next" /\ tx[e].k \in DOMAIN Rcpts[e] /\ i \in Inboxes
        /\ UNCHANGED <<rows, queue, receives, lost, announced, due>>
    BY <1>1, <1>4, RcptFacts DEF LookupInbox
  <2>2. CASE inbox[i] = "active"
    <3>1. tx' = [tx EXCEPT ![e].pc = "found", ![e].inbox = i]
      BY <1>4, <2>2 DEF LookupInbox
    <3>2. PICK r \in Txs : /\ r.pc = "found" /\ r.k = tx[e].k /\ r.thread = tx[e].thread /\ r.inbox = i
                           /\ tx' = [tx EXCEPT ![e] = r]
      <4> DEFINE r == [tx[e] EXCEPT !.pc = "found", !.inbox = i]
      <4>1. r \in Txs /\ r.pc = "found" /\ r.k = tx[e].k /\ r.thread = tx[e].thread /\ r.inbox = i
        BY <1>1, <2>1 DEF Txs, Pcs
      <4>2. tx' = [tx EXCEPT ![e] = r]
        BY <1>0, <1>1, <3>1
      <4> QED
        BY <4>1, <4>2
    <3>3. tx[e].thread = None
      BY <1>0, <2>1 DEF EmailInv, ThreadShape
    <3>4. EmailShape(e)'
      BY <1>0, <1>1, <2>1, <3>2 DEF EmailShape, Working
    <3> QED
      BY <1>0, <2>1, <3>2, <3>3, <3>4, LocalStep
  <2>3. CASE inbox[i] # "active"
    <3>1. NextRecipient(e)
      BY <1>4, <2>3 DEF LookupInbox
    <3>2. i \notin due[e]
      BY <1>0, <2>3 DEF EmailInv, ServedSoFar
    <3> QED
      BY <1>0, <2>1, <3>1, <3>2, NextStep
  <2> QED
    BY <2>2, <2>3
<1>5. CASE LookupFails(e)
  BY <1>5, LoseStep DEF LookupFails, Causes
<1>6. CASE Ack(e)
  <2> USE <1>6 DEF Ack
  <2>1. /\ tx' \in [Mails -> Txs] /\ tx'[e] = Idle /\ receives' = receives
        /\ \A b \in Mails \ {e} : tx'[b] = tx[b]
    BY <1>0, <1>1 DEF Txs, Pcs, Idle
  <2>2. /\ queue'[e] = "deleted" /\ due' = due /\ announced' = announced /\ lost' = lost
        /\ \A f \in Emails \ {e} : queue'[f] = queue[f]
    BY <1>0 DEF TypeOK
  <2>3. TypeOK'
    BY <1>0, <2>1 DEF TypeOK, rows, Txs
  <2>4. \A m \in Ids : Past(m) => Past(m)'
    BY <1>0, <1>1, <2>1, PastGrows DEF Idle
  <2>5. EmailShape(e)' /\ Conversation(e)' /\ CommittedIsStored(e)' /\ Referred(e)' /\ ThreadShape(e)'
    BY <2>1 DEF EmailShape, Conversation, CommittedIsStored, Referred, ThreadShape, Working, Idle
  <2>6. \A i : Served(e, i) => Served(e, i)'
    BY <2>2 DEF Served, rows, Stored
  <2>7. \A i \in due[e] : Served(e, i)
    <3>1. \A j \in DOMAIN Rcpts[e] : j < tx[e].k
      BY <1>1
    <3> QED
      BY <1>0, <3>1 DEF EmailInv, ServedSoFar
  <2>8. ServedSoFar(e)'
    BY <1>0, <2>1, <2>2, <2>6, <2>7 DEF EmailInv, ServedSoFar, rows, Idle
  <2>9. EmailInv(e)'
    BY <2>5, <2>8 DEF EmailInv
  <2> QED
    BY <1>0, <2>1, <2>2, <2>3, <2>4, <2>9, TxStep
<1>7. CASE Publish(e)
  <2> USE <1>7 DEF Publish
  <2>1. /\ tx[e].k \in DOMAIN Rcpts[e] /\ tx[e].inbox = Rcpts[e][tx[e].k] /\ tx[e].inbox \in Inboxes
        /\ receives[e] \in 1 .. MaxReceive
    BY <1>0, <1>1, RcptFacts DEF EmailShape, Working, TypeOK
  <2>2. Id(e) \in Ids /\ Mail(Id(e)) = e /\ Id(e)[2] = receives[e] /\ Id(e)[3] = tx[e].k
    BY <1>0, <2>1, IdFacts, RcptFacts DEF Id
  <2>3. (Id(e) \in Stored /\ place[Id(e)].inbox = tx[e].inbox) \/ ~ Exists(tx[e].inbox)
    BY <1>0 DEF EmailInv, CommittedIsStored
  <2>4. PICK m \in Ids : m = Id(e)
    BY <2>2
  <2>5. tx'[e].k = tx[e].k + 1
    BY <1>0, <1>1 DEF NextRecipient
  <2>6. AnnouncedInv(m)'
    BY <1>0, <1>1, <2>1, <2>2, <2>4, <2>5 DEF AnnouncedInv, Past, Mail
  <2>7. \A n \in announced' \ announced :
           AnnouncedInv(n)' /\ (n \in Stored \/ ~ Exists(Rcpts[Mail(n)][n[3]]))
    <3>1. \A n \in announced' \ announced : n = m
      BY <2>4
    <3>2. m \in Stored \/ ~ Exists(Rcpts[Mail(m)][m[3]])
      BY <2>1, <2>2, <2>3, <2>4
    <3> QED
      BY <2>6, <3>1, <3>2
  <2>8. ASSUME NEW i \in due[e], i = Rcpts[e][tx[e].k] PROVE Served(e, i)'
    <3>1. inbox[i] = "active"
      BY <1>0 DEF EmailInv, ServedSoFar
    <3>2. m \in Stored /\ Mail(m) = e /\ place[m].inbox = i
      BY <2>1, <2>2, <2>3, <2>4, <2>8, <3>1 DEF Exists
    <3> QED
      BY <3>2 DEF Served, Stored, rows
  <2> QED
    BY <1>0, <2>2, <2>7, <2>8, NextStep
<1> QED
  BY <1>2, <1>3, <1>4, <1>5, <1>6, <1>7

\* A new state of an invocation or a call, from its old one.
LEMMA NewTx ==
  ASSUME tx \in [Mails -> Txs], NEW a \in Mails, NEW p \in Pcs, tx' = [tx EXCEPT ![a].pc = p]
  PROVE  \E r \in Txs : /\ tx' = [tx EXCEPT ![a] = r] /\ r.pc = p /\ r.k = tx[a].k
                        /\ r.inbox = tx[a].inbox /\ r.thread = tx[a].thread
<1> DEFINE r == [tx[a] EXCEPT !.pc = p]
<1>1. tx[a] \in Txs
  OBVIOUS
<1>2. /\ r \in Txs /\ r.pc = p /\ r.k = tx[a].k
      /\ r.inbox = tx[a].inbox /\ r.thread = tx[a].thread
  BY <1>1 DEF Txs
<1> QED
  BY <1>2

\* FindThreadByMessageIDs joins a thread of the same inbox that the email answers, or
\* starts a new one.
LEMMA FindStep == \A e \in Emails : IInv /\ FindThread(e) => IInv'
<1> SUFFICES ASSUME NEW e \in Emails, IInv, FindThread(e) PROVE IInv'
  OBVIOUS
<1>0. TypeOK /\ e \in Mails /\ EmailInv(e) /\ e \notin Sends /\ RowInv
  BY IdFacts DEF IInv, Mails
<1>1. tx[e].pc = "found" /\ UNCHANGED <<rows, queue, receives, lost, announced, due>>
  BY DEF FindThread, JoinOrStart
<1>2. Id(e) \in Ids
  BY <1>0, <1>1, FreshId
<1>3. PICK t \in Ids : /\ tx' = [tx EXCEPT ![e].pc = "threaded", ![e].thread = t]
                       /\ t = Id(e) \/ (home[t] = tx[e].inbox /\ Names(t, e))
  BY <1>2 DEF FindThread, JoinOrStart
<1>4. tx \in [Mails -> Txs] /\ tx[e] \in Txs
  BY <1>0, TypeFacts
<1>5. PICK r \in Txs : /\ tx' = [tx EXCEPT ![e] = r] /\ r.pc = "threaded" /\ r.k = tx[e].k
                       /\ r.inbox = tx[e].inbox /\ r.thread = t
  <2> DEFINE r == [tx[e] EXCEPT !.pc = "threaded", !.thread = t]
  <2>1. /\ r \in Txs /\ r.pc = "threaded" /\ r.k = tx[e].k
        /\ r.inbox = tx[e].inbox /\ r.thread = t
    BY <1>4 DEF Txs, Pcs
  <2>2. tx' = [tx EXCEPT ![e] = r]
    BY <1>3, <1>4
  <2> QED
    BY <2>1, <2>2
<1>6. tx'[e] = r
  BY <1>0, <1>4, <1>5
<1>7. EmailShape(e)' /\ r.inbox \in Inboxes
  BY <1>0, <1>1, <1>5, <1>6, RcptFacts DEF EmailInv, EmailShape, Working
<1>8. r.thread = <<e, receives[e], r.k>> \/ (home[t] = r.inbox /\ Answers(t, e) /\ Past(t))
  BY <1>0, <1>3, <1>5, <1>7, PlaceFacts DEF Id, Answers, RowInv
<1> QED
  BY <1>0, <1>1, <1>5, <1>7, <1>8, LocalStep

\* Send joins the thread of a stored message, or starts a new one.
LEMMA SendStep == \A s \in Sends, i \in Inboxes, parent \in Ids \cup {None} :
  IInv /\ SendBegin(s, i, parent) => IInv'
<1> SUFFICES ASSUME NEW s \in Sends, NEW i \in Inboxes, NEW parent \in Ids \cup {None},
                    IInv, SendBegin(s, i, parent)
             PROVE  IInv'
  OBVIOUS
<1>0. TypeOK /\ s \in Mails /\ SendInv(s) /\ s \notin Emails /\ RowInv
  BY IdFacts DEF IInv, Mails
<1>1. /\ tx[s].pc = "idle" /\ UNCHANGED <<rows, queue, receives, lost, announced, due>>
      /\ parent = None \/ parent \in Stored
  BY DEF SendBegin
<1>2. receives[s] = 1 /\ tx[s].k = 1
  BY <1>0 DEF SendInv, SendShape
<1>3. Id(s) \in Ids
  BY <1>0, <1>2, IdFacts DEF Id
<1>4. PICK t \in Ids : /\ tx' = [tx EXCEPT ![s].pc = "threaded", ![s].inbox = i, ![s].thread = t]
                       /\ t = Id(s) \/ Past(t)
  <2>1. CASE parent = None
    BY <1>3, <2>1 DEF SendBegin
  <2>2. CASE parent # None
    <3>1. parent \in Stored /\ place[parent].thread \in Ids
      BY <1>0, <1>1, <2>2, TypeFacts
    <3>2. home[place[parent].thread] # None
      <4>1. place[parent].inbox # None
        BY <1>0, <3>1, TypeFacts, PlaceFacts
      <4> QED
        BY <1>0, <3>1, <4>1 DEF RowInv, ThreadInInbox
    <3>3. Past(place[parent].thread)
      BY <1>0, <3>1, <3>2 DEF RowInv
    <3> QED
      BY <2>2, <3>1, <3>3 DEF SendBegin
  <2> QED
    BY <2>1, <2>2
<1>5. tx \in [Mails -> Txs] /\ tx[s] \in Txs
  BY <1>0, TypeFacts
<1>6. PICK r \in Txs : /\ tx' = [tx EXCEPT ![s] = r] /\ r.pc = "threaded" /\ r.k = tx[s].k
                       /\ r.inbox = i /\ r.thread = t
  <2> DEFINE r == [tx[s] EXCEPT !.pc = "threaded", !.inbox = i, !.thread = t]
  <2>1. r \in Txs /\ r.pc = "threaded" /\ r.k = tx[s].k /\ r.inbox = i /\ r.thread = t
    BY <1>5 DEF Txs, Pcs
  <2>2. tx' = [tx EXCEPT ![s] = r]
    BY <1>4, <1>5
  <2> QED
    BY <2>1, <2>2
<1>7. tx'[s] = r
  BY <1>0, <1>5, <1>6
<1>8. SendShape(s)'
  BY <1>1, <1>2, <1>6, <1>7 DEF SendShape
<1>9. r.thread = <<s, receives[s], r.k>> \/ Past(r.thread)
  BY <1>4, <1>6 DEF Id
<1> QED
  BY <1>0, <1>1, <1>6, <1>8, <1>9, LocalStep

\* A transaction that fails leaves no trace but the error.
LEMMA FailStep ==
  ASSUME IInv, NEW a \in Mails, tx[a].pc \in {"found", "threaded", "inserted", "counted"}, Fail(a)
  PROVE  IInv'
<1>1. CASE a \in Emails
  BY <1>1, LoseStep DEF Fail, Causes
<1>2. CASE a \in Sends
  <2>0. TypeOK /\ SendInv(a) /\ a \notin Emails
    BY <1>2, IdFacts DEF IInv
  <2>1. /\ tx' = [tx EXCEPT ![a] = [Idle EXCEPT !.pc = "done"]]
        /\ UNCHANGED <<rows, queue, receives, lost, announced, due>>
    BY <2>0 DEF Fail
  <2>2. PICK r \in Txs : /\ tx' = [tx EXCEPT ![a] = r] /\ r.pc = "done" /\ r.k = 1
                         /\ r.inbox = None /\ r.thread = None
    <3> DEFINE r == [Idle EXCEPT !.pc = "done"]
    <3>1. r \in Txs /\ r.pc = "done" /\ r.k = 1 /\ r.inbox = None /\ r.thread = None
      BY DEF Txs, Pcs, Idle
    <3> QED
      BY <2>1, <3>1
  <2>3. tx \in [Mails -> Txs]
    BY <2>0, TypeFacts
  <2>4. tx'[a] = r
    BY <2>2, <2>3
  <2>5. SendShape(a)'
    BY <2>0, <2>1, <2>2, <2>4 DEF SendInv, SendShape
  <2> QED
    BY <2>0, <2>1, <2>2, <2>5, LocalStep
<1> QED
  BY <1>1, <1>2 DEF Mails

\* The steps of a transaction before it commits keep the invariant.
LEMMA TransactionStep == \A a \in Mails :
  IInv /\ (Insert(a) \/ IncrMessageCount(a) \/ StatementFails(a) \/ AttachmentFails(a) \/ MergeFails(a)) => IInv'
<1> SUFFICES ASSUME NEW a \in Mails, IInv,
                    Insert(a) \/ IncrMessageCount(a) \/ StatementFails(a) \/ AttachmentFails(a) \/ MergeFails(a)
             PROVE  IInv'
  OBVIOUS
<1>0. /\ TypeOK /\ RowInv /\ tx \in [Mails -> Txs] /\ ThreadShape(a) /\ Referred(a)
      /\ a \in Emails => EmailInv(a) /\ a \notin Sends
      /\ a \in Sends => SendInv(a)
  BY TypeFacts, IdFacts DEF IInv, Mails, EmailInv, SendInv
<1>1. ASSUME tx[a].pc = "threaded", Exists(tx[a].inbox), IsNew(a) \/ home[tx[a].thread] # None,
             tx' = [tx EXCEPT ![a].pc = "inserted"],
             UNCHANGED <<rows, queue, receives, lost, announced, due>>
      PROVE  IInv'
  <2>1. PICK r \in Txs : /\ tx' = [tx EXCEPT ![a] = r] /\ r.pc = "inserted" /\ r.k = tx[a].k
                         /\ r.inbox = tx[a].inbox /\ r.thread = tx[a].thread
    BY <1>0, <1>1, NewTx DEF Pcs
  <2>2. tx'[a] = r
    BY <1>0, <2>1
  <2>3. /\ a \in Emails => EmailShape(a)' /\ Conversation(a)
        /\ a \in Sends => SendShape(a)'
    BY <1>0, <1>1, <2>1, <2>2 DEF EmailInv, SendInv, EmailShape, SendShape, Working
  <2>4. IsNew(a) <=> r.thread = <<a, receives[a], r.k>>
    BY <2>1 DEF IsNew, Id
  <2>5. r.inbox \in Inboxes /\ r.thread \in Ids /\ (IsNew(a) \/ Past(r.thread))
    BY <1>0, <1>1, <2>1, PlaceFacts DEF ThreadShape
  <2>6. a \in Emails /\ ~ IsNew(a) => /\ home[r.thread] \in {r.inbox, None}
                                      /\ home[r.thread] # None => Answers(r.thread, a)
    BY <1>0, <1>1, <2>1, <2>3 DEF Referred, Conversation
  <2> QED
    BY ZenonT(40), <1>1, <2>1, <2>3, <2>4, <2>5, <2>6, LocalStep
<1>2. CASE IncrMessageCount(a)
  <2>0. /\ tx[a].pc = "inserted" /\ tx' = [tx EXCEPT ![a].pc = "counted"]
        /\ UNCHANGED <<rows, queue, receives, lost, announced, due>>
    BY <1>2 DEF IncrMessageCount
  <2>1. PICK r \in Txs : /\ tx' = [tx EXCEPT ![a] = r] /\ r.pc = "counted" /\ r.k = tx[a].k
                         /\ r.inbox = tx[a].inbox /\ r.thread = tx[a].thread
    BY <1>0, <2>0, NewTx DEF Pcs
  <2>2. tx'[a] = r
    BY <1>0, <2>1
  <2>3. /\ a \in Emails => EmailShape(a)' /\ Conversation(a)
        /\ a \in Sends => SendShape(a)'
    BY <1>0, <2>0, <2>1, <2>2 DEF EmailInv, SendInv, EmailShape, SendShape, Working
  <2>4. IsNew(a) <=> r.thread = <<a, receives[a], r.k>>
    BY <2>1 DEF IsNew, Id
  <2>5. r.inbox \in Inboxes /\ r.thread \in Ids /\ (IsNew(a) \/ Past(r.thread))
    BY <1>0, <2>0, <2>1, PlaceFacts DEF ThreadShape
  <2>6. /\ Exists(r.inbox) /\ (IsNew(a) \/ home[r.thread] # None)
        /\ a \in Emails /\ ~ IsNew(a) => /\ home[r.thread] \in {r.inbox, None}
                                         /\ home[r.thread] # None => Answers(r.thread, a)
    BY <1>0, <2>0, <2>1, <2>3 DEF Referred, Conversation
  <2> QED
    BY <2>0, <2>1, <2>3, <2>4, <2>5, <2>6, LocalStep
<1>3. CASE Insert(a)
  BY <1>1, <1>3, FailStep DEF Insert
<1>4. CASE StatementFails(a)
  BY <1>4, FailStep DEF StatementFails
<1>5. CASE AttachmentFails(a) \/ MergeFails(a)
  <2>1. a \in Emails /\ tx[a].pc # "idle" /\ Lose(a, "transaction")
    BY <1>5, InboundAssumption DEF AttachmentFails, MergeFails
  <2> QED
    BY <2>1, LoseStep DEF Causes
<1> QED
  BY <1>2, <1>3, <1>4, <1>5

\* What a commit does to the rows: one message more, in the thread that was counted, which
\* exists from now on; nobody else's message, thread or count changes.
LEMMA CommitRows ==
  ASSUME IInv, NEW a \in Mails, Commit(a)
  PROVE  LET id == Id(a)  t == tx[a].thread  i == tx[a].inbox IN
         /\ id \in Ids /\ t \in Ids /\ i \in Inboxes /\ Mail(id) = a /\ id[3] = tx[a].k
         /\ id \notin Stored /\ home[id] = None /\ Exists(i)
         /\ Stored' = Stored \cup {id}
         /\ place' \in [Ids -> Places \cup {None}]
         /\ place'[id].inbox = i /\ place'[id].thread = t
         /\ \A m \in Ids \ {id} : place'[m] = place[m]
         /\ home' \in [Ids -> Inboxes \cup {None}]
         /\ \A u \in Ids \ {id} : home'[u] = home[u]
         /\ IsNew(a) => home'[id] = i
         /\ ~ IsNew(a) => home' = home /\ home[t] # None
         /\ count' \in [Ids -> Nat] /\ count'[t] = count[t] + 1
         /\ \A u \in Ids \ {t} : count'[u] = count[u]
         /\ tx' \in [Mails -> Txs]
         /\ tx'[a].pc = (IF a \in Emails THEN "committed" ELSE "done")
         /\ tx'[a].k = tx[a].k /\ tx'[a].inbox = i /\ tx'[a].thread = t
         /\ \A b \in Mails \ {a} : tx'[b] = tx[b]
         /\ \A b \in Mails : Id(b)' = Id(b)
         /\ \A m \in Ids : Past(m) => Past(m)'
         /\ Past(id)'
<1> DEFINE id == Id(a)  t == tx[a].thread  i == tx[a].inbox
<1>0. /\ TypeOK /\ RowInv /\ ThreadShape(a) /\ Referred(a)
  BY DEF IInv, Mails, EmailInv, SendInv
<1>1. /\ place \in [Ids -> Places \cup {None}] /\ home \in [Ids -> Inboxes \cup {None}]
      /\ count \in [Ids -> Nat] /\ tx \in [Mails -> Txs] /\ tx[a] \in Txs
      /\ \A b \in Mails : receives[b] \in Nat /\ tx[b].k \in Nat
  BY <1>0, TypeFacts
<1>2. tx[a].pc = "counted" /\ UNCHANGED <<inbox, queue, receives, lost, announced, due>>
  BY DEF Commit
<1>3. /\ id \in Ids /\ Mail(id) = a /\ id[2] = receives[a] /\ id[3] = tx[a].k /\ ~ Past(id)
  BY <1>2, FreshId
<1>4. t \in Ids /\ i \in Inboxes /\ Exists(i) /\ (~ IsNew(a) => home[t] # None)
  BY <1>0, <1>2 DEF ThreadShape, Referred
<1>5. id \notin Stored /\ home[id] = None
  BY <1>0, <1>3 DEF RowInv, MessageInv
<1>6. PICK n \in Ids : n = id
  BY <1>3
<1>7. PICK q \in Places : q.inbox = i /\ q.thread = t /\ place' = [place EXCEPT ![n] = q]
  BY <1>4, <1>6, PlaceFacts DEF Commit
<1>8. /\ place' \in [Ids -> Places \cup {None}] /\ place'[n] = q
      /\ \A m \in Ids \ {n} : place'[m] = place[m]
  BY <1>1, <1>7
<1>9. Stored' = Stored \cup {n}
  BY <1>8, PlaceFacts DEF Stored
<1>10. /\ home' \in [Ids -> Inboxes \cup {None}]
       /\ \A u \in Ids \ {n} : home'[u] = home[u]
       /\ IsNew(a) => home'[n] = i
       /\ ~ IsNew(a) => home' = home
  BY <1>1, <1>4, <1>6 DEF Commit
<1>11. count' \in [Ids -> Nat] /\ count'[t] = count[t] + 1 /\ \A u \in Ids \ {t} : count'[u] = count[u]
  BY <1>1, <1>4 DEF Commit
<1>12. PICK pc \in Pcs : pc = (IF a \in Emails THEN "committed" ELSE "done")
  BY DEF Pcs
<1>13. tx' = [tx EXCEPT ![a].pc = pc]
  BY <1>12 DEF Commit
<1>14. /\ tx' \in [Mails -> Txs] /\ tx'[a].pc = pc /\ tx'[a].k = tx[a].k
       /\ tx'[a].inbox = i /\ tx'[a].thread = t
       /\ \A b \in Mails \ {a} : tx'[b] = tx[b]
  BY <1>1, <1>13 DEF Txs
<1>15. \A b \in Mails : Id(b)' = Id(b)
  BY <1>2, <1>14 DEF Id
<1>16. \A m \in Ids : Past(m) => Past(m)'
  <2>1. /\ \A b \in Mails \ {a} : tx'[b] = tx[b] /\ receives'[b] = receives[b]
        /\ receives'[a] \in Nat /\ tx'[a].k \in Nat /\ receives'[a] = receives[a]
        /\ receives'[a] >= receives[a]
    BY <1>1, <1>2, <1>14
  <2> QED
    BY <1>0, <1>2, <1>12, <1>14, <2>1, PastGrows
<1>17. Past(n)'
  <2>1. /\ tx'[Mail(n)].pc = pc /\ n[2] = receives'[Mail(n)] /\ n[3] = tx'[Mail(n)].k
    BY <1>2, <1>3, <1>6, <1>14
  <2>2. n[2] \in Nat
    BY IdFacts
  <2> QED
    BY <1>3, <1>6, <1>12, <2>1, <2>2 DEF Past, Mail
<1>18. Past(id)'
  BY <1>6, <1>15, <1>17
<1> QED
  BY <1>3, <1>4, <1>5, <1>6, <1>7, <1>8, <1>9, <1>10, <1>11, <1>12, <1>14, <1>15, <1>16, <1>18

\* ThreadIsConversation, from the answers of every message.
LEMMA ConversationIf ==
  ASSUME \A m \in Stored' : place'[m].thread \in Ids,
         \A m \in Stored', u \in Ids :
            u = place'[m].thread /\ Mail(m) \in Emails /\ u # m => Answers(u, Mail(m))'
  PROVE  ThreadIsConversation'
<1> SUFFICES ASSUME NEW m \in Stored', Mail(m) \in Emails, place'[m].thread # m
             PROVE  (Names(place[m].thread, Mail(m)) \/ Left(place[m].thread) \cap Refs[Mail(m)] # {})'
  BY DEF ThreadIsConversation, Mail
<1>1. PICK u \in Ids : u = place'[m].thread
  OBVIOUS
<1>2. Answers(u, Mail(m))'
  BY <1>1
<1> QED
  BY <1>1, <1>2 DEF Answers, Names, In, Left, Mail

\* A commit keeps the invariant.
LEMMA CommitStep == \A a \in Mails : IInv /\ Commit(a) => IInv'
<1> SUFFICES ASSUME NEW a \in Mails, IInv, Commit(a) PROVE IInv'
  OBVIOUS
<1>0. /\ TypeOK /\ RowInv /\ ThreadShape(a) /\ Referred(a)
      /\ tx[a].pc = "counted" /\ UNCHANGED <<inbox, queue, receives, lost, announced, due>>
  BY DEF IInv, Mails, EmailInv, SendInv, Commit
<1>1. PICK id \in Ids, t \in Ids, i \in Inboxes :
         /\ id = Id(a) /\ t = tx[a].thread /\ i = tx[a].inbox
         /\ Mail(id) = a /\ id[3] = tx[a].k
         /\ id \notin Stored /\ home[id] = None /\ Exists(i)
         /\ Stored' = Stored \cup {id}
         /\ place' \in [Ids -> Places \cup {None}]
         /\ place'[id].inbox = i /\ place'[id].thread = t
         /\ \A m \in Ids \ {id} : place'[m] = place[m]
         /\ home' \in [Ids -> Inboxes \cup {None}]
         /\ \A u \in Ids \ {id} : home'[u] = home[u]
         /\ IsNew(a) => home'[id] = i
         /\ ~ IsNew(a) => home' = home /\ home[t] # None
    BY CommitRows
<1>2. /\ count' \in [Ids -> Nat] /\ count'[t] = count[t] + 1
      /\ \A u \in Ids \ {t} : count'[u] = count[u]
      /\ tx' \in [Mails -> Txs]
      /\ tx'[a].pc = (IF a \in Emails THEN "committed" ELSE "done")
      /\ tx'[a].k = tx[a].k /\ tx'[a].inbox = i /\ tx'[a].thread = t
      /\ \A b \in Mails \ {a} : tx'[b] = tx[b]
    BY <1>1, CommitRows
<1>3. /\ \A b \in Mails : Id(b)' = Id(b)
      /\ \A m \in Ids : Past(m) => Past(m)'
      /\ ~ Past(id) /\ Past(id)'
  <2>1. ~ Past(id)
    BY <1>0, <1>1, FreshId
  <2>2. \A b \in Mails : Id(b)' = Id(b)
    BY CommitRows
  <2>3. \A m \in Ids : Past(m) => Past(m)'
    BY CommitRows
  <2>4. Past(Id(a))'
    BY CommitRows
  <2> QED
    BY <1>1, <2>1, <2>2, <2>3, <2>4
<1>4. IsNew(a) <=> t = id
  BY <1>1 DEF IsNew
<1>5. TypeOK'
  BY <1>0, <1>1, <1>2 DEF TypeOK, Txs
<1>6. \A b \in Mails \ {a} : Id(b) # id
  BY <1>1 DEF Id
<1>7. \A b \in Mails \ {a} : tx[b].thread # id
  <2>1. \A b \in Mails : ThreadShape(b)
    BY DEF IInv, EmailInv, SendInv, Mails
  <2> QED
    BY <1>3, <1>6, <2>1, PlaceFacts DEF ThreadShape, IsNew
<1>8. \A m \in Stored : /\ m \in Ids /\ m # id /\ place'[m] = place[m] /\ place[m].thread \in Ids
                        /\ place[m].thread # id
  <2>1. \A m \in Stored : m \in Ids /\ m # id /\ place[m].thread \in Ids /\ place[m].inbox \in Inboxes
    BY <1>0, <1>1, TypeFacts
  <2>2. \A m \in Stored : home[place[m].thread] # None
    BY <1>0, <2>1, PlaceFacts DEF RowInv, ThreadInInbox
  <2> QED
    BY <1>1, <2>1, <2>2
<1>9. \A u \in Ids : In(u)' = IF u = t THEN In(u) \cup {id} ELSE In(u)
  BY <1>1, <1>8 DEF In
<1>10. ASSUME NEW u \in Ids PROVE Left(u)' = Left(u)
  <2>1. ASSUME NEW s \in Sends \ {a} PROVE s \in Left(u)' <=> s \in Left(u)
    <3>1. s \in Mails /\ tx'[s] = tx[s] /\ Id(s)' = Id(s) /\ Id(s) # id /\ tx[s].thread # id
      BY <1>2, <1>3, <1>6, <1>7 DEF Mails
    <3>2. Id(s) \in Stored' <=> Id(s) \in Stored
      BY <1>1, <3>1
    <3>3. tx[s].thread = u => home'[u] = home[u]
      BY <1>1, <3>1
    <3> QED
      BY <3>1, <3>2, <3>3 DEF Left
  <2>2. a \notin Left(u) /\ a \notin Left(u)'
    BY <1>0, <1>1, <1>3 DEF Left
  <2>3. Left(u) \subseteq Sends /\ Left(u)' \subseteq Sends
    BY DEF Left
  <2>4. \A s : s \in Left(u)' <=> s \in Left(u)
    BY <2>1, <2>2, <2>3
  <2> QED
    BY <2>4, Zenon
<1>11. \A u \in Ids, e \in Emails : Answers(u, e) => Answers(u, e)'
  BY <1>9, <1>10 DEF Answers, Names
<1>12. \A m \in Stored' : MessageInv(m)'
  <2>1. ASSUME NEW m \in Stored PROVE MessageInv(m)'
    <3>1. MessageInv(m) /\ Past(m) /\ m \in Ids /\ Mail(m) \in Mails
      BY <1>0, <1>8, IdFacts DEF RowInv, MessageInv
    <3>2. Mail(m) \in Sends => Mail(m) # a
      BY <1>0, <3>1, IdFacts DEF Past
    <3>3. Mail(m) \in Sends => tx'[Mail(m)] = tx[Mail(m)] /\ Id(Mail(m))' = Id(Mail(m))
      BY <1>2, <1>3, <3>1, <3>2
    <3>4. Past(m)' /\ place'[m] = place[m]
      BY <1>3, <1>8, <3>1
    <3> QED
      BY <3>1, <3>3, <3>4 DEF MessageInv, Mail
  <2>2. MessageInv(id)'
    <3>1. a \in Emails => tx[a].k \in DOMAIN Rcpts[a] /\ i = Rcpts[a][tx[a].k]
      BY <1>0, <1>1 DEF IInv, EmailInv, EmailShape, Working
    <3>2. id = Id(a)' /\ Mail(id) = a /\ tx'[a].thread = place'[id].thread /\ place'[id].inbox = i
      BY <1>1, <1>2, <1>3
    <3> QED
      BY <1>1, <1>3, <3>1, <3>2 DEF MessageInv, Mail
  <2> QED
    BY <1>1, <2>1, <2>2
<1>13. \A u \in Ids : home'[u] # None => Past(u)'
  BY <1>0, <1>1, <1>3 DEF RowInv
<1>14. \A m \in announced' : AnnouncedInv(m)'
  BY <1>0, <1>3 DEF RowInv, AnnouncedInv, TypeOK
<1>15. \A u \in Ids : CountInv(u)'
  <2>1. \A u \in Ids : CountInv(u)
    BY <1>0 DEF RowInv
  <2>2. ASSUME NEW u \in Ids, u # t PROVE CountInv(u)'
    BY <1>2, <1>9, <1>10, <2>1, <2>2 DEF CountInv
  <2>3. CountInv(t)'
    <3>1. In(t)' = In(t) \cup {id} /\ id \notin In(t) /\ Left(t)' = Left(t)
      BY <1>1, <1>9, <1>10 DEF In
    <3>2. IsFiniteSet(In(t)) /\ IsFiniteSet(Left(t)) /\ count[t] = Cardinality(In(t)) + Cardinality(Left(t))
      BY <2>1 DEF CountInv
    <3>3. /\ IsFiniteSet(In(t) \cup {id})
          /\ Cardinality(In(t) \cup {id}) = Cardinality(In(t)) + 1
      BY <3>1, <3>2, FS_AddElement
    <3>4. Cardinality(In(t)) \in Nat /\ Cardinality(Left(t)) \in Nat
      BY <3>2, FS_CardinalityType
    <3>5. count'[t] = Cardinality(In(t) \cup {id}) + Cardinality(Left(t))
      BY <1>2, <3>2, <3>3, <3>4
    <3> QED
      BY <3>1, <3>2, <3>3, <3>5 DEF CountInv
  <2> QED
    BY <2>2, <2>3
<1>16. ThreadInInbox'
  <2>1. \A m \in Stored : home'[place'[m].thread] = home[place[m].thread] /\ place'[m] = place[m]
    BY <1>1, <1>8
  <2>2. home'[t] # None /\ (a \in Emails => home'[t] = i)
    BY <1>0, <1>1, <1>4, PlaceFacts DEF Referred
  <2>3. ASSUME NEW m \in Stored
        PROVE  IF Mail(m) \in Emails THEN home'[place'[m].thread] = place'[m].inbox
                                     ELSE home'[place'[m].thread] # None
    BY <1>0, <2>1 DEF RowInv, ThreadInInbox
  <2>4. IF Mail(id) \in Emails THEN home'[place'[id].thread] = place'[id].inbox
                               ELSE home'[place'[id].thread] # None
    BY <1>1, <2>2
  <2> QED
    BY <1>1, <2>3, <2>4 DEF ThreadInInbox, Mail
<1>17. ThreadIsConversation'
  <2>1. ASSUME NEW m \in Stored, NEW u \in Ids, u = place'[m].thread, Mail(m) \in Emails, u # m
        PROVE  Answers(u, Mail(m))'
    <3>1. u = place[m].thread
      BY <1>8, <2>1
    <3>2. Answers(u, Mail(m))
      BY <1>0, <2>1, <3>1 DEF RowInv, ThreadIsConversation, Answers
    <3> QED
      BY <1>11, <2>1, <3>2 DEF Mail
  <2>2. ASSUME a \in Emails, t # id PROVE Answers(t, a)'
    <3>1. Answers(t, a)
      BY <1>0, <1>1, <1>4, <2>2 DEF IInv, EmailInv, Conversation
    <3> QED
      BY <1>11, <2>2, <3>1
  <2>3. ASSUME NEW m \in Stored', NEW u \in Ids, u = place'[m].thread, Mail(m) \in Emails, u # m
        PROVE  Answers(u, Mail(m))'
    BY <1>1, <2>1, <2>2, <2>3 DEF Mail
  <2>4. \A m \in Stored' : place'[m].thread \in Ids
    BY <1>1, <1>8
  <2> QED
    BY <2>3, <2>4, ConversationIf
<1>18. AnnouncedIsStored'
  BY <1>0, <1>1 DEF RowInv, AnnouncedIsStored, Exists, Mail
<1>19. RowInv'
  BY <1>12, <1>13, <1>14, <1>15, <1>16, <1>17, <1>18 DEF RowInv
<1>20. ASSUME NEW b \in Mails \ {a}, ThreadShape(b), Referred(b) PROVE ThreadShape(b)' /\ Referred(b)'
  <2>1. /\ tx'[b] = tx[b] /\ (IsNew(b)' <=> IsNew(b)) /\ tx[b].thread # id
        /\ tx[b].thread \in Ids \cup {None}
    BY <1>0, <1>2, <1>3, <1>7, TypeFacts DEF IsNew
  <2>2. tx[b].thread \in Ids => home'[tx[b].thread] = home[tx[b].thread]
    BY <1>1, <2>1
  <2>3. \A j : Exists(j)' <=> Exists(j)
    BY <1>0 DEF Exists
  <2>4. ThreadShape(b)'
    BY <1>3, <1>20, <2>1 DEF ThreadShape
  <2>5. tx[b].pc \in {"threaded", "inserted", "counted"} => tx[b].thread \in Ids
    BY <1>20 DEF ThreadShape
  <2>6. Referred(b)'
    BY <1>20, <2>1, <2>2, <2>3, <2>5 DEF Referred
  <2> QED
    BY <2>4, <2>6
<1>21. ThreadShape(a)'
  BY <1>0, <1>1, <1>2, <1>3 DEF ThreadShape, IsNew
<1>22. Referred(a)'
  BY <1>2 DEF Referred
<1>23. ASSUME NEW s \in Sends PROVE SendInv(s)'
  <2>1. SendInv(s) /\ s \in Mails /\ s \notin Emails
    BY IdFacts DEF IInv, Mails
  <2>2. SendShape(s)'
    BY <1>0, <1>2, <2>1 DEF SendInv, SendShape
  <2> QED
    BY <1>20, <1>21, <1>22, <2>1, <2>2 DEF SendInv
<1>24. ASSUME NEW e \in Emails PROVE EmailInv(e)'
  <2>0. EmailInv(e) /\ e \in Mails
    BY DEF IInv, Mails
  <2>1. \A j : Served(e, j) => Served(e, j)'
    BY <1>0, <1>1, <1>8 DEF Served
  <2>2. CASE e # a
    <3>1. tx'[e] = tx[e] /\ Id(e)' = Id(e) /\ Id(e) # id
      BY <1>2, <1>3, <1>6, <2>0, <2>2
    <3>2. EmailShape(e)' /\ ThreadShape(e)' /\ Referred(e)'
      BY <1>0, <1>20, <2>0, <2>2, <3>1 DEF EmailInv, EmailShape
    <3>3. Conversation(e)'
      <4>1. tx[e].pc \in {"threaded", "inserted", "counted"} =>
               /\ tx[e].thread \in Ids
               /\ home'[tx[e].thread] = home[tx[e].thread]
        BY <1>1, <1>7, <2>0, <2>2 DEF EmailInv, ThreadShape
      <4>2. IsNew(e)' <=> IsNew(e)
        BY <3>1 DEF IsNew
      <4> QED
        BY <1>11, <2>0, <3>1, <4>1, <4>2 DEF EmailInv, Conversation
    <3>4. CommittedIsStored(e)'
      <4>1. Id(e) \in Stored => Id(e) \in Stored' /\ place'[Id(e)] = place[Id(e)]
        BY <1>1, <1>8
      <4> QED
        BY <1>0, <2>0, <3>1, <4>1 DEF EmailInv, CommittedIsStored, Exists
    <3>5. ServedSoFar(e)'
      BY <1>0, <2>0, <2>1, <3>1 DEF EmailInv, ServedSoFar
    <3> QED
      BY <3>2, <3>3, <3>4, <3>5 DEF EmailInv
  <2>3. CASE e = a
    <3>1. tx'[e].pc = "committed" /\ tx'[e].k = tx[e].k /\ tx'[e].inbox = tx[e].inbox
      BY <1>1, <1>2, <2>3
    <3>2. EmailShape(e)'
      BY <1>0, <2>0, <2>3, <3>1 DEF EmailInv, EmailShape, Working
    <3>3. Conversation(e)'
      BY <3>1 DEF Conversation
    <3>4. CommittedIsStored(e)'
      BY <1>1, <1>2, <1>3, <2>3 DEF CommittedIsStored
    <3>5. ServedSoFar(e)'
      <4>1. Served(e, i)'
        BY <1>1, <2>3 DEF Served, Mail
      <4>2. i = Rcpts[e][tx[e].k]
        BY <1>0, <1>1, <2>0, <2>3 DEF EmailInv, EmailShape, Working
      <4> QED
        BY <1>0, <2>0, <2>1, <2>3, <3>1, <4>1, <4>2 DEF EmailInv, ServedSoFar
    <3> QED
      BY <1>21, <1>22, <2>3, <3>2, <3>3, <3>4, <3>5 DEF EmailInv
  <2> QED
    BY <2>2, <2>3
<1> QED
  BY <1>5, <1>19, <1>23, <1>24 DEF IInv

\* A PATCH changes whether an inbox is active, not whether it exists.
LEMMA UpdateStep == \A i \in Inboxes, status \in {"active", "suspended"} :
  IInv /\ UpdateInbox(i, status) => IInv'
<1> SUFFICES ASSUME NEW i \in Inboxes, NEW status \in {"active", "suspended"},
                    IInv, UpdateInbox(i, status)
             PROVE  IInv'
  OBVIOUS
<1>0. TypeOK /\ RowInv
  BY DEF IInv
<1>1. /\ UNCHANGED <<place, home, count, queue, receives, tx, lost, announced>>
      /\ Exists(i) /\ inbox' = [inbox EXCEPT ![i] = status]
      /\ due' = [e \in Emails |-> due[e] \ {i}]
  BY DEF UpdateInbox
<1>2. TypeOK'
  BY <1>0, <1>1 DEF TypeOK
<1>3. /\ \A j \in Inboxes : Exists(j)' <=> Exists(j)
      /\ \A j \in Inboxes \ {i} : inbox'[j] = inbox[j]
  BY <1>0, <1>1 DEF TypeOK, Exists
<1>4. /\ Stored' = Stored /\ (\A t : In(t)' = In(t) /\ Left(t)' = Left(t))
      /\ (\A a : Id(a)' = Id(a) /\ (IsNew(a)' <=> IsNew(a)))
      /\ \A m : Past(m)' <=> Past(m)
  BY <1>1 DEF Stored, In, Left, Id, IsNew, Past
<1>5. /\ \A m \in Stored : MessageInv(m)'
      /\ \A t \in Ids : home'[t] # None => Past(t)'
      /\ \A m \in announced : AnnouncedInv(m)' /\ AnnouncedInv(m)
      /\ \A t \in Ids : CountInv(t)'
  BY <1>0, <1>1, <1>4 DEF RowInv, MessageInv, AnnouncedInv, CountInv
<1>6. ThreadInInbox'
  BY <1>0, <1>1, <1>4 DEF RowInv, ThreadInInbox
<1>7. \A t, e : Answers(t, e)' <=> Answers(t, e)
  BY <1>4 DEF Answers, Names
<1>8. ThreadIsConversation'
  BY <1>0, <1>1, <1>4, <1>7 DEF RowInv, ThreadIsConversation, Answers
<1>9. AnnouncedIsStored'
  <2>1. \A m \in announced : Rcpts[Mail(m)][m[3]] \in Inboxes
    BY <1>5, RcptFacts DEF AnnouncedInv
  <2> QED
    BY <1>0, <1>1, <1>3, <1>4, <2>1 DEF RowInv, AnnouncedIsStored
<1>10. RowInv'
  BY <1>1, <1>4, <1>5, <1>6, <1>8, <1>9 DEF RowInv
<1>11. ASSUME NEW a \in Mails, ThreadShape(a), Referred(a) PROVE ThreadShape(a)' /\ Referred(a)'
  <2>1. ThreadShape(a)'
    BY <1>1, <1>4, <1>11 DEF ThreadShape
  <2>2. tx[a].pc \in {"inserted", "counted"} => tx[a].inbox \in Inboxes
    BY <1>11 DEF ThreadShape
  <2> QED
    BY <1>1, <1>3, <1>4, <1>11, <2>1, <2>2 DEF Referred
<1>12. \A s \in Sends : SendInv(s)'
  BY <1>1, <1>11 DEF IInv, SendInv, SendShape, Mails
<1>13. ASSUME NEW e \in Emails PROVE EmailInv(e)'
  <2>0. EmailInv(e) /\ e \in Mails
    BY DEF IInv, Mails
  <2>1. EmailShape(e)' /\ ThreadShape(e)' /\ Referred(e)' /\ Conversation(e)'
    BY <1>1, <1>4, <1>7, <1>11, <2>0 DEF EmailInv, EmailShape, Conversation
  <2>2. CommittedIsStored(e)'
    <3>1. tx[e].pc = "committed" => tx[e].inbox \in Inboxes
      BY <2>0 DEF EmailInv, ThreadShape
    <3> QED
      BY <1>1, <1>3, <1>4, <2>0, <3>1 DEF EmailInv, CommittedIsStored
  <2>3. \A j : Served(e, j)' <=> Served(e, j)
    BY <1>1, <1>4 DEF Served
  <2>4. due'[e] \subseteq due[e] \ {i} /\ due[e] \subseteq Inboxes
    BY <1>0, <1>1 DEF TypeOK
  <2>5. ServedSoFar(e)'
    BY <1>1, <1>3, <2>0, <2>3, <2>4 DEF EmailInv, ServedSoFar
  <2> QED
    BY <2>1, <2>2, <2>5 DEF EmailInv
<1> QED
  BY <1>2, <1>10, <1>12, <1>13 DEF IInv

\* The size of a set and of another one that is named one to one, outside of the first.
LEMMA CountPairs ==
  ASSUME NEW I, NEW L, NEW f, DOMAIN f = L, f \in [L -> {f[x] : x \in L}],
         \A x \in L, y \in L : f[x] = f[y] => x = y,
         \A x \in L : f[x] \notin I
  PROVE  LET A == I \cup {f[x] : x \in L} IN
         /\ IsFiniteSet(A) <=> IsFiniteSet(I) /\ IsFiniteSet(L)
         /\ IsFiniteSet(A) => Cardinality(A) = Cardinality(I) + Cardinality(L)
<1> DEFINE R == {f[x] : x \in L}
           A == I \cup R
<1>1. f \in Bijection(L, R) /\ f \in Injection(L, R)
  BY DEF Bijection, Injection, Surjection, IsInjective
<1>2. IsFiniteSet(L) => IsFiniteSet(R) /\ Cardinality(R) = Cardinality(L)
  BY <1>1, FS_Bijection DEF ExistsBijection
<1>3. IsFiniteSet(R) => IsFiniteSet(L)
  BY <1>1, FS_Injection
<1>4. IsFiniteSet(A) => IsFiniteSet(I) /\ IsFiniteSet(R)
  <2>1. I \in SUBSET A /\ R \in SUBSET A
    OBVIOUS
  <2> QED
    BY <2>1, FS_Subset
<1>5. IsFiniteSet(I) /\ IsFiniteSet(R) =>
         IsFiniteSet(A) /\ Cardinality(A) = Cardinality(I) + Cardinality(R)
  <2>1. I \cap R = {}
    OBVIOUS
  <2>2. Cardinality({}) = 0
    BY FS_EmptySet
  <2> SUFFICES ASSUME IsFiniteSet(I), IsFiniteSet(R)
               PROVE  IsFiniteSet(A) /\ Cardinality(A) = Cardinality(I) + Cardinality(R)
    OBVIOUS
  <2>3. IsFiniteSet(A) /\ Cardinality(A) = Cardinality(I) + Cardinality(R) - Cardinality(I \cap R)
    BY FS_Union
  <2>4. Cardinality(I) \in Nat /\ Cardinality(R) \in Nat
    BY FS_CardinalityType
  <2>5. Cardinality(I \cap R) = 0
    BY <2>1, <2>2
  <2> HIDE DEF A, R
  <2> QED
    BY <2>3, <2>4, <2>5
<1> QED
  BY <1>2, <1>3, <1>4, <1>5

\* The deletion of an inbox keeps the invariant: the cascade takes a thread with all of its
\* messages, and out of the other threads only replies that Send had filed elsewhere.
LEMMA DeleteStep == \A i \in Inboxes : IInv /\ DeleteInbox(i) => IInv'
<1> SUFFICES ASSUME NEW i \in Inboxes, IInv, DeleteInbox(i) PROVE IInv'
  OBVIOUS
<1>0. TypeOK /\ RowInv
  BY DEF IInv
<1>1. /\ UNCHANGED <<queue, receives, tx, lost, announced>>
      /\ inbox' = [inbox EXCEPT ![i] = "deleted"]
      /\ due' = [e \in Emails |-> due[e] \ {i}]
      /\ \A a \in Mails : tx[a].pc \in {"inserted", "counted"} => tx[a].inbox # i /\ home[tx[a].thread] # i
  BY DEF DeleteInbox
<1>2. /\ home \in [Ids -> Inboxes \cup {None}] /\ count \in [Ids -> Nat]
      /\ place \in [Ids -> Places \cup {None}] /\ None \notin Inboxes /\ None \notin Places
      /\ \A m \in Stored : m \in Ids /\ place[m].inbox \in Inboxes /\ place[m].thread \in Ids
      /\ inbox \in [Inboxes -> {"active", "suspended", "deleted"}]
  BY <1>0, TypeFacts, PlaceFacts
<1> DEFINE Gone(m) == m \in Stored /\ i \in {place[m].inbox, home[place[m].thread]}
<1>3. /\ home' \in [Ids -> Inboxes \cup {None}] /\ count' \in [Ids -> Nat]
      /\ place' \in [Ids -> Places \cup {None}]
      /\ \A u \in Ids : home'[u] = (IF home[u] = i THEN None ELSE home[u])
      /\ \A u \in Ids : count'[u] = (IF home[u] = i THEN 0 ELSE count[u])
      /\ \A m \in Ids : place'[m] = (IF Gone(m) THEN None ELSE place[m])
  BY <1>2 DEF DeleteInbox
<1>4. TypeOK'
  BY <1>0, <1>1, <1>3 DEF TypeOK
<1>5. \A m : m \in Stored' <=> m \in Stored /\ ~ Gone(m)
  BY <1>3 DEF Stored
<1>6. \A m \in Stored' : m \in Stored /\ ~ Gone(m) /\ place'[m] = place[m] /\ m \in Ids
  BY <1>2, <1>3, <1>5
<1>7. /\ \A j \in Inboxes \ {i} : inbox'[j] = inbox[j] /\ (Exists(j)' <=> Exists(j))
      /\ ~ Exists(i)'
  BY <1>1, <1>2 DEF Exists
<1>8. /\ \A a : Id(a)' = Id(a) /\ (IsNew(a)' <=> IsNew(a))
      /\ \A m : Past(m)' <=> Past(m)
  BY <1>1 DEF Id, IsNew, Past
<1>9. /\ \A m \in Stored : MessageInv(m) /\ Past(m) /\ home[place[m].thread] # None
      /\ \A m \in Stored : Mail(m) \in Emails => home[place[m].thread] = place[m].inbox
      /\ \A m \in Stored : Mail(m) \in Sends => /\ m = Id(Mail(m)) /\ tx[Mail(m)].pc = "done"
                                                /\ tx[Mail(m)].thread = place[m].thread
  <2>1. \A m \in Stored : MessageInv(m) /\ Past(m)
    BY <1>0 DEF RowInv, MessageInv
  <2>2. \A m \in Stored : /\ Mail(m) \in Emails => home[place[m].thread] = place[m].inbox
                          /\ home[place[m].thread] # None
    BY <1>0, <1>2 DEF RowInv, ThreadInInbox
  <2>3. \A m \in Stored : Mail(m) \in Sends => tx[Mail(m)].pc = "done"
    BY <1>2, <2>1, IdFacts DEF Past
  <2> QED
    BY <2>1, <2>2, <2>3 DEF MessageInv
<1> HIDE DEF Gone
<1>10. \A m \in Stored : Gone(m) <=> i = place[m].inbox \/ i = home[place[m].thread]
  BY DEF Gone
<1>11. ASSUME NEW u \in Ids, home[u] # i
       PROVE  /\ In(u)' \subseteq In(u)
              /\ \A m \in In(u) \ In(u)' : Mail(m) \in Sends /\ m = Id(Mail(m)) /\ Mail(m) \in Left(u)'
              /\ Left(u) \subseteq Left(u)'
              /\ \A s \in Left(u)' \ Left(u) : Id(s) \in In(u) \ In(u)'
              /\ \A s \in Left(u) : Id(s) \notin In(u)
              /\ \A s \in Left(u)' : Id(s) \notin In(u)'
  <2>1. In(u)' \subseteq In(u)
    BY <1>6 DEF In
  <2>2. ASSUME NEW m \in In(u) \ In(u)'
        PROVE  Mail(m) \in Sends /\ m = Id(Mail(m)) /\ Mail(m) \in Left(u)'
    <3>1. m \in Stored /\ place[m].thread = u
      BY <2>2 DEF In
    <3>2. m \notin Stored'
      BY <1>6, <2>2, <3>1 DEF In
    <3>3. Gone(m)
      BY <1>5, <3>1, <3>2
    <3>4. place[m].inbox = i
      BY <1>10, <1>11, <3>1, <3>3
    <3>5. Mail(m) \notin Emails /\ Mail(m) \in Mails
      BY <1>2, <1>9, <1>11, <3>1, <3>4, IdFacts
    <3>6. Mail(m) \in Sends
      BY <3>5, IdFacts
    <3>7. m = Id(Mail(m)) /\ tx[Mail(m)].pc = "done" /\ tx[Mail(m)].thread = u
      BY <1>9, <3>1, <3>6
    <3>8. home'[u] # None
      BY <1>3, <1>9, <1>11, <3>1
    <3> QED
      BY <1>1, <1>8, <3>2, <3>6, <3>7, <3>8 DEF Left, Mail
  <2>3. Left(u) \subseteq Left(u)'
    BY <1>1, <1>3, <1>5, <1>8, <1>11 DEF Left
  <2>4. ASSUME NEW s \in Left(u)' \ Left(u) PROVE Id(s) \in In(u) \ In(u)'
    <3>1. /\ s \in Sends /\ tx[s].pc = "done" /\ tx[s].thread = u /\ home'[u] # None
          /\ Id(s) \notin Stored'
      BY <1>1, <1>8, <2>4 DEF Left
    <3>2. home[u] # None
      BY <1>3, <3>1
    <3>3. Id(s) \in Stored
      BY <2>4, <3>1, <3>2 DEF Left
    <3>4. Mail(Id(s)) = s
      BY DEF Id, Mail
    <3>5. place[Id(s)].thread = u
      BY <1>9, <3>1, <3>3, <3>4
    <3> QED
      BY <3>1, <3>3, <3>5 DEF In
  <2>5. \A s \in Left(u) : Id(s) \notin In(u)
    BY DEF Left, In
  <2>6. \A s \in Left(u)' : Id(s) \notin In(u)'
    BY <1>8 DEF Left, In
  <2> QED
    BY <2>1, <2>2, <2>3, <2>4, <2>5, <2>6
<1>12. ASSUME NEW u \in Ids, home[u] = i PROVE In(u)' = {} /\ Left(u)' = {}
  <2>1. \A m \in Stored' : place'[m].thread # u
    BY <1>6, <1>10, <1>12
  <2> QED
    BY <1>3, <1>12, <2>1 DEF In, Left
<1>13. ASSUME NEW u \in Ids PROVE CountInv(u)'
  <2>1. CASE home[u] = i
    BY <1>3, <1>12, <2>1, FS_EmptySet DEF CountInv
  <2>2. CASE home[u] # i
    <3> DEFINE I == In(u)  L == Left(u)  J == In(u)'  K == Left(u)'
               f == [x \in L |-> Id(x)]
               g == [x \in K |-> Id(x)]
               A == I \cup {f[x] : x \in L}
    <3>1. IsFiniteSet(I) /\ IsFiniteSet(L) /\ count[u] = Cardinality(I) + Cardinality(L)
      BY <1>0 DEF RowInv, CountInv
    <3>2. \A x, y : Id(x) = Id(y) => x = y
      BY DEF Id
    <3>3. /\ J \subseteq I /\ L \subseteq K
          /\ \A m \in I \ J : m = Id(Mail(m)) /\ Mail(m) \in K
          /\ \A x \in K \ L : Id(x) \in I \ J
          /\ (\A x \in L : Id(x) \notin I) /\ (\A x \in K : Id(x) \notin J)
      BY <1>11, <2>2
    <3> HIDE DEF I, L, J, K
    <3>4. IsFiniteSet(A) /\ Cardinality(A) = count[u]
      <4>1. /\ DOMAIN f = L /\ f \in [L -> {f[x] : x \in L}]
            /\ \A x \in L, y \in L : f[x] = f[y] => x = y
            /\ \A x \in L : f[x] \notin I
        BY <3>2, <3>3
      <4> HIDE DEF f
      <4> QED
        BY <3>1, <4>1, CountPairs
    <3>5. A = J \cup {g[x] : x \in K}
      BY <3>3
    <3>6. IsFiniteSet(J) /\ IsFiniteSet(K) /\ Cardinality(A) = Cardinality(J) + Cardinality(K)
      <4>1. /\ DOMAIN g = K /\ g \in [K -> {g[x] : x \in K}]
            /\ \A x \in K, y \in K : g[x] = g[y] => x = y
            /\ \A x \in K : g[x] \notin J
        BY <3>2, <3>3
      <4> HIDE DEF g, A
      <4> QED
        BY <3>4, <3>5, <4>1, CountPairs
    <3>7. count'[u] = count[u]
      BY <1>3, <2>2
    <3> QED
      BY <3>4, <3>6, <3>7 DEF CountInv, J, K
  <2> QED
    BY <2>1, <2>2
<1>14. \A u \in Ids, e \in Emails : home'[u] # None /\ Answers(u, e) => Answers(u, e)'
  <2> SUFFICES ASSUME NEW u \in Ids, NEW e \in Emails, home'[u] # None, Answers(u, e)
               PROVE  Answers(u, e)'
    OBVIOUS
  <2>1. home[u] # i
    BY <1>3
  <2>2. CASE Names(u, e)
    <3>1. PICK m \in In(u) : Mail(m) \in Refs[e]
      BY <2>2 DEF Names
    <3>2. CASE m \in In(u)'
      BY <3>1, <3>2 DEF Answers, Names, Mail
    <3>3. CASE m \notin In(u)'
      BY <1>11, <2>1, <3>1, <3>3 DEF Answers
    <3> QED
      BY <3>2, <3>3
  <2>3. CASE Left(u) \cap Refs[e] # {}
    BY <1>11, <2>1, <2>3 DEF Answers
  <2> QED
    BY <2>2, <2>3 DEF Answers
<1>15. \A m \in Stored' : MessageInv(m)'
  <2> SUFFICES ASSUME NEW m \in Stored' PROVE MessageInv(m)'
    OBVIOUS
  <2>1. MessageInv(m) /\ place'[m] = place[m]
    BY <1>6, <1>9
  <2> QED
    BY <1>1, <1>8, <2>1 DEF MessageInv, Mail
<1>16. /\ \A u \in Ids : home'[u] # None => Past(u)'
       /\ \A m \in announced' : AnnouncedInv(m)' /\ AnnouncedInv(m) /\ m \in announced
  BY <1>0, <1>1, <1>3, <1>8 DEF RowInv, AnnouncedInv
<1>17. \A m \in Stored' : home'[place'[m].thread] = home[place[m].thread]
  BY <1>2, <1>3, <1>6, <1>10
<1>18. ThreadInInbox'
  <2>1. \A m \in Stored' : /\ Mail(m) \in Emails => home'[place'[m].thread] = place'[m].inbox
                           /\ home'[place'[m].thread] # None
    BY <1>6, <1>9, <1>17
  <2> QED
    BY <2>1 DEF ThreadInInbox, Mail
<1>19. ThreadIsConversation'
  <2>1. \A m \in Stored' : place'[m].thread \in Ids
    BY <1>2, <1>6
  <2>2. ASSUME NEW m \in Stored', NEW u \in Ids, u = place'[m].thread, Mail(m) \in Emails, u # m
        PROVE  Answers(u, Mail(m))'
    <3>1. m \in Stored /\ u = place[m].thread /\ home'[u] # None
      BY <1>6, <1>9, <1>17, <2>2
    <3>2. Answers(u, Mail(m))
      BY <1>0, <2>2, <3>1 DEF RowInv, ThreadIsConversation, Answers
    <3> QED
      BY <1>14, <2>2, <3>1, <3>2 DEF Mail
  <2> QED
    BY <2>1, <2>2, ConversationIf
<1>20. AnnouncedIsStored'
  <2> SUFFICES ASSUME NEW m \in announced', m \notin Stored'
               PROVE  ~ Exists(Rcpts[Mail(m)][m[3]])'
    BY DEF AnnouncedIsStored, Mail
  <2>1. /\ Mail(m) \in Emails /\ Rcpts[Mail(m)][m[3]] \in Inboxes
        /\ m \in Stored \/ ~ Exists(Rcpts[Mail(m)][m[3]])
    BY <1>0, <1>16, RcptFacts DEF AnnouncedInv, RowInv, AnnouncedIsStored
  <2>2. PICK j \in Inboxes : j = Rcpts[Mail(m)][m[3]]
    BY <2>1
  <2>3. CASE m \in Stored
    <3>1. Gone(m)
      BY <1>5, <2>3
    <3>2. place[m].inbox = j
      BY <1>9, <2>1, <2>2, <2>3 DEF MessageInv
    <3>3. i = j
      BY <1>9, <1>10, <2>1, <2>3, <3>1, <3>2
    <3> QED
      BY <1>7, <2>2, <3>3 DEF Mail, Exists
  <2>4. CASE ~ Exists(j)
    BY <1>7, <2>2, <2>4 DEF Mail, Exists
  <2> QED
    BY <2>1, <2>2, <2>3, <2>4
<1>21. RowInv'
  BY <1>13, <1>15, <1>16, <1>18, <1>19, <1>20 DEF RowInv
<1>22. ASSUME NEW a \in Mails, ThreadShape(a), Referred(a) PROVE ThreadShape(a)' /\ Referred(a)'
  <2>1. ThreadShape(a)'
    BY <1>1, <1>8, <1>22 DEF ThreadShape
  <2>2. tx[a].pc \in {"threaded", "inserted", "counted"} => tx[a].inbox \in Inboxes /\ tx[a].thread \in Ids
    BY <1>22 DEF ThreadShape
  <2>3. ASSUME tx[a].pc \in {"inserted", "counted"}
        PROVE  /\ Exists(tx[a].inbox) => Exists(tx[a].inbox)'
               /\ home'[tx[a].thread] = home[tx[a].thread]
    <3>1. tx[a].inbox \in Inboxes \ {i} /\ home[tx[a].thread] # i /\ tx[a].thread \in Ids
      BY <1>1, <2>2, <2>3
    <3> QED
      BY <1>1, <1>3, <1>7, <3>1 DEF Exists
  <2>4. tx[a].pc = "threaded" => home'[tx[a].thread] \in {home[tx[a].thread], None}
    BY <1>3, <2>2
  <2>5. Referred(a)'
    BY <1>1, <1>8, <1>22, <2>3, <2>4 DEF Referred, Exists
  <2> QED
    BY <2>1, <2>5
<1>23. \A s \in Sends : SendInv(s)'
  BY <1>1, <1>22 DEF IInv, SendInv, SendShape, Mails
<1>24. ASSUME NEW e \in Emails PROVE EmailInv(e)'
  <2>0. EmailInv(e) /\ e \in Mails
    BY DEF IInv, Mails
  <2>1. EmailShape(e)' /\ ThreadShape(e)' /\ Referred(e)'
    BY <1>1, <1>22, <2>0 DEF EmailInv, EmailShape
  <2>2. Conversation(e)'
    <3>1. tx[e].pc \in {"threaded", "inserted", "counted"} => tx[e].thread \in Ids
      BY <2>0 DEF EmailInv, ThreadShape
    <3>2. \A u \in Ids : home'[u] # None => home[u] # None
      BY <1>3
    <3> QED
      BY <1>1, <1>8, <1>14, <2>0, <3>1, <3>2 DEF EmailInv, Conversation
  <2>3. CommittedIsStored(e)'
    <3> SUFFICES ASSUME tx[e].pc = "committed", Id(e) \notin Stored' \/ place'[Id(e)].inbox # tx[e].inbox
                 PROVE  ~ Exists(tx[e].inbox)'
      BY <1>1, <1>8 DEF CommittedIsStored, Exists
    <3>1. tx[e].inbox \in Inboxes
      BY <2>0 DEF EmailInv, ThreadShape
    <3>2. CASE ~ Exists(tx[e].inbox)
      BY <1>1, <1>7, <3>1, <3>2 DEF Exists
    <3>3. CASE Id(e) \in Stored /\ place[Id(e)].inbox = tx[e].inbox
      <4>1. Gone(Id(e))
        BY <1>5, <1>6, <3>3
      <4>2. Mail(Id(e)) = e
        BY DEF Id, Mail
      <4>3. i = tx[e].inbox
        BY <1>9, <1>10, <3>3, <4>1, <4>2
      <4> QED
        BY <1>1, <1>7, <4>3 DEF Exists
    <3> QED
      BY <2>0, <3>2, <3>3 DEF EmailInv, CommittedIsStored
  <2>4. ASSUME NEW j, j # i, Served(e, j) PROVE Served(e, j)'
    <3>1. CASE \E c \in Causes : <<e, c>> \in lost
      BY <1>1, <3>1 DEF Served
    <3>2. CASE \E m \in Stored : Mail(m) = e /\ place[m].inbox = j
      <4>1. PICK m \in Stored : Mail(m) = e /\ place[m].inbox = j
        BY <3>2
      <4>2. ~ Gone(m)
        BY <1>9, <1>10, <2>4, <4>1
      <4>3. m \in Stored' /\ place'[m] = place[m]
        BY <1>5, <1>6, <4>2
      <4> QED
        BY <4>1, <4>3 DEF Served, Mail
    <3> QED
      BY <2>4, <3>1, <3>2 DEF Served
  <2>5. due'[e] \subseteq due[e] \ {i} /\ due[e] \subseteq Inboxes
    BY <1>0, <1>1 DEF TypeOK
  <2>6. ServedSoFar(e)'
    BY <1>1, <1>7, <2>0, <2>4, <2>5 DEF EmailInv, ServedSoFar
  <2> QED
    BY <2>1, <2>2, <2>3, <2>6 DEF EmailInv
<1> QED
  BY <1>4, <1>21, <1>23, <1>24 DEF IInv

-----------------------------------------------------------------------------
\* At the start every inbox is active and empty, and no email has arrived.
LEMMA InitIInv == Init => IInv
<1> SUFFICES ASSUME Init PROVE IInv
  OBVIOUS
<1> USE DEF Init
<1>0. MaxReceive \in Nat \ {0} /\ (\A a \in Mails : a \in Sends <=> a \notin Emails) /\ None \notin Places
  BY IdFacts, PlaceFacts
<1>1. TypeOK
  <2>1. tx \in [Mails -> Txs]
    BY DEF Txs, Pcs, Idle
  <2>2. receives \in [Mails -> 0 .. MaxReceive]
    BY <1>0
  <2> QED
    BY <2>1, <2>2 DEF TypeOK, Txs
<1>2. Stored = {} /\ \A t : In(t) = {}
  BY DEF Stored, In
<1>3. \A a \in Mails : /\ tx[a].pc = "idle" /\ tx[a].k = 1 /\ tx[a].thread = None
                       /\ a \in Sends => receives[a] = 1
  BY DEF Idle
<1>4. \A t : Left(t) = {}
  BY <1>3 DEF Left, Mails
<1>5. RowInv
  <2>1. \A t \in Ids : CountInv(t)
    BY <1>2, <1>4, FS_EmptySet DEF CountInv
  <2>2. ThreadInInbox /\ ThreadIsConversation /\ AnnouncedIsStored
    BY <1>2 DEF ThreadInInbox, ThreadIsConversation, AnnouncedIsStored
  <2> QED
    BY <1>2, <2>1, <2>2 DEF RowInv
<1>6. \A e \in Emails : EmailInv(e)
  <2> SUFFICES ASSUME NEW e \in Emails PROVE EmailInv(e)
    OBVIOUS
  <2>1. tx[e].pc = "idle" /\ tx[e].k = 1 /\ tx[e].thread = None
    BY <1>3 DEF Mails
  <2>2. EmailShape(e) /\ ThreadShape(e) /\ Referred(e)
    BY <2>1 DEF EmailShape, ThreadShape, Referred, Working
  <2>3. Conversation(e) /\ CommittedIsStored(e) /\ ServedSoFar(e)
    BY <2>1 DEF Conversation, CommittedIsStored, ServedSoFar
  <2> QED
    BY <2>2, <2>3 DEF EmailInv
<1>7. \A s \in Sends : SendInv(s)
  BY <1>3 DEF SendInv, SendShape, ThreadShape, Referred, Mails
<1> QED
  BY <1>1, <1>5, <1>6, <1>7 DEF IInv

\* A step that changes nothing keeps the invariant.
LEMMA StutterStep == IInv /\ UNCHANGED vars => IInv'
<1> SUFFICES ASSUME IInv, UNCHANGED vars PROVE IInv'
  OBVIOUS
<1>1. /\ inbox' = inbox /\ place' = place /\ home' = home /\ count' = count /\ queue' = queue
      /\ receives' = receives /\ tx' = tx /\ lost' = lost /\ announced' = announced /\ due' = due
  BY DEF vars
<1>2. TypeOK'
  BY <1>1 DEF IInv, TypeOK
<1>3. /\ Stored' = Stored /\ (\A t : In(t)' = In(t) /\ Left(t)' = Left(t))
      /\ (\A a : Id(a)' = Id(a) /\ (IsNew(a)' <=> IsNew(a)))
      /\ (\A m : Past(m)' <=> Past(m)) /\ (\A i : Exists(i)' <=> Exists(i))
  BY <1>1 DEF Stored, In, Left, Id, IsNew, Past, Exists
<1>4. \A t, e : (Answers(t, e)' <=> Answers(t, e)) /\ (Served(e, t)' <=> Served(e, t))
  BY <1>1, <1>3 DEF Answers, Names, Served
<1>5. RowInv'
  <2>1. RowInv
    BY DEF IInv
  <2>2. ThreadIsConversation' /\ ThreadInInbox' /\ AnnouncedIsStored'
    BY <1>1, <1>3, <1>4, <2>1 DEF RowInv, ThreadIsConversation, Answers, ThreadInInbox, AnnouncedIsStored
  <2> QED
    BY <1>1, <1>3, <2>1, <2>2 DEF RowInv, MessageInv, AnnouncedInv, CountInv
<1>6. \A a \in Mails : ThreadShape(a)' <=> ThreadShape(a)
  BY <1>1, <1>3 DEF ThreadShape
<1>7. \A a \in Mails : Referred(a)' <=> Referred(a)
  BY <1>1, <1>3 DEF Referred
<1>8. \A s \in Sends : SendInv(s)'
  BY <1>1, <1>6, <1>7 DEF IInv, SendInv, SendShape, Mails
<1>9. ASSUME NEW e \in Emails PROVE EmailInv(e)'
  <2>1. EmailInv(e) /\ e \in Mails
    BY DEF IInv, Mails
  <2>2. EmailShape(e)' /\ Conversation(e)' /\ CommittedIsStored(e)'
    BY <1>1, <1>3, <1>4, <2>1 DEF EmailInv, EmailShape, Conversation, CommittedIsStored
  <2>3. ServedSoFar(e)'
    BY <1>1, <1>4, <2>1 DEF EmailInv, ServedSoFar
  <2> QED
    BY <1>6, <1>7, <2>1, <2>2, <2>3 DEF EmailInv
<1> QED
  BY <1>2, <1>5, <1>8, <1>9 DEF IInv

\* Every step of the system keeps the invariant.
LEMMA StepIInv == IInv /\ [Next]_vars => IInv'
<1> SUFFICES ASSUME IInv, Next PROVE IInv'
  BY StutterStep
<1>1. ASSUME NEW e \in Emails,
             \/ Arrive(e) \/ Receive(e) \/ Expire(e) \/ ProcessS3Object(e) \/ Faults(e)
      PROVE  IInv'
  <2>1. e \in Mails
    BY DEF Mails
  <2> QED
    BY <1>1, <2>1, QueueStep, ProcessStep, FindStep, TransactionStep DEF ProcessS3Object, Faults
<1>2. ASSUME NEW a \in Mails, Transaction(a) \/ StatementFails(a) PROVE IInv'
  BY <1>2, TransactionStep, CommitStep DEF Transaction
<1> QED
  BY <1>1, <1>2, SendStep, UpdateStep, DeleteStep DEF Next

\* The inductive invariant, for any inboxes, emails, recipients, references and Send calls.
THEOREM InboundInvariant == Spec => []IInv
  BY InitIInv, StepIInv, PTL DEF Spec

\* No email is ever filed into a thread of another inbox, and every message has a thread:
\* FindThreadByMessageIDs looks in the inbox only, and the foreign keys hold what it found.
THEOREM InboundThreadInInbox == Spec => []ThreadInInbox
<1>1. IInv => ThreadInInbox
  BY DEF IInv, RowInv
<1> QED
  BY <1>1, InboundInvariant, PTL

\* The counter that IncrThreadMessageCount increments inside of each transaction covers the
\* messages of the thread, and replies from inboxes that were deleted at most.
THEOREM InboundCountHasNoDrift == Spec => []CountHasNoDrift
<1>1. ASSUME IInv, NEW t \in Ids
      PROVE  LET stored == Cardinality(In(t)) IN
                count[t] \in stored .. stored + Cardinality(Left(t))
  <2>1. IsFiniteSet(In(t)) /\ IsFiniteSet(Left(t))
    BY <1>1 DEF IInv, RowInv, CountInv
  <2>2. Cardinality(In(t)) \in Nat /\ Cardinality(Left(t)) \in Nat
    BY <2>1, FS_CardinalityType
  <2>3. count[t] = Cardinality(In(t)) + Cardinality(Left(t))
    BY <1>1 DEF IInv, RowInv, CountInv
  <2> QED
    BY <2>2, <2>3
<1>2. IInv => CountHasNoDrift
  BY <1>1 DEF CountHasNoDrift
<1> QED
  BY <1>2, InboundInvariant, PTL

\* An email only joins a thread for a message it names: the thread found before the insert is
\* still that conversation when the transaction commits.
THEOREM InboundThreadIsConversation == Spec => []ThreadIsConversation
<1>1. IInv => ThreadIsConversation
  BY DEF IInv, RowInv
<1> QED
  BY <1>1, InboundInvariant, PTL

\* processS3Object is done with an email only when every recipient whose inbox stayed active has
\* it or an error was logged.
THEOREM InboundAckedIsServed == Spec => []AckedIsServed
<1>1. IInv => AckedIsServed
  BY DEF IInv, EmailInv, ServedSoFar, Served, AckedIsServed
<1> QED
  BY <1>1, InboundInvariant, PTL

\* message.received is only ever published for a message that was committed, and that is there
\* until its inbox is deleted.
THEOREM InboundAnnouncedIsStored == Spec => []AnnouncedIsStored
<1>1. IInv => AnnouncedIsStored
  BY DEF IInv, RowInv
<1> QED
  BY <1>1, InboundInvariant, PTL
=============================================================================
