------------------------- MODULE EventFanoutProofs -------------------------
(***************************************************************************)
(* Proofs about the way of an event, for any events, clients and number of *)
(* receives: whoever stays in the table of connections is posted to before *)
(* the dispatcher's record is deleted, and a connected client is in the    *)
(* table unless a post to it has failed.                                   *)
(***************************************************************************)
EXTENDS EventFanout, SequenceTheorems, TLAPS

\* TypeOK, with the domains of the two variables it describes event by event.
TypeInv ==
    /\ TypeOK
    /\ pub \in [Events -> Seq(Queues \cup {"not started"})]
    /\ todo \in [Events -> (SUBSET Clients) \cup {Reading}]

\* No queue has an event that is not published.
NotPublished == \A e \in Events : pub[e] = NotStarted =>
    \A q \in Queues : queue[q][e] = "absent"

\* A client loses eligibility no later than its row.
EligibleIsListed == \A e \in Events : eligible[e] \subseteq Listed(e)

\* The dispatcher has posted, or is about to post, to every eligible client.
DispatchCovers == \A e \in Events :
    queue["ws_dispatch"][e] = "inflight" /\ todo[e] # Reading =>
        eligible[e] \subseteq tried[e] \cup todo[e]

\* The row is there before the connection, and stays as long.
ConnectedIsListed == \A c \in Clients :
    link[c] \in {"connecting", "open"} => row[c] = "live" \/ c \in hit

IInv == TypeInv /\ NotPublished /\ EligibleIsListed /\ DispatchCovers /\ AckedIsPosted
        /\ ConnectedIsListed

\* The queues of an event are two or three of the known ones.
LEMMA QueuesOfType == \A e \in Events :
    QueuesOf(e) \in Seq(Queues) /\ Len(QueuesOf(e)) \in Nat
<1> SUFFICES ASSUME NEW e \in Events
             PROVE  QueuesOf(e) \in Seq(Queues) /\ Len(QueuesOf(e)) \in Nat
  OBVIOUS
<1>1. <<"webhook_delivery", "ws_dispatch">> \in Seq(Queues)
  BY DEF Queues
<1>2. <<"embedder">> \in Seq(Queues) /\ <<>> \in Seq(Queues)
  BY DEF Queues
<1>3. QueuesOf(e) \in Seq(Queues)
  BY <1>1, <1>2, ConcatProperties DEF QueuesOf
<1> QED
  BY <1>3, LenProperties

\* The mark of an event that is not published is no list of queues.
LEMMA NotStartedIsNoRest ==
  NotStarted \notin Seq(Queues) /\ NotStarted \in Seq(Queues \cup {"not started"})
<1>1. 1 \in 1 .. Len(<<"not started">>) /\ <<"not started">>[1] = "not started"
  OBVIOUS
<1>2. <<"not started">> \in Seq(Queues) => <<"not started">>[1] \in Queues
  BY <1>1, ElementOfSeq
<1>3. "not started" \notin Queues
  BY DEF Queues
<1>4. <<"not started">> \in Seq({"not started"})
  OBVIOUS
<1>5. <<"not started">> \in Seq(Queues \cup {"not started"})
  BY <1>4, SeqMonotonic
<1> QED
  BY <1>1, <1>2, <1>3, <1>5 DEF NotStarted

\* What a publisher has still to send to.
Rest(e) == {SubSeq(QueuesOf(e), n + 1, Len(QueuesOf(e))) : n \in 0 .. Len(QueuesOf(e))}

\* The rest of the queues is not mistaken for an event that is not published, and
\* its tail is again such a rest.
LEMMA RestProperties ==
  ASSUME NEW e \in Events, NEW s \in Rest(e)
  PROVE  /\ s \in Seq(Queues) /\ s # NotStarted
         /\ s # <<>> => Head(s) \in Queues /\ Tail(s) \in Rest(e)
<1>1. PICK n \in 0 .. Len(QueuesOf(e)) : s = SubSeq(QueuesOf(e), n + 1, Len(QueuesOf(e)))
  BY DEF Rest
<1>2. QueuesOf(e) \in Seq(Queues) /\ Len(QueuesOf(e)) \in Nat
  BY QueuesOfType
<1>3. s \in Seq(Queues) /\ Len(s) = Len(QueuesOf(e)) - n
  <2>1. \A i \in n + 1 .. Len(QueuesOf(e)) : QueuesOf(e)[i] \in Queues
    BY <1>2, ElementOfSeq
  <2> QED
    BY <1>1, <1>2, <2>1, SubSeqProperties
<1>4. s # NotStarted
  BY <1>3, NotStartedIsNoRest
<1>5. ASSUME s # <<>> PROVE Head(s) \in Queues /\ Tail(s) \in Rest(e)
  <2>1. Head(s) \in Queues
    BY <1>3, <1>5, HeadTailProperties
  <2>2. n < Len(QueuesOf(e))
    BY <1>2, <1>3, <1>5, EmptySeq
  <2>3. Tail(s) = SubSeq(QueuesOf(e), (n + 1) + 1, Len(QueuesOf(e)))
    BY <1>1, <1>2, <2>2, HeadTailOfSubSeq
  <2>4. n + 1 \in 0 .. Len(QueuesOf(e))
    BY <1>2, <2>2
  <2>5. Tail(s) \in Rest(e)
    BY <2>3, <2>4 DEF Rest
  <2> QED
    BY <2>1, <2>5
<1> QED
  BY <1>3, <1>4, <1>5

\* All of the queues and none of them are such rests.
LEMMA RestEnds == \A e \in Events : QueuesOf(e) \in Rest(e) /\ <<>> \in Rest(e)
<1> SUFFICES ASSUME NEW e \in Events PROVE QueuesOf(e) \in Rest(e) /\ <<>> \in Rest(e)
  OBVIOUS
<1> DEFINE l == Len(QueuesOf(e))
<1>1. QueuesOf(e) \in Seq(Queues) /\ l \in Nat
  BY QueuesOfType
<1>2. SubSeq(QueuesOf(e), 0 + 1, l) = QueuesOf(e)
  BY <1>1, SubSeqFull
<1>3. SubSeq(QueuesOf(e), l + 1, l) = <<>>
  BY <1>1, SubSeqEmpty
<1> QED
  BY <1>1, <1>2, <1>3 DEF Rest

\* In the initial state there is no connection and no event.
LEMMA InitIInv == Init => IInv
<1> SUFFICES ASSUME Init PROVE IInv
  OBVIOUS
<1> USE DEF Init
<1>1. TypeOK
  BY FanoutAssumption DEF TypeOK
<1>2. pub \in [Events -> Seq(Queues \cup {"not started"})]
  BY NotStartedIsNoRest
<1>3. TypeInv
  BY <1>1, <1>2 DEF TypeInv
<1>4. NotPublished /\ EligibleIsListed /\ DispatchCovers /\ AckedIsPosted /\ ConnectedIsListed
  BY DEF NotPublished, EligibleIsListed, DispatchCovers, AckedIsPosted, ConnectedIsListed, Queues
<1> QED
  BY <1>3, <1>4 DEF IInv

\* The part of the types that steps outside of PublishEvent leave alone.
LEMMA PubType ==
  ASSUME TypeInv, NEW e \in Events, NEW s \in Rest(e), pub' = [pub EXCEPT ![e] = s]
  PROVE  /\ pub' \in [Events -> Seq(Queues \cup {"not started"})]
         /\ \A f \in Events : pub'[f] = NotStarted \/ pub'[f] \in Rest(f)
         /\ \A f \in Events : pub'[f] = NotStarted => pub[f] = NotStarted
<1>1. s \in Seq(Queues) /\ s # NotStarted
  BY RestProperties
<1>2. s \in Seq(Queues \cup {"not started"})
  BY <1>1, SeqMonotonic
<1>3. \A f \in Events : pub[f] = NotStarted \/ pub[f] \in Rest(f)
  BY DEF TypeInv, TypeOK, Rest
<1> QED
  BY <1>1, <1>2, <1>3 DEF TypeInv

\* A step of a publisher keeps the types: it has fewer queues left.
LEMMA PublisherStep ==
  ASSUME IInv, NEW e \in Events, NEW s \in Rest(e), pub' = [pub EXCEPT ![e] = s],
         unsent' \in [Events -> SUBSET Queues],
         queue' \in [Queues -> [Events -> {"absent", "visible", "inflight", "deleted", "lost"}]],
         UNCHANGED <<link, row, receives, todo, tried, hit, embedded>>,
         eligible' \in [Events -> SUBSET Clients]
  PROVE  TypeInv'
<1>1. /\ pub' \in [Events -> Seq(Queues \cup {"not started"})]
      /\ \A f \in Events : pub'[f] = NotStarted \/ pub'[f] \in Rest(f)
  BY PubType DEF IInv
<1>2. TypeOK'
  BY <1>1 DEF IInv, TypeInv, TypeOK, Rest
<1> QED
  BY <1>1, <1>2 DEF IInv, TypeInv

\* Connecting, disconnecting and the ttl keep the invariant.
LEMMA GatewayStep == ASSUME IInv, NEW c \in Clients,
                            \/ ConnectInsert(c) \/ ConnectDone(c) \/ ConnectLost(c)
                            \/ Close(c) \/ Disconnect(c) \/ RowExpires(c)
                     PROVE  IInv'
<1> USE DEF IInv, TypeInv
<1>1. UNCHANGED eventVars
  BY DEF ConnectInsert, ConnectDone, ConnectLost, Close, Disconnect, RowExpires
<1>0. /\ link \in [Clients -> {"none", "connecting", "open", "closed", "gone"}]
      /\ row \in [Clients -> {"absent", "live", "expired"}]
      /\ eligible \in [Events -> SUBSET Clients]
  BY DEF TypeOK
<1>2. /\ link' \in [Clients -> {"none", "connecting", "open", "closed", "gone"}]
      /\ \A d \in Clients \ {c} : link'[d] = link[d] /\ row'[d] = row[d]
      /\ row' \in [Clients -> {"absent", "live", "expired"}]
  BY <1>0 DEF ConnectInsert, ConnectDone, ConnectLost, Close, Disconnect, RowExpires, RemoveRow
<1>3. \/ eligible' = [e \in Events |-> eligible[e] \ {c}]
      \/ UNCHANGED eligible /\ row'[c] \in {row[c], "live"}
  BY <1>0 DEF ConnectInsert, ConnectDone, ConnectLost, Close, Disconnect, RowExpires, RemoveRow
<1>4. /\ eligible' \in [Events -> SUBSET Clients]
      /\ \A e \in Events : eligible'[e] \subseteq eligible[e]
  BY <1>0, <1>3
<1>5. row'[c] # "live" => row[c] # "live" \/ \A e \in Events : c \notin eligible'[e]
  BY <1>0, <1>3
<1>6. link'[c] \in {"connecting", "open"} =>
         row'[c] = "live" \/ (link[c] = "connecting" /\ row'[c] = row[c])
  BY <1>0 DEF ConnectInsert, ConnectDone, ConnectLost, Close, Disconnect, RowExpires
<1>7. TypeInv'
  BY <1>1, <1>2, <1>4 DEF TypeOK, eventVars
<1>8. NotPublished' /\ DispatchCovers' /\ AckedIsPosted'
  BY <1>1, <1>4 DEF eventVars, NotPublished, DispatchCovers, AckedIsPosted
<1>9. EligibleIsListed'
  <2> SUFFICES ASSUME NEW e \in Events, NEW d \in eligible'[e]
               PROVE  d \in Clients /\ row'[d] = "live" /\ Owner[d] = OrgOf[e]
    BY DEF EligibleIsListed, Listed
  <2>1. d \in eligible[e]
    BY <1>4
  <2>2. d \in Clients /\ row[d] = "live" /\ Owner[d] = OrgOf[e]
    BY <2>1 DEF EligibleIsListed, Listed
  <2> QED
    BY <1>2, <1>5, <2>2
<1>10. ConnectedIsListed'
  BY <1>1, <1>2, <1>6 DEF ConnectedIsListed, eventVars
<1> QED
  BY <1>7, <1>8, <1>9, <1>10

\* Publishing keeps the invariant: eligible clients are those of the table, and
\* no queue has the event before.
LEMMA PublishStep ==
  ASSUME IInv, NEW e \in Events,
         PublishEvent(e) \/ Send(e) \/ SendFails(e) \/ PublisherDies(e)
  PROVE  IInv'
<1> USE DEF IInv
<1>0. /\ pub \in [Events -> Seq(Queues \cup {"not started"})]
      /\ queue \in [Queues -> [Events -> {"absent", "visible", "inflight", "deleted", "lost"}]]
      /\ unsent \in [Events -> SUBSET Queues]
      /\ eligible \in [Events -> SUBSET Clients]
      /\ "ws_dispatch" \in Queues
  BY DEF TypeInv, TypeOK, Queues
<1>1. CASE PublishEvent(e)
  <2> USE <1>1 DEF PublishEvent
  <2>1. QueuesOf(e) \in Rest(e)
    BY RestEnds
  <2>2. eligible' \in [Events -> SUBSET Clients]
    BY <1>0 DEF Listed
  <2>3. TypeInv'
    BY <1>0, <2>1, <2>2, PublisherStep
  <2>4. \A f \in Events : pub'[f] = NotStarted => pub[f] = NotStarted
    BY <2>1, PubType
  <2>5. \A q \in Queues : queue[q][e] = "absent"
    BY DEF NotPublished
  <2>6. \A f \in Events : eligible'[f] = IF f = e THEN Listed(e) ELSE eligible[f]
    BY <1>0
  <2>7. NotPublished' /\ DispatchCovers' /\ AckedIsPosted'
    BY <1>0, <2>4, <2>5, <2>6 DEF NotPublished, DispatchCovers, AckedIsPosted
  <2>8. EligibleIsListed' /\ ConnectedIsListed'
    BY <2>6 DEF EligibleIsListed, ConnectedIsListed, Listed
  <2> QED
    BY <2>3, <2>7, <2>8
<1>2. ASSUME ~ PublishEvent(e) PROVE IInv'
  <2>0. Sending(e) /\ pub[e] \in Rest(e)
    BY <1>2 DEF Send, SendFails, PublisherDies, Sending, TypeInv, TypeOK, Rest
  <2>1. Head(pub[e]) \in Queues /\ Tail(pub[e]) \in Rest(e) /\ pub[e] \in Seq(Queues)
    BY <2>0, RestProperties DEF Sending
  <2>2. PICK s \in Rest(e) : pub' = [pub EXCEPT ![e] = s]
    BY <1>2, <2>1, RestEnds DEF Send, SendFails, PublisherDies
  <2>a. PICK h \in Queues : h = Head(pub[e])
    BY <2>1
  <2>b. PICK rest \in SUBSET Queues : rest = {pub[e][i] : i \in 1 .. Len(pub[e])}
    BY <2>1, ElementOfSeq
  <2>c. \/ UNCHANGED unsent
        \/ unsent' = [unsent EXCEPT ![e] = @ \cup {h}]
        \/ unsent' = [unsent EXCEPT ![e] = @ \cup rest]
    BY <1>2, <2>a, <2>b DEF Send, SendFails, PublisherDies
  <2>d. UNCHANGED queue \/ queue' = [queue EXCEPT ![h][e] = "visible"]
    BY <1>2, <2>a DEF Send, SendFails, PublisherDies
  <2>3. unsent' \in [Events -> SUBSET Queues]
    BY ZenonT(40), <1>0, <2>c
  <2>4. /\ queue' \in [Queues -> [Events -> {"absent", "visible", "inflight", "deleted", "lost"}]]
        /\ \A q \in Queues, f \in Events :
              queue'[q][f] = queue[q][f] \/ (f = e /\ queue'[q][f] = "visible")
    <3>1. CASE UNCHANGED queue
      BY <1>0, <3>1
    <3>2. CASE queue' = [queue EXCEPT ![h][e] = "visible"]
      <4>1. [queue[h] EXCEPT ![e] = "visible"] \in
               [Events -> {"absent", "visible", "inflight", "deleted", "lost"}]
        BY <1>0
      <4> QED
        BY <1>0, <3>2, <4>1
    <3> QED
      BY <2>d, <3>1, <3>2
  <2>5. UNCHANGED <<link, row, receives, todo, tried, hit, embedded, eligible>>
    BY <1>2 DEF Send, SendFails, PublisherDies, linkVars
  <2>6. TypeInv'
    BY <1>0, <2>2, <2>3, <2>4, <2>5, PublisherStep
  <2>7. \A f \in Events : pub'[f] = NotStarted => pub[f] = NotStarted /\ f # e
    <3>1. s # NotStarted
      BY <2>2, RestProperties
    <3> QED
      BY <1>0, <2>2, <3>1
  <2>8. NotPublished' /\ DispatchCovers' /\ AckedIsPosted'
    BY <1>0, <2>4, <2>5, <2>7 DEF NotPublished, DispatchCovers, AckedIsPosted
  <2>9. EligibleIsListed' /\ ConnectedIsListed'
    BY <2>5 DEF EligibleIsListed, ConnectedIsListed, Listed
  <2> QED
    BY <2>6, <2>8, <2>9
<1> QED
  BY <1>1, <1>2

\* The queues and the consumers keep the invariant.
LEMMA ConsumerStep ==
  ASSUME IInv, NEW e \in Events,
         \/ \E q \in Consumed : Receive(q, e) \/ Retire(q, e) \/ Return(q, e)
         \/ Dispatch(e) \/ Embed(e)
  PROVE  IInv'
<1> USE DEF IInv
<1> DEFINE Q == {"absent", "visible", "inflight", "deleted", "lost"}
<1>0. /\ queue \in [Queues -> [Events -> Q]]
      /\ receives \in [Queues -> [Events -> 0 .. MaxReceive]]
      /\ todo \in [Events -> (SUBSET Clients) \cup {Reading}]
      /\ tried \in [Events -> SUBSET Clients]
      /\ hit \in SUBSET Clients
      /\ embedded \in SUBSET Events
      /\ row \in [Clients -> {"absent", "live", "expired"}]
      /\ eligible \in [Events -> SUBSET Clients]
      /\ "ws_dispatch" \in Queues /\ "embedder" \in Queues
      /\ MaxReceive \in Nat
  BY FanoutAssumption DEF TypeInv, TypeOK, Queues
<1> HIDE DEF Q
\* All that the types need of such a step.
<1>1. ASSUME queue' \in [Queues -> [Events -> Q]],
             receives' \in [Queues -> [Events -> 0 .. MaxReceive]],
             todo' \in [Events -> (SUBSET Clients) \cup {Reading}],
             tried' \in [Events -> SUBSET Clients],
             hit' \in SUBSET Clients,
             embedded' \in SUBSET Events,
             row' \in [Clients -> {"absent", "live", "expired"}],
             eligible' \in [Events -> SUBSET Clients],
             UNCHANGED <<link, pub, unsent>>
      PROVE  TypeInv'
  <2>1. \A f \in Events : todo'[f] = Reading \/ todo'[f] \subseteq Clients
    BY <1>1
  <2>2. TypeOK'
    BY <1>1, <2>1 DEF TypeInv, TypeOK, Q
  <2> QED
    BY <1>1, <2>2 DEF TypeInv
\* And the rest of the invariant.
<1>2. ASSUME TypeInv', UNCHANGED <<link, pub>>, hit \subseteq hit',
             \A c \in Clients : row'[c] = row[c] \/ c \in hit',
             \A f \in Events : eligible'[f] \subseteq eligible[f],
             \A f \in Events : \A c \in eligible'[f] : row'[c] = row[c],
             \A q \in Queues, f \in Events : queue[q][f] = "absent" => queue'[q][f] = "absent",
             \A f \in Events : queue'["ws_dispatch"][f] = "inflight" /\ todo'[f] # Reading =>
                                 eligible'[f] \subseteq tried'[f] \cup todo'[f],
             \A f \in Events : queue'["ws_dispatch"][f] = "deleted" => eligible'[f] \subseteq tried'[f]
      PROVE  IInv'
  <2>1. NotPublished' /\ DispatchCovers' /\ AckedIsPosted'
    BY <1>2 DEF NotPublished, DispatchCovers, AckedIsPosted
  <2>2. ConnectedIsListed'
    BY <1>2 DEF ConnectedIsListed
  <2>3. EligibleIsListed'
    <3> SUFFICES ASSUME NEW f \in Events, NEW c \in eligible'[f]
                 PROVE  c \in Clients /\ row'[c] = "live" /\ Owner[c] = OrgOf[f]
      BY DEF EligibleIsListed, Listed
    <3>1. c \in eligible[f] /\ row'[c] = row[c]
      BY <1>2
    <3> QED
      BY <3>1 DEF EligibleIsListed, Listed
  <2> QED
    BY <1>2, <2>1, <2>2, <2>3
<1>3. ASSUME NEW q \in Consumed, Receive(q, e) \/ Retire(q, e) \/ Return(q, e) PROVE IInv'
  <2> USE <1>0, <1>3
  <2>1. q \in Queues
    BY DEF Consumed
  <2>2. PICK s \in {"visible", "inflight", "lost"} :
           /\ queue' = [queue EXCEPT ![q][e] = s] /\ queue[q][e] \in {"visible", "inflight"}
           /\ s = "inflight" /\ q = "ws_dispatch" => todo' = [todo EXCEPT ![e] = Reading]
    BY DEF Receive, Retire, Return
  <2>3. /\ queue' \in [Queues -> [Events -> Q]]
        /\ \A p \in Queues, f \in Events : queue'[p][f] = IF p = q /\ f = e THEN s ELSE queue[p][f]
    BY <2>1, <2>2 DEF Q
  <2>4. receives' \in [Queues -> [Events -> 0 .. MaxReceive]]
    <3>1. CASE Receive(q, e)
      <4>1. receives[q][e] + 1 \in 0 .. MaxReceive
        BY <2>1, <3>1 DEF Receive
      <4>2. receives' = [receives EXCEPT ![q] = [receives[q] EXCEPT ![e] = receives[q][e] + 1]]
        BY <2>1, <3>1 DEF Receive
      <4> HIDE <1>3
      <4> QED
        BY <2>1, <4>1, <4>2
    <3> QED
      BY <3>1 DEF Retire, Return
  <2>5. /\ todo' \in [Events -> (SUBSET Clients) \cup {Reading}]
        /\ \A f \in Events : f # e \/ q # "ws_dispatch" => todo'[f] = todo[f]
    BY DEF Receive, Retire, Return
  <2>6. UNCHANGED <<linkVars, pub, unsent, tried, hit, embedded>>
    BY DEF Receive, Retire, Return
  <2>7. TypeInv'
    BY <1>1, <2>3, <2>4, <2>5, <2>6 DEF linkVars
  <2>8. \A f \in Events : queue'["ws_dispatch"][f] = "inflight" /\ todo'[f] # Reading =>
                            eligible'[f] \subseteq tried'[f] \cup todo'[f]
    BY <2>2, <2>3, <2>5, <2>6 DEF DispatchCovers, linkVars
  <2>9. \A f \in Events : queue'["ws_dispatch"][f] = "deleted" => eligible'[f] \subseteq tried'[f]
    BY <2>2, <2>3, <2>6 DEF AckedIsPosted, linkVars
  <2> QED
    BY <1>2, <2>2, <2>3, <2>6, <2>7, <2>8, <2>9 DEF linkVars
<1>4. CASE ListConnections(e)
  <2> USE <1>0, <1>4 DEF ListConnections
  <2>1. Listed(e) \subseteq Clients
    BY DEF Listed
  <2>2. /\ todo' \in [Events -> (SUBSET Clients) \cup {Reading}]
        /\ todo'[e] = Listed(e) /\ \A f \in Events \ {e} : todo'[f] = todo[f]
    BY <2>1
  <2>3. TypeInv'
    BY <1>1, <2>2 DEF linkVars
  <2>4. \A f \in Events : queue'["ws_dispatch"][f] = "inflight" /\ todo'[f] # Reading =>
                            eligible'[f] \subseteq tried'[f] \cup todo'[f]
    BY <2>2 DEF DispatchCovers, EligibleIsListed, linkVars
  <2> QED
    BY <1>2, <2>3, <2>4 DEF AckedIsPosted, linkVars
<1>5. ASSUME NEW c \in Clients, Post(e, c) \/ PostFails(e, c) PROVE IInv'
  <2> USE <1>0, <1>5
  <2>1. todo[e] \subseteq Clients
    BY FanoutAssumption DEF Post, PostFails, Reading
  <2>2. /\ todo' = [todo EXCEPT ![e] = todo[e] \ {c}]
        /\ tried' = [tried EXCEPT ![e] = tried[e] \cup {c}]
        /\ hit' \in {hit, hit \cup {c}}
        /\ UNCHANGED <<link, pub, unsent, queue, receives, embedded>>
    BY DEF Post, PostFails, linkVars
  <2>3. \/ UNCHANGED <<row, eligible>>
        \/ /\ c \in hit' /\ row' = [row EXCEPT ![c] = "absent"]
           /\ eligible' = [f \in Events |-> eligible[f] \ {c}]
    BY DEF Post, PostFails, linkVars, RemoveRow
  <2>4. /\ eligible' \in [Events -> SUBSET Clients] /\ row' \in [Clients -> {"absent", "live", "expired"}]
        /\ \A f \in Events : eligible'[f] \subseteq eligible[f]
        /\ \A f \in Events : \A d \in eligible'[f] : row'[d] = row[d]
        /\ \A d \in Clients : row'[d] = row[d] \/ d \in hit'
    BY <2>3
  <2>5. /\ todo' \in [Events -> (SUBSET Clients) \cup {Reading}]
        /\ tried' \in [Events -> SUBSET Clients]
        /\ \A f \in Events : f # e => todo'[f] = todo[f] /\ tried'[f] = tried[f]
        /\ todo'[e] = todo[e] \ {c} /\ tried'[e] = tried[e] \cup {c}
    BY <2>1, <2>2
  <2>6. TypeInv'
    BY <1>1, <2>2, <2>4, <2>5
  <2>7. todo[e] # Reading
    BY <2>1, FanoutAssumption DEF Reading
  <2>8. \A f \in Events : queue'["ws_dispatch"][f] = "inflight" /\ todo'[f] # Reading =>
                            eligible'[f] \subseteq tried'[f] \cup todo'[f]
    BY <2>2, <2>4, <2>5, <2>7 DEF DispatchCovers
  <2>9. \A f \in Events : queue'["ws_dispatch"][f] = "deleted" => eligible'[f] \subseteq tried'[f]
    BY <2>2, <2>4, <2>5 DEF AckedIsPosted
  <2> QED
    BY <1>2, <2>2, <2>4, <2>6, <2>8, <2>9
<1>6. CASE AckDispatch(e)
  <2> USE <1>0, <1>6 DEF AckDispatch
  <2>1. /\ queue' \in [Queues -> [Events -> Q]]
        /\ \A p \in Queues, f \in Events :
              queue'[p][f] = IF p = "ws_dispatch" /\ f = e THEN "deleted" ELSE queue[p][f]
    BY DEF Q
  <2>2. TypeInv'
    BY <1>1, <2>1 DEF linkVars
  <2>3. eligible[e] \subseteq tried[e]
    BY DEF DispatchCovers, Reading
  <2>4. \A f \in Events : queue'["ws_dispatch"][f] = "inflight" /\ todo'[f] # Reading =>
                            eligible'[f] \subseteq tried'[f] \cup todo'[f]
    BY <2>1 DEF DispatchCovers, linkVars
  <2>5. \A f \in Events : queue'["ws_dispatch"][f] = "deleted" => eligible'[f] \subseteq tried'[f]
    BY <2>1, <2>3 DEF AckedIsPosted, linkVars
  <2> QED
    BY <1>2, <2>1, <2>2, <2>4, <2>5 DEF linkVars
<1>7. CASE Embed(e)
  <2> USE <1>0, <1>7 DEF Embed
  <2>1. /\ queue' \in [Queues -> [Events -> Q]]
        /\ \A p \in Queues, f \in Events :
              queue'[p][f] = IF p = "embedder" /\ f = e THEN "deleted" ELSE queue[p][f]
    BY DEF Q
  <2>2. embedded' \in SUBSET Events
    OBVIOUS
  <2>3. TypeInv'
    BY <1>1, <2>1, <2>2 DEF linkVars
  <2> QED
    BY <1>2, <2>1, <2>3 DEF linkVars, DispatchCovers, AckedIsPosted
<1> QED
  BY <1>3, <1>4, <1>5, <1>6, <1>7 DEF Dispatch

\* Every step keeps the invariant.
LEMMA StepIInv == IInv /\ [Next]_vars => IInv'
<1> SUFFICES ASSUME IInv, [Next]_vars PROVE IInv'
  OBVIOUS
<1>1. CASE UNCHANGED vars
  <2> USE <1>1 DEF vars, IInv
  <2>1. TypeInv'
    BY DEF TypeInv, TypeOK
  <2>2. NotPublished' /\ DispatchCovers' /\ AckedIsPosted' /\ ConnectedIsListed'
    BY DEF NotPublished, DispatchCovers, AckedIsPosted, ConnectedIsListed
  <2>3. EligibleIsListed'
    BY DEF EligibleIsListed, Listed
  <2> QED
    BY <2>1, <2>2, <2>3
<1> QED
  BY <1>1, GatewayStep, PublishStep, ConsumerStep DEF Next, Gateway

\* The inductive invariant holds in every reachable state.
THEOREM FanoutInvariant == Spec => []IInv
<1> QED
  BY InitIInv, StepIInv, PTL DEF Spec

\* Type correctness, for any events and clients: a publisher always has a rest of
\* the queues of its event before it, in the order of PublishEvent.
THEOREM FanoutTypeOK == Spec => []TypeOK
<1>1. IInv => TypeOK
  BY DEF IInv, TypeInv
<1> QED
  BY <1>1, FanoutInvariant, PTL

\* When the dispatcher's record is deleted, every client that was in the table
\* since the event was published has been posted to, however clients come and go,
\* posts fail and records are redelivered.
THEOREM FanoutAckedIsPosted == Spec => []AckedIsPosted
<1>1. IInv => AckedIsPosted
  BY DEF IInv
<1> QED
  BY <1>1, FanoutInvariant, PTL

\* A connected client is in the table unless a post to it has failed.
THEOREM FanoutListedUnlessHit == Spec => []ListedUnlessHit
<1>1. IInv => ListedUnlessHit
  BY DEF IInv, ConnectedIsListed, ListedUnlessHit
<1> QED
  BY <1>1, FanoutInvariant, PTL
=============================================================================
