----------------------------- MODULE EventFanout -----------------------------
(***************************************************************************)
(* The way of a domain event: PublishEvent sends it to several queues, one *)
(* after the other; the event_dispatcher_ws Lambda takes it from           *)
(* ws_dispatch and posts it to the WebSocket clients of the organization,  *)
(* the embedder Lambda takes message events from its own queue.  (For      *)
(* webhook_delivery see WebhookDelivery.)  Meanwhile clients connect and   *)
(* disconnect: their rows in websocket_connections are written by the      *)
(* $connect and $disconnect handlers and removed by the dispatcher.        *)
(*                                                                         *)
(* A row says that a client is connected; whether it is, only API Gateway  *)
(* knows (link).  The two agree as far as the handlers and failures allow. *)
(***************************************************************************)
EXTENDS Naturals, Sequences

CONSTANTS
    Clients,     \* connection IDs; API Gateway never reuses one
    Events,      \* event UUIDs
    Owner,       \* the organization of a client's API key
    OrgOf,       \* the organization of an event
    TypeOf,      \* the type of an event
    MaxReceive   \* maxReceiveCount; for ws_dispatch a bound on redeliveries

EventTypes == {"message.received", "message.sent", "message.bounced",
               "message.engagement", "thread.created", "thread.status_changed",
               "draft.created", "draft.approved", "draft.rejected",
               "inbox.created", "label.applied"}
Queues == {"webhook_delivery", "ws_dispatch", "embedder"}

ASSUME FanoutAssumption ==
    /\ TypeOf \in [Events -> EventTypes]
    /\ DOMAIN Owner = Clients /\ DOMAIN OrgOf = Events
    /\ MaxReceive \in Nat \ {0}
    /\ <<"reading">> \notin Clients     \* see Reading

VARIABLES
    link,        \* what API Gateway knows of a client
    row,         \* the client's row in websocket_connections
    pub,         \* PublishEvent: the queues it has still to send to
    unsent,      \* queues the send to which failed
    queue,       \* the record of an event in each queue
    receives,    \* ApproximateReceiveCount of each record
    todo,        \* the dispatcher: connections it has read and not yet posted to
    tried,       \* clients PostToConnection was called for with the event
    hit,         \* clients a PostToConnection call for which failed
    embedded,    \* events whose message has its embedding
    eligible     \* clients with a live row ever since the event was published

linkVars == <<link, row, eligible>>
vars == <<link, row, pub, unsent, queue, receives, todo, tried, hit, embedded, eligible>>

NotStarted == <<"not started">>
Reading    == {<<"reading">>}     \* the dispatcher has yet to read the connections

Init ==
    /\ link = [c \in Clients |-> "none"]
    /\ row = [c \in Clients |-> "absent"]
    /\ pub = [e \in Events |-> NotStarted]
    /\ unsent = [e \in Events |-> {}]
    /\ queue = [q \in Queues |-> [e \in Events |-> "absent"]]
    /\ receives = [q \in Queues |-> [e \in Events |-> 0]]
    /\ todo = [e \in Events |-> {}]
    /\ tried = [e \in Events |-> {}]
    /\ hit = {}
    /\ embedded = {}
    /\ eligible = [e \in Events |-> {}]

-----------------------------------------------------------------------------
(* ws_connect, ws_disconnect and API Gateway *)

\* Rows that go away are no longer eligible for any event.
RemoveRow(c) ==
    /\ row' = [row EXCEPT ![c] = "absent"]
    /\ eligible' = [e \in Events |-> eligible[e] \ {c}]

eventVars == <<pub, unsent, queue, receives, todo, tried, hit, embedded>>

\* Mutant: the connection is accepted first and its row inserted afterwards.
ConnectInsert_Later(c) ==
    /\ link[c] = "none"
    /\ link' = [link EXCEPT ![c] = "open"]
    /\ UNCHANGED <<row, eligible, eventVars>>

\* $connect: the key and the plan's features are valid, the row is inserted with
\* a ttl of 24 hours.  The client is not connected before the handler returns.
ConnectInsert(c) ==
    /\ link[c] = "none"
    /\ link' = [link EXCEPT ![c] = "connecting"]
    /\ row' = [row EXCEPT ![c] = "live"]
    /\ UNCHANGED <<eligible, eventVars>>

\* The handler has answered 200 ...
ConnectDone(c) ==
    /\ link[c] = "connecting"
    /\ link' = [link EXCEPT ![c] = "open"]
    /\ UNCHANGED <<row, eligible, eventVars>>

\* ... or died after the INSERT, or the client has left: there was no connection,
\* so there is no $disconnect.  A refusal (401, 403, 500) leaves no row.
ConnectLost(c) ==
    /\ link[c] \in {"none", "connecting"}
    /\ link' = [link EXCEPT ![c] = "gone"]
    /\ UNCHANGED <<row, eligible, eventVars>>

\* The client, or the gateway's two-hour limit, closes the connection.
Close(c) ==
    /\ link[c] = "open"
    /\ link' = [link EXCEPT ![c] = "closed"]
    /\ UNCHANGED <<row, eligible, eventVars>>

\* $disconnect deletes the row; an error is logged and the row stays.
Disconnect(c) ==
    /\ link[c] = "closed"
    /\ link' = [link EXCEPT ![c] = "gone"]
    /\ RemoveRow(c) \/ UNCHANGED <<row, eligible>>
    /\ UNCHANGED eventVars

\* A row outlives its ttl only if the connection, at most two hours long, is over.
RowExpires(c) ==
    /\ row[c] = "live" /\ link[c] \in {"closed", "gone"}
    /\ row' = [row EXCEPT ![c] = "expired"]
    /\ eligible' = [e \in Events |-> eligible[e] \ {c}]
    /\ UNCHANGED <<link, eventVars>>

-----------------------------------------------------------------------------
(* Publisher.PublishEvent *)

Listed(e) == {c \in Clients : row[c] = "live" /\ Owner[c] = OrgOf[e]}

QueuesOf(e) ==
    <<"webhook_delivery", "ws_dispatch">> \o
        IF TypeOf[e] \in {"message.received", "message.sent"} THEN <<"embedder">> ELSE <<>>

PublishEvent(e) ==
    /\ pub[e] = NotStarted
    /\ pub' = [pub EXCEPT ![e] = QueuesOf(e)]
    /\ eligible' = [eligible EXCEPT ![e] = Listed(e)]
    /\ UNCHANGED <<link, row, unsent, queue, receives, todo, tried, hit, embedded>>

Sending(e) == pub[e] # NotStarted /\ pub[e] # <<>>

Send(e) ==
    /\ Sending(e)
    /\ pub' = [pub EXCEPT ![e] = Tail(@)]
    /\ queue' = [queue EXCEPT ![Head(pub[e])][e] = "visible"]
    /\ UNCHANGED <<linkVars, unsent, receives, todo, tried, hit, embedded>>

\* Mutant: the first error is returned at once.
SendFails_Returns(e) ==
    /\ Sending(e)
    /\ pub' = [pub EXCEPT ![e] = <<>>]
    /\ unsent' = [unsent EXCEPT ![e] = @ \cup {Head(pub[e])}]
    /\ UNCHANGED <<linkVars, queue, receives, todo, tried, hit, embedded>>

\* A failed send is remembered and the loop goes on.
SendFails(e) ==
    /\ Sending(e)
    /\ pub' = [pub EXCEPT ![e] = Tail(@)]
    /\ unsent' = [unsent EXCEPT ![e] = @ \cup {Head(pub[e])}]
    /\ UNCHANGED <<linkVars, queue, receives, todo, tried, hit, embedded>>

\* The process that publishes dies: the queues that are left get nothing.
PublisherDies(e) ==
    /\ Sending(e)
    /\ pub' = [pub EXCEPT ![e] = <<>>]
    /\ unsent' = [unsent EXCEPT ![e] = @ \cup {pub[e][i] : i \in 1 .. Len(pub[e])}]
    /\ UNCHANGED <<linkVars, queue, receives, todo, tried, hit, embedded>>

-----------------------------------------------------------------------------
(* Amazon SQS, for the two queues whose consumers are modelled here *)

Receive(q, e) ==
    /\ queue[q][e] = "visible" /\ receives[q][e] < MaxReceive
    /\ queue' = [queue EXCEPT ![q][e] = "inflight"]
    /\ receives' = [receives EXCEPT ![q][e] = @ + 1]
    /\ todo' = IF q = "ws_dispatch" THEN [todo EXCEPT ![e] = Reading] ELSE todo
    /\ UNCHANGED <<linkVars, pub, unsent, tried, hit, embedded>>

\* embedder: the dead-letter queue after maxReceiveCount receives.  ws_dispatch:
\* no dead-letter queue, a record is dropped after five minutes.
Retire(q, e) ==
    /\ queue[q][e] = "visible"
    /\ q = "embedder" => receives[q][e] = MaxReceive
    /\ queue' = [queue EXCEPT ![q][e] = "lost"]
    /\ UNCHANGED <<linkVars, pub, unsent, receives, todo, tried, hit, embedded>>

\* The invocation dies, here or in another record of its batch, or it reports
\* the record as failed: the record becomes visible again.
Return(q, e) ==
    /\ queue[q][e] = "inflight"
    /\ queue' = [queue EXCEPT ![q][e] = "visible"]
    /\ todo' = IF q = "ws_dispatch" THEN [todo EXCEPT ![e] = {}] ELSE todo
    /\ UNCHANGED <<linkVars, pub, unsent, receives, tried, hit, embedded>>

-----------------------------------------------------------------------------
(* event_dispatcher_ws *)

\* The connections of the organization whose ttl has not passed.
ListConnections(e) ==
    /\ todo[e] = Reading
    /\ todo' = [todo EXCEPT ![e] = Listed(e)]
    /\ UNCHANGED <<linkVars, pub, unsent, queue, receives, tried, hit, embedded>>

\* PostToConnection succeeds only if the client is connected ...
Post(e, c) ==
    /\ c \in todo[e] /\ link[c] = "open"
    /\ todo' = [todo EXCEPT ![e] = @ \ {c}]
    /\ tried' = [tried EXCEPT ![e] = @ \cup {c}]
    /\ UNCHANGED <<linkVars, pub, unsent, queue, receives, hit, embedded>>

\* Mutant: the loop ends with the first error.
PostFails_Stops(e, c) ==
    /\ c \in todo[e]
    /\ todo' = [todo EXCEPT ![e] = {}]
    /\ tried' = [tried EXCEPT ![e] = @ \cup {c}]
    /\ hit' = hit \cup {c}
    /\ RemoveRow(c)
    /\ UNCHANGED <<link, pub, unsent, queue, receives, embedded>>

\* ... but may fail for any reason.  Any error removes the row, not only one that
\* says the client is gone; the error of the DELETE is dropped.
PostFails(e, c) ==
    /\ c \in todo[e]
    /\ todo' = [todo EXCEPT ![e] = @ \ {c}]
    /\ tried' = [tried EXCEPT ![e] = @ \cup {c}]
    /\ hit' = hit \cup {c}
    /\ RemoveRow(c) \/ UNCHANGED <<row, eligible>>
    /\ UNCHANGED <<link, pub, unsent, queue, receives, embedded>>

\* The handler returns: the record is deleted.
AckDispatch(e) ==
    /\ queue["ws_dispatch"][e] = "inflight" /\ todo[e] = {}
    /\ queue' = [queue EXCEPT !["ws_dispatch"][e] = "deleted"]
    /\ UNCHANGED <<linkVars, pub, unsent, receives, todo, tried, hit, embedded>>

-----------------------------------------------------------------------------
(* embedder: text key, download, embedding and UPDATE; every error is logged  *)
(* and the record deleted all the same.                                       *)
Embed(e) ==
    /\ queue["embedder"][e] = "inflight"
    /\ embedded' \in {embedded, embedded \cup {e}}
    /\ queue' = [queue EXCEPT !["embedder"][e] = "deleted"]
    /\ UNCHANGED <<linkVars, pub, unsent, receives, todo, tried, hit>>

-----------------------------------------------------------------------------
Consumed == {"ws_dispatch", "embedder"}

Gateway == \E c \in Clients :
    \/ ConnectInsert(c) \/ ConnectDone(c) \/ ConnectLost(c)
    \/ Close(c) \/ Disconnect(c) \/ RowExpires(c)

Dispatch(e) ==
    \/ ListConnections(e) \/ AckDispatch(e)
    \/ \E c \in Clients : Post(e, c) \/ PostFails(e, c)

Next ==
    \/ Gateway
    \/ \E e \in Events :
          \/ PublishEvent(e) \/ Send(e) \/ SendFails(e) \/ PublisherDies(e)
          \/ Dispatch(e) \/ Embed(e)
          \/ \E q \in Consumed : Receive(q, e) \/ Retire(q, e) \/ Return(q, e)

Spec == Init /\ [][Next]_vars

\* A publisher goes on or dies; the event source mappings poll; an invocation
\* goes on or ends.  Nothing is assumed of clients and the gateway.
FairSpec == Spec /\ \A e \in Events :
    /\ WF_vars(Send(e)) /\ WF_vars(Dispatch(e)) /\ WF_vars(Embed(e))
    /\ \A q \in Consumed : WF_vars(Receive(q, e)) /\ WF_vars(Retire(q, e))

-----------------------------------------------------------------------------
TypeOK ==
    /\ link \in [Clients -> {"none", "connecting", "open", "closed", "gone"}]
    /\ row \in [Clients -> {"absent", "live", "expired"}]
    /\ \A e \in Events : \/ pub[e] = NotStarted
                         \/ \E n \in 0 .. Len(QueuesOf(e)) :
                               pub[e] = SubSeq(QueuesOf(e), n + 1, Len(QueuesOf(e)))
    /\ unsent \in [Events -> SUBSET Queues]
    /\ queue \in [Queues -> [Events -> {"absent", "visible", "inflight", "deleted", "lost"}]]
    /\ receives \in [Queues -> [Events -> 0 .. MaxReceive]]
    /\ \A e \in Events : todo[e] = Reading \/ todo[e] \subseteq Clients
    /\ tried \in [Events -> SUBSET Clients]
    /\ hit \in SUBSET Clients
    /\ embedded \in SUBSET Events
    /\ eligible \in [Events -> SUBSET Clients]

\* When the dispatcher's record is deleted, every client whose row was live all
\* the time since the event was published was posted to: neither a failure at
\* another client nor a redelivery makes the loop leave one out.
AckedIsPosted == \A e \in Events :
    queue["ws_dispatch"][e] = "deleted" => eligible[e] \subseteq tried[e]

\* A connected client is in the table, unless a post to it has failed: neither
\* the order of $connect, $disconnect and dispatch nor the ttl loses one.
ListedUnlessHit == \A c \in Clients :
    link[c] = "open" => row[c] = "live" \/ c \in hit

\* An event reaches every client that stays in the table, unless its own send
\* to ws_dispatch failed or the record became too old: a failed send to another
\* queue, a dead invocation or a failed post elsewhere costs the client nothing.
EventReachesClients == \A e \in Events, c \in Clients :
    Sending(e) ~> \/ c \in tried[e] \/ c \notin eligible[e]
                  \/ "ws_dispatch" \in unsent[e] \/ queue["ws_dispatch"][e] = "lost"
=============================================================================
