--------------------------- MODULE WebhookDelivery ---------------------------
(***************************************************************************)
(* Delivery of domain events to webhooks.  The webhooks Lambda creates,    *)
(* patches and deletes webhooks; the event_dispatcher_webhook Lambda takes *)
(* an event from the webhook_delivery queue, lists the webhooks of the     *)
(* organization, and posts the event to each one that is active and        *)
(* subscribed, logging every delivery.  The statements of the dispatcher   *)
(* are autocommitted one by one, there is no transaction around them.      *)
(*                                                                         *)
(* The queue redelivers a record whose invocation failed or was killed,    *)
(* up to maxReceiveCount times, and then moves it to the dead-letter queue.*)
(***************************************************************************)
EXTENDS Naturals

CONSTANTS
    Hooks,       \* webhook UUIDs
    Events,      \* event UUIDs
    Types,       \* event types
    TypeOf,      \* the type of every event
    Lists,       \* lists of event types a caller may subscribe a webhook to
    Patches,     \* PATCH requests; their number bounds the instance
    MaxReceive,  \* maxReceiveCount of the queue (webhook_max_retries)
    None         \* NULL, or a field a PATCH does not name

ASSUME WebhookAssumption ==
    /\ TypeOf \in [Events -> Types]
    /\ Lists \subseteq SUBSET Types
    /\ MaxReceive \in Nat \ {0}
    /\ None \notin Hooks

VARIABLES
    hooks,       \* webhook rows
    made,        \* webhooks ever created
    conf,        \* is_active and events of every webhook
    patch,       \* the PATCH requests: what each has read and will write
    queue,       \* the record of an event in webhook_delivery
    receives,    \* ApproximateReceiveCount of the record
    worker,      \* the invocation that processes the record
    log,         \* status of webhook_deliveries rows, per event, hook and receive
    posts,       \* POST requests made per event and hook
    accepted,    \* <<event, hook>> pairs some POST of which was answered with 2xx
    eligible     \* hooks that matched an event ever since it was published

hookVars  == <<hooks, made, conf, patch>>
vars == <<hooks, made, conf, patch, queue, receives, worker, log, posts, accepted, eligible>>

Conf      == [active : BOOLEAN, events : SUBSET Types]
QueueStates == {"absent", "visible", "inflight", "deleted", "dead"}
Pcs       == {"idle", "started", "listed", "created", "answered", "marked", "done"}
Statuses  == {"none", "pending", "success", "retrying", "failed"}

Idle      == [pc |-> "idle", todo |-> {}, hook |-> None, ok |-> FALSE]
NoPatch   == [pc |-> "idle", hook |-> None, conf |-> [active |-> FALSE, events |-> {}]]

Init ==
    /\ hooks = {}
    /\ made = {}
    /\ conf = [h \in Hooks |-> [active |-> FALSE, events |-> {}]]
    /\ patch = [p \in Patches |-> NoPatch]
    /\ queue = [e \in Events |-> "absent"]
    /\ receives = [e \in Events |-> 0]
    /\ worker = [e \in Events |-> Idle]
    /\ log = [e \in Events |-> [h \in Hooks |-> [n \in 1 .. MaxReceive |-> "none"]]]
    /\ posts = [e \in Events |-> [h \in Hooks |-> 0]]
    /\ accepted = {}
    /\ eligible = [e \in Events |-> {}]

\* matchesEvent: an empty list of events subscribes to all of them.
MatchesEvent(c, e) == c.events = {} \/ TypeOf[e] \in c.events
Wants(c, e) == c.active /\ MatchesEvent(c, e)

-----------------------------------------------------------------------------
(* The webhooks Lambda *)

CreateWebhook(h, events) ==
    /\ h \notin made
    /\ made' = made \cup {h}
    /\ hooks' = hooks \cup {h}
    /\ conf' = [conf EXCEPT ![h] = [active |-> TRUE, events |-> events]]
    /\ UNCHANGED <<patch, queue, receives, worker, log, posts, accepted, eligible>>

\* PATCH: load the row, change the named fields of the copy ...
PatchRead(p, h, active, events) ==
    /\ patch[p].pc = "idle"
    /\ h \in hooks
    /\ patch' = [patch EXCEPT ![p] =
         [pc |-> "read", hook |-> h,
          conf |-> [active |-> IF active = None THEN conf[h].active ELSE active,
                    events |-> IF events = None THEN conf[h].events ELSE events]]]
    /\ UNCHANGED <<hooks, made, conf, queue, receives, worker, log, posts, accepted,
                   eligible>>

\* ... and write all of it back; without a row the request fails.
UpdateWebhook(p) ==
    /\ patch[p].pc = "read"
    /\ patch' = [patch EXCEPT ![p] = [NoPatch EXCEPT !.pc = "done"]]
    /\ LET h == patch[p].hook IN
          IF h \in hooks
             THEN /\ conf' = [conf EXCEPT ![h] = patch[p].conf]
                  /\ eligible' = [e \in Events |-> IF Wants(patch[p].conf, e)
                                                      THEN eligible[e] ELSE eligible[e] \ {h}]
             ELSE UNCHANGED <<conf, eligible>>
    /\ UNCHANGED <<hooks, made, queue, receives, worker, log, posts, accepted>>

\* The deliveries of a webhook are deleted with it (ON DELETE CASCADE).
DeleteWebhook(h) ==
    /\ h \in hooks
    /\ hooks' = hooks \ {h}
    /\ log' = [e \in Events |-> [log[e] EXCEPT ![h] = [n \in 1 .. MaxReceive |-> "none"]]]
    /\ eligible' = [e \in Events |-> eligible[e] \ {h}]
    /\ UNCHANGED <<made, conf, patch, queue, receives, worker, posts, accepted>>

-----------------------------------------------------------------------------
(* The webhook_delivery queue *)

PublishEvent(e) ==
    /\ queue[e] = "absent"
    /\ queue' = [queue EXCEPT ![e] = "visible"]
    /\ eligible' = [eligible EXCEPT ![e] = {h \in hooks : Wants(conf[h], e)}]
    /\ UNCHANGED <<hooks, made, conf, patch, receives, worker, log, posts, accepted>>

Receive(e) ==
    /\ queue[e] = "visible"
    /\ receives[e] < MaxReceive
    /\ queue' = [queue EXCEPT ![e] = "inflight"]
    /\ receives' = [receives EXCEPT ![e] = @ + 1]
    /\ worker' = [worker EXCEPT ![e].pc = "started"]
    /\ UNCHANGED <<hookVars, log, posts, accepted, eligible>>

DeadLetter(e) ==
    /\ queue[e] = "visible"
    /\ receives[e] = MaxReceive
    /\ queue' = [queue EXCEPT ![e] = "dead"]
    /\ UNCHANGED <<hookVars, receives, worker, log, posts, accepted, eligible>>

ReturnRecord(e) ==
    /\ queue' = [queue EXCEPT ![e] = "visible"]
    /\ worker' = [worker EXCEPT ![e] = Idle]

-----------------------------------------------------------------------------
(* The event_dispatcher_webhook Lambda: processRecord *)

\* ListWebhooks: the loop works on this copy, however long it takes, and on the hooks
\* that are active and match the event.  Which of them was created last, and so comes
\* first, is left open.
ListWebhooks(e) ==
    /\ worker[e].pc = "started"
    /\ worker' = [worker EXCEPT ![e].pc = "listed",
                                ![e].todo = {h \in hooks : Wants(conf[h], e)}]
    /\ UNCHANGED <<hookVars, queue, receives, log, posts, accepted, eligible>>

\* The only error that is reported to the queue.
ListFails(e) ==
    /\ worker[e].pc = "started"
    /\ ReturnRecord(e)
    /\ UNCHANGED <<hookVars, receives, log, posts, accepted, eligible>>

\* Mutant: a webhook that was deleted meanwhile blocks the loop.
CreateDelivery_NeedsHook(e, h) ==
    /\ worker[e].pc = "listed" /\ h \in worker[e].todo
    /\ h \in hooks
    /\ log' = [log EXCEPT ![e][h][receives[e]] = "pending"]
    /\ worker' = [worker EXCEPT ![e].pc = "created", ![e].hook = h, ![e].todo = @ \ {h}]
    /\ UNCHANGED <<hookVars, queue, receives, posts, accepted, eligible>>

\* The next hook.  An insert that fails (the webhook is gone, or any other error) is
\* only logged.
CreateDelivery(e, h) ==
    /\ worker[e].pc = "listed" /\ h \in worker[e].todo
    /\ \/ h \in hooks /\ log' = [log EXCEPT ![e][h][receives[e]] = "pending"]
       \/ UNCHANGED log
    /\ worker' = [worker EXCEPT ![e].pc = "created", ![e].hook = h, ![e].todo = @ \ {h}]
    /\ UNCHANGED <<hookVars, queue, receives, posts, accepted, eligible>>

\* deliver: one POST, answered with 2xx or not.
Deliver(e, ok) ==
    /\ worker[e].pc = "created"
    /\ posts' = [posts EXCEPT ![e][worker[e].hook] = @ + 1]
    /\ accepted' = IF ok THEN accepted \cup {<<e, worker[e].hook>>} ELSE accepted
    /\ worker' = [worker EXCEPT ![e].pc = "answered", ![e].ok = ok]
    /\ UNCHANGED <<hookVars, queue, receives, log, eligible>>

\* The endpoint hangs: the client's timeout is the invocation's own, so the
\* invocation is killed before the error can be handled.
DeliverHangs(e) ==
    /\ worker[e].pc = "created"
    /\ posts' = [posts EXCEPT ![e][worker[e].hook] = @ + 1]
    /\ ReturnRecord(e)
    /\ UNCHANGED <<hookVars, receives, log, accepted, eligible>>

\* MarkFailed gives up at 8 attempts; the dispatcher always passes 1.
MaxRetries == 8

FailedStatus(attempt) == IF attempt >= MaxRetries THEN "failed" ELSE "retrying"

\* Mutant: the answer is not looked at.
MarkDelivery_Success(e) ==
    /\ worker[e].pc = "answered"
    /\ IF log[e][worker[e].hook][receives[e]] = "none" THEN UNCHANGED log
          ELSE log' = [log EXCEPT ![e][worker[e].hook][receives[e]] = "success"]
    /\ worker' = [worker EXCEPT ![e].pc = "marked"]
    /\ UNCHANGED <<hookVars, queue, receives, posts, accepted, eligible>>

\* Mutant: the UPDATE names the rows by event and webhook, not by the delivery.
MarkDelivery_ByEvent(e) ==
    /\ worker[e].pc = "answered"
    /\ LET h == worker[e].hook
           status == IF worker[e].ok THEN "success" ELSE FailedStatus(1) IN
          log' = [log EXCEPT ![e][h] = [n \in 1 .. MaxReceive |->
                     IF log[e][h][n] = "none" THEN "none" ELSE status]]
    /\ worker' = [worker EXCEPT ![e].pc = "marked"]
    /\ UNCHANGED <<hookVars, queue, receives, posts, accepted, eligible>>

\* MarkSuccess and MarkFailed: the delivery row, if there is one.  When this
\* fails the webhook row is not touched either.
MarkDelivery(e) ==
    /\ worker[e].pc = "answered"
    /\ LET status == IF worker[e].ok THEN "success" ELSE FailedStatus(1) IN
          IF log[e][worker[e].hook][receives[e]] = "none" THEN UNCHANGED log
          ELSE log' = [log EXCEPT ![e][worker[e].hook][receives[e]] = status]
    /\ worker' = [worker EXCEPT ![e].pc = "marked"]
    /\ UNCHANGED <<hookVars, queue, receives, posts, accepted, eligible>>

\* Mutant: a failed POST is tried again at once.
NextHook_RetriesInLoop(e) ==
    worker' = [worker EXCEPT ![e].pc = "listed", ![e].hook = None, ![e].ok = FALSE,
                             ![e].todo = IF worker[e].ok THEN @ ELSE @ \cup {worker[e].hook}]

NextHook(e) == worker' = [worker EXCEPT ![e].pc = "listed", ![e].hook = None, ![e].ok = FALSE]

\* Mutant: the first failure ends the loop.
MarkDeliveryFails_Stops(e) ==
    /\ worker[e].pc = "answered"
    /\ worker' = [worker EXCEPT ![e].pc = "done", ![e].todo = {}, ![e].hook = None]
    /\ UNCHANGED <<hookVars, queue, receives, log, posts, accepted, eligible>>

MarkDeliveryFails(e) ==
    /\ worker[e].pc = "answered"
    /\ NextHook(e)
    /\ UNCHANGED <<hookVars, queue, receives, log, posts, accepted, eligible>>

\* ... then the webhook row: failure_count is reset or incremented, for display
\* only.  The error of this statement is dropped.
MarkHook(e) ==
    /\ worker[e].pc = "marked"
    /\ NextHook(e)
    /\ UNCHANGED <<hookVars, queue, receives, log, posts, accepted, eligible>>

EndOfLoop(e) ==
    /\ worker[e].pc = "listed" /\ worker[e].todo = {}
    /\ worker' = [worker EXCEPT ![e].pc = "done"]
    /\ UNCHANGED <<hookVars, queue, receives, log, posts, accepted, eligible>>

\* The whole batch has been processed: its records are deleted.
Ack(e) ==
    /\ worker[e].pc = "done"
    /\ queue' = [queue EXCEPT ![e] = "deleted"]
    /\ worker' = [worker EXCEPT ![e] = Idle]
    /\ UNCHANGED <<hookVars, receives, log, posts, accepted, eligible>>

\* The invocation is killed (its own timeout, or that of a later record of the
\* batch) and the visibility timeout returns the record, processed or not.
Crash(e) ==
    /\ worker[e].pc # "idle"
    /\ ReturnRecord(e)
    /\ UNCHANGED <<hookVars, receives, log, posts, accepted, eligible>>

-----------------------------------------------------------------------------
ProcessRecord(e) ==
    \/ ListWebhooks(e) \/ (\E h \in Hooks : CreateDelivery(e, h))
    \/ Deliver(e, TRUE) \/ Deliver(e, FALSE)
    \/ MarkDelivery(e) \/ MarkHook(e) \/ EndOfLoop(e) \/ Ack(e)

Faults(e) == ListFails(e) \/ DeliverHangs(e) \/ MarkDeliveryFails(e) \/ Crash(e)

WebhookAPI ==
    \/ \E h \in Hooks, events \in Lists : CreateWebhook(h, events)
    \/ \E p \in Patches, h \in Hooks, active \in BOOLEAN \cup {None},
          events \in Lists \cup {None} : PatchRead(p, h, active, events)
    \/ \E p \in Patches : UpdateWebhook(p)
    \/ \E h \in Hooks : DeleteWebhook(h)

Next ==
    \/ WebhookAPI
    \/ \E e \in Events : \/ PublishEvent(e) \/ Receive(e) \/ DeadLetter(e)
                         \/ ProcessRecord(e) \/ Faults(e)

Spec == Init /\ [][Next]_vars

\* The queue hands out or retires what it holds; an invocation goes on or dies.
FairSpec == Spec /\ \A e \in Events :
    WF_vars(Receive(e)) /\ WF_vars(DeadLetter(e)) /\ WF_vars(ProcessRecord(e))

-----------------------------------------------------------------------------
TypeOK ==
    /\ hooks \in SUBSET Hooks
    /\ made \in SUBSET Hooks
    /\ conf \in [Hooks -> Conf]
    /\ patch \in [Patches -> [pc : {"idle", "read", "done"}, hook : Hooks \cup {None}, conf : Conf]]
    /\ queue \in [Events -> QueueStates]
    /\ receives \in [Events -> 0 .. MaxReceive]
    /\ worker \in [Events -> [pc : Pcs, todo : SUBSET Hooks, hook : Hooks \cup {None}, ok : BOOLEAN]]
    /\ log \in [Events -> [Hooks -> [1 .. MaxReceive -> Statuses]]]
    /\ posts \in [Events -> [Hooks -> Nat]]
    /\ accepted \in SUBSET (Events \X Hooks)
    /\ eligible \in [Events -> SUBSET Hooks]

\* A hook gets an event at most once per receive of the record, however the
\* hooks change while a dispatcher works through its copy of them.
PostsAreBounded == \A e \in Events, h \in Hooks : posts[e][h] <= receives[e]

\* The delivery log does not claim what did not happen: 'success' means that
\* the endpoint answered some POST of this event with 2xx.
SuccessIsAccepted == \A e \in Events, h \in Hooks, n \in 1 .. MaxReceive :
    log[e][h][n] = "success" => <<e, h>> \in accepted

\* A row of the delivery log is written by the receive that made it, and an answer it
\* got stays: a record that is redelivered makes rows of its own and overwrites neither
\* the success nor the failure of an earlier receive.  Only the deletion of the webhook
\* takes rows away.  (Of 'retrying' rows nothing is said: a retry, which MarkFailed
\* schedules and nothing here performs, would write them.)
AnswersAreFinal ==
    [][\A e \in Events, h \in Hooks, n \in 1 .. MaxReceive :
          \/ log[e][h][n] = "retrying"
          \/ log'[e][h][n] \in {log[e][h][n], "none"}
          \/ n = receives[e] /\ log[e][h][n] \in {"none", "pending"}]_vars

\* When the record is deleted, every webhook that was active and subscribed all
\* the time since the event was published has been sent it: no failure of one
\* webhook or of a log statement makes the loop skip another.
AckedIsServed == \A e \in Events :
    queue[e] = "deleted" => \A h \in eligible[e] : posts[e][h] > 0

\* Every published event is deleted or ends in the dead-letter queue, whatever
\* invocations die and endpoints hang.
EventSettles == \A e \in Events :
    queue[e] = "visible" ~> queue[e] \in {"deleted", "dead"}
=============================================================================
