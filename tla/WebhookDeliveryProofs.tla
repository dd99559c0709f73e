----------------------- MODULE WebhookDeliveryProofs -----------------------
(***************************************************************************)
(* Proofs about the delivery of events to webhooks, for any webhooks,      *)
(* events, PATCH requests and number of receives: at most one POST per     *)
(* receive, an honest delivery log, and nobody left out of an event whose  *)
(* record is deleted.                                                      *)
(***************************************************************************)
EXTENDS WebhookDelivery, TLAPS

Worker == [pc : Pcs, todo : SUBSET Hooks, hook : Hooks \cup {None}, ok : BOOLEAN]

Busy == {"created", "answered", "marked"}

HooksMade == hooks \subseteq made

\* An invocation has a record that was received, and works on a hook or on none.
WorkerHasRecord == \A e \in Events :
    /\ worker[e].pc # "idle" => queue[e] = "inflight" /\ receives[e] > 0
    /\ worker[e].pc \in {"idle", "started", "done"} => worker[e].todo = {}
    /\ worker[e].pc \in Busy => worker[e].hook \in Hooks \ worker[e].todo

\* The hooks an invocation has still to serve have not got this receive's POST.
NotYetPosted == \A e \in Events :
    /\ worker[e].pc = "started" => \A h \in Hooks : posts[e][h] < receives[e]
    /\ \A h \in worker[e].todo : posts[e][h] < receives[e]
    /\ worker[e].pc = "created" => posts[e][worker[e].hook] < receives[e]

AnswerIsAccepted == \A e \in Events :
    worker[e].pc = "answered" /\ worker[e].ok => <<e, worker[e].hook>> \in accepted

\* A hook that is eligible for an event exists and wants it.
EligibleWants == \A e \in Events : \A h \in eligible[e] : h \in hooks /\ Wants(conf[h], e)

\* An invocation has served, or is about to serve, every eligible hook.
EligibleIsServed == \A e \in Events : worker[e].pc \in Busy \cup {"listed", "done"} =>
    \A h \in eligible[e] : \/ posts[e][h] > 0
                           \/ h \in worker[e].todo
                           \/ worker[e].pc = "created" /\ worker[e].hook = h

\* All of this, and the safety properties, for one event.
EventInv(e) ==
    /\ worker[e].pc # "idle" => queue[e] = "inflight" /\ receives[e] > 0
    /\ worker[e].pc \in {"idle", "started", "done"} => worker[e].todo = {}
    /\ worker[e].pc \in Busy => worker[e].hook \in Hooks \ worker[e].todo
    /\ worker[e].pc = "started" => \A h \in Hooks : posts[e][h] < receives[e]
    /\ \A h \in worker[e].todo : posts[e][h] < receives[e]
    /\ worker[e].pc = "created" => posts[e][worker[e].hook] < receives[e]
    /\ worker[e].pc = "answered" /\ worker[e].ok => <<e, worker[e].hook>> \in accepted
    /\ \A h \in eligible[e] : h \in hooks /\ Wants(conf[h], e)
    /\ worker[e].pc \in Busy \cup {"listed", "done"} =>
          \A h \in eligible[e] : \/ posts[e][h] > 0
                                 \/ h \in worker[e].todo
                                 \/ worker[e].pc = "created" /\ worker[e].hook = h
    /\ \A h \in Hooks : posts[e][h] <= receives[e]
    /\ \A h \in Hooks, n \in 1 .. MaxReceive : log[e][h][n] = "success" => <<e, h>> \in accepted
    /\ queue[e] = "deleted" => \A h \in eligible[e] : posts[e][h] > 0

IInv == /\ TypeOK /\ HooksMade /\ WorkerHasRecord /\ NotYetPosted /\ AnswerIsAccepted
        /\ EligibleWants /\ EligibleIsServed
        /\ PostsAreBounded /\ SuccessIsAccepted /\ AckedIsServed

\* In the initial state there is no webhook and no event.
LEMMA InitIInv == Init => IInv
<1> SUFFICES ASSUME Init PROVE IInv
  OBVIOUS
<1> USE WebhookAssumption DEF Init, Idle
<1>1. TypeOK
  BY DEF TypeOK, Conf, NoPatch, QueueStates, Pcs, Statuses
<1>2. HooksMade /\ WorkerHasRecord /\ NotYetPosted /\ AnswerIsAccepted
  BY DEF HooksMade, WorkerHasRecord, NotYetPosted, AnswerIsAccepted, Busy
<1>3. EligibleWants /\ EligibleIsServed
  BY DEF EligibleWants, EligibleIsServed
<1>4. PostsAreBounded /\ SuccessIsAccepted /\ AckedIsServed
  BY DEF PostsAreBounded, SuccessIsAccepted, AckedIsServed
<1> QED
  BY <1>1, <1>2, <1>3, <1>4 DEF IInv

\* A step of the webhooks Lambda that leaves eligible only hooks that still match,
\* and adds no success to the log, keeps the invariant.
LEMMA HookStep ==
  ASSUME IInv, TypeOK', hooks' \subseteq made',
         UNCHANGED <<queue, receives, worker, posts, accepted>>,
         \A e \in Events : eligible'[e] \subseteq eligible[e],
         \A e \in Events : \A h \in eligible'[e] : h \in hooks' /\ Wants(conf'[h], e),
         \A e \in Events, h \in Hooks, n \in 1 .. MaxReceive :
            log'[e][h][n] \in {log[e][h][n], "none"}
  PROVE  IInv'
<1> USE DEF IInv
<1>1. HooksMade' /\ WorkerHasRecord' /\ NotYetPosted' /\ AnswerIsAccepted' /\ PostsAreBounded'
  BY DEF HooksMade, WorkerHasRecord, NotYetPosted, AnswerIsAccepted, PostsAreBounded
<1>2. EligibleWants'
  BY DEF EligibleWants, Wants, MatchesEvent
<1>3. EligibleIsServed' /\ AckedIsServed'
  BY DEF EligibleIsServed, AckedIsServed
<1>4. SuccessIsAccepted'
  BY DEF SuccessIsAccepted
<1> QED
  BY <1>1, <1>2, <1>3, <1>4

\* The webhooks Lambda keeps the invariant.
LEMMA APIStep == IInv /\ WebhookAPI => IInv'
<1> SUFFICES ASSUME IInv, WebhookAPI PROVE IInv'
  OBVIOUS
<1> USE DEF IInv
<1>1. ASSUME NEW h \in Hooks, NEW types \in Lists, CreateWebhook(h, types) PROVE IInv'
  <2> USE <1>1 DEF CreateWebhook
  <2>1. /\ conf' \in [Hooks -> Conf] /\ \A g \in Hooks \ {h} : conf'[g] = conf[g]
    BY WebhookAssumption DEF TypeOK, Conf
  <2>2. TypeOK'
    BY <2>1 DEF TypeOK
  <2>3. \A e \in Events : \A g \in eligible'[e] : g \in hooks' /\ Wants(conf'[g], e)
    BY <2>1 DEF EligibleWants, HooksMade, TypeOK
  <2>4. hooks' \subseteq made'
    BY DEF HooksMade
  <2> QED
    BY <2>2, <2>3, <2>4, HookStep
<1>2. ASSUME NEW p \in Patches, NEW h \in Hooks, NEW active \in BOOLEAN \cup {None},
             NEW types \in Lists \cup {None}, PatchRead(p, h, active, types)
      PROVE  IInv'
  <2> USE <1>2 DEF PatchRead
  <2>1. conf[h].active \in BOOLEAN /\ conf[h].events \in SUBSET Types
    BY DEF TypeOK, Conf
  <2>2. /\ (IF active = None THEN conf[h].active ELSE active) \in BOOLEAN
        /\ (IF types = None THEN conf[h].events ELSE types) \in SUBSET Types
    BY <2>1, WebhookAssumption
  <2>3. patch' \in [Patches -> [pc : {"idle", "read", "done"}, hook : Hooks \cup {None}, conf : Conf]]
    BY <2>2 DEF TypeOK, Conf
  <2>4. TypeOK'
    BY <2>3 DEF TypeOK
  <2>5. hooks' \subseteq made' /\ \A e \in Events : \A g \in eligible'[e] : g \in hooks' /\ Wants(conf'[g], e)
    BY DEF HooksMade, EligibleWants
  <2> QED
    BY <2>4, <2>5, HookStep
<1>3. ASSUME NEW p \in Patches, UpdateWebhook(p) PROVE IInv'
  <2> USE <1>3 DEF UpdateWebhook
  <2> DEFINE h == patch[p].hook
  <2>1. patch[p].conf \in Conf
    BY DEF TypeOK
  <2>2. patch' \in [Patches -> [pc : {"idle", "read", "done"}, hook : Hooks \cup {None}, conf : Conf]]
    BY DEF TypeOK, NoPatch, Conf
  <2>3. hooks' \subseteq made' /\ hooks \subseteq Hooks
    BY DEF HooksMade, TypeOK
  <2>4. CASE h \in hooks
    <3>1. conf' = [conf EXCEPT ![h] = patch[p].conf] /\ h \in Hooks
      BY <2>3, <2>4
    <3>2. eligible' = [e \in Events |-> IF Wants(patch[p].conf, e) THEN eligible[e] ELSE eligible[e] \ {h}]
      BY <2>4
    <3>3. /\ conf' \in [Hooks -> Conf] /\ conf'[h] = patch[p].conf
          /\ \A g \in Hooks \ {h} : conf'[g] = conf[g]
      BY <2>1, <3>1 DEF TypeOK
    <3>4. /\ eligible' \in [Events -> SUBSET Hooks]
          /\ \A e \in Events : eligible'[e] \subseteq eligible[e]
          /\ \A e \in Events : h \in eligible'[e] => Wants(patch[p].conf, e)
      BY <3>2 DEF TypeOK
    <3>5. \A e \in Events : \A g \in eligible'[e] : g \in hooks' /\ Wants(conf'[g], e)
      BY <2>3, <3>3, <3>4 DEF EligibleWants
    <3>6. TypeOK'
      BY <2>2, <3>3, <3>4 DEF TypeOK
    <3> QED
      BY <2>3, <3>4, <3>5, <3>6, HookStep
  <2>5. CASE h \notin hooks
    <3>1. UNCHANGED <<conf, eligible>>
      BY <2>5
    <3>2. TypeOK'
      BY <2>2, <3>1 DEF TypeOK
    <3>3. \A e \in Events : \A g \in eligible'[e] : g \in hooks' /\ Wants(conf'[g], e)
      BY <3>1 DEF EligibleWants
    <3> QED
      BY <2>3, <3>1, <3>2, <3>3, HookStep
  <2> QED
    BY <2>4, <2>5
<1>4. ASSUME NEW h \in Hooks, DeleteWebhook(h) PROVE IInv'
  <2> USE <1>4 DEF DeleteWebhook
  <2> DEFINE none == [n \in 1 .. MaxReceive |-> "none"]
  <2>1. /\ log' \in [Events -> [Hooks -> [1 .. MaxReceive -> Statuses]]]
        /\ \A e \in Events, g \in Hooks : log'[e][g] = IF g = h THEN none ELSE log[e][g]
    BY DEF TypeOK, Statuses
  <2>2. TypeOK'
    BY <2>1 DEF TypeOK
  <2>3. /\ hooks' \subseteq made'
        /\ \A e \in Events : eligible'[e] \subseteq eligible[e] \ {h}
    BY DEF HooksMade, TypeOK
  <2>4. \A e \in Events : \A g \in eligible'[e] : g \in hooks' /\ Wants(conf'[g], e)
    BY <2>3 DEF EligibleWants
  <2>5. \A e \in Events, g \in Hooks, n \in 1 .. MaxReceive :
           log'[e][g][n] \in {log[e][g][n], "none"}
    BY <2>1
  <2> QED
    BY <2>2, <2>3, <2>4, <2>5, HookStep
<1> QED
  BY <1>1, <1>2, <1>3, <1>4 DEF WebhookAPI

\* The invariant holds of each event on its own.
LEMMA InvOfEvent == ASSUME IInv, NEW e \in Events PROVE EventInv(e)
<1> USE DEF IInv
<1>1. \A h \in Hooks, n \in 1 .. MaxReceive : log[e][h][n] = "success" => <<e, h>> \in accepted
  BY DEF SuccessIsAccepted
<1> QED
  BY <1>1 DEF EventInv, WorkerHasRecord, NotYetPosted, AnswerIsAccepted, EligibleWants,
              EligibleIsServed, PostsAreBounded, AckedIsServed

\* What happens to one event does not touch the others.
LEMMA EventStep ==
  ASSUME IInv, TypeOK', UNCHANGED hookVars, NEW e \in Events,
         \A f \in Events \ {e} :
            /\ queue'[f] = queue[f] /\ receives'[f] = receives[f] /\ worker'[f] = worker[f]
            /\ log'[f] = log[f] /\ posts'[f] = posts[f] /\ eligible'[f] = eligible[f],
         accepted \subseteq accepted',
         EventInv(e)'
  PROVE  IInv'
<1>1. HooksMade'
  BY DEF IInv, HooksMade, hookVars
<1>2. ASSUME NEW f \in Events \ {e} PROVE EventInv(f)'
  <2>1. EventInv(f)
    BY InvOfEvent
  <2> QED
    BY <2>1, <1>2 DEF EventInv, hookVars, Wants, MatchesEvent
<1>3. \A f \in Events : EventInv(f)'
  BY <1>2
<1>4. SuccessIsAccepted'
  BY <1>3 DEF SuccessIsAccepted, EventInv
<1>5. WorkerHasRecord' /\ NotYetPosted' /\ AnswerIsAccepted'
  BY <1>3 DEF WorkerHasRecord, NotYetPosted, AnswerIsAccepted, EventInv
<1>6. EligibleWants' /\ EligibleIsServed' /\ PostsAreBounded' /\ AckedIsServed'
  BY <1>3 DEF EligibleWants, EligibleIsServed, PostsAreBounded, AckedIsServed, EventInv
<1> QED
  BY <1>1, <1>4, <1>5, <1>6 DEF IInv

\* The queue keeps the invariant: what it hands out or takes back is one more receive,
\* which has not posted to anybody.
LEMMA QueueStep == \A e \in Events :
  IInv /\ (PublishEvent(e) \/ Receive(e) \/ DeadLetter(e) \/ ListFails(e) \/ Crash(e) \/ Ack(e)) => IInv'
<1> SUFFICES ASSUME NEW e \in Events, IInv,
                    PublishEvent(e) \/ Receive(e) \/ DeadLetter(e) \/ ListFails(e) \/ Crash(e) \/ Ack(e)
             PROVE  IInv'
  OBVIOUS
<1> USE DEF IInv
<1>0. /\ worker \in [Events -> Worker] /\ queue \in [Events -> QueueStates]
      /\ receives \in [Events -> 0 .. MaxReceive] /\ posts \in [Events -> [Hooks -> Nat]]
      /\ eligible \in [Events -> SUBSET Hooks] /\ hooks \subseteq Hooks
      /\ EventInv(e) /\ MaxReceive \in Nat
  BY InvOfEvent, WebhookAssumption DEF TypeOK, Worker
<1>1. CASE PublishEvent(e)
  <2> USE <1>1 DEF PublishEvent
  <2>1. /\ queue' \in [Events -> QueueStates] /\ queue'[e] = "visible"
        /\ \A f \in Events \ {e} : queue'[f] = queue[f]
    BY <1>0 DEF QueueStates
  <2>2. /\ eligible' \in [Events -> SUBSET Hooks] /\ eligible'[e] = {h \in hooks : Wants(conf[h], e)}
        /\ \A f \in Events \ {e} : eligible'[f] = eligible[f]
    BY <1>0
  <2>3. TypeOK'
    BY <2>1, <2>2 DEF TypeOK
  <2>4. worker[e].pc = "idle"
    BY <1>0 DEF EventInv
  <2>5. EventInv(e)'
    BY <1>0, <2>1, <2>2, <2>4 DEF EventInv, Busy, Wants, MatchesEvent
  <2> QED
    BY <2>1, <2>2, <2>3, <2>5, EventStep DEF hookVars
<1>2. CASE Receive(e)
  <2> USE <1>2 DEF Receive
  <2>1. /\ queue' \in [Events -> QueueStates] /\ queue'[e] = "inflight"
        /\ \A f \in Events \ {e} : queue'[f] = queue[f]
    BY <1>0 DEF QueueStates
  <2>2. /\ receives' \in [Events -> 0 .. MaxReceive] /\ receives'[e] = receives[e] + 1
        /\ \A f \in Events \ {e} : receives'[f] = receives[f]
    BY <1>0
  <2>3. /\ worker' \in [Events -> Worker] /\ worker'[e].pc = "started" /\ worker'[e].todo = worker[e].todo
        /\ \A f \in Events \ {e} : worker'[f] = worker[f]
    BY ZenonT(40), <1>0 DEF Worker, Pcs
  <2>4. TypeOK'
    BY <2>1, <2>2, <2>3 DEF TypeOK, Worker, hookVars
  <2>5. worker[e].todo = {}
    BY <1>0 DEF EventInv
  <2>6. EventInv(e)'
    BY <1>0, <2>1, <2>2, <2>3, <2>5 DEF EventInv, Busy, Wants, MatchesEvent, hookVars
  <2> QED
    BY <2>1, <2>2, <2>3, <2>4, <2>6, EventStep
<1>3. CASE DeadLetter(e)
  <2> USE <1>3 DEF DeadLetter
  <2>1. /\ queue' \in [Events -> QueueStates] /\ queue'[e] = "dead"
        /\ \A f \in Events \ {e} : queue'[f] = queue[f]
    BY <1>0 DEF QueueStates
  <2>2. TypeOK'
    BY <2>1 DEF TypeOK, hookVars
  <2>3. EventInv(e)'
    BY <1>0, <2>1 DEF EventInv, Busy, Wants, MatchesEvent, hookVars
  <2> QED
    BY <2>1, <2>2, <2>3, EventStep
<1>4. CASE ListFails(e) \/ Crash(e)
  <2>0. /\ queue' = [queue EXCEPT ![e] = "visible"] /\ worker' = [worker EXCEPT ![e] = Idle]
        /\ UNCHANGED <<hookVars, receives, log, posts, accepted, eligible>>
    BY <1>4 DEF ListFails, Crash, ReturnRecord
  <2>1. /\ queue' \in [Events -> QueueStates] /\ queue'[e] = "visible"
        /\ \A f \in Events \ {e} : queue'[f] = queue[f]
    BY <1>0, <2>0 DEF QueueStates
  <2>2. /\ worker' \in [Events -> Worker] /\ worker'[e] = Idle
        /\ \A f \in Events \ {e} : worker'[f] = worker[f]
    BY <1>0, <2>0 DEF Worker, Pcs, Idle
  <2>3. TypeOK'
    BY <2>0, <2>1, <2>2 DEF TypeOK, hookVars, Worker
  <2>4. EventInv(e)'
    BY <1>0, <2>0, <2>1, <2>2 DEF EventInv, Busy, Wants, MatchesEvent, hookVars, Idle
  <2> QED
    BY <2>0, <2>1, <2>2, <2>3, <2>4, EventStep
<1>5. CASE Ack(e)
  <2> USE <1>5 DEF Ack
  <2>1. /\ queue' \in [Events -> QueueStates] /\ queue'[e] = "deleted"
        /\ \A f \in Events \ {e} : queue'[f] = queue[f]
    BY <1>0 DEF QueueStates
  <2>2. /\ worker' \in [Events -> Worker] /\ worker'[e] = Idle
        /\ \A f \in Events \ {e} : worker'[f] = worker[f]
    BY <1>0 DEF Worker, Pcs, Idle
  <2>3. TypeOK'
    BY <2>1, <2>2 DEF TypeOK, hookVars, Worker
  <2>4. \A h \in eligible[e] : posts[e][h] > 0
    BY <1>0 DEF EventInv, Busy
  <2>5. EventInv(e)'
    BY <1>0, <2>1, <2>2, <2>4 DEF EventInv, Busy, Wants, MatchesEvent, hookVars, Idle
  <2> QED
    BY <2>1, <2>2, <2>3, <2>5, EventStep
<1> QED
  BY <1>1, <1>2, <1>3, <1>4, <1>5

\* Writing one row of the delivery log changes that row only.
LEMMA LogStep ==
  ASSUME NEW e \in Events, NEW h \in Hooks, NEW n \in 1 .. MaxReceive, NEW s \in Statuses,
         log \in [Events -> [Hooks -> [1 .. MaxReceive -> Statuses]]],
         UNCHANGED log \/ log' = [log EXCEPT ![e][h][n] = s]
  PROVE  /\ log' \in [Events -> [Hooks -> [1 .. MaxReceive -> Statuses]]]
         /\ \A f \in Events \ {e} : log'[f] = log[f]
         /\ \A g \in Hooks, m \in 1 .. MaxReceive :
               log'[e][g][m] = log[e][g][m] \/ (g = h /\ m = n /\ log'[e][g][m] = s)
<1>1. CASE UNCHANGED log
  BY <1>1
<1>2. CASE log' = [log EXCEPT ![e][h][n] = s]
  <2> DEFINE row == [log[e][h] EXCEPT ![n] = s]
             tab == [log[e] EXCEPT ![h] = row]
  <2>1. /\ row \in [1 .. MaxReceive -> Statuses]
        /\ \A m \in 1 .. MaxReceive : row[m] = log[e][h][m] \/ (m = n /\ row[m] = s)
    OBVIOUS
  <2>2. log' = [log EXCEPT ![e] = tab]
    BY <1>2
  <2> HIDE DEF row
  <2>3. /\ tab \in [Hooks -> [1 .. MaxReceive -> Statuses]] /\ tab[h] = row
        /\ \A g \in Hooks \ {h} : tab[g] = log[e][g]
    BY <2>1
  <2> HIDE DEF tab
  <2>4. /\ log' \in [Events -> [Hooks -> [1 .. MaxReceive -> Statuses]]]
        /\ \A f \in Events \ {e} : log'[f] = log[f]
        /\ log'[e] = tab
    BY <2>2, <2>3
  <2> QED
    BY <2>1, <2>3, <2>4
<1> QED
  BY <1>1, <1>2

\* Every step of processRecord keeps the invariant, for the invocation that takes it.
LEMMA DispatchStep == \A e \in Events :
  IInv /\ (ProcessRecord(e) \/ Faults(e)) => IInv'
<1> SUFFICES ASSUME NEW e \in Events, IInv, ProcessRecord(e) \/ Faults(e) PROVE IInv'
  OBVIOUS
<1> DEFINE w == worker[e]
<1>0. /\ worker \in [Events -> Worker] /\ w \in Worker
      /\ receives[e] \in 0 .. MaxReceive /\ receives[e] \in Nat
      /\ posts \in [Events -> [Hooks -> Nat]] /\ \A h \in Hooks : posts[e][h] \in Nat
      /\ log \in [Events -> [Hooks -> [1 .. MaxReceive -> Statuses]]]
      /\ eligible[e] \subseteq Hooks /\ hooks \subseteq Hooks
      /\ accepted \subseteq Events \X Hooks
      /\ MaxReceive \in Nat
  BY WebhookAssumption DEF TypeOK, Worker, IInv
<1>a. TypeOK /\ EventInv(e)
  BY InvOfEvent DEF IInv
<1>1. CASE ListWebhooks(e)
  <2> USE <1>1 DEF ListWebhooks
  <2>1. /\ worker' \in [Events -> Worker] /\ worker'[e].pc = "listed"
        /\ worker'[e].todo = {h \in hooks : Wants(conf[h], e)}
        /\ \A f \in Events \ {e} : worker'[f] = worker[f]
    BY <1>0 DEF Worker, Pcs
  <2>2. TypeOK'
    BY <1>a, <2>1 DEF TypeOK, hookVars, Worker
  <2>3. EventInv(e)'
    BY <1>0, <1>a, <2>1 DEF EventInv, Busy, Wants, MatchesEvent, hookVars
  <2> QED
    BY <2>1, <2>2, <2>3, EventStep
<1>2. ASSUME NEW h \in Hooks, CreateDelivery(e, h) PROVE IInv'
  <2> USE <1>2 DEF CreateDelivery
  <2>1. /\ worker' \in [Events -> Worker] /\ worker'[e].pc = "created" /\ worker'[e].hook = h
        /\ worker'[e].todo = w.todo \ {h}
        /\ \A f \in Events \ {e} : worker'[f] = worker[f]
    BY <1>0 DEF Worker, Pcs
  <2>2. receives[e] \in 1 .. MaxReceive
    BY <1>0, <1>a DEF EventInv
  <2>3. /\ log' \in [Events -> [Hooks -> [1 .. MaxReceive -> Statuses]]]
        /\ \A f \in Events \ {e} : log'[f] = log[f]
        /\ \A g \in Hooks, n \in 1 .. MaxReceive :
              log'[e][g][n] = log[e][g][n] \/ (g = h /\ log'[e][g][n] = "pending")
    <3>1. "pending" \in Statuses
      BY DEF Statuses
    <3>2. PICK m \in 1 .. MaxReceive : m = receives[e]
      BY <2>2
    <3>3. UNCHANGED log \/ log' = [log EXCEPT ![e][h][m] = "pending"]
      BY <3>2
    <3>4. log \in [Events -> [Hooks -> [1 .. MaxReceive -> Statuses]]]
      BY <1>0
    <3>5. /\ log' \in [Events -> [Hooks -> [1 .. MaxReceive -> Statuses]]]
          /\ \A f \in Events \ {e} : log'[f] = log[f]
          /\ \A g \in Hooks, n \in 1 .. MaxReceive :
                log'[e][g][n] = log[e][g][n] \/ (g = h /\ n = m /\ log'[e][g][n] = "pending")
      BY ONLY <3>1, <3>3, <3>4, LogStep
    <3> QED
      BY ONLY <3>5
  <2>4. TypeOK'
    BY <1>a, <2>1, <2>3 DEF TypeOK, hookVars, Worker
  <2>5. EventInv(e)'
    <3>0. w.pc = "listed" /\ h \in w.todo /\ UNCHANGED <<hookVars, queue, receives, posts, accepted, eligible>>
      OBVIOUS
    <3>1. \A g \in Hooks, n \in 1 .. MaxReceive : log'[e][g][n] = "success" => <<e, g>> \in accepted'
      BY <1>a, <2>3, <3>0 DEF EventInv
    <3>2. \A g \in eligible[e] : g \in hooks' /\ Wants(conf'[g], e)
      BY <1>a, <3>0 DEF EventInv, hookVars
    <3>3. posts[e][h] < receives[e] /\ \A g \in worker'[e].todo : posts[e][g] < receives[e]
      BY <1>a, <2>1, <3>0 DEF EventInv
    <3>4. \A g \in eligible[e] : posts[e][g] > 0 \/ g \in worker'[e].todo \/ worker'[e].hook = g
      BY <1>a, <2>1, <3>0 DEF EventInv
    <3>5. /\ worker'[e].hook \in Hooks \ worker'[e].todo
          /\ queue[e] = "inflight" /\ receives[e] > 0
      BY <1>a, <2>1, <3>0 DEF EventInv
    <3> QED
      BY ONLY <1>a, <2>1, <3>0, <3>1, <3>2, <3>3, <3>4, <3>5 DEF EventInv, Busy
  <2> QED
    BY <2>1, <2>3, <2>4, <2>5, EventStep
<1>3. ASSUME NEW ok \in BOOLEAN, Deliver(e, ok) PROVE IInv'
  <2> USE <1>3 DEF Deliver
  <2>1. /\ worker' \in [Events -> Worker] /\ worker'[e].pc = "answered" /\ worker'[e].hook = w.hook
        /\ worker'[e].todo = w.todo /\ worker'[e].ok = ok
        /\ \A f \in Events \ {e} : worker'[f] = worker[f]
    BY <1>0 DEF Worker, Pcs
  <2>2. w.hook \in Hooks /\ posts[e][w.hook] < receives[e]
    BY <1>a DEF EventInv, Busy
  <2>3. /\ posts' \in [Events -> [Hooks -> Nat]]
        /\ \A f \in Events \ {e} : posts'[f] = posts[f]
        /\ \A g \in Hooks : posts'[e][g] = IF g = w.hook THEN posts[e][g] + 1 ELSE posts[e][g]
    BY <1>0, <2>2
  <2>4. /\ accepted \subseteq accepted' /\ accepted' \subseteq Events \X Hooks
        /\ ok => <<e, w.hook>> \in accepted'
    BY <1>0, <2>2
  <2>5. TypeOK'
    BY <1>a, <2>1, <2>3, <2>4 DEF TypeOK, hookVars, Worker
  <2>6. EventInv(e)'
    <3> USE <1>0, <1>a, <2>1, <2>2, <2>3, <2>4 DEF EventInv, Busy, hookVars
    <3>1. \A h \in Hooks : posts[e][h] <= posts'[e][h] /\ posts'[e][h] <= receives[e]
      OBVIOUS
    <3>2. \A h \in w.todo : posts'[e][h] < receives[e]
      OBVIOUS
    <3>3. \A h \in eligible[e] : posts'[e][h] > 0 \/ h \in w.todo
      OBVIOUS
    <3>4. \A h \in eligible[e] : h \in hooks' /\ Wants(conf'[h], e)
      BY DEF Wants, MatchesEvent
    <3>5. \A h \in Hooks, n \in 1 .. MaxReceive : log'[e][h][n] = "success" => <<e, h>> \in accepted'
      OBVIOUS
    <3> QED
      BY <3>1, <3>2, <3>3, <3>4, <3>5
  <2> QED
    BY <2>1, <2>3, <2>4, <2>5, <2>6, EventStep
<1>4. CASE DeliverHangs(e)
  <2> USE <1>4 DEF DeliverHangs, ReturnRecord
  <2>1. /\ worker' \in [Events -> Worker] /\ worker'[e] = Idle
        /\ \A f \in Events \ {e} : worker'[f] = worker[f]
    BY <1>0 DEF Worker, Pcs, Idle
  <2>2. w.hook \in Hooks /\ posts[e][w.hook] < receives[e]
    BY <1>a DEF EventInv, Busy
  <2>3. /\ posts' \in [Events -> [Hooks -> Nat]]
        /\ \A f \in Events \ {e} : posts'[f] = posts[f]
        /\ \A g \in Hooks : posts'[e][g] = IF g = w.hook THEN posts[e][g] + 1 ELSE posts[e][g]
    BY <1>0, <2>2
  <2>4. /\ queue' \in [Events -> QueueStates] /\ queue'[e] = "visible"
        /\ \A f \in Events \ {e} : queue'[f] = queue[f]
    BY <1>a DEF TypeOK, QueueStates
  <2>5. TypeOK'
    BY <1>a, <2>1, <2>3, <2>4 DEF TypeOK, hookVars, Worker
  <2>6. EventInv(e)'
    BY <1>0, <1>a, <2>1, <2>2, <2>3, <2>4 DEF EventInv, Busy, Wants, MatchesEvent, hookVars, Idle
  <2> QED
    BY <2>1, <2>3, <2>4, <2>5, <2>6, EventStep
<1>5. CASE MarkDelivery(e)
  <2> DEFINE status == IF w.ok THEN "success" ELSE FailedStatus(1)
  <2>0. /\ w.pc = "answered"
        /\ UNCHANGED log \/ log' = [log EXCEPT ![e][w.hook][receives[e]] = status]
        /\ worker' = [worker EXCEPT ![e].pc = "marked"]
        /\ UNCHANGED <<hookVars, queue, receives, posts, accepted, eligible>>
    BY <1>5 DEF MarkDelivery
  <2>1. /\ worker' \in [Events -> Worker] /\ worker'[e].pc = "marked" /\ worker'[e].hook = w.hook
        /\ worker'[e].todo = w.todo
        /\ \A f \in Events \ {e} : worker'[f] = worker[f]
    BY <1>0, <2>0 DEF Worker, Pcs
  <2>2. receives[e] \in 1 .. MaxReceive /\ w.hook \in Hooks
    BY <1>0, <2>0, <1>a DEF EventInv, Busy
  <2>3. status \in Statuses /\ (status = "success" => <<e, w.hook>> \in accepted)
    BY <1>a, <2>0 DEF Statuses, FailedStatus, MaxRetries, EventInv
  <2> HIDE DEF status
  <2>5. /\ log' \in [Events -> [Hooks -> [1 .. MaxReceive -> Statuses]]]
        /\ \A f \in Events \ {e} : log'[f] = log[f]
        /\ \A g \in Hooks, n \in 1 .. MaxReceive :
              log'[e][g][n] = log[e][g][n] \/ (g = w.hook /\ log'[e][g][n] = status)
    <3>1. PICK s \in Statuses : s = status
      BY <2>3
    <3>2. PICK h \in Hooks : h = w.hook
      BY <2>2
    <3>3. PICK n \in 1 .. MaxReceive : n = receives[e]
      BY <2>2
    <3>4. UNCHANGED log \/ log' = [log EXCEPT ![e][h][n] = s]
      BY <2>0, <3>1, <3>2, <3>3
    <3>5. log \in [Events -> [Hooks -> [1 .. MaxReceive -> Statuses]]]
      BY <1>0
    <3>6. /\ log' \in [Events -> [Hooks -> [1 .. MaxReceive -> Statuses]]]
          /\ \A f \in Events \ {e} : log'[f] = log[f]
          /\ \A g \in Hooks, m \in 1 .. MaxReceive :
                log'[e][g][m] = log[e][g][m] \/ (g = h /\ m = n /\ log'[e][g][m] = s)
      BY <3>4, <3>5, LogStep
    <3> QED
      BY ONLY <3>1, <3>2, <3>6
  <2>6. TypeOK'
    BY <1>a, <2>0, <2>1, <2>5 DEF TypeOK, hookVars, Worker
  <2>7. EventInv(e)'
    <3>1. \A h \in Hooks, n \in 1 .. MaxReceive : log'[e][h][n] = "success" => <<e, h>> \in accepted'
      BY <1>a, <2>0, <2>3, <2>5 DEF EventInv
    <3>2. \A h \in eligible[e] : h \in hooks' /\ Wants(conf'[h], e)
      BY <1>a, <2>0 DEF EventInv, hookVars
    <3>3. \A h \in eligible[e] : posts[e][h] > 0 \/ h \in w.todo
      BY <1>a, <2>0 DEF EventInv, Busy
    <3>4. UNCHANGED <<made, hooks, queue, receives, posts, accepted, eligible>>
      BY <2>0 DEF hookVars
    <3> QED
      BY <1>0, <1>a, <2>0, <2>1, <3>1, <3>2, <3>3, <3>4 DEF EventInv, Busy
  <2> QED
    BY <2>0, <2>1, <2>5, <2>6, <2>7, EventStep
<1>6. CASE MarkDeliveryFails(e) \/ MarkHook(e)
  <2>0. /\ w.pc \in {"answered", "marked"}
        /\ worker' = [worker EXCEPT ![e].pc = "listed", ![e].hook = None, ![e].ok = FALSE]
        /\ UNCHANGED <<hookVars, queue, receives, log, posts, accepted, eligible>>
    BY <1>6 DEF MarkDeliveryFails, MarkHook, NextHook
  <2>1. /\ worker' \in [Events -> Worker] /\ worker'[e].pc = "listed" /\ worker'[e].todo = w.todo
        /\ \A f \in Events \ {e} : worker'[f] = worker[f]
    BY <1>0, <2>0 DEF Worker, Pcs
  <2>2. TypeOK'
    BY <1>a, <2>0, <2>1 DEF TypeOK, hookVars, Worker
  <2>3. EventInv(e)'
    BY <1>0, <1>a, <2>0, <2>1 DEF EventInv, Busy, Wants, MatchesEvent, hookVars
  <2> QED
    BY <2>0, <2>1, <2>2, <2>3, EventStep
<1>7. CASE EndOfLoop(e)
  <2> USE <1>7 DEF EndOfLoop
  <2>1. /\ worker' \in [Events -> Worker] /\ worker'[e].pc = "done" /\ worker'[e].todo = {}
        /\ \A f \in Events \ {e} : worker'[f] = worker[f]
    BY <1>0 DEF Worker, Pcs
  <2>2. TypeOK'
    BY <1>a, <2>1 DEF TypeOK, hookVars, Worker
  <2>3. EventInv(e)'
    BY <1>0, <1>a, <2>1 DEF EventInv, Busy, Wants, MatchesEvent, hookVars
  <2> QED
    BY <2>1, <2>2, <2>3, EventStep
<1> QED
  BY <1>1, <1>2, <1>3, <1>4, <1>5, <1>6, <1>7, QueueStep DEF ProcessRecord, Faults

\* Every step of the system keeps the invariant.
LEMMA StepIInv == IInv /\ [Next]_vars => IInv'
<1>1. ASSUME IInv, UNCHANGED vars PROVE IInv'
  BY <1>1 DEF vars, IInv, TypeOK, HooksMade, WorkerHasRecord, NotYetPosted, AnswerIsAccepted,
              EligibleWants, EligibleIsServed, PostsAreBounded, SuccessIsAccepted, AckedIsServed,
              Wants, MatchesEvent
<1> QED
  BY <1>1, APIStep, QueueStep, DispatchStep DEF Next

\* The inductive invariant, for any numbers of webhooks, events, PATCH requests and receives.
THEOREM WebhookInvariant == Spec => []IInv
  BY InitIInv, StepIInv, PTL DEF Spec

\* Type correctness: among others, the delivery log only ever has a status the schema knows.
THEOREM WebhookTypeOK == Spec => []TypeOK
<1>1. IInv => TypeOK
  BY DEF IInv
<1> QED
  BY <1>1, WebhookInvariant, PTL

\* processRecord posts an event to a webhook at most once per receive of its record, however
\* the webhooks are created, patched and deleted under the loop.
THEOREM WebhookPostsAreBounded == Spec => []PostsAreBounded
<1>1. IInv => PostsAreBounded
  BY DEF IInv
<1> QED
  BY <1>1, WebhookInvariant, PTL

\* MarkSuccess is only ever reached after a 2xx answer to a POST of this event to this webhook.
THEOREM WebhookSuccessIsAccepted == Spec => []SuccessIsAccepted
<1>1. IInv => SuccessIsAccepted
  BY DEF IInv
<1> QED
  BY <1>1, WebhookInvariant, PTL

\* A record is deleted only after every webhook that matched all along was sent the event,
\* whatever the answers and the errors of the log statements.
THEOREM WebhookAckedIsServed == Spec => []AckedIsServed
<1>1. IInv => AckedIsServed
  BY DEF IInv
<1> QED
  BY <1>1, WebhookInvariant, PTL

-----------------------------------------------------------------------------
(* The delivery log is written once: what AnswersAreFinal rests on. *)

\* The rows of receives to come do not exist yet, nor do those of the hooks the loop has
\* still to serve; the hook it is serving has no answer in the log.
LogFollows(e) ==
    /\ \A h \in Hooks, n \in 1 .. MaxReceive : n > receives[e] => log[e][h][n] = "none"
    /\ worker[e].pc = "started" => \A h \in Hooks : log[e][h][receives[e]] = "none"
    /\ \A h \in worker[e].todo : log[e][h][receives[e]] = "none"
    /\ worker[e].pc \in {"created", "answered"} =>
          log[e][worker[e].hook][receives[e]] \in {"none", "pending"}

LogFollowsLoop == \A e \in Events : LogFollows(e)

\* What a step may do to the rows of one event: of the code this holds of 'retrying' rows
\* too, more than AnswersAreFinal asks.
Final(e) == \A h \in Hooks, n \in 1 .. MaxReceive :
    \/ log'[e][h][n] \in {log[e][h][n], "none"}
    \/ n = receives[e] /\ log[e][h][n] \in {"none", "pending"}

\* Of the loop's invariant, what the proofs about the log use.
LEMMA LoopFacts ==
  ASSUME IInv, NEW e \in Events
  PROVE  /\ worker \in [Events -> Worker] /\ receives \in [Events -> 0 .. MaxReceive]
         /\ log \in [Events -> [Hooks -> [1 .. MaxReceive -> Statuses]]]
         /\ hooks \subseteq Hooks /\ MaxReceive \in Nat
         /\ worker[e].todo \subseteq Hooks
         /\ worker[e].pc # "idle" => receives[e] \in 1 .. MaxReceive
         /\ worker[e].pc \in {"idle", "started", "done"} => worker[e].todo = {}
         /\ worker[e].pc \in Busy => worker[e].hook \in Hooks \ worker[e].todo
BY WebhookAssumption DEF IInv, TypeOK, Worker, WorkerHasRecord

\* A step that leaves the log and the other events alone, and the event's loop where its
\* rows are still accounted for.
LEMMA LogKept ==
  ASSUME LogFollowsLoop, NEW e \in Events, UNCHANGED log,
         \A f \in Events \ {e} : worker'[f] = worker[f] /\ receives'[f] = receives[f],
         LogFollows(e)'
  PROVE  LogFollowsLoop' /\ \A f \in Events : Final(f)
<1>1. ASSUME NEW f \in Events \ {e} PROVE LogFollows(f)'
  BY <1>1 DEF LogFollowsLoop, LogFollows
<1> QED
  BY <1>1 DEF LogFollowsLoop, Final

\* One row of the event's own receive is written, which had no answer.
LEMMA LogWritten ==
  ASSUME LogFollowsLoop, NEW e \in Events, NEW h \in Hooks, NEW s \in Statuses,
         log \in [Events -> [Hooks -> [1 .. MaxReceive -> Statuses]]],
         receives[e] \in 1 .. MaxReceive, UNCHANGED receives,
         UNCHANGED log \/ log' = [log EXCEPT ![e][h][receives[e]] = s],
         log[e][h][receives[e]] \in {"none", "pending"},
         \A f \in Events \ {e} : worker'[f] = worker[f],
         worker'[e].todo \subseteq worker[e].todo \ {h}, worker[e].todo \subseteq Hooks,
         worker'[e].pc # "started",
         worker'[e].pc \in {"created", "answered"} => worker'[e].hook = h /\ s \in {"none", "pending"}
  PROVE  LogFollowsLoop' /\ \A f \in Events : Final(f)
<1>1. PICK m \in 1 .. MaxReceive : m = receives[e]
  OBVIOUS
<1>2. UNCHANGED log \/ log' = [log EXCEPT ![e][h][m] = s]
  BY <1>1
<1>3. /\ \A f \in Events \ {e} : log'[f] = log[f]
      /\ \A g \in Hooks, n \in 1 .. MaxReceive :
            log'[e][g][n] = log[e][g][n] \/ (g = h /\ n = m /\ log'[e][g][n] = s)
  <2> HIDE <1>1
  <2> QED
    BY <1>2, LogStep
<1>4. ASSUME NEW f \in Events \ {e} PROVE LogFollows(f)' /\ Final(f)
  BY <1>3, <1>4 DEF LogFollowsLoop, LogFollows, Final
<1>5. LogFollows(e)
  BY DEF LogFollowsLoop
<1>6. LogFollows(e)'
  <2>1. \A g \in Hooks, n \in 1 .. MaxReceive : n > receives[e] => log'[e][g][n] = "none"
    BY <1>1, <1>3, <1>5 DEF LogFollows
  <2>2. \A g \in worker'[e].todo : log'[e][g][m] = "none"
    BY <1>1, <1>3, <1>5 DEF LogFollows
  <2>3. worker'[e].pc \in {"created", "answered"} => log'[e][worker'[e].hook][m] \in {"none", "pending"}
    BY <1>1, <1>3, <1>5
  <2> QED
    BY <1>1, <2>1, <2>2, <2>3 DEF LogFollows
<1>7. Final(e)
  BY <1>1, <1>3 DEF Final
<1> QED
  BY <1>4, <1>6, <1>7 DEF LogFollowsLoop

\* The webhooks Lambda takes rows away, with the webhook, and writes none.
LEMMA APILog == IInv /\ LogFollowsLoop /\ WebhookAPI => LogFollowsLoop' /\ \A e \in Events : Final(e)
<1> SUFFICES ASSUME IInv, LogFollowsLoop, WebhookAPI, NEW e \in Events
             PROVE  LogFollows(e)' /\ Final(e)
  BY DEF LogFollowsLoop
<1>0. /\ log \in [Events -> [Hooks -> [1 .. MaxReceive -> Statuses]]]
      /\ worker[e].todo \subseteq Hooks
      /\ worker[e].pc # "idle" => receives[e] \in 1 .. MaxReceive
      /\ worker[e].pc = "idle" => worker[e].todo = {}
      /\ worker[e].pc \in Busy => worker[e].hook \in Hooks
  BY LoopFacts
<1>1. UNCHANGED <<worker, receives>>
  BY DEF WebhookAPI, CreateWebhook, PatchRead, UpdateWebhook, DeleteWebhook
<1>2. \A g \in Hooks, n \in 1 .. MaxReceive : log'[e][g][n] \in {log[e][g][n], "none"}
  <2>1. ASSUME NEW h \in Hooks, DeleteWebhook(h), NEW g \in Hooks, NEW n \in 1 .. MaxReceive
        PROVE  log'[e][g][n] \in {log[e][g][n], "none"}
    BY <1>0, <2>1 DEF DeleteWebhook
  <2>2. CASE UNCHANGED log
    BY <2>2
  <2>3. UNCHANGED log \/ \E h \in Hooks : DeleteWebhook(h)
    BY DEF WebhookAPI, CreateWebhook, PatchRead, UpdateWebhook
  <2> QED
    BY <2>1, <2>2, <2>3
<1>3. LogFollows(e)
  BY DEF LogFollowsLoop
<1>4. Final(e)
  BY <1>2 DEF Final
<1>5. \A g \in Hooks, n \in 1 .. MaxReceive : log[e][g][n] = "none" => log'[e][g][n] = "none"
  BY <1>2
<1>6. worker[e].pc \in {"created", "answered"} =>
         log'[e][worker[e].hook][receives[e]] \in {"none", "pending"}
  BY <1>0, <1>2, <1>3 DEF LogFollows, Busy
<1>7. worker[e].todo # {} => receives[e] \in 1 .. MaxReceive
  BY <1>0
<1>8. LogFollows(e)'
  BY <1>0, <1>1, <1>3, <1>5, <1>6, <1>7 DEF LogFollows
<1> QED
  BY <1>4, <1>8

\* The queue and the dispatcher write only rows of the receive they work on, once before the
\* POST and once after it.
LEMMA EventLog == \A e \in Events :
  /\ IInv /\ LogFollowsLoop
  /\ PublishEvent(e) \/ Receive(e) \/ DeadLetter(e) \/ ProcessRecord(e) \/ Faults(e)
  => LogFollowsLoop' /\ \A f \in Events : Final(f)
<1> SUFFICES ASSUME NEW e \in Events, IInv, LogFollowsLoop,
                    PublishEvent(e) \/ Receive(e) \/ DeadLetter(e) \/ ProcessRecord(e) \/ Faults(e)
             PROVE  LogFollowsLoop' /\ \A f \in Events : Final(f)
  OBVIOUS
<1> DEFINE w == worker[e]
           Goal == LogFollowsLoop' /\ \A f \in Events : Final(f)
<1>0. /\ worker \in [Events -> Worker] /\ receives \in [Events -> 0 .. MaxReceive]
      /\ log \in [Events -> [Hooks -> [1 .. MaxReceive -> Statuses]]]
      /\ hooks \subseteq Hooks /\ MaxReceive \in Nat
      /\ w.todo \subseteq Hooks
      /\ w.pc # "idle" => receives[e] \in 1 .. MaxReceive
      /\ w.pc \in {"idle", "started", "done"} => w.todo = {}
      /\ w.pc \in Busy => w.hook \in Hooks \ w.todo
  BY LoopFacts
<1>a. LogFollows(e)
  BY DEF LogFollowsLoop
<1>1. ASSUME PublishEvent(e) \/ DeadLetter(e) PROVE Goal
  BY <1>1, <1>a, LogKept DEF PublishEvent, DeadLetter, LogFollows
<1>2. ASSUME Receive(e) PROVE Goal
  <2>1. /\ worker'[e].pc = "started" /\ worker'[e].todo = w.todo
        /\ \A f \in Events \ {e} : worker'[f] = worker[f]
    BY ZenonT(40), <1>0, <1>2 DEF Receive, Worker
  <2>2. /\ receives'[e] = receives[e] + 1 /\ receives[e] < MaxReceive /\ UNCHANGED log
        /\ \A f \in Events \ {e} : receives'[f] = receives[f]
    BY <1>0, <1>2 DEF Receive
  <2>3. w.todo = {} /\ receives[e] \in 0 .. MaxReceive
    <3>1. queue[e] # "inflight"
      BY <1>2 DEF Receive
    <3> QED
      BY <1>0, <3>1 DEF IInv, WorkerHasRecord
  <2>4. receives[e] + 1 \in 1 .. MaxReceive
    BY <1>0, <2>2, <2>3
  <2>5. LogFollows(e)'
    BY <1>0, <1>a, <2>1, <2>2, <2>3, <2>4 DEF LogFollows
  <2> QED
    BY <2>1, <2>2, <2>5, LogKept
<1>3. ASSUME ListFails(e) \/ Crash(e) \/ DeliverHangs(e) \/ Ack(e) PROVE Goal
  <2>1. worker' = [worker EXCEPT ![e] = Idle] /\ UNCHANGED <<receives, log>>
    BY <1>3 DEF ListFails, Crash, DeliverHangs, Ack, ReturnRecord
  <2>2. /\ worker'[e].pc = "idle" /\ worker'[e].todo = {}
        /\ \A f \in Events \ {e} : worker'[f] = worker[f]
    BY <1>0, <2>1 DEF Idle
  <2>3. LogFollows(e)'
    BY <1>a, <2>1, <2>2 DEF LogFollows
  <2> QED
    BY <2>1, <2>2, <2>3, LogKept
<1>4. ASSUME ListWebhooks(e) PROVE Goal
  <2>1. /\ worker'[e].pc = "listed" /\ worker'[e].todo = {h \in hooks : Wants(conf[h], e)}
        /\ \A f \in Events \ {e} : worker'[f] = worker[f]
        /\ UNCHANGED <<receives, log>> /\ w.pc = "started"
    BY <1>0, <1>4 DEF ListWebhooks, Worker
  <2>2. LogFollows(e)'
    BY <1>0, <1>a, <2>1 DEF LogFollows
  <2> QED
    BY <2>1, <2>2, LogKept
<1>5. ASSUME NEW h \in Hooks, CreateDelivery(e, h) PROVE Goal
  <2>1. /\ worker'[e].pc = "created" /\ worker'[e].hook = h /\ worker'[e].todo = w.todo \ {h}
        /\ \A f \in Events \ {e} : worker'[f] = worker[f]
        /\ UNCHANGED receives /\ w.pc = "listed" /\ h \in w.todo
        /\ UNCHANGED log \/ log' = [log EXCEPT ![e][h][receives[e]] = "pending"]
    BY <1>0, <1>5 DEF CreateDelivery, Worker
  <2>2. "pending" \in Statuses /\ log[e][h][receives[e]] \in {"none", "pending"}
    BY <1>a, <2>1 DEF Statuses, LogFollows
  <2> HIDE DEF Goal
  <2>3. LogFollowsLoop' /\ \A f \in Events : Final(f)
    BY <1>0, <2>1, <2>2, LogWritten
  <2> QED
    BY <2>3 DEF Goal
<1>6. ASSUME NEW ok \in BOOLEAN, Deliver(e, ok) PROVE Goal
  <2>1. /\ worker'[e].pc = "answered" /\ worker'[e].hook = w.hook /\ worker'[e].todo = w.todo
        /\ \A f \in Events \ {e} : worker'[f] = worker[f]
        /\ UNCHANGED <<receives, log>> /\ w.pc = "created"
    BY <1>0, <1>6 DEF Deliver, Worker
  <2>2. LogFollows(e)'
    BY <1>a, <2>1 DEF LogFollows
  <2> QED
    BY <2>1, <2>2, LogKept
<1>7. ASSUME MarkDelivery(e) PROVE Goal
  <2> DEFINE status == IF w.ok THEN "success" ELSE FailedStatus(1)
  <2>0. UNCHANGED log \/ log' = [log EXCEPT ![e][w.hook][receives[e]] = status]
    BY <1>7 DEF MarkDelivery
  <2>1. /\ worker'[e].pc = "marked" /\ worker'[e].todo = w.todo
        /\ \A f \in Events \ {e} : worker'[f] = worker[f]
        /\ UNCHANGED receives /\ w.pc = "answered"
    BY <1>0, <1>7 DEF MarkDelivery, Worker
  <2>2. status \in Statuses
    BY DEF Statuses, FailedStatus, MaxRetries
  <2>3. w.hook \in Hooks \ w.todo /\ log[e][w.hook][receives[e]] \in {"none", "pending"}
    BY <1>0, <1>a, <2>1 DEF LogFollows, Busy
  <2> HIDE DEF Goal, status
  <2>4. PICK h \in Hooks : h = w.hook
    BY <2>3
  <2>5. PICK s \in Statuses : s = status
    BY <2>2
  <2>6. /\ UNCHANGED log \/ log' = [log EXCEPT ![e][h][receives[e]] = s]
        /\ log[e][h][receives[e]] \in {"none", "pending"}
        /\ worker'[e].todo \subseteq w.todo \ {h}
        /\ worker'[e].pc # "started" /\ worker'[e].pc \notin {"created", "answered"}
    BY <2>0, <2>1, <2>3, <2>4, <2>5
  <2>7. LogFollowsLoop' /\ \A f \in Events : Final(f)
    BY <1>0, <2>1, <2>6, LogWritten
  <2> QED
    BY <2>7 DEF Goal
<1>8. ASSUME MarkDeliveryFails(e) \/ MarkHook(e) \/ EndOfLoop(e) PROVE Goal
  <2>1. /\ worker'[e].pc \in {"listed", "done"} /\ worker'[e].todo = w.todo
        /\ \A f \in Events \ {e} : worker'[f] = worker[f]
        /\ UNCHANGED <<receives, log>>
    BY <1>0, <1>8 DEF MarkDeliveryFails, MarkHook, NextHook, EndOfLoop, Worker
  <2>2. LogFollows(e)'
    BY <1>a, <2>1 DEF LogFollows
  <2> QED
    BY <2>1, <2>2, LogKept
<1> QED
  BY <1>1, <1>2, <1>3, <1>4, <1>5, <1>6, <1>7, <1>8 DEF ProcessRecord, Faults

\* Every step of the system writes the log only where Final allows it.
LEMMA StepLog == IInv /\ LogFollowsLoop /\ [Next]_vars => LogFollowsLoop' /\ \A e \in Events : Final(e)
<1>1. ASSUME LogFollowsLoop, UNCHANGED vars PROVE LogFollowsLoop' /\ \A e \in Events : Final(e)
  BY <1>1 DEF vars, LogFollowsLoop, LogFollows, Final
<1> QED
  BY <1>1, APILog, EventLog DEF Next

\* No invocation writes a delivery row of another receive, nor one that has its answer,
\* whatever is killed or redelivered.
THEOREM WebhookAnswersAreFinal == Spec => AnswersAreFinal
<1>1. Init => LogFollowsLoop
  BY WebhookAssumption DEF Init, LogFollowsLoop, LogFollows, Idle
<1>2. (\A e \in Events : Final(e)) =>
         \A e \in Events, h \in Hooks, n \in 1 .. MaxReceive :
            \/ log[e][h][n] = "retrying"
            \/ log'[e][h][n] \in {log[e][h][n], "none"}
            \/ n = receives[e] /\ log[e][h][n] \in {"none", "pending"}
  BY DEF Final
<1> QED
  BY <1>1, <1>2, WebhookInvariant, StepLog, PTL DEF Spec, AnswersAreFinal
=============================================================================
