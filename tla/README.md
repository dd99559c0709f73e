# nGX: TLA+ models, model checking and proofs

nGX is an email platform for AI agents: an HTTP API over inboxes, threads,
messages and drafts, Lambdas that receive and send mail through Amazon SES, and
queues that carry jobs and domain events between them. This directory holds TLA+
models of its core, the TLC configurations that check them on small instances,
and theorems checked by TLAPS.

`PROJECT.json` lists components, runs, mutants, the map from definitions to
source lines, findings, hazards and theorems.

## 1. Inventory

### Parts of the system

| Part | Source | State | Operations |
|---|---|---|---|
| Message service | `services/inbox/service/message_service.go` | rows of `messages`, `threads` | Send, ReplyAll, Forward, Update, Get/List |
| `email_outbound` Lambda | `lambdas/email_outbound` | message row; FIFO job queue | processRecord: load, SES SendEmail, record result |
| `ses_events` Lambda | `lambdas/ses_events` | message row | delivery, bounce, complaint, reject, rendering failure, engagement |
| Draft service, `drafts` Lambda | `services/inbox/service/draft_service.go` | rows of `drafts`, `draft_attachments`; S3 objects | Create, Update, Delete, Approve, Reject |
| `scheduler_drafts` Lambda | `lambdas/scheduler_drafts` | none of its own | query due drafts, approve each |
| `email_inbound` Lambda | `lambdas/email_inbound`, `services/email-pipeline/store` | message, thread, attachment rows | per S3 object, per recipient: look up inbox, find or start thread, insert, count, publish |
| Inbox service | `services/inbox/service/inbox_service.go` | rows of `inboxes` | Create (seat limit), Update, Delete |
| Webhooks API | `lambdas/webhooks` | rows of `webhooks` | Create, PATCH (read-modify-write), DELETE, list deliveries |
| `event_dispatcher_webhook` | `lambdas/event_dispatcher_webhook`, `services/webhook-service/store` | `webhook_deliveries`, `failure_count`; queue with DLQ | list hooks, POST, record |
| Event publisher | `pkg/sqs/publisher.go`, `pkg/events` | SQS queues | PublishEvent to webhook, WebSocket and embedder queues |
| WebSocket connect, disconnect, dispatch | `lambdas/ws_*`, `lambdas/event_dispatcher_ws` | `websocket_connections` | upsert, delete, post to every connection |
| Threads and labels | `thread_service.go`, `lambdas/threads` | thread status, labels | PATCH in three transactions |
| Custom domains | `services/domains` | domain rows, SES identities, receipt rules | Register, Verify, Delete (a saga without a transaction) |
| Authorizer, license refresh | `lambdas/authorizer`, `lambdas/license_refresh`, `scripts/setup-env.sh` | API keys, SSM parameter, license cached per container, policies cached by API Gateway | authorize, refresh, activate |
| Organizations, pods, keys | `lambdas/orgs`, `lambdas/auth` | orgs, pods, API keys | CRUD |
| Embedder, search | `lambdas/embedder`, `lambdas/search` | embeddings | update, query |
| Helpers | `pkg/mime`, `pkg/pagination`, `pkg/crypto`, `pkg/s3`, `pkg/db` | none | stateless, apart from transactions |

### How they interact

* The API and the Lambdas share one PostgreSQL database. Transactions run at
  READ COMMITTED, no statement uses `SELECT ... FOR UPDATE`, so between the read
  and the write of one transaction any other may commit. Row locks exist from an
  `UPDATE`, `DELETE` or referencing `INSERT` to the end of the transaction.
* Jobs and events travel through SQS. A record is delivered at least once: it is
  deleted when the handler returns nil and becomes visible again otherwise.
  `email_outbound` is a FIFO queue without a dead-letter queue (retention one
  day), `webhook_delivery` has a dead-letter queue, `email_inbound` neither.
* Send, Approve and Reject publish **inside** their transaction, before the
  commit; `email_inbound` publishes after it. Publication errors are dropped.
* SES reports outcomes asynchronously, late, repeatedly and in any order.

### What is hard, and what makes each part correct

| Part | Hard behaviour | What must hold |
|---|---|---|
| Outbound | job before commit; crash after SES accepted; notices racing the worker | no email without a row; a status is backed by what SES did; duplicates only through faults; jobs reach SES |
| Drafts | overlapping reviews, edits, deletions and the scheduler; lock order | a pending draft has no message; decided once; attachments go to one message; every call ends |
| Inbound | redelivery, several recipients, logged errors that abort a transaction, deletion of inboxes | counts without drift; threads stay in their inbox and are conversations; one recipient does not cost another its copy |
| Webhooks | hooks change under the dispatcher; HTTP timeout equal to the Lambda's; redelivery | bounded POSTs; a truthful log; every subscribed hook served; every event settles |
| Events, WebSockets | several queues, each may fail; connect and disconnect race dispatch; a failed post removes a row | a failure costs only the client or queue it hits; the table loses no client without a failed post |
| Threads, labels | overlapping PATCH requests of several transactions; listings of rows that move | requests merge; the last event names the status; stable rows are listed once |
| Custom domains | three stores without a transaction; late Verify; rule names that collide | registered domains are routed; no rule without a row; 'active' was confirmed for this row |
| Inboxes, pods | seats counted before the insert; claims older than the pods | the limit is passed only through overlap or PATCH; inboxes stay in the pod of their key |
| Authorizer | three caches; revocation racing an answer; refresh racing activation | a revoked key stays out; a license that remains serves its keys |

The hazards, each at its line, are in `PROJECT.json`.

## 2. Modules

| Module | Models | Kind |
|---|---|---|
| `Outbound` | Send as producer of the job, `email_outbound`, `ses_events` | component, three concurrent processes |
| `MessageOutcome` | what the pipeline promises of a message to whoever reads its status | abstract specification |
| `OutboundProofs` | theorems about `Outbound`, the refinement included | proofs |
| `DraftReview` | DraftService as transactions with row locks, `scheduler_drafts` | component |
| `ReviewDecision` | what a review promises: a draft is decided once, and sent as one message exactly if approved | abstract specification |
| `ReviewedMail` | `DraftReview` as the producer of `Outbound`'s jobs | composition |
| `DraftReviewProofs` | theorems about `DraftReview` and `ReviewedMail`, the refinements included | proofs |
| `Inbound` | `email_inbound`, Send as a writer of threads, inbox PATCH and DELETE | component |
| `InboundProofs` | theorems about `Inbound` | proofs |
| `WebhookDelivery` | webhooks API, `event_dispatcher_webhook`, its queue | component |
| `WebhookDeliveryProofs` | theorems about `WebhookDelivery` | proofs |
| `EventFanout` | PublishEvent, `event_dispatcher_ws`, `ws_connect`, `ws_disconnect`, `embedder` and their queues | composition: publisher, queues, consumers and the gateway |
| `EventFanoutProofs` | theorems about `EventFanout` | proofs |
| `DomainSaga` | DomainService over SES and the database | component |
| `DomainSagaProofs` | theorems about `DomainSaga` | proofs |
| `Threads` | PATCH of a thread and its status event | component |
| `ThreadListing` | listing by cursor and filter; labels | component |
| `ThreadsProofs` | theorems about `Threads` and `ThreadListing` | proofs |
| `Tenancy` | InboxService and the pods of an organization | component |
| `Authorizer` | authorizer, API keys, `license_refresh`, license activation | component |
| `TenancyProofs` | theorems about `Tenancy` and `Authorizer` | proofs |
| `MC*` | instances for TLC: symmetry, constant functions | instances |

Definitions named `X_Suffix` after a definition `X` are mutants: plausible bugs
of the code `X` models. Replacing `X` by its mutant must break the property the
mutant is listed for; this shows that the property depends on that code.

### Outbound

Two messages share no row, job or notice, so all variables are functions of the
message. `tx` is the creating transaction (`SendInsert`, `SendPublish` or
`SendPublishFails`, `SendCommit` or `SendAbort`, `SendAnnounce`), `row` the status
other transactions see, `job` the record in the FIFO queue, `worker` the
invocation that holds it. `LoadMessage` is the first transaction of
processRecord, `SESAccept`/`SESRefuse` the SES call, `RecordSent`,
`RecordSentFails`, `RecordFailed` the second transaction. `RecordFailed` leaves
the row alone, as the code does: the closure returns the send error, so
`WithOrgTx` rolls back the update to 'failed'. A job whose row is not visible
(not committed yet, rolled back, or deleted) makes the handler return an error,
so the job is retried until it expires. `EmailBounced`, `EmailFailed`,
`EmailDelivered` are the ses_events handlers; `said` remembers what SES has
reported, a refusal included, and `notices` what waits in the queue. SES may report an
outcome again after it was applied, which also models repeated delivery.

`SendAbort` may come before the insert (a parent or an inbox that is not there) or
after it. `MessageOutcome` is the pipeline without its machinery: a message is
created, submitted to SES any number of times, refused by it or not, marked with
what SES reported, settled and deleted. A refusal may mark a message 'failed', as
`docs/internals.md` has it, and need not, as the code has it: neither
`NegativeIsReported` nor the refinement depends on which of the two is done. `Outbound` implements it (`OutcomeIsTrue`), where `settled` is a
job that was acknowledged.

### DraftReview

A call is a transaction cut where another one can come between: the check of the
status (a plain read), the listing of attachments, the statement that locks the
attachment rows, the `UPDATE` or `DELETE` that locks the draft row, publication,
commit. `held` says whether attachment rows are locked. An UPDATE that finds
its row gone fails; the status is not looked at again, as in the code. Approve
takes attachment rows before the draft row, Update and Delete after it, so
lock-order deadlocks occur and PostgreSQL ends them by aborting one transaction
(`DeadlockAbort`). An Approve that waits for an Update that replaces the attachments
goes on with the rows its statement saw and moves none of the new ones (`Replacing`). The scheduler reads a batch of due drafts and approves
them one after the other. `Serial = TRUE` is the system with one call at a
time: it is used to state what the code does guarantee, never to hide what it
does not.

### ReviewedMail

Approve inserts, links and publishes a message of its own, without Send. The module
`EXTENDS` the review and takes the pipeline as `Mail == INSTANCE Outbound`, where
`tx` is not a variable but a function of the state of the call (`TxOf`).
`Handover` is what a step of the review does to the pipeline: the job is on the
queue with the publication, the row is visible with the commit, and a Publish
that failed is a fault. Because `tx` is substituted, the composition cannot fit the two
together by construction: that every step of a review is a step of a sender that
`Outbound` knows, or none, is `MailWorks`, the refinement `PipeSpec => Mail!Spec`,
and everything proved of `Outbound` then holds of messages made by reviews. The
notices of SES and the deletion of an inbox change only the status of a row that is
there; they are left to `Outbound`.

### Inbound

A message UUID is `<<mail, receive, position>>`: each receive of a notification
generates fresh ones. A thread is named by the message that started it. `tx` is
the invocation (or Send call) and the transaction it is in: inbox lookup outside
of the transaction, `FindThread`, `Insert` (foreign keys: inbox and thread must
still exist; share locks keep them), `IncrMessageCount` (row lock on the
thread), `Commit`, `Publish`. Errors that the code only logs have aborted the
PostgreSQL transaction (`AttachmentFails`, `MergeFails`), and the error of one
recipient is logged by the loop (`Lose`) which goes on. Send looks the
parent up in the organization, so a reply may be put into a thread of another
inbox. An inbox is active or not: 'suspended' stands for every other status a PATCH
may set, 'deleted' included, since the lookup refuses them alike. Whether an email parses is a choice, since its content is abstract.

### WebhookDelivery

`hooks` is the table of webhooks and `worker[e].todo` what is left of the
dispatcher's copy of it. Both are sets: `ListWebhooks` sorts by `created_at`, and
the model serves the webhooks in any order, which includes that one.
The statements of the dispatcher are autocommitted one by one: `ListWebhooks`,
`CreateDelivery`, `Deliver` (answered 2xx or not), `MarkDelivery`, `MarkHook`.
`DeliverHangs` is an endpoint that outlasts the Lambda: the client's timeout
is the Lambda's own (30 s). `Crash` may hit anywhere. `Receive` and `DeadLetter`
model `maxReceiveCount`. PATCH is two steps (`PatchRead`, `UpdateWebhook`), as the
Lambda reads a row and writes it back whole.

### EventFanout

`pub` is what a PublishEvent call has still to send, `unsent` the queues it could
not reach. `link` is what API Gateway knows of a client, `row` the table: the two
are written by different parties, and the module is about how far they agree.
`eligible` is a history variable, the clients whose row was live ever since the
event was published. `Post` and `PostFails` are one iteration of the dispatcher's
loop; any error removes the row, as in the code. The embedder logs every error and
returns nil, so that its record is deleted. The consumer of `webhook_delivery` is
`WebhookDelivery`.

### DomainSaga

A call is cut at every call to SES and every transaction. A row and a receipt rule
are named by the Register call that made them, so that a domain registered again
is a different row. `RuleName` maps domains to rule names, since receiptRuleName
replaces characters and two domains may collide. The insert of the row may have been
committed although `WithTx` returns an error; Register takes the rule back all the same
and fails (`InsertFails`, `RollbackRule`, pc "undone"). A row it leaves behind in this way
has no rule, and `RegisteredIsRouted` does not speak of it. An error of SES comes before
or after its effect: after, where it is only logged, it is the action itself. `cut` records
which rule a Delete, or a rollback under a committed row, has removed, `polled` which row SES confirmed, `faults` the names at which a
rule may have been left behind by a crash, an SES error or the cascade from a pod.

### Threads and ThreadListing

`Threads` models PATCH: up to three transactions in the order of the handler, the
first with its plain read, UPDATE (row lock), publication and commit. `earlier` is a
history variable, the requests that had ended when a request began: `PatchIsKept`
compares the fields of the row with the patches of the others. `ThreadListing` models
`threadStore.List`: a thread's key is `<<last_message_at, id>>`, a page is the first
`Limit` of what matches after the cursor, and a further row decides whether there is
a next cursor. Between pages, messages arrive (`IncrMessageCount` may also set an
older time, since callers take the time before they wait for the lock), threads
change status and labels come and go. Lists of messages, inboxes, drafts and keys use the
same pattern with a key that never changes, a special case.

### Tenancy

Claims come from the authorizer's cached policy and may name a pod that is gone.
Create counts the active inboxes by a statement of its own (`CountSeats`) and
inserts later (`InsertInbox`); `fresh` says that no inbox became active between.
Deleting a pod sets the `pod_id` of its inboxes to NULL. `PolicyApplies` says
whether row-level security binds the role of the Lambdas; the run has it FALSE, the
weaker assumption.

### Authorizer

`policy` is API Gateway's cache (300 s, allow and deny alike), `job` a key that was
found valid by a container that has not answered yet, `fetched` the parameter as that
container has read it, `cached` the token of each container, `ssm` the parameter. A token is its plan, organization and serial
number; `expired` grows with time. A token without an expiry (`Lasting`) is never
cached. Verifying a token, caching it and answering is one step, under `licenseMu`.
The license server is external: it renews or upgrades a paid license for its own
organization only, and may answer any request with the sentinel. The revocation check of a cold start only
logs, so it is not a guard. `setup-env.sh` reads the parameter, takes a failed
read for no license, and writes later, as `license_refresh` does.

## 3. Runs

### Properties that hold

| Run | Instance | Shows |
|---|---|---|
| `outbound` | 1 message, up to 3 faults | the safety invariants, `NegativeIsFinal`, that `Outbound` implements `MessageOutcome`, and `JobReachesSES` under fairness |
| `draft` | 1 draft, 3 overlapping calls, symmetry | pending and approved drafts and their messages agree; attachments are linked once; no attachment row without its object; whoever waits, some call can go on |
| `reviewed_mail` | 1 draft, 3 calls, one at a time, 1 fault, symmetry | `DraftReview` implements `ReviewDecision` and, with the pipeline, `Outbound`; what was sent is what was reviewed; SES gets nothing that was not approved |
| `inbound` | 1 email to 2 inboxes, received up to twice, 1 Send | counts, threads, served recipients and announced messages |
| `webhook` | 1 event, 2 webhooks that subscribe to everything or to another type, 1 PATCH, 2 receives | bounded POSTs, a truthful log whose answers stay, every subscribed webhook served, every event settles |
| `fanout` | 2 clients, 1 message event, 2 receives | every client with a live row is posted to; the table loses no client without a failed post; events reach clients under fairness |
| `domain` | 2 domains with one rule name, 4 calls, symmetry | registered domains are routed, no orphan rules without faults, 'active' was confirmed for this row |
| `threads` | 1 thread, 4 PATCH requests, symmetry | the last event names the status of the row; what an answered PATCH wrote is kept |
| `thread_listing` | 3 threads, 2 times, pages of 1, 1 label | stable threads are listed exactly once |
| `tenancy` | 3 requests, 3 addresses, 2 pods, limits, symmetry | the pod of an inbox; when the seat limit holds |
| `authorizer` | 2 keys, 1 container, a license without an expiry, one of another organization, and the trial | a revoked key stays out; a license that remains serves its keys |

`CHECK_DEADLOCK FALSE` everywhere: an instance has finitely many messages, calls
or events, and the system rests once they are processed. That calls do not wait
for each other is `NoCallIsStuck`.

Why the bounds suffice. *Outbound*: messages do not interact, so one is
general; three faults let a message be refused by SES, lose its commit and crash
in one history, and the theorems hold for any number. *Drafts*: drafts share
nothing but the scheduler's batch; three calls are the smallest number at which an
update comes between two overlapping approvals. *Reviewed mail*: one fault per message is
enough for a failed publication or for a redelivery that sends a second copy; three calls
are an update, a review and another one that must not get through. `EmailIsReviewed` and
`MailWorks` are also theorems without the assumption that calls come one at a time.
*Inbound*: two recipients let one
fail and the other be served, two receives are a redelivery, the Send call gives the
email a thread to find, to race for and, through the other inbox, to corrupt.
*Webhooks*: two webhooks let one failure precede the other's delivery, two receives
are a redelivery followed by the dead-letter queue (`webhook_max_retries` is larger,
but only repeats that step). Events share only `failure_count`, which no property
reads. *Events*: two clients let a failure at one precede the post to the other;
events share only the table. *Domains*: a Register, a Delete of its row that
overlaps another, and a second Register of the name take four calls. *Threads*:
four requests let two changes of status overlap while others set flags.
*Listing*: three threads and pages of one make a thread before, at and after the
cursor; two times make ties and moves. *Tenancy*: three requests let one count, one
insert meanwhile and one come later. *Authorizer*: one container keeps the checks of
two keys apart in time but not in state: cache and policies are shared; a second
container only adds a second cache.

### Fairness

* `Outbound`: weak fairness of `ReceiveJob` and `ProcessRecord`. The event source
  mapping polls for ever, and a Lambda invocation goes on unless a fault ends it;
  faults are bounded by `MaxFaults`. Nothing is assumed of callers, of SES
  notices or of retention (`ExpireJob` may happen and is an outcome).
* `WebhookDelivery`: weak fairness of `Receive`, `DeadLetter` and `ProcessRecord`;
  crashes and hangs are bounded by `maxReceiveCount`, which is the queue's.
* `EventFanout`: weak fairness of the publisher's sends, of receives and of the
  steps of an invocation. Nothing is assumed of clients, and a record may always
  become too old.
* `Authorizer`: policies expire (weak fairness). The client of a key keeps asking;
  other keys may keep a container busy, and SSM or a container may fail, but not at
  every check of the key for ever: strong fairness of `ValidateKey`, `FetchToken` and
  `CheckLicense` per key. Lambda starts further containers under load, so that this is
  weaker than what the service does.
* `Inbound`, `DomainSaga`, `Threads`, `ThreadListing`, `Tenancy` and `DraftReview`
  have no liveness property: nothing bounds failures there, calls are not
  retried, and what is lost stays lost.

### Disagreements between code and documents

The run `draft_sent_twice` states what a test says (`tests/integration/api_test.go`:
approving an approved draft is refused) and finds it violated: two overlapping
approvals both pass the check and both send.

Others seen while modelling, visible in the models and without a run of their own:

* `docs/internals.md` says that an SES error sets the status to 'failed'. The update
  is rolled back by the error the closure returns (`RecordFailed`): the row stays
  'sending' while `message.bounced` is out. `SendingIsQueued` says that its job is still queued; nothing
  says that 'failed' is recorded.
* `GetMessageByID` does not select `has_attachments`, so `email_outbound` never loads
  attachments: emails leave without them.
* `MarkFailed` "schedules a retry", and `docs/data-model.md` speaks of a scheduler:
  nothing calls `GetPendingRetries`, and the record is deleted. No property says
  that a retry comes, nor that it does not: `AnswersAreFinal` leaves 'retrying' rows out.
* `docs/internals.md` says a failing inbox lookup is retried; the loop logs the error
  and the notification is deleted (`LookupFails`, `Lose`).
* A retry after SES accepted an email sends it again (`RecordSentFails`, `Crash`);
  `docs/internals.md` calls FIFO deduplication the prevention of duplicate sends. It
  deduplicates enqueueing only, and an API client that repeats a request gets a
  fresh UUID. What does hold is `DuplicatesNeedFaults`.
* `SendPublishFails`: the row commits as 'sending' without a job; the comment in
  `message_service.go` says "the pipeline can retry", and nothing does. What holds is
  `SendingIsQueued`: this and the retention of the queue are the only ways to get there.
* A Reject that overlaps an Approve leaves a 'rejected' draft that was sent;
  integration tests expect a decided draft to be refused.
* Update uploads attachments before it checks the status: a refused PATCH of an
  approved draft has replaced the object the sent message refers to. The key is
  made of draft and file name.
* A hanging endpoint leaves its `webhook_deliveries` row 'pending' for ever;
  `docs/internals.md` says the record is updated with success or failure.
* `CreateAttachment` errors "do not abort the transaction" (`docs/internals.md`):
  PostgreSQL has aborted it, and the message is lost.
* A malformed email has no recipients left and is dropped; `docs/internals.md`
  and the log line ("creating minimal record") say a row is written.
* A redelivered notification stores the email again; `docs/internals.md` says one
  row per inbox.
* A reply through another inbox is counted in the parent's thread and not
  uncounted when its inbox is deleted (`Left` in `Inbound`); `docs/data-model.md`
  says the count is updated on delete. `CountHasNoDrift` allows both.
* `docs/data-model.md` says `failure_count` is used to disable webhooks; no code
  does.
* `docs/internals.md` says that a connection is removed when the client is gone; the
  dispatcher removes it on any error (`PostFails`), and the client gets no events
  until it connects again.
* The embedder's handler says "Return error to trigger SQS retry"; `processRecord`
  returns nil on every error, so that nothing is retried (`Embed`).
* `thread.status_changed` may carry an old status that was never replaced: it is read
  without a lock (`ReadOldStatus`). ApplyLabel does not look at the organization of
  the label, and publishes no `label.applied`, although the type exists.
* A Delete of a domain that overlaps another one may remove the rule of a
  registration made meanwhile (`Stale` in `DomainSaga`); deleting a pod removes its
  domains' rows and nothing in SES; a Register that fails after its commit took effect
  leaves a row without a rule, which a Verify may make active; a verified identity is left behind by a failed
  Register. Overlapping Verify calls may set a status back.
* The seat limit may be passed by overlapping requests and by a PATCH that
  reactivates an inbox. Deleting a pod sets `api_keys.pod_id` to NULL, so that its
  keys become keys of the whole organization.
* A license that was replaced is seen by a container only when the cached one
  expires; `license_refresh` may overwrite what `setup-env.sh` wrote.

Outside of the models: the `email_inbound` handler takes an S3 event, while
`terraform/lambda_triggers.tf` feeds it from SQS; `MergeThreadParticipants` orders a
`DISTINCT` aggregate by another expression, which PostgreSQL rejects (the model
lets the statement succeed or fail); row-level security does not bind the owner of
a table, and the Lambdas connect with the role that created them.

## 4. Theorems

All proofs are checked by TLAPS (SMT, Zenon, LS4) to the last leaf. They hold for
every value of the constants that satisfies the named assumptions.

| Theorem | States | Assumes |
|---|---|---|
| `OutboundTypeOK` | type correctness | `OutboundAssumption` |
| `OutboundNoPhantomEmail`, `OutboundNegativeIsReported`, `OutboundSendingIsQueued` | the safety invariants of the run | same |
| `OutboundSentIsAccepted` | 'sent' means that SES accepted an email | same |
| `OutboundOutcomeIsTrue` | `Outbound` implements `MessageOutcome` | same |
| `OutboundDuplicates` | copies of an email are at most one more than its faults | same |
| `OutboundNegativeIsFinal` | after the acknowledgement no step turns a negative status into 'sent' | same |
| `DraftTypeOK` | type correctness | `DraftAssumption` |
| `DraftPendingHasNoMessage`, `DraftApprovedHasMessage` | drafts and messages agree, for any number of overlapping calls | same |
| `DraftAttachmentHasObject` | no attachment row without its object | same |
| `DraftAttachmentsLinkedOnce` | attachments go to one message, or to one more per update that replaced them | same |
| `DraftNoLockWaitForever` | while calls are active, one waits for no lock or is aborted to break a cycle | same |
| `DraftSentAsReviewed` | an approved draft shows what was sent | and `Serial` |
| `DraftDecidedOnce` | `DraftReview` implements `ReviewDecision` | and `Serial` |
| `ReviewedMailWorks` | `ReviewedMail` implements `Outbound` | `DraftAssumption`, `PipeAssumption` |
| `ReviewedMailIsReviewed` | no email leaves for a draft that is pending, for any number of overlapping calls | same |
| `ReviewedMailIsObeyed` | no email of a rejected draft, and of a draft no two messages | and `Serial` |
| `InboundInvariant`, `InboundCountHasNoDrift`, `InboundThreadInInbox`, `InboundThreadIsConversation`, `InboundAckedIsServed`, `InboundAnnouncedIsStored` | type correctness and the safety invariants of the run | `InboundAssumption`, `NullAssumption` |
| `WebhookTypeOK`, `WebhookPostsAreBounded`, `WebhookSuccessIsAccepted`, `WebhookAckedIsServed` | type correctness and the safety invariants of the run | `WebhookAssumption` |
| `WebhookAnswersAreFinal` | a delivery row is written by its own receive, and a final answer stays | same |
| `FanoutTypeOK`, `FanoutAckedIsPosted`, `FanoutListedUnlessHit` | type correctness and the safety invariants of the run | `FanoutAssumption` |
| `DomainTypeOK`, `DomainRegisteredIsRouted`, `DomainNoOrphanRule`, `DomainActiveWasPolled` | type correctness and the safety invariants of the run | `DomainAssumption` |
| `ThreadsTypeOK`, `ThreadsAnnouncedInOrder`, `ThreadsPatchIsKept` | type correctness and the safety invariants of the run | `ThreadsAssumption` |
| `ListingStableIsListed` | a stable thread is listed exactly once | `ListingAssumption` |
| `TenancyPodOfCreator`, `TenancySeatsHold` | the pod of an inbox; when the seat limit holds | `TenancyAssumption` |
| `RevokedKeyStaysOut` | a key that is out stays out | `None \notin Keys` |

The bounds of the instances (faults, receives, PATCH requests, calls, times) are
constants or sets of any size here. The assumptions say that `None` is no
identifier, that a table of the instance (the recipients of an email, the owner of a
client) has the domain it needs, and that a page, a receive count or a limit is a
number. `Serial` is the one assumption about behaviour, and only the
three theorems that name it use it: without it their statements are false, as the run
`draft_sent_twice` shows for `DraftDecidedOnce`.

*Outbound.* None of the properties is inductive: `NoPhantomEmail` needs to know that
a worker that has loaded a message saw its committed row (`MailHasRow`), which
needs that a row exists exactly if its transaction committed (`RowFollowsTx`).
`SendingIsQueued` needs that a worker that is done has left the row settled
(`DoneIsSettled`), and that a committed row without a job has met a fault
(`JobUnlessFault`).
`DuplicatesNeedFaults` needs an account of who may still send: a worker that
has loaded the message, or a job that can come back, has one fault in hand for
each copy so far (`CopiesPaidFor`). A copy is made by spending it, and a job
returns to the queue only through another fault. `NegativeIsFinal` follows from
`WorkerHoldsJob`: an acknowledged job has no worker, and the only writer left,
ses_events, does not overwrite a negative status with 'sent'. The faults bound plays
no part in the proofs. The refinement goes action by action (`StepOutcome`): the
steps of queue and workers that `MessageOutcome` does not see change none of its
variables (`HiddenStep`), and for the others the invariant supplies the guard of the abstract
action: `SESHasMail` for a report, `DoneIsSettled` for settling.

*Drafts.* `PendingHasNoMessage` rests on the row lock and not on the check, which may
be stale: a commit by the lock's holder never writes 'pending', and nobody can
commit a message without writing the row. `LocksExclude` and `LockedRowExists`
say so. `CheckIsFresh` is the extra invariant of the refinement: with one call at a
time the status that was checked is the status that is replaced. The refinement
mapping is `status` of the row and the set of committed messages made from the
draft; Create, Approve, Reject and Delete commits are steps of `ReviewDecision`, all
others stutter.

The attachments have an invariant of their own, `LinkInv`. A draft is given
attachment rows once when it is created and once by each committed update that
replaces them; `LinkCount` counts the messages that took rows, and the rows still
there, against that number. It is kept because a commit that takes or deletes rows
holds them (`HeldIsAttached`, `TouchedIsHeld`). For the lock argument, `HeldLate`
says that attachment rows are taken late: their holder has at most the draft row
left to wait for, and the holder of the draft row at most the attachment rows.
So behind every chain of waits is a call that runs or a cycle of two, and PostgreSQL
aborts one of those (`LockIsReleased`). `ReadIsCurrent` carries what an approval has
read to its commit, for `DraftSentAsReviewed`.

*Reviewed mail.* `PipeInv` is the invariants of the two parts and one that joins them,
`QueueHasJobs`: a call has published if and only if its job has been on the queue. A step of
the review moves the transaction of one call by one step of Send, or not at all
(`TxMove`), and what `Handover` does then is that step of `Outbound` (`HandoverIsSend`); so the
theorems of `OutboundProofs`, taken for this instance, apply. `EmailIsReviewed` combines
`NoPhantomEmail` there (the row of an email was committed) with `PendingHasNoMessage`
here; `ReviewIsObeyed` combines it with the refinement of `ReviewDecision`.

*Inbound.* Everything rests on fresh UUIDs. `Past(m)` says that the UUID `m` will not be
generated again, by comparing its receive and position with those of its
invocation; stored messages, threads and announcements are `Past`, and the UUID that
an open transaction is about to insert is not. Hence an insert adds one message
to one thread, and `CountInv` follows by counting stored messages and those that left
their thread. `Referred` says what the foreign keys hold while a transaction is
open: the inbox and the thread of an inserted row do not go. `Conversation` carries
what `FindThread` saw to the commit, although the thread may lose messages
meanwhile. `ServedSoFar` is the loop invariant over the recipients.

*Webhooks.* The proof goes event by event (`EventInv`), since events share only the
table of webhooks. `NotYetPosted` gives the bound on POSTs: the hooks an
invocation has still to serve have had fewer POSTs than receives.
`EligibleIsServed` is the loop invariant behind `AckedIsServed`: an eligible hook was
posted to, is still on the copy of the list, or is the one in hand; it survives
PATCH and DELETE, because whoever is changed or deleted is no longer eligible.
`AnswersAreFinal` has an invariant of its own, `LogFollowsLoop`: rows of receives to come and of
hooks still to do are not there, and the hook in hand has no answer yet, so that each
of the two writes of an iteration finds a row it may write.

*Events.* `DispatchCovers` is the same for clients: eligible ones were tried or are
still to do. It needs `EligibleIsListed`, since the list is read after the event was
published. `ConnectedIsListed` covers a client from `connecting` on, because the
row is written before the gateway lets the client in.

*Domains.* The rule a Register has made is still there or its loss is on record
(`RuledHolds`); a rule without a fault has a row or a Register that will make it
or roll it back (`OwnedRule`); a Delete that is past the rule has removed it
(`DeleteIsPast`), so that deleting the row leaves no orphan. `PolledStatus` ties the
status a Verify will write to the row it asked SES about; since a row is
named by its registration, a late answer cannot touch a newer row. Faults (a crash,
an SES error, the cascade from a pod) enlarge `faults`, which is all the proof uses
of them.

*Threads.* `LocksExclude` gives one holder of a row lock. `LastEvent` and
`PublishedIsLast` say that the last event is ahead of the row only while its
publisher holds that lock. `FieldIsKept` states `PatchIsKept` for a field from the moment
its request is past it, since later transactions of the same request may still fail;
`EarlierEnded` says that a request of before writes nothing any more, so that whoever
writes over a field is none of them.

*Listing.* `ListInv` says that a stable thread has been returned once if the cursor is
past it, and not at all otherwise. The step is about the order of keys: a thread's
rank is the number of threads before it, a query with `LIMIT n` returns those of a rank
below `n`, so that a page is closed under what comes before, and if the further row
is missing nothing is left (`PageIsFirst`). This uses that a set of threads that is
not empty has a first and a last element, from well-founded induction on their ranks.

*Tenancy and Authorizer.* A counted request of a pod's key will use that pod
(`PodIsKeys`); a fresh count still has room (`FreshHasRoom`), which makes `SeatsHold`
a property of the one INSERT that follows. `RevokedStaysOut` needs only the types:
every answer that allows is preceded by a lookup of the key, and a key that is out has
no lookup behind it.

Strengthened invariants were tried with TLC on the run's instance before they were proved. Type
invariants are theorems only: no run spends a property on them.

Only model-checked:

* liveness (`JobReachesSES`, `EventSettles`, `EventReachesClients`, `LicenseServes`): it is
  out of the prover's reach;
* `NoCallIsStuck`, which is stated with ENABLED; `DraftNoLockWaitForever` proves the
  argument behind it, with the guards written out.

## 5. Not modelled

* MIME parsing and building, address formatting, URL and token checks, encryption,
  signatures: character-level data without state.
* Search: ranking is numeric.
* Read flags of messages, names of organizations, pods and labels: single-statement
  updates of data nothing else reads.
* Engagement notices of SES: they publish an event and change no row.
* Row-level security as such: it depends on the role the deployment connects with.
* Terraform and migrations are read for timeouts, retention, receive counts and
  constraints only.

## 6. Plan

All safety properties of the runs but `NoCallIsStuck` are theorems. What is left:

1. Composition: `WebhookDelivery` as the consumer of a queue of `EventFanout`, and
   `Outbound` as a publisher of its events.
2. Abstract specifications for further components, proved to be implemented: a
   registration (`DomainSaga`), a delivery (`WebhookDelivery`).
3. Organizations and API keys beyond what `Tenancy` and `Authorizer` need of them.
