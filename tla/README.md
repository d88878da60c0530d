# EasyMod: a TLA+ verification of the messaging and commerce backend

EasyMod answers the Facebook Page inbox of small shops with an AI agent, takes
orders in the chat, books couriers and bills the shops.  The part of it that is
hard to get right is the Node backend in `src/EasyMod-backend/src`: several web
processes, a worker process, PostgreSQL, Redis with BullMQ, Meta, bKash and the
couriers, none of which wait for each other.  This directory holds TLA+ modules
translated from that code, the TLC configurations that check them on small
instances, and TLAPS proofs of what matters most for every instance.

Paths below are relative to `src/EasyMod-backend/src`.

## 1. Inventory of the system

| Component | State it keeps | Operations | Modelled by |
|---|---|---|---|
| Webhook receipts (`modules/integration/meta-webhook-receipt.service.js`) | one row per provider event: status, processing token, queue job id, encrypted replay body, retry counter, tenant binding, deadlines | record, claim, mark (skipped, processed, queued, failed), defer, rebind, dead-letter, claim due, purge | `InboundReceipts` |
| Webhook event handler (`modules/integration/meta-webhook-events.handler.js`) | none of its own; writes messages, consents, echoes | page webhook, ingest one event, store message, STOP, opt-in, echo, dispatch | `InboundReceipts` |
| Burst coalescer (`jobs/burst-coalescer.js`) | Redis keys `burst:pending`, `burst:firstseen`; the BullMQ job of a burst | schedule, replace, attach receipts, cancel, clear | `InboundReceipts` |
| Receipt reconciler (`jobs/webhook-receipt-reconciler.job.js`) | none; a batch in memory | claim due receipts, inspect their job, confirm, defer, replay, purge | `InboundReceipts` |
| Message worker (`jobs/message-worker.js`) | job state in BullMQ, Redis dedup key, AI message candidate, conversation lock | load the turn, guard, generate, claim a candidate, claim the send, send, finalize, settle receipts | settlement of receipts in `InboundReceipts`, the automatic reply in `AutoReply`, the order flow inside a turn in `OrderTaking` |
| Message lifecycle and delivery reconciler (`modules/conversation/message-lifecycle.js`, `jobs/inbox-delivery-reconciler.job.js`) | `delivery_state` of outbound messages, the delivery lock | send, confirm, fail, hold, dismiss, recover stale sends | automatic candidates and the lock in `AutoReply`; not approved drafts and the reconciler |
| Turn recovery (`modules/ai/recovery/turn-recovery.service.js`) | durable turn rows, handoffs | start a turn, call a person, watchdog | start and handoff in `AutoReply` |
| Conversations and handoff (`modules/conversation/*.service.js`, `modules/mobile`) | handling mode of a conversation, status, Resume boundary, Redis pause | reply by hand, take over, resume, close, archive, pause | their effect on an automatic reply in `AutoReply` |
| Consent (`modules/consent/consent.service.js`) | opt-in and opt-out per customer and channel | record, revoke, check | the opt-out against the send boundary in `AutoReply` |
| Order sessions (`modules/order/order-session-standalone.service.js`, `modules/conversation/order-flow.service.js`) | one row per order a customer is placing: status, step, the cart in `step_data` | start, step, suspend, resume, cancel, confirm | `OrderTaking` |
| Orders (`modules/order/order.service.js`) | the order row, its items, the stock of products | create under an idempotency key, confirm, cancel, restock, book, delete | creation, stock and cancellation in `OrderTaking`; confirmation, payment, cancellation and booking in `CourierBooking` |
| Order confidence gate (`modules/order-confidence`) | one versioned decision row per order | evaluate, release or hold a booking, resolve | `OrderConfidence` |
| Courier dispatch (`modules/delivery/*.service.js`, `modules/webhooks/courier-webhook.routes.js`) | dispatch claim, tracking row, courier reference of the order | claim, book, record, commit, fail, apply a status callback | `CourierBooking` |
| Invoices (`modules/subscription/invoice-payment.service.js`, `modules/payment/bangladesh-payment.service.js`, `jobs/failed-payment-reconciler.js`) | invoice row with checkout lease and payment binding, subscription status | check out, settle, cancel a checkout, dun, suspend, activate | `InvoicePayment` |
| Subscription and usage (`modules/subscription/subscription.service.js`, `jobs/monthly-usage-reset.js`) | plan, status, usage counters, period | change plan, meter, reset | change of plan and activation in `InvoicePayment` |
| Top-ups and payment webhooks (`topup.service.js`, `payment-webhook.controller.js`) | top-up transaction, top-up balance | check out, complete, apply a webhook | not modelled |
| Sessions and native auth (`modules/auth`) | refresh tokens, sessions | login, rotate, revoke | not modelled |
| Meta channels and provider (`modules/channel-providers`) | channel status, token | connect, disconnect, refresh token, send | status and outcomes only, as environment |
| AI answer generation (`modules/ai`, `rag`, `knowledge`) | text, embeddings | generate, ground, gate | not modelled: text in, text out |
| Growth OS, notifications, live events, scheduled-job plumbing, front ends | CRM rows, best-effort fan-out, views | ordinary transactions | not modelled |

How the parts interact.  Meta posts a webhook; the handler records a receipt for
each event, resolves the Page, claims the receipt and ingests the event; a
message is stored and a burst job is scheduled in BullMQ, replacing the pending
one of that conversation; the receipt names the job.  The worker runs the job,
loads every unanswered customer message, runs the order flow over the customer's
order session if there is one, generates and sends one reply, and a listener
settles the receipts the job carries.  The reconciler wakes up every few minutes
and replays what is due through the same ingestion.  A confirmed summary becomes
an order in one transaction that also takes the stock.  Confirmation, payment
and the desk all end in `bookForOrder`, which asks the confidence gate, takes a
durable claim, calls the courier and records the parcel; the courier's callbacks
move the order later.  Once a month a subscription is invoiced, the owner pays
through bKash, and a daily job duns what is overdue.

Processes share rows only through conditional updates, short transactions and
leases, and between two of them lie calls to Meta, a courier, bKash or a model.
What is hard is all that can happen there: the two halves of a read-then-write,
claims and leases that go stale while their owner still runs, jobs that are
replaced or handed out twice, answers that are lost, callbacks out of order, and
processes that die between any two steps.

What makes each component correct:

* receipts: an accepted event is settled only after its effect, or given up
  visibly; it is never reopened; its body is kept until then; every accepted
  event is settled in the end;
* burst jobs: a message is loaded by some run that completes before its receipt
  is settled, whatever job its receipt was moved to;
* replies: nothing is sent behind a person who stepped in or a customer who
  opted out; one writer at a time is in a provider call; a reply reaches the
  customer at most once; the row tells what happened; every job is worked off;
* order sessions: an order is what the customer confirmed, sold once, out of the
  stock; a closed session stays closed;
* the confidence gate: what ships on a merchant's word is what the merchant
  reviewed;
* courier dispatch: one parcel per order, never forgotten and never hidden; the
  stock goes back only while the courier has nothing;
* invoices: one open checkout at a time; paid only by it, after its money has
  moved, and activated with the same step.

## 2. The modules

| Module | Models | Abstract specification | Proofs | TLC instance |
|---|---|---|---|---|
| `InboundReceipts` | intake of webhook events | `DurableInbox` | `InboundReceiptsProofs` | `MCInboundReceipts` |
| `AutoReply` | the automatic reply to a turn | `OneReply` | `AutoReplyProofs` | `MCAutoReply` |
| `OrderTaking` | order sessions, stock, creation of orders | `SalesLedger` | `OrderTakingProofs` | `MCOrderTaking`, `MCRefusals` |
| `OrderConfidence` | the gate before a booking | `AgreedDecision` | `OrderConfidenceProofs` | `MCOrderConfidence` |
| `CourierBooking` | an order on its way to the courier | `OneParcel` | `CourierBookingProofs` | `MCCourierBooking` |
| `InvoicePayment` | a recurring invoice, its checkout and dunning | `OneBill` | `InvoicePaymentProofs` | `MCInvoicePayment` |

They follow a message through the system, in the order in which the parts depend
on each other, and each is checked alone: what the neighbours do is a
nondeterministic choice (`AutoReply` takes any turn, `OrderTaking` any merchant,
`CourierBooking` any verdict of the gate).  Conventions are the same in all of
them.  A database row is a record, a request or job in progress is a record with
its place `pc` and what it has read; a step ends where another process can slip
in, that is at an `await` whose neighbourhood others see; a transaction that
starts by locking the row it decides on is one step.  Crashes, lost answers and
failures are actions.  A definition called a mutant is a plausible error in the
definition below it; it is in no specification.

What could come next, in order of worth: approved drafts and their outbox
(`modules/conversation/message-lifecycle.js`); usage metering against the monthly
reset, with the order limit in front of `OrderTaking`; the top-up checkout beside
`InvoicePayment`; the rotation of refresh tokens; and the composition of
`InboundReceipts` with `AutoReply`, where a turn is loaded again at each attempt.

## 3. The intake: `InboundReceipts`

### State and actions

All events belong to one Page and one conversation.  An event has one receipt
row and, if it is a message, one deterministic job id (`buildFlushJobId`), so
receipts and jobs are both indexed by the event.

| TLA+ | Code |
|---|---|
| `receipt[e]` | the `meta_webhook_receipts` row: `status`, `owner` = `processing_token`, `job` = `queue_job_id`, `payload` = `payload_encrypted` is kept, `retries`, `bound` = tenant columns set, `due` = the row meets the time condition of `claimDueReceipts`, `old` = created a week ago |
| `pc[p]`, `mem[p]` | where a live delivery or a reconciler run stands, and the Sequelize instance it read; later also the data of the job it scheduled |
| `job[j]` | the BullMQ job: state, `data.receiptIds` (`ids`), `data.replacedQueueJobId`, the copy the running worker holds (`held`), the messages it loaded (`turn`), attempts |
| `pending` | the Redis key `burst:pending:<conversation>` |
| `settles` | receipts the completed or failed listener has still to settle |
| `connected`, `stored`, `deliveries`, `faults` | the Page's channel, the stored messages, and two bounds |
| `served`, `adopted` | history: events whose effect happened; receipts moved to a job that had started without them |

`MESSAGE_STORE_FAILED` is a status no code writes any more and is left out.
Tokens are random; the model names a token by its process and turns every other
instance's copy of that name into `Expired` when the process claims again, so
that an old instance never passes a new fence.

A live delivery is `Record`, then one of `ResolutionFails`, `NotConnected`,
`Connected`, then `ResolveBound` for a receipt that has a tenant, then
`ClaimProcessing` or `ClaimFails`.  Ingestion, shared with the replay, is
`ApplySideEvent`/`SideEventFails` for opt-ins, echoes and events without
meaning, `StoreMessage`/`StoreFails`, and for a message the handoff
`ReadPending` (or `PendingUnreadable`), `Enqueue` (or `EnqueueDegraded`,
`DispatchFails`), `MarkQueued`, `RebindQueuedReceipts` (or `RebindFails`); for a
STOP `CancelPendingDispatch`; then `MarkDone`.  The reconciler is `FindDue`,
`ClaimDue`, `InspectQueuedJob`/`InspectUnavailable`, then `DeferQueued`,
`ConfirmCompleted`, `Replay` or `ReplayUnresolved`, and `PurgeExpired`.  The
worker is `StartJob`, `CompleteJob`, `FailJob`, `FailJobUnrecoverably`,
`DelayJob` and `SettleReceipt`.  The environment is time (`Age`, `Expire`),
death of a process (`CrashServer`, `CrashWorker`), Redis (`Evict`, `LoseQueue`)
and the Page (`Connect`, `Disconnect`).

Each `await` that another process can slip into is a step boundary.  Steps are
joined only where nothing else reads what lies between (for instance the message
insert and the consent write after it).

### Abstract specification

`DurableInbox` says what the intake promises: an event is new, open, done or
dead; it is accepted once, settled only when its effect happened (or there was
none to have, or it is one of the excused), given up visibly, forgotten only
when closed.  `InboxImplemented` instantiates it with the class of each row's
status, `served`, and `adopted` for the excused events.  The excused set is a
real hole in the code (the first disagreement below) and is kept visible instead
of being assumed away.

### Runs

| Run | Instance | Question |
|---|---|---|
| `receipts_crash` | 2 messages, 1 delivery, 1 reconciler, 1 disturbance: a dead process, a failed database call or a Redis failure | is a receipt settled only after its message was served, and does the accounting survive |
| `receipts_kinds` | a message, a STOP and an opt-in, 1 delivery, 1 reconciler, 1 failure of the database or of Redis, or a lost Page | is every step a step of the durable inbox, cancellation and side events included |
| `receipts_live` | 1 message delivered twice, any 2 disturbances, fairness | types, replay body, token, no reopening, fencing, and is every accepted event settled in the end |

Bounds.  Two messages are what it takes for one job to replace another, for a
receipt to be rebound and for a STOP to meet a message; two deliveries and a
reconciler are all the parties that can hold one row.  The ladders are cut to
zero to two steps (`MaxStoreRetries`, `MaxIdentityRetries`), a job to one or two
attempts, deliveries per event to one or two (`MaxDeliveries`), and
`MaxFaults` counts disturbances of the kinds in `FaultKinds`.  No run has echoes
and events without meaning; they take the path of opt-ins, and the proofs cover
them.  Deadlock is not checked: with all events settled the system is idle.

Fairness (`Fairness`): processes keep running their handler, jobs are run,
settlements and timers fire; a due row is picked again and again since the
reconciler takes the oldest first (strong fairness on `FindDue`).  Nothing is
assumed of the Page, of Redis or of redelivery; disturbances are finite in a
run.

### Disagreements met while modelling

The actions behave as the code does; no run is kept for these:

* with an unreadable pending key the rebind of older receipts is unguarded
  (`meta-webhook-events.handler.js:304`); combined with a crash a receipt is moved
  to a job that already started without its message and is settled with it,
  against `meta-webhook-receipt.service.js:329-330`.  `SettledWasServed` excuses
  exactly these receipts (`adopted`);
* a live delivery that read the row while the reconciler owned it, and then
  fails to resolve the bound channel, writes `IDENTITY_NOT_RESOLVED` with the
  owner's own token in its fence (`meta-webhook-events.handler.js:1584`), against
  `meta-webhook-receipt.service.js:240-241`;
* the retry counter is computed from a stale instance and can go back, against
  `meta-webhook-receipt.service.js:411-412`;
* an event with nothing to ingest that is given up is counted as a lost message,
  against `meta-webhook-receipt.service.js:590`.

### Proofs: `InboundReceiptsProofs`

All theorems are proved for any finite or infinite set of events, deliveries and
reconcilers and any value of the bounds, from the three assumptions of the
module (disjoint process names, markers that are not events, bounds that are
numbers).

`SettledWasServed` is not inductive: that a `PROCESSED` receipt was served
depends on what the settling process remembers, on which job the row names and
on what that job had loaded.  The inductive invariant `IInv` adds exactly that:
`TypeOK`, `RunsCounted` (a running job has used an attempt),
`OwnedWhileProcessing`, `PayloadRetained`, and `ServedAccounting`, which is
checked by TLC in `receipts_crash` and has four parts: what each process knows at
each step, what jobs carry, that a receipt naming a started job was loaded by it
or adopted, and that whatever is about to be settled was served.

The argument goes through two case lists: `RowSteps` (every step changes a row
in one of a dozen ways) and `JobSteps` (every step changes a job in one of a few
ways).  Each part of the invariant is then preserved by the list, not by the
forty actions.  From `Inductive` follow `TypeCorrect`, `BodyKept`,
`TokenWhileProcessing`, `Accounting`, `ProcessedWasServed`, and the action
properties `NeverReopened` and `TakenOverIsFenced`; `ImplementsInbox` maps every
step to a step of `DurableInbox` (`StepShape`, `ClassSteps`, `RefineStep`).
`OpenUntilServed` reads the same list as one sentence: a receipt leaves the open
states only when its effect happened (or it was adopted, or there was nothing to
do), or as `DEAD_LETTERED`; no crash, lost queue or purge makes it disappear.
`EventuallySettled` needs fairness and is only model-checked.

### Not modelled in this part

Several events of one webhook body (each is a delivery of its own here), more
than one Page or conversation, the 30-message limit of a turn, unreadable replay
bodies (`PAYLOAD_UNREADABLE` acts as `PAYLOAD_MISSING`), rows from before the
queue identity was durable, and the debounce delay.  `turn` is every stored
message: a completed run is taken to have looked at each of them, even if it
found it answered already.  A database failure inside a reconciler step aborts
the run there; the row then goes stale like after a crash.

## 4. The automatic reply: `AutoReply`

### State and actions

One conversation and any number of customer turns.  A turn has a fixed set of
messages, hence one BullMQ job, one dedup key, one durable turn row and one
candidate row (its idempotency key is unique in the conversation).

| TLA+ | Code |
|---|---|
| `job[t]` | the BullMQ job: state, the execution that owns its lock, attempts made, stalls |
| `run[w]` | where an execution of `processMessageJob` stands, the parts it has sent, how it will end |
| `dedup`, `started` | the Redis key of Guard 1; the durable turn rows |
| `row[t]` | the candidate `messages` row: `delivery_state`, and from its metadata the claim, `provider_attempted_at`, `mid` = a provider message id is known, `old` = the claim is ten minutes old |
| `conv` | handling mode, status, Redis pause, the shop's AI mode, opt-out, who wrote last, whether a Resume boundary exists |
| `obsolete` | turns that started before the Resume boundary |
| `lock`, `merchant` | holder of the Redis delivery lock; where the merchant's own reply stands |
| `copies[t][p]` | how often Meta accepted part `p` of the reply |
| `superseded` | history: turns in flight when a person stepped in |

A worker runs `Take`, `ClaimDedupKey`, `StartTurn`, `Guard`, then one of
`Answer`, `Withhold`, `Suppress`, `GenerationFails`; an answer passes
`SendGuard`, `StoreCandidate`, `ClaimCandidate`, `Recheck`, `AcquireLock`,
`Boundary` (`claimProviderSendBoundary`), `Revalidate`, `SendPart` for each body,
and `RecordSent`; the branches are `StoreHeld`/`StoreBlocked` with `Hold`,
`Handoff`, `HoldRefused`, `ReleaseCandidate`, `RateLimited`, `SendFails` with
`RecordFailure`, and `RecordFails`; `Finish` is the `finally` block and BullMQ's
settlement of the job.  The merchant's message is `ReplyBegins` to
`ReplyDelivered`, the rest of what people do is one action each.  Disturbances
are `Crash`, `Stall` (BullMQ gives the job to another worker while the first
goes on), `LockExpires`, `ClaimAges`, `PauseExpires`, `Echo`, and the failures
named in `FaultKinds`: a dependency, a rate limit, a lost answer, a refused
token, Redis.

### Abstract specification

`OneReply` knows for each turn whether it is barred, committed, delivered and
shown: a turn is committed only while it is not barred and nothing of it has been
delivered, may be taken back before delivery, is delivered at most once and only
while committed, and is shown after delivery and for good.  `KeepsPromise`
instantiates it with `superseded`, the rows with an attempt, the copies of the
first part, and the rows that are `SENT`.

### Runs

| Run | Instance | Question |
|---|---|---|
| `reply_turn` | 2 turns, 2 workers, 1 fault, 2 interventions (take-over, resume, opt-out) | is nothing sent behind a person or an opt-out, is one writer in a call, does the row tell the truth, is every step one of `OneReply` |
| `reply_live` | 1 turn, 2 workers, 2 faults (stall and expired lock included), any intervention, fairness | types, is nothing accepted twice, is every job worked off, does every attempted send get an outcome, do settled rows stay settled |
| `reply_duplicate` | 1 turn, 1 worker, 1 crash | the finding below |

Bounds.  Two turns are what it takes for a customer's next message to meet an
older turn; two workers are a redelivered job and its first execution, or two
turns at once.  `MaxAttempts` is 2 or 3 (the code's `attempts` is 3), `MaxStalls`
is BullMQ's default of 1, `MaxFaults` and `MaxHumans` are in the table.  Deadlock
is not checked: with all jobs settled nothing has to happen.

What the passing runs leave out, and why. `reply_turn` has no merchant reply, no
archiving and no closing next to a take-over, no stalled worker and no lock that
expires under its holder: in each of these the code does otherwise, as the list
below says. Replies have one part in all runs; the proofs cover several.
`reply_live` has no failing dependency, which can leave an attempted row without
an outcome.

Fairness (`Fairness`).  The worker process takes waiting jobs and goes on with
those it has, a lock whose holder died runs out, a merchant's request runs to its
end.  Nothing is assumed of people, Meta's echoes or disturbances, whose number
is bounded in a run.  `OutcomeShown` excuses a turn whose worker was lost.

### Findings

`DuplicateWasAnswered` (`reply_duplicate`): a worker that dies with the dedup key
set and no claimed candidate leaves a turn that its next run takes for a
duplicate, against `docs/ai/CONVERSATION_RECOVERY_POLICY.md:122`.

Disagreements met while modelling, which no run is kept for:

* a reply of several bodies that meets the rate limit between two of them takes
  its candidate back (`MetaMessengerProvider.js:1119`) and is sent again from the
  first body, against `jobs/message-worker.js:3467-3469`;
* a conversation that a person has taken over and that is archived by the bulk
  action (`conversation.service.js:1794`) loses the take-over when the customer's
  next message opens it again, without a Resume boundary; a turn that was in
  flight is then sent, against `jobs/message-worker.js:3152-3156`;
* a stalled worker's `releaseAutomaticCandidate` (`jobs/message-worker.js:793`)
  asks for a pending row but not for its own claim, so it can take back the
  candidate that the second execution is sending;
* the mobile inbox can lift the pause that a merchant's reply has set
  (`mobile-inbox.controller.js:268`); with a newer customer message nothing
  stands between the older turn and its send;
* a handoff that meets a busy lock fails the job, and the retry finds the held
  row and ends without having called a person (`jobs/message-worker.js:2182`);
* an attempted row whose worker died, or whose outcome could not be written, is
  not touched by any later attempt (`jobs/message-worker.js:512-514`): only an
  echo settles it;
* a candidate that a later attempt reuses is reused by the sending path only;
  the paths that keep an answer for a person store a second row and meet the
  unique index (`jobs/message-worker.js:2176`);
* a conversation can be taken over while it is closed, and the customer's next
  message takes it back.

### Proofs: `AutoReplyProofs`

For any set of turns and workers, any number of parts, attempts, stalls, faults
and interventions, from the two assumptions of the module (people are not
workers, bounds are numbers):

* `TypeCorrect`;
* `NothingBehindPeople`: `NoSendBehindPeople` holds whenever `NoWayRound` does,
  that is without the merchant's reply, without archiving, and without take-over
  and closing together.  All faults are allowed, expired locks and stalled
  workers too.  The property is not inductive; `StillBarred` adds why a
  superseded turn stays out: it is older than the Resume boundary, or a person
  has the conversation, or the customer opted out, and a conversation a person
  has is open, so that no customer message takes it away.  `OnlyTheBoundary`
  says that no other step makes an attempt of a pending row;
* `OneSender`: `OneSenderAtATime` holds if the lock does not expire under its
  holder, from `LockHeld` (whoever is between the lock and the end of the call
  holds it), by `WorkerMoves`, a list of what a worker's step does to its place
  and to the lock;
* `SettledRows`: `SettledRowsStay` holds without any restriction, from
  `SentHasMid`, the one fact that the conditional updates rely on.

* `RowTruth`, `AtMostOnce` and `ImplementsOneReply`: `RowTellsTheTruth`,
  `SingleReply` and, under `NoWayRound`, `KeepsPromise` hold under `InOneGo`: no
  worker is taken for dead while it goes on, and a reply is one body, or no rate
  limit falls between two of them.  Locks may expire, workers may die between any
  two bodies, answers may be lost, people may do anything.
  The invariant `Sound` says for each turn what its job, row and copies know of
  each other, and for each execution what it may rely on at its step: that it
  owns its job, that nothing of the turn was accepted between the claim and the
  call, that in the call the bodies before the next one are with Meta and no
  other, that the row has an attempt from the boundary on.  `OneFate` says that a
  step changes the fate of at most one turn and only in the ways `OneReply`
  knows; `RefineStep` reads that as a step of `OneReply`.  Both restrictions are
  there for what the code does: after a rate limit between two bodies the first
  is sent again, and a stalled worker takes back the candidate its successor is
  sending.  `reply_live` has stalls, and TLC finds `SingleReply` true there,
  with two workers and one body; the theorem does not cover it.

The liveness properties are only model-checked.

### Not modelled in this part

The text of the answer, the order flow inside it and the evidence it rests on
(`Revalidate` chooses); messages that join a turn between two attempts; the
holding message that the watchdog sends; approved drafts and their outbox
(`HELD` stands for `DRAFT_READY`); a close that is refused because the agent has
not seen the last message; reopening by writing the status; the death of the web
process in the middle of a merchant's reply.

## 5. Order sessions: `OrderTaking`

### State and actions

One customer, one product, several order sessions, and turns of the worker that
may overlap: the delivery lock is taken only when a reply is sent, long after the
order flow has run.

| TLA+ | Code |
|---|---|
| `sessions[s]` | the `order_sessions` row: `status`, `current_step`, the line chosen last (`info` = `product_info`), the cart of `step_data`, `order_id` |
| `product` | stock and price of the product row |
| `orders[o]` | the order row: idempotency key, quantity, price, status |
| `act[t]` | where a turn stands and what it has read of its session, or will write |
| `edits`, `messages` | bounds: what the merchant changed, turns that began |

A turn begins with `StartOrder`/`CreateSession` or `ReadSession` (and
`ReadAgain`, `processStep` reads the row a second time), answers the step it read
with `AddProduct`, `CollectQuantity`, `CollectDetails`, `SetQuantity` or
`RemoveLine`, and writes with `WriteStep`: one column for the whole cart, without
a condition.  `CancelSession`, `SuspendSession`, `ResumeSession` and
`MarkAwaitingResume` are the other writes.  Confirming a summary is `Revalidate`
(or `FindSoldOut`, `RefuseChanged`), `Authorize` (the action gate), `FindOrder`
or `CreateOrder` under the advisory lock and the product's row lock, and
`CompleteSession`.  The merchant edits the product and cancels orders.  `GiveUp`
stands for a denial, an error and a crash alike; orders of other customers are
the merchant's changes of stock.

"more" stands for the steps from `ADD_MORE` to `COLLECTING_NOTES`; the cart has
one line; the idempotency key is the pair of session and confirmed line, which is
what the digest is taken of.

The product is one whose quantity is tracked and that takes no backorders; for any
other the code skips the check of the stock, and for an untracked one the
deduction too (`order.service.js:174-176`, `:237`), and nothing said here about the
stock is about them.  A turn that finds no `product_info` at the quantity step (a
removal of the last line and a late `WriteStep` can leave that) only ends in the
model.  The code goes on with a line that names no product
(`order-session-standalone.service.js:710-766`), of which no order can be made:
`validateItemsAndCalculateTotals` finds no product for it.

### Properties, runs and proofs

`taking` checks them with two turns, two sessions, two orders, quantities, stock
and prices up to two, one change by the merchant and six messages: two turns are
what it takes for one to write over the other, two sessions for the sequence
start, abandon, start again.  `OrderedAsConfirmed`: the quantity sold is the
quantity confirmed, though cart and quantity may be written over between the
summary and the order.  `CompletedIsOrdered` and `ClosedStaysClosed` are about
the unconditional writes of late turns.  `SalesImplemented` says that to the shop
all of it is `SalesLedger`: one sale for one confirmed summary, in a step that
finds the pieces and takes them, and each cancelled sale given back once.  The
last is about this module's writers only: confirmation, finalization and payment
write an order's status without a condition and can undo a cancellation (section
7), after which the stock can go back again.

`OrderTakingProofs` proves all five for any turns, sessions, orders and bounds,
and from them `SoldOnce`: of one confirmed summary there is one order, however
often it is confirmed.
The inductive invariant adds to `TypeOK` and `OrderedAsConfirmed` that keys are
unique, and what a turn past the summary knows (`Knows`): a session, a line, and
at `created` an order of its own session.  The refinement needs `KeysUnique` for
"at most once" and the type of `product` for "out of the stock".

Finding (`taking_refused`, one turn at a time): when price or stock differ from
the quote, the refreshed cart goes into the reply and is not written, so
confirming the updated order is refused over the same change again, for ever
(`order-session-standalone.service.js:1121` returns before line 1393), against
the words of the reply at line 1138 and `src/docs/ai/AGENT_ACTION_POLICY.md:153`.

Disagreements met while modelling, which no run is kept for:

* the price is compared with the catalogue before the transaction and taken from
  the catalogue in it (`order.service.js:146-196`): a change in between makes an
  order at a price nobody confirmed, so `OrderedAsConfirmed` is about quantity;
* a confirmation retried after a crash between the order and `COMPLETED` is
  denied (`idempotency_not_committed`) instead of answered with the order,
  against the comment at `order.service.js:353-354`;
* a cart edit and a confirmation that overlap can give two orders for one
  session, one for each summary; `cancelSession` writes without a condition, so
  a session may be `CANCELLED` with a live order; two first messages at once
  make two `ACTIVE` sessions; a cart change can be lost under a stale
  `step_data`; `updateProduct` writes the stock absolutely over concurrent sales.

Not modelled here: the usage limit in front of an order, cash on delivery and
the return shield, delivery and payment details, several lines in a cart, manual
edits, returns and `deleteOrder`.

## 6. The gate: `OrderConfidence`

One order in `enforce` mode (`off` and `shadow` let everything through), its
versioned decision row (`conf`), booking attempts that hold an order in memory
(`payload`) while they ask the gate, and people with the decision panel open
(`seen`).  Every evaluation, from the gate, the panel or a resolution, is the
same sequence (`Evaluate`): load the order, judge its facts, find the row, create
it or replace it by compare-and-set on its version (`CreateRow`, `RowChanges`),
or leave it (`RowStands`), or read it again after losing (`RereadRow`).  Then the
gate does `Release`, `Hold` or `EngineFails`, a panel `ShowDecision`, and a
resolution `Refuse`, `Accept` and `Resolve`.  The order is edited, confirmed,
cancelled and delivered underneath.  Which reasons an evaluation may give for
some facts is a constant (`Findings`): the history of other orders changes it.
Left out: the history and the counter of held bookings, which nothing decides on,
and the delivery status marker (it is in `CourierBooking`).

`confidence_gate` has one booking, one owner, two sets of facts (one with
something to verify, or worse once the phone is listed), three versions of the
row and two changes: enough for a decision to be seen, replaced and resolved
while the payload is of an older order.  `ReleasedOnReview`: what ships on a
merchant's word is what that merchant had on screen, facts and severity, and the
word is strong enough.  `ResolvesWhatWasSeen`: a resolution is written over
exactly the decision on screen, though the version, the row and the fingerprint
come from three reads.  `DecisionImplemented` says what a version is worth:
`AgreedDecision` lets an actor write the row only over a copy that is equal to
it, reasons, facts, resolution and all, while the code compares the number alone.
`Copies` is the row each request holds, and the panels are the screens.

`OrderConfidenceProofs` proves all three, and the types, for any facts,
findings, bookings and people, and `VersionsGrow`: the row is never lost and
each write, the courier's verdict included, takes the next number. The invariant
says of everything a request holds that it is the row or an older version of it
(`Past`), so that a write which names a version replaces what was read; that a
resolution on a row is of what was reviewed (`Sound`); and what bookings and
merchants rely on at each step.

Disagreement without a run: a gate that loses the insert or the compare-and-set
reads a `READY` row that another request judged on other facts, and releases
(`order-confidence.service.js:203`, `:232`), against `docs/adr/0010`: a clearance
must never apply to facts it was not made for.

## 7. The courier: `CourierBooking`

One order, its durable claim (`courier_dispatch`) and its tracking rows; requests
that book it by hand, confirm it, settle its payment or process it; the courier,
which accepts, refuses or does not answer; status callbacks and polls; the desk.
`order`, `dispatch`, `tracking` are the rows, `sent` is what the courier has,
`restored` counts how often the stock went back, `act` and `callback` are requests
in progress with what they read.

A request is `ReadOrder`, `WriteStatus` (a status decided on an unlocked read),
`AnswerBooked`, `SetupRequired`, `GateHolds` or `GatePasses`, `MarkHold`,
`Claim` (one transaction under the row lock), then the courier's `CourierAccepts`,
`CourierRejects` or `CourierUnclear`, then `TrackParcel`, `RecordParcel`,
`CommitClaim`, or `FailClaim`, or `DoubtClaim` and `MarkDoubt`.  `WriteFails` and
`Crash` may come at any step.  The desk has `CancelOrder`, `OwnerAnswers`,
`DeleteOrder`; a callback is `ReadTracking` and `ApplyStatus`.  "processing"
stands for processing, completed and finalized; the automation switches that stop
a booking before the claim are left out.

`booking` has two requests, two callbacks, two parcels, every kind of fault, one
restored stock and two status changes: two requests race for the claim, two
callbacks for the tracking row, and the second parcel is the one that must not
exist.  `OneParcelPerOrder`: every step is
a step of `OneParcel`, the courier gets one parcel at most, and a claim whose
outcome is not known stays held.  `ParcelIsHeld`: a parcel the order does not
name is still held by its claim.  `CommittedIsRecorded` and `BookedIsShown` relate
the three rows that are written without a transaction.  `RestockedOffCourier`: the
stock goes back only while the courier has nothing and nobody is handing it one.
`TerminalUnlessDecided` says how far a terminal status can be trusted.  The guard
reads the row without a lock (`delivery-tracking.service.js:136`), so of two
callbacks that both read a moving parcel the later write wins, over "delivered"
too; the code does not exclude that, and the property does not claim it.  It says
that, while the order exists, nothing else can: over a parcel that was delivered
or came back only a callback writes that had decided before, and only what it had
decided, no callback joins them, and no late booking resets the row.

`CourierBookingProofs` proves all seven for any requests, callbacks, parcels,
faults and bounds.  None of the properties is inductive. The invariant says that
a request between claim and verdict owns the claim (`Claimed`), that there is
one of them (`Alone`), what the courier has by the step it is at (`Progress`),
what an open, a named or a withdrawn claim means (`Open`, `Named`, `Gone`) and
that there is one parcel (`One`), which is the theorem `SentOnce`.
`TerminalKept` needs three facts more: a tracked parcel is with the courier
(`Tracked`), a booking writes a parcel's row before any callback finds it
(`RowFirst`), and the row a callback is about to write is there (`RowThere`), so
that no booking comes to write it first.

Disagreements met while modelling, which no run is kept for:

* the owner's answer to the payment question cancels an order without asking for
  its dispatch (`modules/notification/owner-notification.service.js:165`), so an
  order may be cancelled with its parcel on the way; the desk refuses exactly that
  (`order.service.js:1114`);
* `confirmOrder`, `finalizeOrder` and the payment callback write a status decided
  on an unlocked read and can undo a cancellation whose stock went back, after
  which it can go back a second time;
* two callbacks can take a terminal status back (the sequential case is excluded
  in `delivery-tracking.tenant-and-replay.test.js:33`); `createTrackingRecord`
  writes the tracking row and then `booked` on the order
  (`delivery-tracking.service.js:76`), over what a callback in between has put
  there;
* nothing resolves a claim left `PENDING` or `INDETERMINATE`: a person has to;
  `deleteOrder` drops claim, tracking and stock of a booked order; the hold marker
  may replace `dispatch_indeterminate`.

## 8. A recurring invoice: `InvoicePayment`

### State and actions

One invoice issued for a paid plan, and the owner's requests over it.

| TLA+ | Code |
|---|---|
| `invoice` | the row: `status`, `payment` = `payment_id`, `lease` = `checkout_lease_id` and whether its ten minutes are over |
| `subscription` | plan and status |
| `change` | the status a change of plan has read before its transaction locks anything |
| `checkouts[p]` | what the browser has of a payment: its checkout is open, was released, or has settled the invoice |
| `gateway[p]` | the payment as bKash knows it; `captured` is money that has moved |
| `req[r]`, `job[j]` | where a request, and a run of the dunning job, stands and what it has read |

A checkout is `StartCheckout`, `TakeLease`, `CreatePayment` (at bKash),
`BindPayment`, or `ReleaseLease` after an error.  A settlement is
`StartSettlement`, `VerifyPayment` (bKash executes the payment), and `Settle`, one
transaction that looks at everything again under the locks of both rows, pays the
invoice and activates the subscription; the branches are `VerifyUnheard` (the
answer is lost after the money moved), `VerifyFails` and `ReleaseFailed`.
`GiveUp` is a refusal, an error and a crash.  `CancelCheckout`,
`ApprovePayment` and `ExpireLease` happen at any time.  A change of plan is
`ReadPlan`, without a lock, and `ChangePlan`, which cancels the open invoice and
writes the columns that differ from what was read: an `active` that was read is
not written again, over a suspension in between (`Changed`).  The job is `FindOverdue`,
`MarkOverdue` and `SuspendSubscription`, with any time between them.

### Properties, runs and proofs

`invoice` has two requests, three payments and one run of the job at a time, as
often as it likes: two requests are a lease and the one that takes it over, the
third payment is the one after a cancelled checkout.  `OneOpenCheckout`: the owner never holds two checkouts that
can both settle the invoice, however often leases expire.  `PaidIsCaptured`: a
paid invoice names a payment whose money has moved.  `SettledByItsCheckout`: it is
paid by the checkout that is open in that very step, for the plan it was issued
for, and the subscription is active with it.  `ClosedUnlessDunned`: nothing
changes the status of a paid or cancelled invoice but a run of the job that had
read it as pending.

`BillImplemented` says what all of it is to the owner: `OneBill`, where one offer
to pay stands at a time, an offer taken back never stands or pays again, and the
bill is paid by the offer that stands, after its money has moved.  The lease, the
requests and what they read are gone from it.  Only where a dunning job runs may
its bill be opened again.

`InvoicePaymentProofs` proves all six for any requests, payments and runs.  The
invariant says that a request holds a payment of the gateway (`Holds`), that what
it is about to settle was captured and stays so (`Verified`), that an open
checkout is the bound one (`OpenIsBound`) and a bound one is not released
(`BoundStands`).  The refinement needs `RInv`, which adds
that a payment about to be bound is new to the owner and one request's (`Fresh`),
that what is being settled came from a browser (`Offered`), and that browsers
have only what bKash made and bKash only charges what a browser had (`Given`).
From `Implements` follows `ReleasedForGood`.

Finding (`invoice_dunned`): the job reads its batch first and writes `overdue`,
and then the suspension, over rows that were paid or cancelled meanwhile
(`jobs/failed-payment-reconciler.js:98`), against its own comment at line 148 and
the one at `subscription.service.js:324-325`.

Disagreements met while modelling, which no run is kept for: money stays captured
with the invoice unpaid when the checkout is cancelled, or the plan changed,
between the execution and `Settle` (line 401 of `invoice-payment.service.js`
speaks of a checkout cancelled before verification); a lost answer makes the
retry read as failed and frees the binding; and an invoice made overdue after it
was paid can be paid again.

Not modelled here: amounts and identities that are compared with the gateway's
answer (a mismatch is a `GiveUp`), one-off invoices, zero balances, rows whose
tenants disagree, the generator and partner billing.

## 9. What is proved and what is only checked

Every safety property that a passing run checks is also a theorem, for every
value of the constants that satisfies the named assumptions. A few hold only in
part of the instances, because the code does otherwise in the rest, and their
theorems say so as a hypothesis: `NoWayRound`, a lock that does not expire under
its holder, and `InOneGo` (section 4).  Each leaves any number of requests, workers
and faults. `OpenUntilServed`, `SoldOnce`, `VersionsGrow`, `SentOnce` and
`ReleasedForGood` are consequences that no run states. TLAPS proves all of them down to the last leaf, and each
refinement step by step: every action maps to a step of the abstract
specification or to none. Only TLC speaks for `EventuallySettled`, `JobsSettle`
and `OutcomeShown`, which need fairness, and for the three refuted properties.

Deadlock is checked nowhere: in each module there are states in which everything
is settled, or a bound is used up, and the system may stop.

## 10. Not modelled

* Approved drafts, their outbox and `inbox-delivery-reconciler.job.js`; watchdog
  timers of `turn-recovery.service.js`.
* Usage metering and its monthly reset: each is one transaction under the lock of
  the subscription row; the unlocked check of the order limit before it is listed
  as a hazard.
* Top-ups: the lease, the binding and the conditional claim are those of an
  invoice.  The payment webhook: the transaction rows it looks for are created by
  a function that nothing calls.
* Login, sessions and refresh tokens, which share no state with the rest.
* Meta's and the couriers' HTTP clients, token refresh; prompts, retrieval,
  guardrails and embeddings: calls whose outcome the modules choose freely.
* Growth OS, notifications, live events, the cron plumbing and the user
  interfaces: nothing modelled here depends on what they do.
