# Verification of the payment backend

TLA+ modules, TLC configurations and TLAPS proofs for the payment backend in
this repository: an Express API in front of Authorize.Net with idempotency
keys, a PostgreSQL database behind TypeORM, a Bull queue in Redis for webhook
notifications, and an in-process billing scheduler. Paths below are relative to
`src/` of the repository.

Run everything from this directory:

    tlc -config PaymentsFaults.cfg MCPayments
    tlc -config WebhooksFaults.cfg MCWebhooks
    tlapm WebhooksProofs.tla

## 1. The system

### Parts, their state and their operations

| Part | Code | State | Operations |
|---|---|---|---|
| Payment operations | `controllers/paymentController.ts`, `services/paymentService.ts`, `routes/paymentsV1.ts`, `routes/payments.ts` | none of their own; one promise chain per request | purchase, authorize, capture, refund, cancel |
| Idempotency | `middleware/idempotency.ts` | a `Map` from key to cached response, in memory | look up and replay, cache a 2xx response, delete expired entries |
| Transactions table | `entities/Transaction.ts` | rows by `transaction_id` with status and gateway id | insert before the gateway call, update after it; update by webhooks |
| Gateway | Authorize.Net and its SDK | transactions | approve, decline, refuse; call back with or without an answer |
| Webhook intake | `controllers/webhookController.ts`, `middleware/webhookSignature.ts` | rows of `webhook_events` | verify, detect duplicates, save, queue |
| Webhook queue | `services/webhookQueue.ts`, Bull | jobs, their attempts, a pause flag, the dead letter queue | process, retry with backoff, bury |
| Webhook processor | `services/webhookProcessor.ts` | rows of `transactions` and `subscriptions` | one handler per event type |
| Webhook worker | `worker.ts` | a data source of its own | start, graceful shutdown |
| Subscriptions | `services/subscriptionService.ts`, `controllers/subscriptionController.ts` | rows of `subscriptions` | create, update, cancel, list, bill |
| Billing scheduler | `services/billingScheduler.ts`, `services/jobScheduler.ts` | a timer and a `Map` of retries, in memory | billing cycle, retries, manual trigger |
| API keys, rate limit | `middleware/apiKeyAuth.ts` | keys and request windows, in memory | validate, count, clean up, add, revoke |
| Authentication | `services/jwtService.ts`, `controllers/authController.ts` | rows of `users` | register, login |
| Metrics, alerts | `services/MetricsService.ts`, `AlertService.ts` | four lists with one limit, a set of alerts, in memory | record, clean up, summarise, check, resolve |
| Process | `index.ts`, `server.ts` | the database and Redis connections, client connections, timers | start, serve, shut down, die |
| Security audit | `services/SecurityAuditService.ts` | an append-only table | record, count |
| Encryption, sanitization, logging, tracing, configuration | the rest of `services/`, `utils/`, `middleware/`, `config/` | none | pure functions and I/O |

### How they interact

A payment request passes, in one uninterrupted run of the event loop, through
the correlation id, the JWT check, the idempotency look-up, the validation and
the controller up to its first `await`. `PaymentService` then inserts a row,
hands the transaction to the SDK, updates the row in the SDK's callback and
returns a result, which the controller turns into a response; the wrapped
`res.json` caches it under the key when it is a success. Authorize.Net reports
the same transactions once more through webhooks. Their intake saves a row and
adds a Bull job; whichever process loads `webhookQueue.ts` (the API and the
worker both do) takes it and updates the transaction or subscription it is
about. Payments and webhooks meet in the tables only.
The billing scheduler and the subscription requests meet in the rows of
`subscriptions`, which webhooks about subscriptions update too.

### What is hard here

* Requests interleave at every `await`, and the store is read long before it
  is written (`middleware/idempotency.ts:88` and `:107`).
* A process may die between the gateway's approval and the UPDATE
  (`services/paymentService.ts:254`), between a job's effect and its
  acknowledgement (`services/webhookQueue.ts:81`), and with every entry of the
  store.
* The gateway's answer can be lost, which the service cannot tell from a
  failure.
* Database errors on the payment path are logged and swallowed.
* Retries of a webhook are counted twice, by Bull and in the row.
* The worker and the API run the same processor with different data sources.
* Billing loads whole rows, works on the copies and saves them whole
  (`services/subscriptionService.ts:401`, `:248`), while cycles may overlap
  (`services/billingScheduler.ts:58`) and requests change the same rows.
* The webhook processor finds a row by one statement and updates it by the next
  (`services/webhookProcessor.ts:97`), while the API settles the same row.
* A request window of an API key is reset by the next request that finds it
  over and deleted by a cleanup with its own clock
  (`middleware/apiKeyAuth.ts:146`).
* A second signal starts a second shutdown beside the first (`index.ts:48`),
  and `server.close` waits for connections that may never end, but not for the
  handler of a client that has gone away (`index.ts:55`, `server.ts:69`).
* A failed statement of the scheduler is answered with a retry of the payment,
  whether or not the payment was made.

`PROJECT.json` lists these under "hazards", each at its line and with the
properties that watch it.

### What makes each part correct

* Payments: one key, one charge; one key, one answer; a refusal means no
  charge; the table agrees with the gateway; nothing is sent twice; every
  request is answered.
* Webhooks: one job per notification; processed means applied; row, Bull and
  dead letter queue agree; an event that is over never comes back, over a later
  notification or a later write of the API; every queued event is processed or
  dead-lettered.
* The table with both writers: a row never claims what the gateway does not
  know, a settled row moves only by a notification about its own transaction,
  and no charge stays unbooked.
* Access: the limit holds in every minute but at its first instant, revoked
  keys stay out, who was told 201 has an account and can log in.
* Process and monitoring: requests are served while the stores are open, but for
  those whose client has left; an
  exit code 0 means a clean exit, a signal ends the process, the metrics stay
  within their limit and what they show is alerted.
* Subscriptions and billing: one charge per due date, in order and not before
  it; only active subscriptions are billed; the cycle count is the number of
  charges and never passes the total; cancelled stays cancelled; a due
  subscription is billed and a retry comes to an end.

## 2. The modules

| Module | What it is |
|---|---|
| `ChargeContract` | abstract specification: what the payment API promises a client |
| `Payments` | the payment path with the idempotency store, the table and the gateway |
| `MCPayments` | instances of `Payments` for TLC |
| `PaymentsProofs` | theorems about `Payments` and their proofs |
| `Settlement` | `Payments` with the second writer of its table, the webhook processor |
| `MCSettlement` | instances of `Settlement` for TLC |
| `SettlementProofs` | theorems about `Settlement` and their proofs, on top of `PaymentsProofs` |
| `EventLife` | abstract specification: what becomes of a notification |
| `Webhooks` | intake, queue, processor and worker; implements `EventLife` |
| `MCWebhooks` | instances of `Webhooks` for TLC |
| `WebhooksProofs` | theorems about `Webhooks` and their proofs |
| `Billing` | subscriptions, the requests that change them, and the billing scheduler |
| `MCBilling` | instances of `Billing` for TLC |
| `BillingProofs` | theorems about `Billing` and their proofs |
| `Access`, `MCAccess`, `AccessProofs` | API keys and their rate limit, registration and login |
| `Monitoring` | metrics and alerts |
| `MonitoringProofs` | theorems about the lists of samples, the summary and the alerts |
| `Server`, `MCServer` | the life of the API process; extends `Monitoring`, whose timers it runs |
| `ServerProofs` | theorems about `Server` and their proofs, on top of `MonitoringProofs` |

`Settlement` extends `Payments` and `Server` extends `Monitoring`: the steps of
the composed module are those of the component, with the rest unchanged, and
those that belong to the meeting point.

### Payments

One request is one element of `Request`; `pc[r]` says at which `await` its
handler stands.

| `pc` | the handler waits for | code |
|---|---|---|
| `saving` | the INSERT of the row | `saveTransaction` |
| `operating` | nothing, or the backoff of `executeWithRetry` | `executeWithRetry` |
| `sent` | the SDK's callback | `controller.execute` |
| `updating` | the UPDATE in the callback | `updateTransactionStatus` |
| `responding` | the controller's turn | `res.status().json()` |
| `done`, `lost` | answered; its process died | |

Arrival is one action, because no `await` lies between the look-up and the
first statement: `RejectKey`, `Replay`, `RejectInput` and `Admit` are its
outcomes. `SaveRow`/`SaveFails` and `UpdateRow`/`UpdateFails` are the two
swallowed statements, `Send`, `Retry` and `GiveUp` the body of
`executeWithRetry`, `Callback` and `CallbackEmpty` the SDK's callback with and
without a response, `Respond` the controller's answer and the caching in the
wrapped `res.json`. `Age` and `Cleanup` are the TTL and the interval, `Crash`
the end of the process. `GatewayHandles` and `Unreached` are Authorize.Net and
the network.

Data is abstracted to what the properties tell apart: a card, an amount or an
address never appears; a response is its status and the transaction it speaks
of; a row is its type, its reference, its status and the gateway id. Row ids
are the requests themselves (fresh UUIDs) or, for purchases and authorizations,
a client's `X-Correlation-ID`. Validation is a choice, since any request may be
invalid. The gateway approves, declines, refuses or holds a transaction for
review; a hold (response code 4) is answered like a decline, as a failure that
carries the transaction's id, and what becomes of it afterwards is not
modelled. A request that fails the JWT check changes nothing and is left out.
`executeWithRetry` retries whatever its operation rejects with; its operation
rejects only when building or starting the call throws, since the promise
around a started call never rejects.

Two history variables do not influence the rest: `sends` counts how often a
request went to the gateway, and `excused` collects the keys exposed to one of
four events the in-memory store cannot cope with: overlapping requests with
the key, a crash while the process held or worked on it, the deletion of its
expired entry, a lost answer of the gateway. The key properties speak of all
other keys, and the proofs show that these four are the only exceptions.

### Settlement

The composition of the API and the webhook processor over the transactions
table. A notification is one element of `Request`, the transaction it is about:
the gateway sends one for each transaction it charged and for each it holds for
review. The type of the latter is not in the table of
`mapAuthorizeNetEventType`, so it counts as a completed payment (`Verdict`),
and completes the row of a transaction nobody was charged for; `LedgerSettles`
allows that in these rows alone. `notify[r]` is how far it came (`waiting`,
`updating`, `applied`, `missed`) and `again` the requests whose job ran a
second time. The intake and the queue are left to `Webhooks`; here a
notification may be processed at any time after the gateway's decision, before
or after the API's UPDATE, in any order, and twice (`RunAgain`). The
processor's `findOne` and `update` are two steps (`FindRow`, `ApplyNotice`),
between which the API may write; the row found is the one whose
`authorize_net_transaction_id` is the id of the notification, and where several
rows carry it, any of them. `SameId` says for which operations Authorize.Net
answers with the id of the transaction they refer to.

### Webhooks

One HTTP delivery is one element of `Delivery`; rows, jobs and dead letters are
indexed by the delivery that made them (`WebhookEvent.id` and the job id are
fresh for each save), and `rows[d].event` is the unique column `event_id`. The
handler moves through `finding`, `saving` and `adding`; any error on the way is
`IntakeFails`, answered with 500. A process takes one job at a time (`Take`),
and `at[h]` is the statement it waits for: `marking`, `loading`, `finding`,
`updating`, `finishing` inside the `try`, `reading`, `recording`, `burying`
inside the `catch`, then `throwing` or `acking` back to Bull. Every statement
may fail, and those of a process outside `Connected` always do, because its
`AppDataSource` was never initialized. Bull is external and modelled by what
the code relies on: attempts and backoff (`Throw`, `Promote`), the rerun of a
stalled job, once (`Recover`), a pause that holds for every process
(`ShutdownWorker`). The queue's order is not modelled: any waiting job may be
taken. Adding a job and answering 200 are one step, because the handler touches
nothing shared in between; what may go wrong there are alternatives of that
step (`AddJob`: the job is added and the handler is told of an error, or dies
before it answers) and the failure of the adding (`IntakeFails`). The kinds of
fault are named in `FaultKinds`: a dead letter may fail to be added
independently of the rest. Chargebacks have no type in the intake's table, so
their handler is never reached; a type the table does not know counts as
`payment.completed`.

`Txn` and `Sub` are the rows of `transactions` and `subscriptions`, `ids` their
gateway ids, of which several rows may have one, and `subject` their status.
The worker finds one of the rows with the id (`found`) by one statement and
updates it by the next. The API and the scheduler write the same rows at any
time, to whatever status `Stored` admits: `ApiWrites` is the outcome of a
gateway call (`updateTransactionStatus`), the creation of a subscription
(`createSubscription`), and the saves of updates, cancellations and billed
copies (`saveSubscription`).

`EventLife` is what a sender may rely on: of the deliveries with one event id
one is accepted, it is queued once, dealt with while it is queued, and ends
processed or given up. The mapping reads the stage of a delivery off its row and
its job.

### Billing

`run[r]` is one activation of the scheduler: a billing cycle or a manual
trigger. A cycle goes through two loops, over the rows that were due when the
database answered the query (`todo`) and over the retries that were due when
the first loop ended (`queue`). `run[r].at` is the statement it waits for:

| `at` | the activation waits for | code |
|---|---|---|
| `listing` | the query for due rows | `getSubscriptionsDueForBilling` |
| `looping` | its turn to go on with the next subscription | the `for` loops |
| `fetching`, `refetching` | the row of a retry; the same in the catch block | `getSubscription` |
| `saving` | the save after a charge | `processBilling` |
| `noting` | the save after a failure | `handleFailedPayment` |
| `scheduling` | its turn in `schedulePaymentRetry` | `schedulePaymentRetry` |
| `reading`, `updating` | `findOne` and `save` of an update; `goal` says which | `updateSubscription` |

Each of these statements may fail; `Thrown` and `Abandon` are the paths an
exception takes from there through the catch blocks. `call[c]` is one request
of a client: create (`creating`, `inserting`, `confirming`), update and cancel
(`reading`, `writing`). Requests that fail validation and queries that change
nothing are left out, and so are amounts and metadata. The start date of a
subscription is the client's, in the past or in the future. A save is one step
that makes the row equal to the copy; TypeORM reads the row to see which
columns differ and writes those, and what happens between the two is not
modelled.

Time is counted in months, with `Overflow` for a day the next month does not
have. The delay of a retry may end at any time (`RetryDue`), so the backoff
does not appear. The charge of a cycle is simulated in the code and always
succeeds, so `bills` records that the code took it as made; payments fail only
because statements fail. The scheduler runs from `Start` on, as
`initializeJobScheduler` would have it; nothing in the repository calls that
function yet.

`exposed` collects the subscriptions that met one of four events: two actors
held copies of the row at once, or one held a copy while a notification changed
it; a statement failed or the process died between a charge (or the creation at
the gateway) and its record; an exception made a retry load the row again;
somebody triggered its billing when it was not due. The properties speak of the
others. Each of the four is needed: with any of them taken out of `exposed`,
TLC finds one of the properties violated. `Notified` is the webhook processor's
UPDATE of a subscription's status.

### Access

A caller presents a key, or registers and then logs in, or stays silent; `Asks`
says which combinations of callers a run has. A configured key may be switched
off (`active`). `validateApiKey` has no `await`, so `Refuse`, `Throttle` and
`Admit` are each one step, which decides the answer that is sent after the
audit record was tried (`Audited`); the code swallows a failure of that record.
`tracker` holds the request windows by key and address,
`CleanupRateLimitTracker` deletes those that are over, `Tick` moves the clock,
`MinuteTicks` ticks to the minute, and `MinuteOf` is the code's `Math.floor`. A
window is replaced when `now > resetTime`, so at the first instant of a minute
the one of the minute before is still in use: `WindowKept` promises at most
`Limit` requests after that instant and at most `2 * Limit - 1` in the whole
minute, and TLC reaches the latter. `AddApiKey` and `RevokeApiKey` are
operations of the middleware that no other file calls. Registration yields at
each statement (`CheckExisting`, `SaveUser`, `Registered`) and so does login
(`FindUser`, `ValidatePassword`); a statement may fail, before or after it took
effect. `Restart` loses the keys that were added, revocations and windows, and
keeps the users.

### Monitoring and Server

`Monitoring` is one step per method, since none of them has an `await`:
`RecordTimed`, `RecordMetric` and `CollectSystemMetrics` append and then enforce
the limit, `CleanupOldMetrics` drops by age, `Summary` is computed over the last
hour, `CheckForBottlenecks` raises alerts from it, `ResolveAlert` marks one.
Durations are small numbers and rates are compared in percent. The history
variable `recorded` keeps what was recorded, against which the summary and the
alerts are judged.

`Server` is the process, for both entry points: `index.ts`, which the
Dockerfile and `package.json` start, and `server.ts`, which starts the
monitoring too. `phase` follows the awaits of the start-up; `closings` holds
one entry for each shutdown under way (each signal begins one), at the `await`
it stands at; `conn[c]` is a client's connection and the handler of its
request. A client may leave while the handler works (`Abort`): the connection
is then gone for `server.close`, and the handler runs on as `aborted`, with
stores that may be closed under it. Of Node the module has what the code leans
on: `server.close` stops listening and calls back when the last connection is
gone, a second close calls back with an error, an idle connection is closed
after a while, `process.exit` ends everything. `webcrypto` is whether the
runtime has a global `crypto`, which `AlertService.createAlert` uses and Node
18 lacks.

## 3. What is checked

The runs of `Payments`, `Settlement` and `Webhooks` set `CHECK_DEADLOCK FALSE`:
clients and senders act finitely often, and the system stops when all of it is
dealt with. So does the run of `Server`, whose process exits. The scheduler of
`Billing` never stops, nor do the callers of `Access`, and their runs check for
deadlock.

| Run | Instance | Shows |
|---|---|---|
| `payments_faults` | 2 requests, 1 key, 1 correlation id, purchase and cancel, all faults, 2 attempts | key properties, ledger, and the refinement of `ChargeContract` |
| `payments_duplicate` | 2 purchases, 1 key, no faults | violation: overlapping requests with one key are both charged |
| `settlement_end` | 2 requests, authorize, capture and cancel, holds, lost answers, notifications with reruns, fairness | the ledger with two writers; settled rows move only by a notification; every request ends, every charge is booked |
| `webhooks_faults` | 2 deliveries of a void or of a notice of unknown type, 1 transaction, writes of the API, API and worker, all faults but the lost answer, 2 attempts | the refinement of `EventLife`; row, queue and dead letters agree through crashes and reruns; no event comes back once it is over |
| `webhooks_end` | 2 deliveries of a cancellation or a creation, 1 subscription the API cancels and reactivates, API, failing handlers, adds that fail or go unanswered, 3 attempts, fairness | every queued event is processed or dead-lettered; acknowledged means queued; no event comes back |
| `webhooks_worker` | 2 deliveries, API and worker, no faults | violation: a failed job without a dead letter |
| `billing_faults` | 1 subscription, 2 clients, 2 activations, any one disturbance | outside the exposures: billed once per date, counted, never billed unless active, left cancelled |
| `billing_end` | 1 subscription, 2 clients, 1 activation, 2 disturbances, fairness | due subscriptions are billed, retries end, clients are answered |
| `billing_cancel` | 1 subscription, 2 clients, 1 activation, no disturbance | violation: billed after the cancellation was confirmed |
| `billing_amount` | 1 subscription, a creation and an update, no disturbance | violation: an update without an amount leaves the amount 0 |
| `access` | 2 callers, or 4 with one key request, a limit of 2, 2 configured keys with one id, one switched off and one to add, 4 ticks, 1 restart, failing statements | rate limit, revocation, registrations that race, login |
| `server` | both entry points, 2 connections, clients that leave, up to 2 signals, every trouble, a limit of 8 metrics | shutdown and exit codes; bounded and exact metrics; alerts; a signal ends the process |

The pause of the queue for all processes when one worker shuts down is the one
case the fair run `webhooks_end` leaves out: `QueuedEventsAreDecided` does not
hold with it. The safety properties of `webhooks_faults` hold with it.
`AcknowledgedIsQueued` has one exception, which is what the code does: when the
job could not be queued after the row was saved, whoever sends the notification
again is told "already processed", and the event is lost.
`StatusMovesInTurn` is no promise of order: while the jobs of two notifications
are both being tried, a late retry of the older may overwrite the newer.

Some properties except a case in which the code does go wrong, and then say
that it goes wrong in no other; PROJECT.json has a note with each hazard of
which that is so.

### Bounds and why they suffice

The properties of keys relate two requests, and their violations need at most a
third one that replays; the ledger and the settled rows relate one row to one
or two writers. Two requests, one key and one correlation id therefore contain
every conflict between two; `PaymentsProofs` covers any number of requests.
`RetryAttempts` is 3 in the code and 2 in the runs: the first attempt that may
be repeated, and the last one. Deliveries conflict in pairs on one event id.
`attempts` and `max_retries` are both 3 in the code; `webhooks_end` uses 3,
`webhooks_faults` 2, for the same reason as above. In these modules no other
number is bounded: requests and deliveries are sent once each, and a job stalls
at most twice. `settlement_end` sends two requests, an authorization and what
refers to it, or two that do: one row with both its writers, or two rows that
carry one gateway id.

Billing relates one row to the actors that hold copies of it: two activations
and a second request beside the one that created it are three holders, and two
months with `Cycles` = 2 contain the first charge, the second due date and the
expiry. Subscriptions meet only in the loops of a cycle, where an exception for
one ends the loop for the others until the next cycle. `MaxRetries` is 5 in the
code and 1 in the runs: a scheduled retry, and the suspension after it.
Disturbances (failing statements, lost answers, crashes, shutdowns, manual
triggers, overlapping cycles) are counted by `disturbed` and bounded by
`MaxDisturbed`; `month` stops at `MaxMonth`.

`access` has `Limit` 2 and two ticks to the minute: four callers with the same
key and address are twice the limit and one more than a minute may see, and a
window can be over, exactly over or not yet over. With a limit of 1 the first
instant of a minute would show nothing, since a window that was begun is full.
Four different requests would add nothing: what keys, addresses and accounts do
to each other takes two. `MaxTime` 4 is two minutes, in the second of which one
of the keys has expired; `MaxRestarts` is 1. The first two configured keys
share their id, which is the case the revocation gets wrong; the one to add may
share it too. Names and addresses overlap in one value, so that accounts can be
mistaken.

`server` draws the bounds of a behaviour from `Loads`: much traffic with two
signals and little monitoring, or the reverse. `MaxMetrics` is 10000 in the code
and 8 in the run, so that two rounds of system metrics reach the limit;
`RetentionHours` is 24 in the code and 1 in the run.

Symmetry over requests and deliveries is used in safety runs only.

### Fairness

`Payments!Fairness` is weak fairness of each handler and of the gateway's
decision: the event loop runs every continuation that is due, and the SDK calls
back in any case (with a response, or without one after an error or a
timeout of its own). Clients, the clock, the cleanup and crashes are not fair.
`Webhooks!Fairness` is weak fairness of the handlers, of each process that
works, of taking jobs, and of Bull's timers for delayed and stalled jobs.
Senders, crashes and shutdowns are not fair.
`Billing!Fairness` is weak fairness of each activation, which stands for the
interval and for awaited statements being answered, and of the retry delays.
Clients, the clock, `Start` and the disturbances are not fair, so the liveness
properties speak of the time while the scheduler is on.
`SettlementFairSpec` adds weak fairness of the processor to that of `Payments`:
Bull hands queued notifications over.
`ServerFairness` is weak fairness of handlers, which answer or hang, of idle
connections, which time out, of the awaited closings, and of the 30 second timer
of `server.ts`. Clients, signals and failures are not fair.

### Violations

Each names a sentence of the repository that the code does not live up to; the
details are in `PROJECT.json` under "findings".

## 4. What is proved

The seven proof modules use only the named assumptions of the modules they are
about: of `Payments`, that operations and fault kinds are known ones, that there
is at least one attempt, and that `None`, `BadKey`, `UnknownId`, requests and
correlation ids are different values; of `Settlement`, `SameIdAssumption`; of
`Webhooks`, its assumptions about hosts, limits (`MaxRetries >= MaxAttempts`)
and `None`; of `Access`, that limit and minute are positive, the list of
configured keys is a finite sequence and the keys' settings are typed; of
`Billing`, that operations, statuses and disturbances are known ones, billing
intervals are positive and the limits natural numbers; of `Monitoring` and
`Server`, that limit, durations and loads are natural numbers, a sample is kept
for an hour at least, the thresholds are percentages or durations, and entry
points and troubles are known ones. The theorems hold for
every set of requests, keys, deliveries, event ids, transactions, processes,
subscriptions, clients, connections and activations of the scheduler, every
selection of operations and faults, every number of attempts and every limit of
the metrics. Each invariant was checked by TLC on the instances above before it
was proved.

Every invariant and every action property that a passing run checks is stated by
a theorem. The four promises the runs refute have a theorem each that says when
they hold: `PromisesKept` and `PromisesSurvive` (charged once, but for four
exposures), `FailedReachDeadLetters` (no process without a data source),
`CancelledIsNotBilled` (no copy of the row held when the cancellation comes) and
`NamedAmountsStayPositive` (every update names an amount). Where a theorem needs
more than the assumptions on the constants, it states that hypothesis itself.

`PaymentsProofs`:

* `TypeCorrect`, `NoResend`: by the invariant `Basic` (types, and `Lifecycle`:
  each handler is where its variables say it is, a result other than an error
  is the gateway's decision, a transaction is sent only from `operating`).
* `LedgerCorrect`, `SettledForGood`: `RowsOwned` is the strengthening. A row
  with a server-made id belongs to one request, is absent before that request
  saves it, and is unsettled until it is updated. Without it nothing rules out
  that an UPDATE meets a row that was settled before.
* `KeyChargedOnce`, `KeyAnsweredAlike`, `RefusedNotCharged`, and their
  conjunction `PromisesKept`: `KeysGuarded`. For a key nothing exposed there is
  at most one live request, none beside a cache entry, and a transaction that is
  or may be approved belongs to a live request or is covered by the entry. The
  three properties follow at once; none is inductive alone, because a second
  charge is prevented by what the store will hold when the next request arrives,
  not by what the table says now.
* `PaymentsImplementContract`: every step maps to a step of `ChargeContract` or
  leaves its variables unchanged. A replay maps to an acceptance on the strength
  of another request; `StoreBacked` says that an entry was sent as an answer
  before and that its transaction is approved.
* `AcceptancesBacked` and `VerdictsFinal` are what the contract is worth,
  proved of `ChargeContract` alone (`ContractWorth`) and therefore true of
  whatever implements it: an acceptance rests on an approved transaction that
  was accepted as its own request's, a replay sends nothing, and nothing is
  taken back.

`SettlementProofs` reuses the invariants of `PaymentsProofs` for the steps of
the API and proves again what the second writer could break. `SInv` is `Basic`,
`RowsOwned`, two facts about rows that carry a gateway id (the gateway has
approved, declined or held it; what they refer to was charged), the types of
the notifications, `NotesAimed` (a row found still carries the id of the
notification) and `LedgerSettles`. The step of the API needs that it never
touches a row it has settled, the step of the processor that it changes the
status alone. `SettlementInvariant`, `NotesCorrect`, `LedgerSettled` and
`MovedByNotice` are its results. `CallInv` of `PaymentsProofs`, the part of the
invariant that does not speak of the table, survives the second writer
untouched; hence `PromisesSurvive` (`ChargePromises` with both writers at work)
and `SettlementImplementsContract`: to the clients every step of the processor
is a stutter of `ChargeContract`. `AcceptancesSurvive` is `ContractWorth`
again.

`WebhooksProofs`: the inductive invariant `WInv` ties the parts together.

* `IntakeAgrees`, `EventsUnique`: what the handler of a delivery has done shows
  in its row, its job and its answer; a job exists only with a row, and an event
  id is in one row.
* `HostsAgree`: a process works on a job that is active, two processes never on
  one job, and the statement it waits for fits what it has read.
* `CountersAgree`: between two runs of a job the row's counter is at most the
  attempts and stalls Bull knows of; while a process works on it, it may be one
  ahead, and only after this try was counted. `LettersAgree`: a dead letter
  belongs to a row that is failed with `MaxRetries` counted, and the try that
  wrote it has only to throw. Together they give `CountersCompatible`
  (`RowAgreesWithBull`), which alone is not inductive: that Bull gives the job
  up when the row says so follows from where the process stands.
* `EffectsAgree`: a try that is past its handler has its effect recorded, from
  which `ProcessedWasHandled` follows, which no run checks on its own: it is the
  row's side of what the refinement says of the job.
* `WebhooksImplementEventLife`: every step of the intake, the queue, a process,
  a crash or a shutdown is a step of `EventLife` or leaves its variables alone.
* `EventsLiveOnce` and `EventsLast` follow from `EventLife` alone (`LifeWorth`):
  one accepted delivery per event, no completion before the handler ran, no end,
  acceptance, effect or answer taken back.
* `NoEventComesBack` (`StatusMovesInTurn`): `ProcessedSays` says that the table
  of types and the handlers make of every notification what it says, and
  `WorkIsOpen` that the event of a job somebody works on is not over, because
  the job is active and no other row has the event. The writes of the API are
  arbitrary.
* `FailedReachDeadLetters` (`FailedEventsAreDeadLettered`) and `OverIsDecided`
  hold under `InStep`: every process has a data source, only the handlers'
  statements and the adding of jobs fail, and row and Bull have the same limit.
  Then `LockStep` is inductive: the two counters are equal whenever no process
  works on the job, and no job ever stalls. Each part of `InStep` is needed:
  the run `webhooks_worker` shows a process without a data source, and TLC
  finds a job given up without its dead letter as soon as processes crash,
  statements of the catch block or the adding of the letter fail, or the row
  may be retried more often than Bull tries.
* `SendersToldTruth`: the answers `queued` and `duplicate` are never wrong about
  the tables, whatever fails. `AcknowledgedIsKept`: they also mean that a job
  exists or is about to be added, but for the exception of
  `AcknowledgedIsQueued`, of which this is the part that needs no fairness.

`AccessProofs`: the inductive invariant `AccessInv` has three independent parts.

* `Windows`: of each key and address the window on record accounts for the
  requests of the present minute (`Accounted`). Either it belongs to this minute
  and has counted them all; or it is the one of the minute before, still in use
  at the first instant; or it belongs to this minute, but was made after the old
  one had let some through at that instant; or there were none. The old window
  had counted one request at least before the minute began, which is where the
  `- 1` of `LimitKept` (`WindowKept`) comes from.
* `NamedRevoked`: the first key with a revoked id, the one revocation finds, is
  inactive, whence `RevocationHolds`.
* `Accounts`: `Place` says what a registration knows at each point of the
  handler, `RowsUnique` is what the two constraints guarantee, `RowsOwned` that
  a row belongs to a registration that stored it, `Logins` what a login has
  read. `RegistrationsAnswered` and `OwnersLogIn` follow.

`BillingProofs`: the inductive invariant `BInv` has three parts.

* `Shape`: what an activation or a request holds at each statement it waits for
  (`RunSound`, `CallSound`); a retry belongs to a row of the table.
* `Creations`: one request creates a subscription, and the row appears only
  after the gateway has it. `RowsAtGateway` follows.
* `Billed`, of each subscription nothing exposed. `Exclusive`: one actor at most
  holds a copy of its row. `RunFresh` and `CallFresh`: a copy still equals the
  row while its holder relies on it, and what the scheduler saves after a charge
  continues an active row whose cycles were not done. `Counted`: the cycles
  count the charges, and `last` and `next` lie behind them; hence a charge is
  for a new date. The last conjunct says that whatever is in the retry map had
  its last cycle: outside the exposures a retry never leads to a charge, which
  is why the retry loop cannot charge a date twice.

`ChargedOnSchedule`, `CyclesAgree`, `BilledWhenActive` and `CancelledKept`
follow. None is inductive alone: what a copy will do to the row when it is
saved is known only from `Exclusive` and the freshness of the copy.

Two more theorems add to `BInv`. `CancelledIsNotBilled`: `CancelHeld` says that
an answered cancellation of a subscription nobody asked to update still stands
in the row unless the subscription is exposed; it is kept because of
`CancelledStays`, and `OnlyActiveIsBilled` then excludes a charge. It supposes
that no late notification sets subscriptions active.
`NamedAmountsStayPositive`: `AllPaid` says that not only the rows but all
copies of rows, of the scheduler and of the requests, have a positive amount,
since each of them may be saved.

`MonitoringProofs` is about the calls of the two services. The lists are
filtered by age with `Younger`, a recursive function; since the library's
induction theorems are out of reach, the induction is carried by a set of
numbers: that a set of naturals has a least element follows from the finite
subsets being well-founded (`LeastOf`, `UpTo`). Of a list in order the filter
keeps the end (`SplitExists`, `YoungerIsEnd`, `YoungerFacts`). `MetricsInv` says
that the lists are in order, within the limit and the ends of what was recorded,
and that until something is dropped they hold all that is younger than the
retention; `RecentExact` (the summary of the last hour is exact) and
`FailureRaises` (a check raises the error-rate alert if the hour has a failure
and requests are few) follow.

`ServerProofs`: the inductive invariant `SInv` joins `MetricsInv` with the
process. `PhaseInv` says what is connected in which phase of the start,
`ShutdownInv` that stores are closed only after the last connection is gone,
when only handlers without a client may be left, `ClosingsInv` how far each of
several overlapping shutdowns is: of those of `index.ts` only the first passes
its `server.close`. `ServerTyped`, `RequestsHaveStores`, `ZeroMeansClosed`,
`OneSignalSuffices`, `MetricsKeepLimit` and `SummaryExact` follow.
`FailuresFound` needs `AlertedInv`, which is about the present hour too: a
failure of an hour that is not over has its alert, or the check that will raise
it is still to come (`fresh`).

### Only model-checked

Liveness, which the prover cannot handle: `EveryRequestEnds`, `RowsSettle`,
`ChargesAreBooked`, `QueuedEventsAreDecided`, `AcknowledgedIsQueued`,
`DueIsBilled`, `RetriesEnd`, `EveryCallEnds`, `SignalEndsProcess`; and that the
runs that check for deadlock find none, which is a statement about `ENABLED`.

## 5. Not modelled

* What becomes at the gateway of a transaction it holds for review.
* Amounts, metadata and the backoff delays of billing; TypeORM's own read
  inside a save.
* Parsing, formatting, encryption, sanitization, logging, tracing and the
  settings read from the environment: pure functions or I/O. The signature check
  is its outcome. `secureErrorHandler` is mounted nowhere.
* The issuing and verification of JWTs, which keeps no state.
* The audit log: append-only records and counting queries. The one decision in
  it, the alarm after five failures, looks for metadata fields no caller fills
  in, so it never fires.
* The placeholder handlers of `routes/payments.ts` (GET and refund), which
  answer from constants, and the read-only queries of webhooks and
  subscriptions.
* The 30 seconds a worker waits for its active jobs; the exit that follows is
  the crash of a process.
* Migrations and seeds: one-off DDL and demo data.

Some of what is modelled is reached by nothing in the repository, and the model
says so where it calls it: `recordRequestMetric`, `recordDatabaseMetric`,
`recordExternalApiMetric`, `resolveAlert`, `addApiKey`, `revokeApiKey`,
`initializeJobScheduler`, and the API key middleware itself, which no route of
`app.ts` mounts.

## 6. Plan

1. Done: `ChargeContract`, `Payments`, `Settlement` and their proofs;
   `EventLife`, `Webhooks` and its proofs; `Billing` and `Access` and their
   proofs; `Monitoring` and `Server` and their proofs. Every safety property of
   the runs is proved.
2. The safety cores of the liveness properties, as `AcknowledgedIsKept` is of
   `AcknowledgedIsQueued`: for each handler and job that is not over, the guard
   of the step that fairness will take.
