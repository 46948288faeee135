------------------------------ MODULE Webhooks ------------------------------
(***************************************************************************)
(* The webhook path: POST /api/v1/webhooks/authorize-net stores each       *)
(* notification of Authorize.Net as a row of webhook_events and queues a   *)
(* Bull job for it; the processes that load webhookQueue.ts take the jobs  *)
(* and apply the notifications to the transactions and subscriptions.      *)
(*                                                                         *)
(* Two counters drive the retries and nothing ties them together: Bull     *)
(* counts the attempts of the job, the row counts its own retries and      *)
(* decides when the event goes to the dead letter queue.                   *)
(***************************************************************************)
EXTENDS Naturals

CONSTANTS
  Delivery,     \* the HTTP requests that deliver notifications
  EventId,      \* the ids notifications carry
  GatewayId,    \* the ids the gateway gives transactions and subscriptions
  Txn, Sub,     \* the rows of the tables transactions and subscriptions
  Stored,       \* the statuses the API and the scheduler store in them
  None,         \* "no value"
  Notice,       \* the notifications: [id, type, subject]
  Host,         \* the processes that take jobs
  Api,          \* the one of them that also serves HTTP
  Connected,    \* those in which AppDataSource was initialized
  MaxAttempts,  \* Bull's "attempts" of a job
  MaxRetries,   \* max_retries of a row
  Faults        \* the kinds of fault that may strike

Subject == Txn \union Sub

(* The statuses of a transaction whose outcome is known, of a subscription. *)
TxnStatus == {"completed", "failed"}
SubStatus == {"active", "inactive", "cancelled", "suspended", "expired"}

FaultKinds ==
  {"crash",    \* a process dies and restarts
   "events",   \* a statement on webhook_events fails
   "handler",  \* a statement on transactions or subscriptions fails
   "queue",    \* adding a job fails
   "answer",   \* it is added, but the handler does not learn it
   "letter"}   \* adding a dead letter fails

EventType ==
  {"payment.completed", "payment.failed", "refund.completed",
   "subscription.created", "subscription.updated", "subscription.cancelled"}

RawType ==
  {"payment.authcapture.created", "payment.authorization.created",
   "payment.capture.created", "payment.void.created",
   "payment.refund.created", "customer.subscription.created",
   "customer.subscription.updated", "customer.subscription.cancelled",
   "customer.subscription.suspended", "customer.subscription.terminated",
   "other"}

ASSUME DeliveryAssumption ==
  /\ Delivery \intersect EventId = {}
  /\ None \notin Delivery \union EventId \union GatewayId \union Notice
  /\ None \notin Subject /\ Txn \intersect Sub = {}
ASSUME NoticeAssumption ==
  Notice \subseteq [id: EventId \union {None}, type: RawType,
                    subject: GatewayId \union {None}]
ASSUME StoredAssumption == Stored \subseteq TxnStatus \union SubStatus
ASSUME HostAssumption ==
  Api \in Host /\ Api \in Connected /\ Connected \subseteq Host
ASSUME LimitAssumption ==
  MaxAttempts \in Nat \ {0} /\ MaxRetries \in Nat /\ MaxRetries >= MaxAttempts
ASSUME FaultAssumption == Faults \subseteq FaultKinds

VARIABLES
  http,      \* http[d]: how far the handler of delivery d has come
  notice,    \* notice[d]: the notification d carries, None before it arrives
  reply,     \* reply[d]: what the sender of d was told
  rows,      \* rows[d]: the webhook_events row that d saved
  job,       \* job[d]: the state of the Bull job for that row
  attempts,  \* attempts[d]: Bull's attemptsMade
  stalls,    \* stalls[d]: Bull's stalledCount
  paused,    \* the queue is paused, in Redis and so for every process
  dead,      \* dead[d]: dead letters for d
  work,      \* work[h]: the job host h is processing
  at,        \* at[h]: how far it has come
  seen,      \* seen[h]: the retries it read of the event's row
  found,     \* found[h]: the transaction or subscription it found
  ids,       \* ids[r]: the gateway id in row r of these tables
  subject,   \* subject[r]: its status, "unknown" while nothing is stored
  effect     \* history: what processing d did

intake == <<http, notice, reply>>
queue == <<job, attempts, stalls, paused, dead>>
hosts == <<work, at, seen, found>>
tables == <<ids, subject>>
vars == <<intake, rows, queue, hosts, tables, effect>>

Row == [event: EventId \union Delivery,
        status: {"pending", "processing", "processed", "failed", "retrying"},
        retries: Nat]

ASSUME NoneAssumption ==
  None \notin Row /\ None \notin {"queued", "duplicate", "error", "rejected"}

Handling == {"finding", "saving", "adding"}

JobState == {"none", "waiting", "delayed", "active", "completed", "failed"}

Trying == {"marking", "loading", "finding", "updating", "finishing"}

Stage == Trying \union {"idle", "reading", "recording", "burying", "throwing",
                        "acking"}

Status == {"unknown"} \union TxnStatus \union SubStatus

Init ==
  /\ http = [d \in Delivery |-> "idle"]
  /\ notice = [d \in Delivery |-> None]
  /\ reply = [d \in Delivery |-> None]
  /\ rows = [d \in Delivery |-> None]
  /\ job = [d \in Delivery |-> "none"]
  /\ attempts = [d \in Delivery |-> 0]
  /\ stalls = [d \in Delivery |-> 0]
  /\ paused = FALSE
  /\ dead = [d \in Delivery |-> 0]
  /\ work = [h \in Host |-> None]
  /\ at = [h \in Host |-> "idle"]
  /\ seen = [h \in Host |-> 0]
  /\ found = [h \in Host |-> None]
  /\ ids = [r \in Subject |-> None]
  /\ subject = [r \in Subject |-> "unknown"]
  /\ effect = [d \in Delivery |-> "none"]

-----------------------------------------------------------------------------
(* What a notification means.                                              *)

mapAuthorizeNetEventType(raw) ==
  CASE raw \in {"payment.authcapture.created", "payment.authorization.created",
                "payment.capture.created"}    -> "payment.completed"
    [] raw = "payment.void.created"            -> "payment.failed"
    [] raw = "payment.refund.created"          -> "refund.completed"
    [] raw = "customer.subscription.created"   -> "subscription.created"
    [] raw = "customer.subscription.updated"   -> "subscription.updated"
    [] raw \in {"customer.subscription.cancelled",
                "customer.subscription.suspended",
                "customer.subscription.terminated"} -> "subscription.cancelled"
    [] raw = "other"                           -> "payment.completed"

PaymentTypes == {"payment.completed", "payment.failed", "refund.completed"}

Type(d) == mapAuthorizeNetEventType(notice[d].type)

(* The rows a handler looks among.                                         *)
Table(type) == IF type \in PaymentTypes THEN Txn ELSE Sub

processPayment(type) ==
  CASE type \in {"payment.completed", "refund.completed"} -> "completed"
    [] type = "payment.failed" -> "failed"

(* An update of a subscription changes its amount, not its status.         *)
processSubscription(type, status) ==
  CASE type = "subscription.created"   -> "active"
    [] type = "subscription.updated"   -> status
    [] type = "subscription.cancelled" -> "cancelled"

Processed(type, status) ==
  IF type \in PaymentTypes THEN processPayment(type)
                           ELSE processSubscription(type, status)

-----------------------------------------------------------------------------
(* Intake: WebhookController.handleAuthorizeNetWebhook, one await at a     *)
(* time.  Any error is answered with 500.                                  *)

Arrive(d) ==
  /\ http[d] = "idle"
  /\ http' = [http EXCEPT ![d] = "finding"]
  /\ \E n \in Notice : notice' = [notice EXCEPT ![d] = n]
  /\ UNCHANGED <<reply, rows, queue, hosts, tables, effect>>

(* A missing or wrong signature, no JSON, no eventType.                    *)
Reject(d) ==
  /\ http[d] = "idle"
  /\ http' = [http EXCEPT ![d] = "done"]
  /\ reply' = [reply EXCEPT ![d] = "rejected"]
  /\ UNCHANGED <<notice, rows, queue, hosts, tables, effect>>

Tell(d, answer) ==
  /\ http' = [http EXCEPT ![d] = "done"]
  /\ reply' = [reply EXCEPT ![d] = answer]

(* A notification without an id gets a fresh one, here the delivery's.     *)
EventOf(d) == IF notice[d].id = None THEN d ELSE notice[d].id

\* mutant of Saved: what failed may be delivered again
SavedUnfailed(e) ==
  {d \in Delivery : /\ rows[d] # None /\ rows[d].event = e
                    /\ rows[d].status # "failed"}

Saved(e) == {d \in Delivery : rows[d] # None /\ rows[d].event = e}

FindDuplicate(d) ==
  /\ http[d] = "finding"
  /\ IF Saved(EventOf(d)) # {}
     THEN Tell(d, "duplicate")
     ELSE http' = [http EXCEPT ![d] = "saving"] /\ UNCHANGED reply
  /\ UNCHANGED <<notice, rows, queue, hosts, tables, effect>>

\* mutant of Insertable: the column event_id is not unique
AlwaysInsertable(d) == TRUE

(* event_id is UNIQUE: of two deliveries that found nothing one fails.     *)
Insertable(d) == Saved(EventOf(d)) = {}

SaveEvent(d) ==
  /\ http[d] = "saving"
  /\ Insertable(d)
  /\ rows' = [rows EXCEPT ![d] =
       [event |-> EventOf(d), status |-> "pending", retries |-> 0]]
  /\ http' = [http EXCEPT ![d] = "adding"]
  /\ UNCHANGED <<notice, reply, queue, hosts, tables, effect>>

\* mutant of AddJob: the add is not awaited and fails unnoticed
AddLater(d) ==
  /\ http[d] = "adding"
  /\ Tell(d, "queued")
  /\ UNCHANGED <<notice, rows, queue, hosts, tables, effect>>

(* After the add the handler has only to answer; the process may die       *)
(* before it does, or Redis's answer may be lost.                          *)
AddJob(d) ==
  /\ http[d] = "adding"
  /\ job' = [job EXCEPT ![d] = "waiting"]
  /\ \/ Tell(d, "queued")
     \/ "answer" \in Faults /\ Tell(d, "error")
     \/ /\ "answer" \in Faults
        /\ http' = [http EXCEPT ![d] = "lost"]
        /\ UNCHANGED reply
  /\ UNCHANGED <<notice, rows, attempts, stalls, paused, dead, hosts, tables,
                 effect>>

IntakeBreaks(d) ==
  \/ http[d] = "finding" /\ "events" \in Faults
  \/ http[d] = "saving" /\ ("events" \in Faults \/ ~Insertable(d))
  \/ http[d] = "adding" /\ "queue" \in Faults

IntakeFails(d) ==
  /\ IntakeBreaks(d)
  /\ Tell(d, "error")
  /\ UNCHANGED <<notice, rows, queue, hosts, tables, effect>>

-----------------------------------------------------------------------------
(* Processing: the processor of webhookQueue.ts, one job per process at a  *)
(* time, and inside it WebhookProcessor.processWebhookEvent.               *)

Take(h, d) ==
  /\ work[h] = None /\ job[d] = "waiting" /\ ~paused
  /\ job' = [job EXCEPT ![d] = "active"]
  /\ work' = [work EXCEPT ![h] = d]
  /\ at' = [at EXCEPT ![h] = "marking"]
  /\ UNCHANGED <<intake, rows, attempts, stalls, paused, dead, seen, found,
                 tables, effect>>

Step(h, from, to) ==
  /\ at[h] = from
  /\ at' = [at EXCEPT ![h] = to]
  /\ UNCHANGED <<intake, work>>

\* mutant of MarkProcessing: a retry is counted when it starts as well
CountAtStart(h) ==
  /\ h \in Connected
  /\ Step(h, "marking", "loading")
  /\ rows' = [rows EXCEPT ![work[h]].status = "processing",
                         ![work[h]].retries = @ + 1]
  /\ UNCHANGED <<queue, seen, found, tables, effect>>

MarkProcessing(h) ==
  /\ h \in Connected
  /\ Step(h, "marking", "loading")
  /\ rows' = [rows EXCEPT ![work[h]].status = "processing"]
  /\ UNCHANGED <<queue, seen, found, tables, effect>>

LoadEvent(h) ==
  /\ h \in Connected
  /\ Step(h, "loading",
          IF notice[work[h]].subject = None THEN "finishing" ELSE "finding")
  /\ effect' = [effect EXCEPT ![work[h]] =
       IF notice[work[h]].subject = None THEN "nothing" ELSE @]
  /\ UNCHANGED <<rows, queue, seen, found, tables>>

(* findOne returns one of the rows with the id; the column is not unique.  *)
(* An id that is not in the table is only logged.                          *)
FindSubject(h) ==
  LET d == work[h]
      matching == {r \in Table(Type(d)) : ids[r] = notice[d].subject}
  IN /\ h \in Connected /\ at[h] = "finding"
     /\ \/ /\ matching = {}
           /\ Step(h, "finding", "finishing")
           /\ effect' = [effect EXCEPT ![d] = "nothing"]
           /\ UNCHANGED found
        \/ /\ Step(h, "finding", "updating")
           /\ \E r \in matching : found' = [found EXCEPT ![h] = r]
           /\ UNCHANGED effect
     /\ UNCHANGED <<rows, queue, seen, tables>>

UpdateSubject(h) ==
  LET d == work[h]
      r == found[h]
  IN /\ h \in Connected
     /\ Step(h, "updating", "finishing")
     /\ subject' = [subject EXCEPT ![r] = Processed(Type(d), @)]
     /\ effect' = [effect EXCEPT ![d] = "applied"]
     /\ UNCHANGED <<rows, queue, seen, found, ids>>

MarkProcessed(h) ==
  /\ h \in Connected
  /\ Step(h, "finishing", "acking")
  /\ rows' = [rows EXCEPT ![work[h]].status = "processed"]
  /\ UNCHANGED <<queue, seen, found, tables, effect>>

(* A process whose data source was never initialized fails every statement. *)
Breaks(h, kind) == h \notin Connected \/ kind \in Faults

FaultAt(stage) ==
  IF stage \in {"finding", "updating"} THEN "handler" ELSE "events"

\* mutant of Caught: a failing handler is logged and the event goes on
SwallowHandler(stage) ==
  IF stage \in {"finding", "updating"} THEN "finishing" ELSE "reading"

Caught(stage) == "reading"

TryFails(h) ==
  /\ at[h] \in Trying
  /\ Breaks(h, FaultAt(at[h]))
  /\ Step(h, at[h], Caught(at[h]))
  /\ UNCHANGED <<rows, queue, seen, found, tables, effect>>

(* The catch block reads the row, counts the retry and buries the event    *)
(* when it was the last; an error in the block ends it early.              *)
ReadRetries(h) ==
  /\ h \in Connected
  /\ Step(h, "reading", "recording")
  /\ seen' = [seen EXCEPT ![h] = rows[work[h]].retries]
  /\ UNCHANGED <<rows, queue, found, tables, effect>>

\* mutant of MaxReached: one retry too many
MaxPassed(n) == n > MaxRetries

MaxReached(n) == n >= MaxRetries

RecordRetry(h) ==
  LET n == seen[h] + 1
  IN /\ h \in Connected
     /\ Step(h, "recording", IF MaxReached(n) THEN "burying" ELSE "throwing")
     /\ rows' = [rows EXCEPT
          ![work[h]].status = IF MaxReached(n) THEN "failed" ELSE "retrying",
          ![work[h]].retries = n]
     /\ UNCHANGED <<queue, seen, found, tables, effect>>

Bury(h) ==
  /\ Step(h, "burying", "throwing")
  /\ dead' = [dead EXCEPT ![work[h]] = @ + 1]
  /\ UNCHANGED <<rows, job, attempts, stalls, paused, seen, found, tables,
                 effect>>

CatchFails(h) ==
  /\ \/ at[h] \in {"reading", "recording"} /\ Breaks(h, "events")
     \/ at[h] = "burying" /\ "letter" \in Faults
  /\ Step(h, at[h], "throwing")
  /\ UNCHANGED <<rows, queue, seen, found, tables, effect>>

Release(h) ==
  /\ work' = [work EXCEPT ![h] = None]
  /\ at' = [at EXCEPT ![h] = "idle"]
  /\ seen' = [seen EXCEPT ![h] = 0]
  /\ found' = [found EXCEPT ![h] = None]

\* mutants of LastAttempt: one attempt too many, a single attempt
OneMoreAttempt(d) == attempts[d] + 1 > MaxAttempts
OneAttempt(d) == TRUE

LastAttempt(d) == attempts[d] + 1 >= MaxAttempts

(* The processor throws: Bull counts the attempt and backs off, or gives   *)
(* the job up.                                                             *)
Throw(h) ==
  LET d == work[h]
  IN /\ at[h] = "throwing"
     /\ Release(h)
     /\ attempts' = [attempts EXCEPT ![d] = @ + 1]
     /\ job' = [job EXCEPT ![d] = IF LastAttempt(d) THEN "failed" ELSE "delayed"]
     /\ UNCHANGED <<intake, rows, stalls, paused, dead, tables, effect>>

Complete(h) ==
  /\ at[h] = "acking"
  /\ Release(h)
  /\ job' = [job EXCEPT ![work[h]] = "completed"]
  /\ UNCHANGED <<intake, rows, attempts, stalls, paused, dead, tables, effect>>

-----------------------------------------------------------------------------
(* Bull, the processes and the other paths around them.                    *)

(* The backoff of a delayed job has passed.                                *)
Promote(d) ==
  /\ job[d] = "delayed"
  /\ job' = [job EXCEPT ![d] = "waiting"]
  /\ UNCHANGED <<intake, rows, attempts, stalls, paused, dead, hosts, tables,
                 effect>>

(* An active job whose lock nobody renews is run again, once.              *)
Recover(d) ==
  /\ job[d] = "active"
  /\ \A h \in Host : work[h] # d
  /\ stalls' = [stalls EXCEPT ![d] = @ + 1]
  /\ job' = [job EXCEPT ![d] = IF stalls[d] = 0 THEN "waiting" ELSE "failed"]
  /\ UNCHANGED <<intake, rows, attempts, paused, dead, hosts, tables, effect>>

Crash(h) ==
  /\ "crash" \in Faults
  /\ Release(h)
  /\ http' = IF h = Api
             THEN [d \in Delivery |->
                    IF http[d] \in Handling THEN "lost" ELSE http[d]]
             ELSE http
  /\ UNCHANGED <<notice, reply, rows, queue, tables, effect>>

(* A worker that is told to stop pauses the queue, and not only for        *)
(* itself; nothing ever resumes it.                                        *)
ShutdownWorker(h) ==
  /\ h # Api
  /\ ~paused
  /\ paused' = TRUE
  /\ UNCHANGED <<intake, rows, job, attempts, stalls, dead, hosts, tables,
                 effect>>

(* The API and the scheduler write these rows as well.  The outcome of a   *)
(* gateway call, with the id of the transaction if there is one; once more *)
(* when a client uses its transaction_id again.                            *)
updateTransactionStatus(r) ==
  /\ r \in Txn
  /\ \/ \E g \in GatewayId : ids' = [ids EXCEPT ![r] = g]
     \/ UNCHANGED ids
  /\ \E status \in Stored \intersect TxnStatus :
       subject' = [subject EXCEPT ![r] = status]

createSubscription(r) ==
  /\ r \in Sub /\ ids[r] = None
  /\ \E g \in GatewayId : ids' = [ids EXCEPT ![r] = g]
  /\ subject' = [subject EXCEPT ![r] = "active"]

(* The status of an update, a cancellation, a stale copy after a billing.  *)
saveSubscription(r) ==
  /\ r \in Sub /\ ids[r] # None
  /\ \E status \in Stored \intersect SubStatus :
       subject' = [subject EXCEPT ![r] = status]
  /\ UNCHANGED ids

ApiWrites(r) ==
  /\ updateTransactionStatus(r) \/ createSubscription(r) \/ saveSubscription(r)
  /\ UNCHANGED <<intake, rows, queue, hosts, effect>>

-----------------------------------------------------------------------------
Intake(d) ==
  \/ FindDuplicate(d) \/ SaveEvent(d) \/ AddJob(d) \/ IntakeFails(d)

Process(h) ==
  \/ MarkProcessing(h) \/ LoadEvent(h) \/ FindSubject(h) \/ UpdateSubject(h)
  \/ MarkProcessed(h) \/ TryFails(h)
  \/ ReadRetries(h) \/ RecordRetry(h) \/ Bury(h) \/ CatchFails(h)
  \/ Throw(h) \/ Complete(h)

Next ==
  \/ \E d \in Delivery :
       Arrive(d) \/ Reject(d) \/ Intake(d) \/ Promote(d) \/ Recover(d)
  \/ \E h \in Host : Process(h) \/ Crash(h) \/ ShutdownWorker(h)
  \/ \E h \in Host, d \in Delivery : Take(h, d)
  \/ \E r \in Subject : ApiWrites(r)

Spec == Init /\ [][Next]_vars

(* The processes run what is due and Bull delivers what is queued; senders, *)
(* crashes and shutdowns are not fair.                                     *)
Fairness ==
  /\ \A d \in Delivery :
       WF_vars(Intake(d)) /\ WF_vars(Promote(d)) /\ WF_vars(Recover(d))
  /\ \A h \in Host :
       WF_vars(Process(h)) /\ WF_vars(\E d \in Delivery : Take(h, d))

FairSpec == Spec /\ Fairness

-----------------------------------------------------------------------------
(* Properties.                                                             *)

(* Type correctness, with the two retry counters bounded.                  *)
TypeOK ==
  /\ http \in [Delivery -> Handling \union {"idle", "done", "lost"}]
  /\ notice \in [Delivery -> Notice \union {None}]
  /\ reply \in [Delivery -> {"queued", "duplicate", "error", "rejected", None}]
  /\ rows \in [Delivery -> Row \union {None}]
  /\ job \in [Delivery -> JobState]
  /\ attempts \in [Delivery -> 0..MaxAttempts]
  /\ stalls \in [Delivery -> 0..2]
  /\ paused \in BOOLEAN
  /\ dead \in [Delivery -> Nat]
  /\ work \in [Host -> Delivery \union {None}]
  /\ at \in [Host -> Stage]
  /\ seen \in [Host -> Nat]
  /\ found \in [Host -> Subject \union {None}]
  /\ ids \in [Subject -> GatewayId \union {None}]
  /\ subject \in [Subject -> Status]
  /\ effect \in [Delivery -> {"none", "applied", "nothing"}]

Queued(d) == job[d] # "none"

(* A row says "processed" only when its event was applied to its subject,  *)
(* or when there was nothing to apply it to.                               *)
ProcessedMeansHandled ==
  \A d \in Delivery :
    rows[d] # None /\ rows[d].status = "processed" => effect[d] # "none"

(* The row's counter never runs ahead of Bull's: between two runs of a job *)
(* every counted retry is an attempt Bull counted or a stall.              *)
RetriesWereAttempts ==
  \A d \in Delivery :
    Queued(d) /\ job[d] # "active" => rows[d].retries <= attempts[d] + stalls[d]

(* A dead letter is written once, for an event whose row is failed, and    *)
(* Bull agrees that this attempt is the last; jobs that were recovered     *)
(* after a stall are excepted, they may run again after the letter.        *)
DeadLettersAreFinal ==
  \A d \in Delivery : dead[d] > 0 /\ stalls[d] = 0 =>
    /\ dead[d] = 1
    /\ rows[d].status = "failed" /\ rows[d].retries = MaxRetries
    /\ job[d] \in {"active", "failed"}

(* What the row counts and what Bull counts stay compatible.               *)
RowAgreesWithBull == RetriesWereAttempts /\ DeadLettersAreFinal

(* What the notifications of the gateway say of their subject; one that is *)
(* not in the table of the code counts as a completed payment.             *)
Says(raw, status) ==
  /\ raw = "payment.void.created" => status = "failed"
  /\ raw \in {"payment.authcapture.created", "payment.authorization.created",
             "payment.capture.created", "payment.refund.created", "other"}
       => status = "completed"
  /\ raw = "customer.subscription.created" => status = "active"
  /\ raw \in {"customer.subscription.cancelled",
             "customer.subscription.suspended",
             "customer.subscription.terminated"} => status = "cancelled"

(* The events whose jobs are over.                                         *)
Over == {rows[d].event : d \in {c \in Delivery :
                                  job[c] \in {"completed", "failed"}}}

(* The status of a transaction or subscription moves only when the API or  *)
(* the scheduler writes the row, or when a worker applies a notification   *)
(* about it: the status is then what the notification says, and no job of  *)
(* its event is over.  While both are being tried, a late retry of one     *)
(* notification may overwrite a newer one; but no redelivery, retry or     *)
(* rerun after a crash brings an event back once it was completed or given *)
(* up, over a later notification or over a later cancellation by the API.  *)
StatusMovesInTurn ==
  [][\A r \in Subject : subject'[r] # subject[r] =>
       \/ ApiWrites(r)
       \/ \E h \in Host : /\ work[h] # None /\ found[h] = r
                          /\ Says(notice[work[h]].type, subject'[r])
                          /\ EventOf(work[h]) \notin Over]_subject

(* The refinement mapping to the life of an event.                         *)
EventIn == [d \in Delivery |-> IF rows[d] = None THEN None ELSE rows[d].event]

StageOf ==
  [d \in Delivery |-> IF rows[d] = None THEN "new"
                      ELSE IF ~Queued(d) THEN "stored"
                      ELSE IF job[d] = "completed" THEN "processed"
                      ELSE IF job[d] = "failed" THEN "given up" ELSE "queued"]

HandledOf == {d \in Delivery : effect[d] # "none"}

Life == INSTANCE EventLife WITH
  Event <- EventId \union Delivery,
  event <- EventIn, stage <- StageOf, handled <- HandledOf, told <- reply

(* What the mapping reads.  A step that leaves it alone is a stutter of    *)
(* Life, so that the formula below is Life!Spec, only quicker to evaluate. *)
Unseen == UNCHANGED <<rows, job, effect, reply>>

(* Every step of the intake, the queue and the processes, with all faults, *)
(* is one the life of an event allows, or invisible: whatever is told to   *)
(* a sender, rerun after a crash or retried, an event is queued once and   *)
(* is not completed before it was dealt with.                              *)
ImplementsEventLife ==
  Life!Init /\ [][Unseen \/ Life!Next]_(Life!vars)

(* tasks/007-webhook-system.md, "Failed events are moved to dead letter    *)
(* queue": when Bull gives a job up, the event is in the dead letter queue. *)
FailedEventsAreDeadLettered ==
  \A d \in Delivery : job[d] = "failed" => dead[d] > 0

Decided(d) ==
  \/ job[d] = "completed" /\ rows[d].status = "processed"
  \/ job[d] = "failed" /\ rows[d].status = "failed" /\ dead[d] > 0

(* Every queued event is in the end processed, or failed and dead-lettered. *)
QueuedEventsAreDecided ==
  \A d \in Delivery : Queued(d) ~> Decided(d)

(* A sender that was told "queued" or "already processed" need not send    *)
(* the notification again: a job for it is, or will be, in the queue.  The *)
(* exception is the delivery that saved the event and could not queue it:  *)
(* whoever sends it again is told "already processed" for nothing.         *)
AcknowledgedIsQueued ==
  \A d \in Delivery :
    reply[d] \in {"queued", "duplicate"} ~>
      \E c \in Delivery :
        /\ notice[d] # None /\ rows[c] # None /\ rows[c].event = EventOf(d)
        /\ \/ Queued(c)
           \/ reply[d] = "duplicate" /\ (reply[c] = "error" \/ http[c] = "lost")

=============================================================================
