------------------------------ MODULE Billing ------------------------------
(***************************************************************************)
(* Subscriptions and recurring billing: services/subscriptionService.ts,   *)
(* services/billingScheduler.ts, services/jobScheduler.ts and the handlers *)
(* of controllers/subscriptionController.ts.                               *)
(*                                                                         *)
(* Every await is a point where others may run.  What matters is that the  *)
(* code loads a whole row, works on the copy, and saves the copy: TypeORM's*)
(* save writes every column in which copy and row differ, so a copy that   *)
(* grew old overwrites what others wrote meanwhile.  A save is one step.   *)
(*                                                                         *)
(* Time is counted in months.  The minutes of the retry delays pass        *)
(* between any two steps (RetryDue).  The charge itself is simulated in    *)
(* the code and always succeeds, so a "failed payment" is a failed         *)
(* statement.                                                              *)
(***************************************************************************)
EXTENDS Naturals, Sequences, FiniteSets

CONSTANTS
  Subscription,  \* ids of subscriptions
  Runner,        \* activations of the scheduler that may run at a time
  Client,        \* requests of clients
  Operations,    \* those they may make: a subset of OperationKinds
  NewStatus,     \* statuses an update may ask for
  NamesAmount,   \* whether updates name an amount: a subset of BOOLEAN
  NoticeStatus,  \* what webhook notifications set: see Notified
  Interval,      \* billing intervals in months: 1, 3 and 12 in the code
  Overflow,      \* months Date.setMonth may go too far: {0}, or {0, 1} when
                 \* billing days past the 28th occur
  Cycles,        \* total_billing_cycles, 0 for no end
  MaxRetries,    \* retryConfig.maxRetries: 5 in the code
  Disturbances,  \* a subset of DisturbanceKinds
  MaxDisturbed,  \* how many disturbances there may be
  MaxMonth       \* the clock stops here

OperationKinds == {"create", "update", "cancel"}
DisturbanceKinds ==
  {"statement", "answer", "crash", "shutdown", "trigger", "overlap", "notice"}
Status == {"active", "inactive", "cancelled", "suspended", "expired"}

ASSUME OperationsAssumption == Operations \subseteq OperationKinds
ASSUME DisturbancesAssumption == Disturbances \subseteq DisturbanceKinds
ASSUME StatusAssumption == NewStatus \subseteq Status
ASSUME UpdateAssumption ==
  NamesAmount \subseteq BOOLEAN /\ NoticeStatus \subseteq {"active", "cancelled"}
ASSUME IntervalAssumption == Interval \subseteq Nat \ {0} /\ Overflow \subseteq Nat
ASSUME BoundsAssumption ==
  /\ Cycles \in Nat
  /\ MaxRetries \in Nat
  /\ MaxDisturbed \in Nat
  /\ MaxMonth \in Nat

VARIABLES
  rows,         \* the subscriptions table
  gateway,      \* subscriptions created at Authorize.Net
  retries,      \* failedPaymentRetries, in the memory of the process
  initialized,  \* JobScheduler.isInitialized, and with it isRunning
  run,          \* the scheduler's activations
  call,         \* the requests of clients
  month,        \* the clock
  disturbed,    \* number of disturbances so far
  bills,        \* history: the due dates each subscription was charged for
  exposed       \* history: see Exposures below

vars == <<rows, gateway, retries, initialized, run, call, month, disturbed, bills, exposed>>

(* A row; last stands for last_billing_date || start_date, and paid says   *)
(* whether the amount is positive, as it is when a subscription is created.*)
Row == [id : Subscription, status : Status, interval : Interval, paid : BOOLEAN,
        last : Nat, next : Nat, done : Nat]
NoRow == [status |-> "none"]
Exists(s) == rows[s] # NoRow

NoRetry == [count |-> 0, ready |-> FALSE]

(***************************************************************************)
(* An activation of the scheduler.  at is the statement it waits for, todo *)
(* and queue what its two loops still have to process, id the subscription *)
(* it is processing, copy the entity it was given, found the one           *)
(* updateSubscription loaded, goal what it updates, and caught whether it  *)
(* is in a catch block.                                                    *)
(***************************************************************************)
Idle == [at |-> "idle", loop |-> "due", todo |-> {}, queue |-> {}, id |-> NoRow,
         copy |-> NoRow, found |-> NoRow, goal |-> "none", caught |-> FALSE]
NoCall == [at |-> "unsent", kind |-> "none", id |-> NoRow, copy |-> NoRow,
           status |-> "none", interval |-> 0, paid |-> TRUE]

Init ==
  /\ rows = [s \in Subscription |-> NoRow]
  /\ gateway = {}
  /\ retries = [s \in Subscription |-> NoRetry]
  /\ initialized = FALSE
  /\ run = [r \in Runner |-> Idle]
  /\ call = [c \in Client |-> NoCall]
  /\ month = 0
  /\ disturbed = 0
  /\ bills = [s \in Subscription |-> <<>>]
  /\ exposed = {}

calculateNextBillingDate(from, interval) == {from + interval + o : o \in Overflow}

(* Mutants of Due: without the date, without the status, and a date that   *)
(* has to lie before this month.                                           *)
DueAnyTime(s) == Exists(s) /\ rows[s].status = "active"
DueAnyStatus(s) == Exists(s) /\ rows[s].next <= month
DueLate(s) == Exists(s) /\ rows[s].status = "active" /\ rows[s].next < month

(* getSubscriptionsDueForBilling *)
Due(s) == Exists(s) /\ rows[s].status = "active" /\ rows[s].next <= month

Disturb(kind) ==
  /\ kind \in Disturbances
  /\ disturbed < MaxDisturbed
  /\ disturbed' = disturbed + 1

(***************************************************************************)
(* Exposures: the events that let the scheduler lose track of a            *)
(* subscription.                                                           *)
(*  - two actors hold copies of its row at the same time;                  *)
(*  - a statement fails, or the process dies, after the subscription was   *)
(*    charged or created at the gateway and before that is recorded;       *)
(*  - an exception makes a retry look the row up once more;                *)
(*  - somebody triggers its billing by hand when it is not due.            *)
(* Properties that exempt exposed subscriptions say that nothing else can. *)
(***************************************************************************)
RunHolds(r, s) ==
  \/ \E e \in run[r].todo : e.id = s
  \/ run[r].id = s /\ run[r].copy # NoRow
CallHolds(c, s) == call[c].id = s /\ call[c].at \in {"writing", "confirming"}

Held(s) == (\E r \in Runner : RunHolds(r, s)) \/ (\E c \in Client : CallHolds(c, s))

Expose(S) == exposed' = exposed \cup S

----------------------------------------------------------------------------
(* Clients: subscriptionController, and the methods of SubscriptionService *)
(* it calls.                                                               *)

To(c, stage) == call' = [call EXCEPT ![c].at = stage]

(* The handler is over. *)
Ended(u, how) == [NoCall EXCEPT !.at = how, !.kind = u.kind, !.id = u.id]
End(c, how) == call' = [call EXCEPT ![c] = Ended(@, how)]

(* createSubscription up to the answer of Authorize.Net.  start_date is    *)
(* the client's: it may lie in the past or in the future.                  *)
AskCreate(c, s) ==
  /\ call[c].at = "unsent"
  /\ "create" \in Operations
  /\ ~ \E d \in Client : call[d].kind = "create" /\ call[d].id = s
  /\ \E i \in Interval, start \in 0 .. MaxMonth : \E n \in calculateNextBillingDate(start, i) :
       call' = [call EXCEPT ![c] =
                  [NoCall EXCEPT !.at = "creating", !.kind = "create", !.id = s,
                   !.copy = [id |-> s, status |-> "active", interval |-> i, paid |-> TRUE,
                             last |-> start, next |-> n, done |-> 0]]]
  /\ UNCHANGED <<rows, gateway, retries, initialized, run, month, disturbed, bills, exposed>>

(* A mutant of GatewayAnswers: success is not looked at. *)
AnswerUnchecked(c) ==
  /\ call[c].at = "creating"
  /\ gateway' \in {gateway, gateway \cup {call[c].id}}
  /\ To(c, "inserting")
  /\ UNCHANGED <<rows, retries, initialized, run, month, disturbed, bills, exposed>>

(* Both outcomes of PaymentService.createSubscription. *)
GatewayAnswers(c) ==
  /\ call[c].at = "creating"
  /\ \/ gateway' = gateway \cup {call[c].id} /\ To(c, "inserting")
     \/ gateway' = gateway /\ End(c, "refused")
  /\ UNCHANGED <<rows, retries, initialized, run, month, disturbed, bills, exposed>>

(* Without a response, getMessages() throws in the SDK's callback and the  *)
(* promise is never settled.                                               *)
AnswerLost(c) ==
  /\ call[c].at = "creating"
  /\ Disturb("answer")
  /\ gateway' \in {gateway, gateway \cup {call[c].id}}
  /\ End(c, "hanging")
  /\ UNCHANGED <<rows, retries, initialized, run, month, bills, exposed>>

Insert(c) ==
  /\ call[c].at = "inserting"
  /\ rows' = [rows EXCEPT ![call[c].id] = call[c].copy]
  /\ call' = [call EXCEPT ![c].at = "confirming",
                          ![c].copy.done = 1, ![c].copy.last = month]
  /\ UNCHANGED <<gateway, retries, initialized, run, month, disturbed, bills, exposed>>

Confirm(c) ==
  /\ call[c].at = "confirming"
  /\ rows' = [rows EXCEPT ![call[c].id] = call[c].copy]
  /\ End(c, "answered")
  /\ UNCHANGED <<gateway, retries, initialized, run, month, disturbed, bills, exposed>>

(* updateSubscription (PUT) and cancelSubscription (DELETE). *)
AskChange(c, s) ==
  /\ call[c].at = "unsent"
  /\ \/ /\ "cancel" \in Operations
        /\ call' = [call EXCEPT ![c].at = "reading", ![c].kind = "cancel", ![c].id = s,
                                ![c].status = "cancelled"]
     \/ /\ "update" \in Operations
        /\ \E st \in NewStatus \cup {"none"}, i \in Interval \cup {0}, p \in NamesAmount :
             call' = [call EXCEPT ![c].at = "reading", ![c].kind = "update", ![c].id = s,
                                  ![c].status = st, ![c].interval = i, ![c].paid = p]
  /\ UNCHANGED <<rows, gateway, retries, initialized, run, month, disturbed, bills, exposed>>

\* mutant of Read: nothing answers when there is no such subscription
ReadUnanswered(c) ==
  LET s == call[c].id IN
  /\ call[c].at = "reading" /\ Exists(s)
  /\ call' = [call EXCEPT ![c].at = "writing", ![c].copy = rows[s]]
  /\ Expose(IF Held(s) THEN {s} ELSE {})
  /\ UNCHANGED <<rows, gateway, retries, initialized, run, month, disturbed, bills>>

Read(c) ==
  LET s == call[c].id IN
  /\ call[c].at = "reading"
  /\ IF Exists(s)
     THEN /\ call' = [call EXCEPT ![c].at = "writing", ![c].copy = rows[s]]
          /\ Expose(IF Held(s) THEN {s} ELSE {})
     ELSE End(c, "refused") /\ UNCHANGED exposed
  /\ UNCHANGED <<rows, gateway, retries, initialized, run, month, disturbed, bills>>

(* The copies the request may save: a new interval moves the next date.    *)
(* The controller passes 0 on for an amount an update does not name; a     *)
(* cancellation changes the status alone.                                  *)
Changed(c) ==
  LET u == call[c]
      f == [u.copy EXCEPT !.paid = IF u.kind = "update" THEN u.paid ELSE @]
      e == IF u.status = "none" THEN f ELSE [f EXCEPT !.status = u.status]
  IN IF u.interval = 0 THEN {e}
     ELSE {[e EXCEPT !.interval = u.interval, !.next = n] :
             n \in calculateNextBillingDate(e.last, u.interval)}

Write(c) ==
  /\ call[c].at = "writing"
  /\ \E e \in Changed(c) : rows' = [rows EXCEPT ![e.id] = e]
  /\ End(c, "answered")
  /\ UNCHANGED <<gateway, retries, initialized, run, month, disturbed, bills, exposed>>

(* Any of these statements throws: the client is answered with an error. *)
CallFails(c) ==
  /\ call[c].at \in {"inserting", "confirming", "reading", "writing"}
  /\ Disturb("statement")
  /\ End(c, "refused")
  /\ Expose(IF call[c].kind = "create" THEN {call[c].id} ELSE {})
  /\ UNCHANGED <<rows, gateway, retries, initialized, run, month, bills>>

----------------------------------------------------------------------------
(* The scheduler. *)

(* The loop goes on with the next subscription. *)
Resume(u) ==
  IF u.loop = "hand" THEN Idle
  ELSE [Idle EXCEPT !.at = "looping", !.loop = u.loop, !.todo = u.todo, !.queue = u.queue]

(* An exception leaves the processing of a subscription: it ends the loop  *)
(* over the due ones, the whole cycle, or the manual trigger.              *)
Abandon(u) == IF u.loop = "due" THEN [Idle EXCEPT !.at = "looping"] ELSE Idle

(* An exception inside processSingleSubscription or processPaymentRetry:   *)
(* their catch blocks schedule a retry, and may throw themselves.          *)
Thrown(u) ==
  IF u.caught THEN Abandon(u)
  ELSE [u EXCEPT !.at = IF u.loop = "retry" THEN "refetching" ELSE "scheduling",
                 !.caught = TRUE, !.goal = "none", !.found = NoRow,
                 !.copy = IF u.loop = "retry" THEN NoRow ELSE @]

Start ==
  /\ ~ initialized
  /\ initialized' = TRUE
  /\ UNCHANGED <<rows, gateway, retries, run, call, month, disturbed, bills, exposed>>

(* shutdown clears the interval; a cycle that runs goes on. *)
Stop ==
  /\ initialized
  /\ Disturb("shutdown")
  /\ initialized' = FALSE
  /\ UNCHANGED <<rows, gateway, retries, run, call, month, bills, exposed>>

(* start() and each tick of the interval, whether the last cycle ended or  *)
(* not: that one takes longer than a minute is counted as a disturbance.   *)
AllIdle == \A r \in Runner : run[r].at = "idle"

StartCycle(r) ==
  /\ initialized
  /\ run[r].at = "idle"
  /\ IF AllIdle THEN UNCHANGED disturbed ELSE Disturb("overlap")
  /\ run' = [run EXCEPT ![r].at = "listing"]
  /\ UNCHANGED <<rows, gateway, retries, initialized, call, month, bills, exposed>>

(* triggerBilling, up to getSubscription. *)
Trigger(r, s) ==
  /\ initialized
  /\ run[r].at = "idle"
  /\ Disturb("trigger")
  /\ run' = [run EXCEPT ![r].at = "fetching", ![r].loop = "hand", ![r].id = s]
  /\ UNCHANGED <<rows, gateway, retries, initialized, call, month, bills, exposed>>

(* The database evaluates the query; the loop works on what it returned. *)
ListDue(r) ==
  LET due == {s \in Subscription : Due(s)} IN
  /\ run[r].at = "listing"
  /\ run' = [run EXCEPT ![r].at = "looping", ![r].todo = {rows[s] : s \in due}]
  /\ Expose({s \in due : Held(s)})
  /\ UNCHANGED <<rows, gateway, retries, initialized, call, month, disturbed, bills>>

(* processRegularBilling catches the error. *)
ListFails(r) ==
  /\ run[r].at = "listing"
  /\ Disturb("statement")
  /\ run' = [run EXCEPT ![r].at = "looping"]
  /\ UNCHANGED <<rows, gateway, retries, initialized, call, month, bills, exposed>>

(* A mutant of CyclesDone: off by one. *)
CyclesPassed(e) == Cycles > 0 /\ e.done > Cycles

(* processBilling up to its first await.  A subscription whose last cycle  *)
(* was billed is to expire; any other is charged, and the copy changed to  *)
(* what will be saved.                                                     *)
CyclesDone(e) == Cycles > 0 /\ e.done >= Cycles

processBilling(r, u, e) ==
  LET v == [u EXCEPT !.id = e.id, !.copy = e] IN
  IF CyclesDone(e)
  THEN /\ run' = [run EXCEPT ![r] = [v EXCEPT !.at = "reading", !.goal = "expire"]]
       /\ UNCHANGED bills
  ELSE /\ bills' = [bills EXCEPT ![e.id] = Append(@, e.next)]
       /\ \E n \in calculateNextBillingDate(month, e.interval) :
            run' = [run EXCEPT ![r] = [v EXCEPT !.at = "saving", !.copy.done = @ + 1,
                                                !.copy.last = month, !.copy.next = n]]

NextDue(r) ==
  /\ run[r].at = "looping" /\ run[r].loop = "due"
  /\ \E e \in run[r].todo : processBilling(r, [run[r] EXCEPT !.todo = @ \ {e}], e)
  /\ UNCHANGED <<rows, gateway, retries, initialized, call, month, disturbed, exposed>>

(* A mutant of Queue: the last attempt is not made. *)
QueueBelowMax(r) ==
  IF run[r].loop = "retry" THEN run[r].queue
  ELSE {s \in Subscription : retries[s].ready /\ retries[s].count < MaxRetries}

(* When the first loop is over processFailedPaymentRetries collects the    *)
(* retries that are due, and processes one after the other.                *)
Queue(r) ==
  IF run[r].loop = "retry" THEN run[r].queue ELSE {s \in Subscription : retries[s].ready}

NextRetry(r) ==
  /\ run[r].at = "looping"
  /\ run[r].todo = {}
  /\ IF Queue(r) = {} THEN run' = [run EXCEPT ![r] = Idle]
     ELSE \E s \in Queue(r) :
            run' = [run EXCEPT ![r].at = "fetching", ![r].loop = "retry",
                               ![r].queue = Queue(r) \ {s}, ![r].id = s]
  /\ UNCHANGED <<rows, gateway, retries, initialized, call, month, disturbed, bills, exposed>>

(* getSubscription: a retry is dropped unless the subscription is active,  *)
(* the manual trigger does not ask.                                        *)
Fetch(r) ==
  LET s == run[r].id
      u == run[r]
      wanted == Exists(s) /\ (u.loop = "hand" \/ rows[s].status = "active")
  IN
  /\ u.at = "fetching"
  /\ IF wanted
     THEN /\ processBilling(r, u, rows[s])
          /\ Expose(IF Held(s) \/ (u.loop = "hand" /\ ~ Due(s)) THEN {s} ELSE {})
          /\ UNCHANGED retries
     ELSE /\ run' = [run EXCEPT ![r] = Resume(u)]
          /\ retries' = IF u.loop = "retry" THEN [retries EXCEPT ![s] = NoRetry] ELSE retries
          /\ UNCHANGED <<bills, exposed>>
  /\ UNCHANGED <<rows, gateway, initialized, call, month, disturbed>>

FetchFails(r) ==
  LET u == run[r] IN
  /\ u.at = "fetching"
  /\ Disturb("statement")
  /\ run' = [run EXCEPT ![r] = IF u.loop = "hand" THEN Idle ELSE Thrown(u)]
  /\ UNCHANGED <<rows, gateway, retries, initialized, call, month, bills, exposed>>

(* getSubscription in the catch block of processPaymentRetry, which does   *)
(* not ask for the status.                                                 *)
Refetch(r) ==
  /\ run[r].at = "refetching"
  /\ run' = [run EXCEPT ![r].at = "scheduling", ![r].copy = rows[run[r].id]]
  /\ Expose({run[r].id})
  /\ UNCHANGED <<rows, gateway, retries, initialized, call, month, disturbed, bills>>

(* processBilling returns true. *)
Save(r) ==
  LET u == run[r] IN
  /\ u.at = "saving"
  /\ rows' = [rows EXCEPT ![u.id] = u.copy]
  /\ retries' = [retries EXCEPT ![u.id] = NoRetry]
  /\ run' = [run EXCEPT ![r] = IF u.loop = "retry" THEN [u EXCEPT !.at = "reading", !.goal = "clear"]
                               ELSE Resume(u)]
  /\ UNCHANGED <<gateway, initialized, call, month, disturbed, bills, exposed>>

SaveFails(r) ==
  /\ run[r].at = "saving"
  /\ Disturb("statement")
  /\ run' = [run EXCEPT ![r].at = "noting"]
  /\ Expose({run[r].id})
  /\ UNCHANGED <<rows, gateway, retries, initialized, call, month, bills>>

(* handleFailedPayment saves the same copy, and processBilling returns false. *)
Note(r) ==
  /\ run[r].at = "noting"
  /\ rows' = [rows EXCEPT ![run[r].id] = run[r].copy]
  /\ run' = [run EXCEPT ![r].at = "scheduling"]
  /\ UNCHANGED <<gateway, retries, initialized, call, month, disturbed, bills, exposed>>

NoteFails(r) ==
  /\ run[r].at = "noting"
  /\ Disturb("statement")
  /\ run' = [run EXCEPT ![r] = Thrown(run[r])]
  /\ UNCHANGED <<rows, gateway, retries, initialized, call, month, bills, exposed>>

(* A mutant of TooMany: one attempt more. *)
OneTooMany(attempt) == attempt > MaxRetries + 1

(* schedulePaymentRetry up to its call of updateSubscription. *)
TooMany(attempt) == attempt > MaxRetries

Schedule(r) ==
  LET s == run[r].id
      attempt == retries[s].count + 1
  IN
  /\ run[r].at = "scheduling"
  /\ retries' = IF TooMany(attempt) THEN retries
                ELSE [retries EXCEPT ![s] = [count |-> attempt, ready |-> FALSE]]
  /\ run' = [run EXCEPT ![r].at = "reading",
                        ![r].goal = IF TooMany(attempt) THEN "suspend" ELSE "schedule"]
  /\ UNCHANGED <<rows, gateway, initialized, call, month, disturbed, bills, exposed>>

(* updateSubscription as the scheduler calls it: findOne, then save. *)
Find(r) ==
  /\ run[r].at = "reading"
  /\ run' = [run EXCEPT ![r].at = "updating", ![r].found = rows[run[r].id]]
  /\ UNCHANGED <<rows, gateway, retries, initialized, call, month, disturbed, bills, exposed>>

(* The metadata of retries are left out; their update still saves the row. *)
Updated(e, goal) ==
  [e EXCEPT !.status = CASE goal = "expire" -> "expired"
                         [] goal = "suspend" -> "suspended"
                         [] OTHER -> @]

Update(r) ==
  LET u == run[r] IN
  /\ u.at = "updating"
  /\ rows' = [rows EXCEPT ![u.id] = Updated(u.found, u.goal)]
  /\ retries' = IF u.goal = "suspend" THEN [retries EXCEPT ![u.id] = NoRetry] ELSE retries
  /\ run' = [run EXCEPT ![r] = IF u.goal = "expire"
                               THEN [u EXCEPT !.at = "scheduling", !.found = NoRow, !.goal = "none"]
                               ELSE Resume(u)]
  /\ UNCHANGED <<gateway, initialized, call, month, disturbed, bills, exposed>>

(* It throws.  In processBilling that is a failed payment, in the          *)
(* scheduler one more reason to schedule a retry.                          *)
UpdateFails(r) ==
  LET u == run[r] IN
  /\ u.at \in {"reading", "updating"}
  /\ Disturb("statement")
  /\ run' = [run EXCEPT ![r] = IF u.goal = "expire"
                               THEN [u EXCEPT !.at = "noting", !.found = NoRow, !.goal = "none"]
                               ELSE Thrown(u)]
  /\ UNCHANGED <<rows, gateway, retries, initialized, call, month, bills, exposed>>

RefetchFails(r) ==
  /\ run[r].at = "refetching"
  /\ Disturb("statement")
  /\ run' = [run EXCEPT ![r] = Abandon(run[r])]
  /\ UNCHANGED <<rows, gateway, retries, initialized, call, month, bills, exposed>>

----------------------------------------------------------------------------
(* The environment. *)

Tick ==
  /\ month < MaxMonth
  /\ month' = month + 1
  /\ UNCHANGED <<rows, gateway, retries, initialized, run, call, disturbed, bills, exposed>>

(* next_retry_date passes. *)
RetryDue(s) ==
  /\ retries[s].count > 0 /\ ~ retries[s].ready
  /\ retries' = [retries EXCEPT ![s].ready = TRUE]
  /\ UNCHANGED <<rows, gateway, initialized, run, call, month, disturbed, bills, exposed>>

(* The webhook processor finds the row by its gateway id and updates its   *)
(* status by the row's id: "active" when the gateway reports the creation, *)
(* however late, "cancelled" when it reports an end of the subscription.   *)
(* Whoever holds a copy of the row will not see it.                        *)
Notified(s) ==
  /\ Exists(s)
  /\ Disturb("notice")
  /\ \E st \in NoticeStatus : rows' = [rows EXCEPT ![s].status = st]
  /\ Expose(IF Held(s) THEN {s} ELSE {})
  /\ UNCHANGED <<gateway, retries, initialized, run, call, month, bills>>

(* The process dies: the table survives. *)
Crash ==
  /\ Disturb("crash")
  /\ run' = [r \in Runner |-> Idle]
  /\ call' = [c \in Client |-> IF call[c].at \in {"unsent", "answered", "refused"} THEN call[c]
                               ELSE Ended(call[c], "lost")]
  /\ retries' = [s \in Subscription |-> NoRetry]
  /\ initialized' = FALSE
  /\ Expose({run[r].id : r \in {q \in Runner : run[q].at = "saving"}}
            \cup {call[c].id : c \in {d \in Client : call[d].at = "confirming"}})
  /\ UNCHANGED <<rows, gateway, month, bills>>

----------------------------------------------------------------------------
ClientStep(c) ==
  \/ \E s \in Subscription : AskCreate(c, s) \/ AskChange(c, s)
  \/ GatewayAnswers(c) \/ AnswerLost(c)
  \/ Insert(c) \/ Confirm(c)
  \/ Read(c) \/ Write(c) \/ CallFails(c)

SchedulerStep(r) ==
  \/ StartCycle(r) \/ ListDue(r) \/ NextDue(r) \/ NextRetry(r)
  \/ Fetch(r) \/ Refetch(r) \/ Save(r) \/ Note(r)
  \/ Schedule(r) \/ Find(r) \/ Update(r)

SchedulerFails(r) ==
  \/ ListFails(r) \/ FetchFails(r) \/ SaveFails(r) \/ NoteFails(r)
  \/ UpdateFails(r) \/ RefetchFails(r)

Next ==
  \/ \E c \in Client : ClientStep(c)
  \/ \E r \in Runner : SchedulerStep(r) \/ SchedulerFails(r) \/ (\E s \in Subscription : Trigger(r, s))
  \/ Start \/ Stop \/ Tick \/ Crash
  \/ \E s \in Subscription : RetryDue(s) \/ Notified(s)

Spec == Init /\ [][Next]_vars

(* What the handler of a request does without being asked again. *)
Serve(c) ==
  GatewayAnswers(c) \/ Insert(c) \/ Confirm(c) \/ Read(c) \/ Write(c)

(* The timers fire, the gateway answers unless its answer is lost, and     *)
(* whatever was awaited is continued.                                      *)
Fairness ==
  /\ \A c \in Client : WF_vars(Serve(c))
  /\ \A r \in Runner : WF_vars(SchedulerStep(r))
  /\ \A s \in Subscription : WF_vars(RetryDue(s))

FairSpec == Spec /\ Fairness

----------------------------------------------------------------------------
(* Properties. *)

(* Every variable has its type; a row keeps its id, and no retry entry     *)
(* counts more than maxRetries attempts.                                   *)
TypeOK ==
  /\ \A s \in Subscription : rows[s] = NoRow \/ (rows[s] \in Row /\ rows[s].id = s)
  /\ gateway \subseteq Subscription
  /\ \A s \in Subscription : retries[s].count \in 0 .. MaxRetries /\ retries[s].ready \in BOOLEAN
  /\ initialized \in BOOLEAN
  /\ \A r \in Runner :
       LET u == run[r] IN
       /\ u.at \in {"idle", "listing", "looping", "fetching", "refetching", "saving",
                    "noting", "scheduling", "reading", "updating"}
       /\ u.loop \in {"due", "retry", "hand"}
       /\ u.queue \subseteq Subscription
       /\ u.goal \in {"none", "expire", "suspend", "schedule", "clear"}
       /\ u.at \in {"saving", "noting", "scheduling", "reading", "updating"} =>
            u.copy \in Row /\ u.copy.id = u.id
       /\ u.at = "updating" => u.found \in Row /\ u.found.id = u.id
  /\ \A c \in Client :
       /\ call[c].at \in {"unsent", "creating", "hanging", "inserting", "confirming", "reading",
                          "writing", "answered", "refused", "lost"}
       /\ call[c].at \in {"inserting", "confirming", "writing"} =>
            call[c].copy \in Row /\ call[c].copy.id = call[c].id
  /\ month \in 0 .. MaxMonth
  /\ disturbed \in 0 .. MaxDisturbed
  /\ \A s \in Subscription : bills[s] \in Seq(Nat)
  /\ exposed \subseteq Subscription

(* A subscription is charged for a due date once, in order, and not before *)
(* that date has come.                                                     *)
OnSchedule(s) ==
  \A i \in 1 .. Len(bills[s]) :
    /\ bills[s][i] <= month
    /\ i > 1 => bills[s][i - 1] < bills[s][i]

(* tasks/006-subscription-management.md: "Automated billing processes      *)
(* payments on schedule".  Whatever clients, cycles, failures and crashes  *)
(* do, that is so of a subscription that met none of the exposures.        *)
BilledOnSchedule == \A s \in Subscription \ exposed : OnSchedule(s)

(* What is charged is active at that moment, although the scheduler decides*)
(* by copies it loaded before.                                             *)
OnlyActiveIsBilled ==
  [][\A s \in Subscription :
       bills'[s] # bills[s] /\ s \notin exposed' => rows[s].status = "active"]_vars

(* tasks/006-subscription-management.md: "Cancellation stops future        *)
(* billing", once the client was told so.                                  *)
CancellationStopsBilling ==
  [][\A c \in Client : call[c].kind = "cancel" /\ call[c].at = "answered" =>
       bills'[call[c].id] = bills[call[c].id]]_vars

(* billing_cycles_completed never passes the total, even where copies      *)
(* overwrite each other, and counts the charges (and the initial one).     *)
Recording(s) == \E r \in Runner : run[r].id = s /\ run[r].at = "saving"
Creating(s) == \E c \in Client : call[c].id = s /\ call[c].at = "confirming"

CyclesCounted ==
  /\ \A s \in Subscription : Exists(s) /\ Cycles > 0 => rows[s].done <= Cycles
  /\ \A s \in Subscription \ exposed :
       Exists(s) /\ ~ Recording(s) /\ ~ Creating(s) => rows[s].done = 1 + Len(bills[s])

(* Only a client's update, or the notification that the subscription was   *)
(* created, takes it out of "cancelled": the scheduler, which saves whole  *)
(* rows and sets "expired" and "suspended", leaves it alone.               *)
CancelledStays ==
  [][\A s \in Subscription \ exposed' :
       rows[s].status = "cancelled" /\ rows'[s].status # "cancelled" =>
         \/ \E c \in Client : call[c].kind = "update" /\ call[c].id = s
                               /\ call[c].at = "writing" /\ call'[c].at = "answered"
         \/ "active" \in NoticeStatus /\ <<run, call>>' = <<run, call>>]_vars

(* A row stands for a subscription of the gateway, and a request to create *)
(* one that was answered leaves either both or none.                       *)
GatewayAgrees ==
  /\ \A s \in Subscription : Exists(s) => s \in gateway
  /\ \A c \in Client :
       call[c].kind = "create" /\ call[c].at \in {"answered", "refused"} /\ call[c].id \notin exposed =>
         (call[c].id \in gateway <=> Exists(call[c].id))

(* While the scheduler is on, an active subscription whose date has come   *)
(* is billed, or leaves that state otherwise.                              *)
Owed(s) == Exists(s) /\ rows[s].status = "active" /\ rows[s].next <= month
DueIsBilled == \A s \in Subscription : Owed(s) ~> ~ Owed(s) \/ ~ initialized

(* A request is answered or dies with the process.  The one exception is   *)
(* that the gateway's answer to a creation never comes: the SDK's callback *)
(* throws then, and nothing settles the promise.                           *)
EveryCallEnds ==
  \A c \in Client :
    call[c].at # "unsent" ~> call[c].at \in {"answered", "refused", "lost", "hanging"}

(* controllers/subscriptionController.ts, "Amount must be a positive       *)
(* number": what is charged for an active subscription is positive.        *)
PositiveAmounts == \A s \in Subscription : Exists(s) => rows[s].paid

(* A scheduled retry does not stay scheduled for ever.                     *)
RetriesEnd == \A s \in Subscription : retries[s].count > 0 ~> retries[s].count = 0 \/ ~ initialized
=============================================================================
