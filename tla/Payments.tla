------------------------------ MODULE Payments ------------------------------
(***************************************************************************)
(* The payment path of the API process: POST /api/v1/payments/{purchase,   *)
(* authorize, :id/capture, :id/refund, :id/cancel}, from the idempotency   *)
(* middleware through PaymentController and PaymentService to the          *)
(* transactions table, the Authorize.Net gateway and back to the client.   *)
(*                                                                         *)
(* Node runs one handler at a time: everything between two awaits is one   *)
(* action, everything else interleaves.  A request that was handed to the  *)
(* gateway lives on there whatever becomes of the process that sent it.    *)
(***************************************************************************)
EXTENDS Naturals

CONSTANTS
  Request,        \* the HTTP requests clients send, each one once
  Key,            \* well-formed idempotency keys (UUID v4)
  CorrId,         \* values clients put in the X-Correlation-ID header
  BadKey,         \* a malformed idempotency key
  UnknownId,      \* a transaction id the gateway never issued
  None,           \* "no value"
  Op,             \* the operations clients use
  RetryAttempts,  \* PaymentService.retryAttempts
  Faults          \* the kinds of fault that may strike

Operations == {"purchase", "authorize", "capture", "refund", "cancel"}

FaultKinds ==
  {"crash",     \* the process dies and restarts
   "database",  \* a statement on the transactions table fails
   "build",     \* building or starting the gateway call throws
   "reply"}     \* the SDK calls back without the gateway's answer

ASSUME OpAssumption == Op \subseteq Operations
ASSUME RetryAssumption == RetryAttempts \in Nat \ {0}
ASSUME FaultAssumption == Faults \subseteq FaultKinds

VARIABLES
  pc,        \* pc[r]: how far the handler of request r has come
  req,       \* req[r]: the call r makes, None before it arrives
  attempt,   \* attempt[r]: the attempt executeWithRetry is at
  result,    \* result[r]: the PaymentResult, None before the callback
  answer,    \* answer[r]: what the client of r was sent
  store,     \* idempotencyStore, a Map in the memory of the process
  aged,      \* the keys whose entry is older than CACHE_TTL
  table,     \* the transactions table, by its unique transaction_id
  gateway,   \* gateway[r]: what became of r's transaction at Authorize.Net
  sends,     \* history: how often r was handed to the gateway
  excused    \* history: the keys exposed to an event that defeats the store

process == <<pc, req, attempt, result, answer>>
history == <<sends, excused>>
vars == <<process, store, aged, table, gateway, history>>

-----------------------------------------------------------------------------
(* Data.                                                                   *)

TxId == Request \union CorrId

Call == [op: Operations, row: TxId, of: Request \union {UnknownId, None},
         key: Key \union {BadKey, None}]

Row == [op: Operations, of: Request \union {UnknownId, None},
        status: {"processing", "completed", "failed"},
        anet: Request \union {None}]

(* A response is told apart by its status and, when it reports a success,  *)
(* by the request whose gateway transaction its body describes.            *)
Answer == [status: {200, 201, 400, 500}, by: Request \union {None}]

(* "unreached": the call never got there.  The last four are what the      *)
(* gateway makes of it: the response codes 1, 2 or 3, and 4, or no         *)
(* transaction at all.  Only "approved" moves money; whether somebody      *)
(* releases what is "held" for review is not the program's business.       *)
GatewayState ==
  {"none", "inflight", "unreached", "approved", "declined", "held", "refused"}

PC == {"idle", "saving", "operating", "sent", "updating", "responding",
       "done", "lost"}

ASSUME NoneAssumption ==
  /\ None \notin Request \union Key \union {"approved", "declined", "error"}
  /\ None \notin CorrId /\ None \notin Call /\ None \notin Row /\ None \notin Answer
  /\ BadKey \notin Key \union {None}
  /\ UnknownId \notin Request \union {None}
  /\ CorrId \intersect Request = {}

Live(r) ==
  pc[r] \in {"saving", "operating", "sent", "updating", "responding"}

HasKey(r, k) == req[r] # None /\ req[r].key = k

-----------------------------------------------------------------------------
(* The five operations: the row each writes first and the transaction it   *)
(* refers to.  Purchases and authorizations take their row id from         *)
(* X-Correlation-ID when the client sent one; every other id is a fresh    *)
(* UUID, written as the request itself.  Nothing looks the referenced      *)
(* transaction up.                                                         *)

RowId(r, c) == IF c = None THEN r ELSE c

processPurchase(r) ==
  {[op |-> "purchase", row |-> RowId(r, c), of |-> None] :
     c \in CorrId \union {None}}

authorizeTransaction(r) ==
  {[op |-> "authorize", row |-> RowId(r, c), of |-> None] :
     c \in CorrId \union {None}}

KnownIds == {q \in Request : gateway[q] = "approved"}

captureTransaction(r) ==
  {[op |-> "capture", row |-> r, of |-> t] : t \in KnownIds \union {UnknownId}}

refundTransaction(r) ==
  {[op |-> "refund", row |-> r, of |-> t] : t \in KnownIds \union {UnknownId}}

cancelTransaction(r) ==
  {[op |-> "cancel", row |-> r, of |-> t] : t \in KnownIds \union {UnknownId}}

Keyed(S, K) ==
  {[op |-> s.op, row |-> s.row, of |-> s.of, key |-> k] :
     s \in {s \in S : s.op \in Op}, k \in K}

V1Calls(r) ==
  Keyed(processPurchase(r) \union authorizeTransaction(r)
          \union captureTransaction(r) \union refundTransaction(r)
          \union cancelTransaction(r), Key \union {BadKey, None})

(* The older /api/payments routes reach the same service for three of the  *)
(* operations and ignore the Idempotency-Key header.                       *)
LegacyCalls(r) ==
  Keyed(processPurchase(r) \union authorizeTransaction(r)
          \union captureTransaction(r), {None})

Calls(r) == V1Calls(r) \union LegacyCalls(r)

-----------------------------------------------------------------------------
(* Arrival.  The idempotency middleware, the validation and the controller *)
(* up to the first await run in one go, so what the middleware reads in    *)
(* the store is acted upon at once; the entry is written much later.       *)

Init ==
  /\ pc = [r \in Request |-> "idle"]
  /\ req = [r \in Request |-> None]
  /\ attempt = [r \in Request |-> 1]
  /\ result = [r \in Request |-> None]
  /\ answer = [r \in Request |-> None]
  /\ store = [k \in Key |-> None]
  /\ aged = {}
  /\ table = [t \in TxId |-> None]
  /\ gateway = [r \in Request |-> "none"]
  /\ sends = [r \in Request |-> 0]
  /\ excused = {}

Cached(k) == k \in Key /\ store[k] # None

Arrives(r, c) ==
  /\ pc[r] = "idle"
  /\ req' = [req EXCEPT ![r] = c]
  /\ UNCHANGED <<attempt, result, store, aged, table, gateway, sends>>

Reply(r, a) ==
  /\ pc' = [pc EXCEPT ![r] = "done"]
  /\ answer' = [answer EXCEPT ![r] = a]

Refusal(code) == [status |-> code, by |-> None]

RejectKey(r, c) ==
  /\ Arrives(r, c)
  /\ c.key = BadKey
  /\ Reply(r, Refusal(400))
  /\ UNCHANGED excused

Replay(r, c) ==
  /\ Arrives(r, c)
  /\ Cached(c.key)
  /\ Reply(r, store[c.key])
  /\ UNCHANGED excused

(* A schema violation, or an invalid payment method.                       *)
RejectInput(r, c) ==
  /\ Arrives(r, c)
  /\ c.key # BadKey /\ ~Cached(c.key)
  /\ Reply(r, Refusal(400))
  /\ UNCHANGED excused

(* The history notes a key that is already in use by a live request: the   *)
(* middleware cannot see that one.                                         *)
Admit(r, c) ==
  /\ Arrives(r, c)
  /\ c.key # BadKey /\ ~Cached(c.key)
  /\ pc' = [pc EXCEPT ![r] = "saving"]
  /\ excused' = excused \union
       {k \in Key : k = c.key /\ \E q \in Request : Live(q) /\ HasKey(q, k)}
  /\ UNCHANGED answer

-----------------------------------------------------------------------------
(* PaymentService.  A database error is logged and swallowed, both when    *)
(* the row is inserted and when it is updated.                             *)

Moves(r, from, to) ==
  /\ pc[r] = from
  /\ pc' = [pc EXCEPT ![r] = to]

SaveRow(r) ==
  /\ Moves(r, "saving", "operating")
  /\ table[req[r].row] = None
  /\ table' = [table EXCEPT ![req[r].row] =
       [op |-> req[r].op, of |-> req[r].of,
        status |-> "processing", anet |-> None]]
  /\ UNCHANGED <<req, attempt, result, answer, store, aged, gateway, history>>

SaveFails(r) ==
  /\ Moves(r, "saving", "operating")
  /\ table[req[r].row] # None \/ "database" \in Faults
  /\ UNCHANGED <<req, attempt, result, answer, store, aged, table, gateway,
                 history>>

Send(r) ==
  /\ Moves(r, "operating", "sent")
  /\ gateway' = [gateway EXCEPT ![r] = "inflight"]
  /\ sends' = [sends EXCEPT ![r] = @ + 1]
  /\ UNCHANGED <<req, attempt, result, answer, store, aged, table, excused>>

\* mutant of MayRetry: one attempt too many
MayRetryOnceMore(r) == attempt[r] <= RetryAttempts

MayRetry(r) == attempt[r] < RetryAttempts

(* The operation rejects only when building or starting the call throws:   *)
(* a promise whose call has started is never rejected.                     *)
Retry(r) ==
  /\ pc[r] = "operating"
  /\ "build" \in Faults
  /\ MayRetry(r)
  /\ attempt' = [attempt EXCEPT ![r] = @ + 1]
  /\ UNCHANGED <<pc, req, result, answer, store, aged, table, gateway, history>>

GiveUp(r) ==
  /\ pc[r] = "operating"
  /\ "build" \in Faults
  /\ Reply(r, Refusal(500))
  /\ UNCHANGED <<req, attempt, result, store, aged, table, gateway, history>>

-----------------------------------------------------------------------------
(* The gateway, and the SDK that carries its answer.                       *)

GatewayHandles(r) ==
  /\ gateway[r] = "inflight"
  /\ \E g \in {"approved", "declined", "held", "refused"} :
       gateway' = [gateway EXCEPT ![r] = g]
  /\ UNCHANGED <<process, store, aged, table, history>>

Unreached(r) ==
  /\ gateway[r] = "inflight"
  /\ "reply" \in Faults
  /\ gateway' = [gateway EXCEPT ![r] = "unreached"]
  /\ UNCHANGED <<process, store, aged, table, history>>

(* What the service makes of the response: a success, a failure that still *)
(* carries a transaction id, or a failure without one.                     *)
\* mutant of processTransactionResponse: resultCode "Ok" taken for an approval
OkIsApproved(g) ==
  IF g \in {"approved", "declined", "held"} THEN "approved" ELSE "error"

processTransactionResponse(g) ==
  CASE g = "approved" -> "approved"
    [] g \in {"declined", "held"} -> "declined"
    [] OTHER -> "error"

Callback(r) ==
  /\ Moves(r, "sent", "updating")
  /\ gateway[r] \in {"approved", "declined", "held", "refused"}
  /\ result' = [result EXCEPT ![r] = processTransactionResponse(gateway[r])]
  /\ UNCHANGED <<req, attempt, answer, store, aged, table, gateway, history>>

(* Connection lost or timed out: the response is null.  When the gateway   *)
(* took the call, or still may, the key is exposed.                        *)
CallbackEmpty(r) ==
  /\ Moves(r, "sent", "updating")
  /\ "reply" \in Faults
  /\ result' = [result EXCEPT ![r] = processTransactionResponse("none")]
  /\ excused' = excused \union
       {k \in Key : HasKey(r, k) /\ gateway[r] \in {"inflight", "approved"}}
  /\ UNCHANGED <<req, attempt, answer, store, aged, table, gateway, sends>>

\* mutants of Settle: any response completes the row; a row whose outcome
\* is unknown keeps its status
SettleAnyResponse(row, r) ==
  [row EXCEPT !.status = IF result[r] = "error" THEN "failed" ELSE "completed",
              !.anet = IF result[r] = "error" THEN @ ELSE r]
SettleIfKnown(row, r) ==
  [row EXCEPT !.status = IF result[r] = "approved" THEN "completed"
                         ELSE IF result[r] = "declined" THEN "failed" ELSE @,
              !.anet = IF result[r] = "error" THEN @ ELSE r]

Settle(row, r) ==
  [row EXCEPT !.status = IF result[r] = "approved" THEN "completed" ELSE "failed",
              !.anet = IF result[r] = "error" THEN @ ELSE r]

(* UPDATE ... WHERE transaction_id: a missing row is no error.             *)
Updated(r) ==
  [table EXCEPT ![req[r].row] = IF @ = None THEN None ELSE Settle(@, r)]

UpdateRow(r) ==
  /\ Moves(r, "updating", "responding")
  /\ table' = Updated(r)
  /\ UNCHANGED <<req, attempt, result, answer, store, aged, gateway, history>>

UpdateFails(r) ==
  /\ Moves(r, "updating", "responding")
  /\ "database" \in Faults
  /\ UNCHANGED <<req, attempt, result, answer, store, aged, table, gateway,
                 history>>

-----------------------------------------------------------------------------
(* The answer.                                                             *)

SuccessCode(op) == IF op \in {"capture", "cancel"} THEN 200 ELSE 201

Response(r) ==
  IF result[r] = "approved"
  THEN [status |-> SuccessCode(req[r].op), by |-> r]
  ELSE Refusal(400)

Success(a) == a.status < 300

\* mutant of Cacheable: only 201 counts as a success
CacheableIfCreated(a) == a.status = 201

Cacheable(a) == Success(a)

\* mutant of Answers: no branch for a failed call
AnswersSuccess(r) == pc[r] = "responding" /\ result[r] = "approved"

Answers(r) == pc[r] = "responding"

(* The wrapped res.json: cache a 2xx response, then send it.               *)
Respond(r) ==
  LET a == Response(r)
      written == {k \in Key : HasKey(r, k) /\ Cacheable(a)}
  IN /\ Answers(r)
     /\ Reply(r, a)
     /\ store' = [k \in Key |-> IF k \in written THEN a ELSE store[k]]
     /\ aged' = aged \ written
     /\ UNCHANGED <<req, attempt, result, table, gateway, history>>

-----------------------------------------------------------------------------
(* The life of the store.                                                  *)

Age(k) ==
  /\ store[k] # None /\ k \notin aged
  /\ aged' = aged \union {k}
  /\ UNCHANGED <<process, store, table, gateway, history>>

(* The interval's callback deletes every expired entry in one go.          *)
Cleanup ==
  /\ aged # {}
  /\ store' = [k \in Key |-> IF k \in aged THEN None ELSE store[k]]
  /\ aged' = {}
  /\ excused' = excused \union aged
  /\ UNCHANGED <<process, table, gateway, sends>>

(* The process dies: its handlers and its store are gone, the table and    *)
(* the gateway are not, and the connections of the live requests drop.     *)
Crash ==
  /\ "crash" \in Faults
  /\ pc' = [r \in Request |-> IF Live(r) THEN "lost" ELSE pc[r]]
  /\ store' = [k \in Key |-> None]
  /\ aged' = {}
  /\ excused' = excused \union
       {k \in Key : \/ store[k] # None
                    \/ \E r \in Request : Live(r) /\ HasKey(r, k)}
  /\ UNCHANGED <<req, attempt, result, answer, table, gateway, sends>>

-----------------------------------------------------------------------------
Arrive(r) ==
  \E c \in Calls(r) :
    RejectKey(r, c) \/ Replay(r, c) \/ RejectInput(r, c) \/ Admit(r, c)

Handle(r) ==
  \/ SaveRow(r) \/ SaveFails(r)
  \/ Send(r) \/ Retry(r) \/ GiveUp(r)
  \/ Callback(r) \/ CallbackEmpty(r)
  \/ UpdateRow(r) \/ UpdateFails(r)
  \/ Respond(r)

Next ==
  \/ \E r \in Request :
       Arrive(r) \/ Handle(r) \/ GatewayHandles(r) \/ Unreached(r)
  \/ \E k \in Key : Age(k)
  \/ Cleanup
  \/ Crash

Spec == Init /\ [][Next]_vars

(* The event loop runs every continuation that is due, and the SDK always  *)
(* calls back: with the gateway's answer or, on an error or a timeout of   *)
(* its own, without one.  Clients, crashes and the clock are not fair.     *)
Fairness ==
  \A r \in Request : WF_vars(Handle(r)) /\ WF_vars(GatewayHandles(r))

FairSpec == Spec /\ Fairness

-----------------------------------------------------------------------------
(* Properties.                                                             *)

(* Type correctness; the attempt counter never passes retryAttempts.       *)
TypeOK ==
  /\ pc \in [Request -> PC]
  /\ req \in [Request -> Call \union {None}]
  /\ attempt \in [Request -> 1..RetryAttempts]
  /\ result \in [Request -> {"approved", "declined", "error", None}]
  /\ answer \in [Request -> Answer \union {None}]
  /\ store \in [Key -> Answer \union {None}]
  /\ aged \subseteq Key
  /\ table \in [TxId -> Row \union {None}]
  /\ gateway \in [Request -> GatewayState]
  /\ sends \in [Request -> Nat]
  /\ excused \subseteq Key

Charged(r) == gateway[r] = "approved"

(* An idempotency key stands for at most one approved transaction, however *)
(* often and with whatever operation the key is sent, unless one of the    *)
(* four things happened that the in-memory store cannot cope with: two     *)
(* requests with the key overlapped, the process crashed while it held or  *)
(* worked on the key, the entry expired, or the gateway's answer was lost. *)
OneChargePerKey ==
  \A q, r \in Request : \A k \in Key \ excused :
    HasKey(q, k) /\ HasKey(r, k) /\ Charged(q) /\ Charged(r) => q = r

(* Under the same proviso every success reported for a key is the same     *)
(* response, whichever request of the key asks for it.                     *)
OneAnswerPerKey ==
  \A q, r \in Request : \A k \in Key \ excused :
    /\ HasKey(q, k) /\ answer[q] # None /\ Success(answer[q])
    /\ HasKey(r, k) /\ answer[r] # None /\ Success(answer[r])
    => answer[q] = answer[r]

(* Under the same proviso a client that is told its payment failed has not *)
(* been charged and will not be: no transaction of its is approved or      *)
(* still under way at the gateway.  One held for review is charged only if *)
(* somebody at the gateway releases it.                                    *)
RefusalMeansNoCharge ==
  \A r \in Request : \A k \in Key \ excused :
    HasKey(r, k) /\ answer[r] # None /\ ~Success(answer[r])
      => gateway[r] \notin {"inflight", "approved"}

(* The table agrees with the gateway: a completed row names an approved    *)
(* transaction, and a failed row that names one names one that was         *)
(* declined or is held for review.  The latter is promised only for ids    *)
(* the server made: two requests with one X-Correlation-ID write to one    *)
(* row, and the failure of the second keeps the approved transaction's id  *)
(* of the first.                                                           *)
LedgerAgrees ==
  \A t \in TxId : table[t] # None =>
    /\ table[t].status = "completed" =>
         table[t].anet # None /\ Charged(table[t].anet)
    /\ table[t].status = "failed" /\ table[t].anet # None /\ t \in Request =>
         gateway[table[t].anet] \in {"declined", "held"}

(* The retry loop never repeats a call that may have reached the gateway.  *)
AtMostOneSend == \A r \in Request : sends[r] <= 1

(* What a client may rely on, outside the named exposures.                 *)
ChargePromises ==
  OneChargePerKey /\ OneAnswerPerKey /\ RefusalMeansNoCharge /\ AtMostOneSend

(* A row with a server-made id is settled once: after it became completed  *)
(* or failed nothing changes it, and it is never removed.                  *)
SettledRowIsFinal ==
  [][\A t \in Request : table[t] # None =>
       /\ table'[t] # None
       /\ table[t].status # "processing" => table'[t] = table[t]]_vars

(* The refinement mapping to the contract with the client.                 *)
ChargeOf ==
  [r \in Request |-> IF gateway[r] = "none" THEN "none"
                     ELSE IF gateway[r] = "inflight" THEN "pending"
                     ELSE IF gateway[r] = "approved" THEN "approved" ELSE "void"]

VerdictOf ==
  [r \in Request |-> IF pc[r] = "lost" THEN "unknown"
                     ELSE IF answer[r] = None THEN "open"
                     ELSE IF Success(answer[r]) THEN "accepted" ELSE "refused"]

CoverOf == [r \in Request |-> IF answer[r] = None THEN None ELSE answer[r].by]

Contract == INSTANCE ChargeContract WITH
  charge <- ChargeOf, verdict <- VerdictOf, cover <- CoverOf

(* Every step of the handlers is a step of the contract or invisible: at   *)
(* most one transaction per request, no success without an approval.       *)
ImplementsContract == Contract!Spec

(* A request that arrived is answered or its process dies.                 *)
EveryRequestEnds ==
  \A r \in Request : pc[r] # "idle" ~> pc[r] \in {"done", "lost"}

(* Without crashes, database errors and broken calls no row stays in       *)
(* status processing, whatever happens to the gateway's answers.           *)
RowsSettle ==
  \A t \in TxId :
    table[t] # None ~> table[t] # None /\ table[t].status # "processing"

-----------------------------------------------------------------------------
(* The inductive invariant behind the safety properties.                   *)

(* Each handler is where its own variables say it is, and a result other   *)
(* than an error is the gateway's decision.                                *)
Lifecycle ==
  \A r \in Request :
    /\ pc[r] = "idle" <=> req[r] = None
    /\ pc[r] = "done" <=> answer[r] # None
    /\ gateway[r] # "none" =>
         pc[r] \in {"sent", "updating", "responding", "done", "lost"}
    /\ sends[r] = IF gateway[r] = "none" THEN 0 ELSE 1
    /\ result[r] = "approved" => gateway[r] = "approved"
    /\ result[r] = "declined" => gateway[r] \in {"declined", "held"}
    /\ pc[r] \in {"updating", "responding"} => result[r] # None
    /\ req[r] # None => req[r].row \in CorrId \union {r}

(* A row with a server-made id belongs to one request: nothing is there    *)
(* before that request saves it, nothing is settled before it updates it.  *)
RowsOwned ==
  \A r \in Request :
    /\ pc[r] \in {"idle", "saving"} => table[r] = None
    /\ pc[r] \in {"operating", "sent", "updating"} /\ table[r] # None =>
         table[r].status = "processing" /\ table[r].anet = None

(* The transaction of r is approved or may still be.                       *)
Exposed(r) == gateway[r] \in {"inflight", "approved"}

(* A key that nothing exposed has one live request at most and none beside *)
(* an entry; only that request, or the one whose success is cached, may    *)
(* have moved money, and every answer tells the truth about it.            *)
Guarded(k) ==
  /\ \A q, r \in Request :
       HasKey(q, k) /\ HasKey(r, k) /\ Live(q) /\ Live(r) => q = r
  /\ store[k] # None => \A r \in Request : HasKey(r, k) => ~Live(r)
  /\ \A r \in Request :
       HasKey(r, k) /\ Exposed(r) => Live(r) \/ store[k] # None
  /\ \A r \in Request :
       HasKey(r, k) /\ Exposed(r) /\ pc[r] \in {"updating", "responding"}
         => result[r] = "approved"
  /\ \A q, r \in Request :
       HasKey(q, k) /\ HasKey(r, k) /\ Exposed(q) /\ Exposed(r) => q = r
  /\ \A r \in Request :
       HasKey(r, k) /\ answer[r] # None =>
         IF Success(answer[r]) THEN store[k] = answer[r] ELSE ~Exposed(r)

KeysGuarded ==
  /\ \A k \in Key : store[k] # None => Success(store[k])
  /\ \A k \in Key \ excused : Guarded(k)

(* What the store replays was sent before, for an approved transaction.    *)
StoreBacked ==
  \A k \in Key : store[k] # None =>
    /\ store[k].by \in Request
    /\ answer[store[k].by] = store[k]
    /\ gateway[store[k].by] = "approved"

(* The invariant the proofs carry from step to step.                       *)
IInv == TypeOK /\ Lifecycle /\ RowsOwned /\ LedgerAgrees /\ KeysGuarded
        /\ StoreBacked

-----------------------------------------------------------------------------
(* What the repository says of itself and the code does not do.            *)

(* README.md, "Idempotency: Prevent duplicate transactions using           *)
(* idempotency keys": two requests with one key are never both charged.    *)
(* The middleware looks the key up long before it writes it.               *)
KeysPreventDuplicates ==
  \A q, r \in Request : \A k \in Key :
    HasKey(q, k) /\ HasKey(r, k) /\ Charged(q) /\ Charged(r) => q = r

=============================================================================
