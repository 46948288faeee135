--------------------------- MODULE PaymentsProofs ---------------------------
(***************************************************************************)
(* Machine-checked proofs about Payments, for every set of requests, keys  *)
(* and correlation ids, every mix of operations and faults and every       *)
(* number of attempts.                                                     *)
(***************************************************************************)
EXTENDS Payments, TLAPS

(* What a client can send has the type of a call, and its row is the       *)
(* request's own or named by a correlation id.                             *)
LEMMA CallType ==
  ASSUME NEW r \in Request, NEW c \in Calls(r)
  PROVE  c \in Call /\ c # None /\ c.row \in CorrId \union {r}
<1>1. PICK s \in processPurchase(r) \union authorizeTransaction(r)
                   \union captureTransaction(r) \union refundTransaction(r)
                   \union cancelTransaction(r),
           k \in Key \union {BadKey, None} :
        c = [op |-> s.op, row |-> s.row, of |-> s.of, key |-> k]
  BY DEF Calls, V1Calls, LegacyCalls, Keyed
<1>2. /\ s.op \in Operations
      /\ s.row \in CorrId \union {r}
      /\ s.of \in Request \union {UnknownId, None}
  BY DEF processPurchase, authorizeTransaction, captureTransaction,
         refundTransaction, cancelTransaction, Operations, RowId, KnownIds
<1>3. c \in Call
  BY <1>1, <1>2 DEF Call, TxId
<1>4. c.row \in CorrId \union {r}
  BY <1>1, <1>2
<1>. QED  BY <1>3, <1>4, NoneAssumption DEF Call

-----------------------------------------------------------------------------
(* Types and the life cycle of a request.                                  *)

Basic == TypeOK /\ Lifecycle

LEMMA InitBasic == Init => Basic
<1> SUFFICES ASSUME Init PROVE Basic
  OBVIOUS
<1>1. TypeOK
  BY RetryAssumption DEF Init, TypeOK, PC, GatewayState
<1>2. Lifecycle
  BY NoneAssumption DEF Init, Lifecycle
<1>. QED  BY <1>1, <1>2 DEF Basic

(* A request that is answered on arrival, with a refusal or from the store. *)
LEMMA BasicReply ==
  ASSUME Basic, NEW r \in Request, NEW c \in Calls(r), NEW a \in Answer,
         Arrives(r, c), Reply(r, a), UNCHANGED excused
  PROVE  Basic'
<1>1. c \in Call /\ c # None /\ c.row \in CorrId \union {r}
  BY CallType
<1>2. TypeOK'
  BY <1>1 DEF Basic, TypeOK, Arrives, Reply, PC
<1>3. Lifecycle'
  BY <1>1, NoneAssumption DEF Basic, TypeOK, Lifecycle, Arrives, Reply
<1>. QED  BY <1>2, <1>3 DEF Basic

LEMMA RefusalType ==
  ASSUME NEW code \in {400, 500}
  PROVE  /\ Refusal(code) \in Answer
         /\ ~Success(Refusal(code))
BY DEF Refusal, Answer, Success

LEMMA ResponseType ==
  ASSUME TypeOK, NEW r \in Request
  PROVE  /\ Response(r) \in Answer
         /\ Success(Response(r)) <=> result[r] = "approved"
<1>1. CASE result[r] = "approved"
  BY <1>1 DEF Response, SuccessCode, Answer, Success
<1>2. CASE result[r] # "approved"
  BY <1>2, RefusalType DEF Response
<1>. QED  BY <1>1, <1>2

LEMMA SettleType ==
  ASSUME NEW row \in Row, NEW r \in Request
  PROVE  /\ Settle(row, r) \in Row
         /\ Settle(row, r).status =
              IF result[r] = "approved" THEN "completed" ELSE "failed"
         /\ Settle(row, r).anet = IF result[r] = "error" THEN row.anet ELSE r
BY DEF Row, Settle

LEMMA BasicStep == Basic /\ [Next]_vars => Basic'
<1> SUFFICES ASSUME Basic, [Next]_vars PROVE Basic'
  OBVIOUS
<1> USE DEF Basic
<1>1. ASSUME NEW r \in Request, NEW c \in Calls(r),
             RejectKey(r, c) \/ Replay(r, c) \/ RejectInput(r, c)
      PROVE  Basic'
  <2>1. CASE RejectKey(r, c) \/ RejectInput(r, c)
    BY <2>1, BasicReply, RefusalType DEF RejectKey, RejectInput
  <2>2. CASE Replay(r, c)
    <3>1. store[c.key] \in Answer
      BY <2>2 DEF Replay, Cached, TypeOK
    <3>. QED  BY <2>2, <3>1, BasicReply DEF Replay
  <2>. QED  BY <1>1, <2>1, <2>2
<1>2. ASSUME NEW r \in Request, NEW c \in Calls(r), Admit(r, c)
      PROVE  Basic'
  <2>1. c \in Call /\ c # None /\ c.row \in CorrId \union {r}
    BY CallType
  <2>2. TypeOK'
    BY <1>2, <2>1 DEF TypeOK, Admit, Arrives, PC
  <2>3. Lifecycle'
    BY <1>2, <2>1 DEF TypeOK, Lifecycle, Admit, Arrives
  <2>. QED  BY <2>2, <2>3
<1>3. ASSUME NEW r \in Request, SaveRow(r) PROVE Basic'
  <2>1. req[r] \in Call
    BY <1>3 DEF SaveRow, Moves, TypeOK, Lifecycle
  <2>2. [op |-> req[r].op, of |-> req[r].of,
         status |-> "processing", anet |-> None] \in Row
    BY <2>1 DEF Call, Row
  <2>3. TypeOK'
    BY <1>3, <2>2 DEF TypeOK, SaveRow, Moves, history, PC
  <2>4. Lifecycle'
    BY <1>3 DEF TypeOK, Lifecycle, SaveRow, Moves, history
  <2>. QED  BY <2>3, <2>4
<1>4. ASSUME NEW r \in Request, SaveFails(r) PROVE Basic'
  BY <1>4 DEF TypeOK, Lifecycle, SaveFails, Moves, history, PC
<1>5. ASSUME NEW r \in Request, Send(r) PROVE Basic'
  <2>1. TypeOK'
    BY <1>5 DEF TypeOK, Send, Moves, PC, GatewayState
  <2>2. Lifecycle'
    BY <1>5 DEF TypeOK, Lifecycle, Send, Moves
  <2>. QED  BY <2>1, <2>2
<1>6. ASSUME NEW r \in Request, Retry(r) PROVE Basic'
  BY <1>6, RetryAssumption
     DEF TypeOK, Lifecycle, Retry, MayRetry, history, PC
<1>7. ASSUME NEW r \in Request, GiveUp(r) PROVE Basic'
  <2>1. TypeOK'
    BY <1>7, RefusalType DEF TypeOK, GiveUp, Reply, history, PC
  <2>2. Lifecycle'
    BY <1>7, RefusalType, NoneAssumption
       DEF TypeOK, Lifecycle, GiveUp, Reply, history
  <2>. QED  BY <2>1, <2>2
<1>8. ASSUME NEW r \in Request, Callback(r) \/ CallbackEmpty(r) PROVE Basic'
  <2>1. TypeOK'
    BY <1>8 DEF TypeOK, Callback, CallbackEmpty, Moves, history, PC,
                processTransactionResponse
  <2>2. Lifecycle'
    BY <1>8, NoneAssumption
       DEF TypeOK, Lifecycle, Callback, CallbackEmpty, Moves, history,
           processTransactionResponse
  <2>. QED  BY <2>1, <2>2
<1>9. ASSUME NEW r \in Request, UpdateRow(r) PROVE Basic'
  <2>1. \A row \in Row : Settle(row, r) \in Row
    BY SettleType
  <2>2. TypeOK'
    BY <1>9, <2>1 DEF TypeOK, UpdateRow, Updated, Moves, history, PC
  <2>3. Lifecycle'
    BY <1>9 DEF TypeOK, Lifecycle, UpdateRow, Moves, history
  <2>. QED  BY <2>2, <2>3
<1>10. ASSUME NEW r \in Request, UpdateFails(r) PROVE Basic'
  BY <1>10 DEF TypeOK, Lifecycle, UpdateFails, Moves, history, PC
<1>11. ASSUME NEW r \in Request, Respond(r) PROVE Basic'
  <2>1. Response(r) \in Answer
    BY ResponseType
  <2>2. TypeOK'
    BY <1>11, <2>1 DEF TypeOK, Respond, Reply, history, PC
  <2>3. Lifecycle'
    BY <1>11, <2>1, NoneAssumption
       DEF TypeOK, Lifecycle, Respond, Answers, Reply, history
  <2>. QED  BY <2>2, <2>3
<1>12. ASSUME NEW r \in Request, GatewayHandles(r) \/ Unreached(r)
       PROVE  Basic'
  <2>1. TypeOK'
    BY <1>12 DEF TypeOK, GatewayHandles, Unreached, process, history,
                 GatewayState
  <2>2. Lifecycle'
    BY <1>12 DEF TypeOK, Lifecycle, GatewayHandles, Unreached, process, history
  <2>. QED  BY <2>1, <2>2
<1>13. ASSUME NEW k \in Key, Age(k) PROVE Basic'
  BY <1>13 DEF TypeOK, Lifecycle, Age, process, history
<1>14. CASE Cleanup
  BY <1>14 DEF TypeOK, Lifecycle, Cleanup, process
<1>15. CASE Crash
  BY <1>15 DEF TypeOK, Lifecycle, Crash, Live, PC
<1>16. CASE UNCHANGED vars
  BY <1>16 DEF TypeOK, Lifecycle, vars, process, history
<1>. QED
  BY <1>1, <1>2, <1>3, <1>4, <1>5, <1>6, <1>7, <1>8, <1>9, <1>10, <1>11,
     <1>12, <1>13, <1>14, <1>15, <1>16
  DEF Next, Arrive, Handle

(* Every state of the program has the types TypeOK states.                 *)
THEOREM TypeCorrect == Spec => []TypeOK
<1>1. Basic => TypeOK
  BY DEF Basic
<1>. QED  BY InitBasic, BasicStep, <1>1, PTL DEF Spec

(* executeWithRetry never hands a request to the gateway twice.            *)
THEOREM NoResend == Spec => []AtMostOneSend
<1>1. ASSUME Basic, NEW r \in Request PROVE sends[r] <= 1
  <2>1. sends[r] = 0 \/ sends[r] = 1
    BY <1>1 DEF Basic, Lifecycle
  <2>. QED  BY <2>1
<1>2. Basic => AtMostOneSend
  BY <1>1 DEF AtMostOneSend
<1>. QED  BY InitBasic, BasicStep, <1>2, PTL DEF Spec

-----------------------------------------------------------------------------
(* The transactions table.                                                 *)

Ledger == RowsOwned /\ LedgerAgrees

LEMMA InitLedger == Init => Ledger
BY DEF Init, Ledger, RowsOwned, LedgerAgrees, TxId

(* The steps that leave the table alone, move only r, not back to where a  *)
(* row may be pending, and keep every decision of the gateway.             *)
LEMMA LedgerKept ==
  ASSUME Basic, Ledger, UNCHANGED table,
         \A r \in Request :
           /\ pc'[r] \in {"idle", "saving"} => pc[r] \in {"idle", "saving"}
           /\ pc'[r] \in {"operating", "sent", "updating"} =>
                pc[r] \in {"idle", "saving", "operating", "sent", "updating"},
         \A r \in Request : gateway[r] \in {"approved", "declined", "held"} =>
                                gateway'[r] = gateway[r]
  PROVE  Ledger'
<1>1. RowsOwned'
  BY DEF Ledger, RowsOwned
<1>2. \A t \in TxId : table[t] # None => table[t].anet \in Request \union {None}
  BY DEF Basic, TypeOK, Row
<1>3. LedgerAgrees'
  BY <1>2 DEF Ledger, LedgerAgrees, Charged
<1>. QED  BY <1>1, <1>3 DEF Ledger

LEMMA LedgerStep == Basic /\ Ledger /\ [Next]_vars => Ledger'
<1> SUFFICES ASSUME Basic, Ledger, [Next]_vars PROVE Ledger'
  OBVIOUS
<1>1. ASSUME NEW r \in Request, SaveRow(r) PROVE Ledger'
  <2>1. req[r] \in Call /\ req[r].row \in CorrId \union {r}
    BY <1>1 DEF SaveRow, Moves, Basic, TypeOK, Lifecycle
  <2>2. req[r].row \in TxId
    BY <2>1 DEF TxId
  <2> DEFINE new == [op |-> req[r].op, of |-> req[r].of,
                     status |-> "processing", anet |-> None]
  <2>3. table' = [table EXCEPT ![req[r].row] = new]
    BY <1>1 DEF SaveRow
  <2>4. new.status = "processing" /\ new.anet = None
    OBVIOUS
  <2> HIDE DEF new
  <2>5. RowsOwned'
    BY <1>1, <2>1, <2>3, <2>4, NoneAssumption
       DEF Basic, TypeOK, TxId, Ledger, RowsOwned, SaveRow, Moves
  <2>6. LedgerAgrees'
    BY <1>1, <2>2, <2>3, <2>4
       DEF Basic, TypeOK, Ledger, LedgerAgrees, SaveRow, Charged
  <2>. QED  BY <2>5, <2>6 DEF Ledger
<1>2. ASSUME NEW r \in Request, UpdateRow(r) PROVE Ledger'
  <2>1. /\ req[r] \in Call /\ req[r].row \in CorrId \union {r}
        /\ req[r].row \in TxId
    BY <1>2 DEF UpdateRow, Moves, Basic, TypeOK, Lifecycle, TxId
  <2> DEFINE t == req[r].row
             old == table[t]
             new == IF old = None THEN None ELSE Settle(old, r)
  <2>2. table' = [table EXCEPT ![t] = new]
    BY <1>2 DEF UpdateRow, Updated
  <2>3. new # None => old # None
    OBVIOUS
  <2>4. old # None => new = Settle(old, r)
    OBVIOUS
  <2>5. old # None => old \in Row
    BY <2>1 DEF Basic, TypeOK
  <2> HIDE DEF new, old
  <2>6. RowsOwned'
    BY <1>2, <2>1, <2>2, <2>3, NoneAssumption
       DEF Basic, TypeOK, TxId, Ledger, RowsOwned, UpdateRow, Moves
  <2>7. ASSUME new # None
        PROVE  /\ new.status = "completed" =>
                    new.anet = r /\ gateway[r] = "approved"
               /\ new.status = "failed" /\ new.anet # None /\ t \in Request =>
                    gateway[new.anet] \in {"declined", "held"}
    <3>1. old \in Row /\ new = Settle(old, r)
      BY <2>3, <2>4, <2>5, <2>7
    <3>2. /\ new.status = IF result[r] = "approved" THEN "completed" ELSE "failed"
          /\ new.anet = IF result[r] = "error" THEN old.anet ELSE r
      BY <3>1, SettleType
    <3>3. result[r] \in {"approved", "declined", "error", None}
      BY DEF Basic, TypeOK
    <3>4. /\ result[r] = "approved" => gateway[r] = "approved"
          /\ result[r] = "declined" => gateway[r] \in {"declined", "held"}
      BY DEF Basic, Lifecycle
    <3>5. t \in Request => old.anet = None
      BY <1>2, <2>1, <2>3, <2>7, NoneAssumption
         DEF Ledger, RowsOwned, UpdateRow, Moves, old
    <3>6. result[r] # None
      BY <1>2 DEF UpdateRow, Moves, Basic, Lifecycle
    <3>. QED  BY <3>2, <3>3, <3>4, <3>5, <3>6, NoneAssumption
  <2>8. LedgerAgrees'
    BY <1>2, <2>1, <2>2, <2>7, NoneAssumption
       DEF Basic, TypeOK, Ledger, LedgerAgrees, UpdateRow, Charged
  <2>. QED  BY <2>6, <2>8 DEF Ledger
<1>3. ASSUME NEW r \in Request, NEW c \in Calls(r),
             RejectKey(r, c) \/ Replay(r, c) \/ RejectInput(r, c) \/ Admit(r, c)
      PROVE  Ledger'
  BY <1>3, LedgerKept
     DEF RejectKey, Replay, RejectInput, Admit, Arrives, Reply, Basic, TypeOK
<1>4. ASSUME NEW r \in Request,
             \/ SaveFails(r) \/ Send(r) \/ Retry(r) \/ GiveUp(r)
      PROVE  Ledger'
  BY <1>4, LedgerKept
     DEF SaveFails, Send, Retry, GiveUp, Moves, Reply, history, Basic, TypeOK,
         Lifecycle
<1>5. ASSUME NEW r \in Request,
             \/ Callback(r) \/ CallbackEmpty(r) \/ UpdateFails(r) \/ Respond(r)
      PROVE  Ledger'
  BY <1>5, LedgerKept
     DEF Callback, CallbackEmpty, UpdateFails, Respond, Moves, Reply, history,
         Basic, TypeOK
<1>6. ASSUME NEW r \in Request, GatewayHandles(r) \/ Unreached(r)
      PROVE  Ledger'
  BY <1>6, LedgerKept
     DEF GatewayHandles, Unreached, process, history, Basic, TypeOK
<1>7. ASSUME NEW k \in Key, Age(k) PROVE Ledger'
  BY <1>7, LedgerKept DEF Age, process
<1>8. CASE Cleanup
  BY <1>8, LedgerKept DEF Cleanup, process
<1>9. CASE Crash
  BY <1>9, LedgerKept DEF Crash, Live, Basic, TypeOK
<1>10. CASE UNCHANGED vars
  BY <1>10, LedgerKept DEF vars, process
<1>. QED
  BY <1>1, <1>2, <1>3, <1>4, <1>5, <1>6, <1>7, <1>8, <1>9, <1>10
  DEF Next, Arrive, Handle

(* The table agrees with the gateway in every state, whatever fails.       *)
THEOREM LedgerCorrect == Spec => []LedgerAgrees
<1>1. Ledger => LedgerAgrees
  BY DEF Ledger
<1>. QED
  BY InitBasic, BasicStep, InitLedger, LedgerStep, <1>1, PTL DEF Spec

(* A settled row with a server-made id never changes again.                *)
THEOREM SettledForGood == Spec => SettledRowIsFinal
<1> DEFINE Final ==
      \A t \in Request : table[t] # None =>
        /\ table'[t] # None
        /\ table[t].status # "processing" => table'[t] = table[t]
<1>1. ASSUME Basic, Ledger, [Next]_vars, NEW t \in Request, table[t] # None
      PROVE  /\ table'[t] # None
             /\ table[t].status # "processing" => table'[t] = table[t]
  <2>1. ASSUME NEW r \in Request, SaveRow(r) PROVE table'[t] = table[t]
    BY <1>1, <2>1 DEF SaveRow
  <2>2. ASSUME NEW r \in Request, UpdateRow(r)
        PROVE  /\ table'[t] # None
               /\ table[t].status # "processing" => table'[t] = table[t]
    <3>1. CASE req[r].row # t
      BY <1>1, <2>2, <3>1 DEF UpdateRow, Updated
    <3>2. CASE req[r].row = t
      <4>1. req[r].row \in CorrId \union {r}
        BY <1>1, <2>2 DEF UpdateRow, Moves, Basic, Lifecycle
      <4>2. /\ t = r
            /\ t \in TxId
            /\ table[t] \in Row
        BY <1>1, <3>2, <4>1, NoneAssumption DEF TxId, Basic, TypeOK
      <4>3. table[t].status = "processing"
        BY <1>1, <2>2, <4>2 DEF UpdateRow, Moves, Ledger, RowsOwned
      <4>4. table'[t] = Settle(table[t], r)
        BY <1>1, <2>2, <3>2, <4>2 DEF UpdateRow, Updated, Basic, TypeOK
      <4>5. Settle(table[t], r) \in Row
        <5>1. \A row \in Row : Settle(row, r) \in Row
          BY SettleType
        <5>. QED  BY <4>2, <5>1
      <4>. QED  BY <4>3, <4>4, <4>5, NoneAssumption
    <3>. QED  BY <3>1, <3>2
  <2>3. CASE UNCHANGED table
    BY <1>1, <2>3
  <2>. QED
    BY <1>1, <2>1, <2>2, <2>3
    DEF Next, Arrive, Handle, RejectKey, Replay, RejectInput, Admit, Arrives,
        SaveFails, Send, Retry, GiveUp, Callback, CallbackEmpty, UpdateFails,
        Respond, GatewayHandles, Unreached, Age, Cleanup, Crash, vars
<1>2. Basic /\ Ledger /\ [Next]_vars => Final
  BY <1>1
<1>3. Basic /\ Ledger /\ [Next]_vars => [Final]_vars
  BY <1>2
<1>. QED
  BY InitBasic, BasicStep, InitLedger, LedgerStep, <1>3, PTL
  DEF Spec, SettledRowIsFinal

-----------------------------------------------------------------------------
(* The idempotency keys.                                                   *)

StoreHoldsSuccesses == \A k \in Key : store[k] # None => Success(store[k])

LEMMA StoreStep ==
  Basic /\ StoreHoldsSuccesses /\ [Next]_vars => StoreHoldsSuccesses'
<1> SUFFICES ASSUME Basic, StoreHoldsSuccesses, [Next]_vars
             PROVE  StoreHoldsSuccesses'
  OBVIOUS
<1>1. ASSUME NEW r \in Request, Respond(r) PROVE StoreHoldsSuccesses'
  BY <1>1 DEF StoreHoldsSuccesses, Respond, Cacheable, Success
<1>2. CASE Cleanup \/ Crash
  BY <1>2 DEF StoreHoldsSuccesses, Cleanup, Crash, Success
<1>3. CASE UNCHANGED store
  BY <1>3 DEF StoreHoldsSuccesses, Success
<1>. QED
  BY <1>1, <1>2, <1>3
  DEF Next, Arrive, Handle, RejectKey, Replay, RejectInput, Admit, Arrives,
      SaveRow, SaveFails, Send, Retry, GiveUp, Callback, CallbackEmpty,
      UpdateRow, UpdateFails, GatewayHandles, Unreached, Age, vars

(* A request answered on arrival, truthfully, leaves a key guarded.        *)
LEMMA GuardedReply ==
  ASSUME Basic, NEW k \in Key, Guarded(k),
         NEW r \in Request, NEW c \in Calls(r), NEW a \in Answer,
         Arrives(r, c), Reply(r, a),
         c.key = k /\ Success(a) => store[k] = a
  PROVE  Guarded(k)'
<1>1. /\ req[r] = None /\ gateway[r] = "none" /\ gateway'[r] = "none"
      /\ pc'[r] = "done" /\ answer'[r] = a /\ req'[r] = c
  BY DEF Basic, TypeOK, Lifecycle, Arrives, Reply
<1>2. \A q \in Request \ {r} :
        /\ req'[q] = req[q] /\ pc'[q] = pc[q] /\ answer'[q] = answer[q]
  BY DEF Basic, TypeOK, Arrives, Reply
<1>3. UNCHANGED <<gateway, store, result>>
  BY DEF Arrives
<1>. QED
  BY <1>1, <1>2, <1>3 DEF Guarded, HasKey, Live, Exposed, Success

(* A handler that moves on without an answer or a word to the gateway      *)
(* leaves a key guarded.                                                   *)
LEMMA GuardedMove ==
  ASSUME Basic, NEW k \in Key, Guarded(k),
         UNCHANGED <<req, answer, store, gateway, result>>,
         \A r \in Request :
           /\ Live(r)' <=> Live(r)
           /\ pc'[r] \in {"updating", "responding"} =>
                pc[r] \in {"updating", "responding"}
  PROVE  Guarded(k)'
BY DEF Guarded, HasKey, Exposed, Success

LEMMA GuardedStep ==
  ASSUME Basic, StoreHoldsSuccesses, [Next]_vars,
         NEW k \in Key \ excused', k \notin excused, Guarded(k)
  PROVE  Guarded(k)'
<1>1. ASSUME NEW r \in Request, NEW c \in Calls(r),
             RejectKey(r, c) \/ RejectInput(r, c)
      PROVE  Guarded(k)'
  BY <1>1, RefusalType, GuardedReply DEF RejectKey, RejectInput
<1>2. ASSUME NEW r \in Request, NEW c \in Calls(r), Replay(r, c)
      PROVE  Guarded(k)'
  <2>1. store[c.key] \in Answer
    BY <1>2 DEF Replay, Cached, Basic, TypeOK
  <2>. QED  BY <1>2, <2>1, GuardedReply DEF Replay
<1>3. ASSUME NEW r \in Request, NEW c \in Calls(r), Admit(r, c)
      PROVE  Guarded(k)'
  <2>1. /\ req[r] = None /\ gateway[r] = "none" /\ answer[r] = None
        /\ pc[r] = "idle" /\ pc'[r] = "saving" /\ req'[r] = c
    BY <1>3 DEF Basic, TypeOK, Lifecycle, Admit, Arrives
  <2>2. \A q \in Request \ {r} : req'[q] = req[q] /\ pc'[q] = pc[q]
    BY <1>3 DEF Basic, TypeOK, Admit, Arrives
  <2>3. UNCHANGED <<gateway, store, result, answer>>
    BY <1>3 DEF Admit, Arrives
  <2>4. c.key = k => /\ store[k] = None
                     /\ \A q \in Request : ~(Live(q) /\ HasKey(q, k))
    BY <1>3 DEF Admit, Cached
  <2>. QED
    BY <2>1, <2>2, <2>3, <2>4 DEF Guarded, HasKey, Live, Exposed, Success
<1>4. ASSUME NEW r \in Request,
             SaveRow(r) \/ SaveFails(r) \/ UpdateRow(r) \/ UpdateFails(r)
      PROVE  Guarded(k)'
  BY <1>4, GuardedMove
     DEF SaveRow, SaveFails, UpdateRow, UpdateFails, Moves, Live, Basic, TypeOK
<1>5. ASSUME NEW r \in Request, Retry(r) PROVE Guarded(k)'
  BY <1>5, GuardedMove DEF Retry, Live
<1>6. ASSUME NEW r \in Request, Send(r) PROVE Guarded(k)'
  <2>1. /\ pc[r] = "operating" /\ pc'[r] = "sent" /\ answer[r] = None
        /\ gateway'[r] = "inflight"
        /\ \A q \in Request \ {r} : pc'[q] = pc[q] /\ gateway'[q] = gateway[q]
        /\ UNCHANGED <<req, answer, store, result>>
    BY <1>6 DEF Send, Moves, Basic, TypeOK, Lifecycle
  <2>. QED  BY <2>1 DEF Guarded, HasKey, Live, Exposed, Success
<1>7. ASSUME NEW r \in Request, GiveUp(r) PROVE Guarded(k)'
  <2>1. /\ pc[r] = "operating" /\ pc'[r] = "done" /\ gateway[r] = "none"
        /\ answer'[r] = Refusal(500)
        /\ \A q \in Request \ {r} : pc'[q] = pc[q] /\ answer'[q] = answer[q]
        /\ UNCHANGED <<req, gateway, store, result>>
    BY <1>7 DEF GiveUp, Reply, Basic, TypeOK, Lifecycle
  <2>2. ~Success(Refusal(500))
    BY RefusalType
  <2>. QED  BY <2>1, <2>2 DEF Guarded, HasKey, Live, Exposed, Success
<1>8. ASSUME NEW r \in Request, Callback(r) \/ CallbackEmpty(r)
      PROVE  Guarded(k)'
  <2>1. /\ pc[r] = "sent" /\ pc'[r] = "updating"
        /\ \A q \in Request \ {r} : pc'[q] = pc[q] /\ result'[q] = result[q]
        /\ UNCHANGED <<req, answer, gateway, store>>
    BY <1>8 DEF Callback, CallbackEmpty, Moves, Basic, TypeOK
  <2>2. HasKey(r, k) /\ Exposed(r) => result'[r] = "approved"
    <3>1. CASE Callback(r)
      BY <3>1 DEF Callback, Exposed, processTransactionResponse, Basic, TypeOK
    <3>2. CASE CallbackEmpty(r)
      BY <3>2 DEF CallbackEmpty, Exposed
    <3>. QED  BY <1>8, <3>1, <3>2
  <2>. QED  BY <2>1, <2>2 DEF Guarded, HasKey, Live, Exposed, Success
<1>9. ASSUME NEW r \in Request, Respond(r) PROVE Guarded(k)'
  <2> DEFINE a == Response(r)
  <2>1. /\ pc[r] = "responding" /\ pc'[r] = "done" /\ answer'[r] = a
        /\ \A q \in Request \ {r} : pc'[q] = pc[q] /\ answer'[q] = answer[q]
        /\ UNCHANGED <<req, gateway, result>>
    BY <1>9 DEF Respond, Answers, Reply, Basic, TypeOK
  <2>2. store'[k] = IF HasKey(r, k) /\ Success(a) THEN a ELSE store[k]
    BY <1>9 DEF Respond, Cacheable
  <2>3. a \in Answer /\ (Success(a) <=> result[r] = "approved")
    BY ResponseType DEF Basic
  <2>4. a # None
    BY <2>3, NoneAssumption
  <2> HIDE DEF a
  <2>. QED
    BY <2>1, <2>2, <2>3, <2>4 DEF Guarded, HasKey, Live, Exposed, Success
<1>10. ASSUME NEW r \in Request, GatewayHandles(r) \/ Unreached(r)
       PROVE  Guarded(k)'
  <2>1. /\ gateway[r] = "inflight"
        /\ \A q \in Request \ {r} : gateway'[q] = gateway[q]
        /\ UNCHANGED <<pc, req, result, answer, store>>
    BY <1>10 DEF GatewayHandles, Unreached, process, Basic, TypeOK
  <2>. QED  BY <2>1 DEF Guarded, HasKey, Live, Exposed, Success
<1>11. ASSUME NEW l \in Key, Age(l) PROVE Guarded(k)'
  BY <1>11 DEF Age, process, Guarded, HasKey, Live, Exposed, Success
<1>12. CASE Cleanup
  BY <1>12 DEF Cleanup, process, Guarded, HasKey, Live, Exposed, Success
<1>13. CASE Crash
  <2>1. /\ store[k] = None /\ store'[k] = None
        /\ \A r \in Request : HasKey(r, k) => ~Live(r) /\ pc'[r] = pc[r]
        /\ UNCHANGED <<req, result, answer, gateway>>
    BY <1>13 DEF Crash, Basic, TypeOK
  <2>. QED  BY <2>1 DEF Guarded, HasKey, Live, Exposed, Success
<1>14. CASE UNCHANGED vars
  BY <1>14 DEF vars, process, Guarded, HasKey, Live, Exposed, Success
<1>. QED
  BY <1>1, <1>2, <1>3, <1>4, <1>5, <1>6, <1>7, <1>8, <1>9, <1>10, <1>11,
     <1>12, <1>13, <1>14
  DEF Next, Arrive, Handle

(* A key joins the guarded ones only at the start: what was excused stays  *)
(* excused.                                                                *)
LEMMA ExcusedGrows == Basic /\ [Next]_vars => excused \subseteq excused'
BY DEF Next, Arrive, Handle, RejectKey, Replay, RejectInput, Admit, SaveRow,
       SaveFails, Send, Retry, GiveUp, Callback, CallbackEmpty, UpdateRow,
       UpdateFails, Respond, GatewayHandles, Unreached, Age, Cleanup, Crash,
       vars, history

LEMMA InitKeys == Init => KeysGuarded
BY NoneAssumption
   DEF Init, KeysGuarded, Guarded, HasKey, Live, Exposed, Success

LEMMA KeysStep == Basic /\ KeysGuarded /\ [Next]_vars => KeysGuarded'
<1> SUFFICES ASSUME Basic, KeysGuarded, [Next]_vars PROVE KeysGuarded'
  OBVIOUS
<1>1. StoreHoldsSuccesses'
  BY StoreStep DEF KeysGuarded, StoreHoldsSuccesses
<1>2. ASSUME NEW k \in Key \ excused' PROVE Guarded(k)'
  <2>1. k \notin excused
    BY ExcusedGrows
  <2>2. Guarded(k) /\ StoreHoldsSuccesses
    BY <2>1 DEF KeysGuarded, StoreHoldsSuccesses
  <2>. QED  BY <2>1, <2>2, GuardedStep
<1>. QED  BY <1>1, <1>2 DEF KeysGuarded, StoreHoldsSuccesses

LEMMA BackedStep == Basic /\ StoreBacked /\ [Next]_vars => StoreBacked'
<1> SUFFICES ASSUME Basic, StoreBacked, [Next]_vars, NEW k \in Key, store'[k] # None
             PROVE  /\ store'[k].by \in Request
                    /\ answer'[store'[k].by] = store'[k]
                    /\ gateway'[store'[k].by] = "approved"
  BY DEF StoreBacked
<1> DEFINE Backed == /\ store'[k].by \in Request
                     /\ answer'[store'[k].by] = store'[k]
                     /\ gateway'[store'[k].by] = "approved"
<1>1. ASSUME store'[k] = store[k],
             \A q \in Request : answer[q] # None => answer'[q] = answer[q],
             \A q \in Request : gateway[q] = "approved" => gateway'[q] = "approved"
      PROVE  Backed
  BY <1>1 DEF StoreBacked
<1>2. ASSUME NEW r \in Request, NEW c \in Calls(r),
             RejectKey(r, c) \/ Replay(r, c) \/ RejectInput(r, c) \/ Admit(r, c)
      PROVE  /\ store'[k] = store[k]
             /\ \A q \in Request : answer[q] # None => answer'[q] = answer[q]
             /\ UNCHANGED gateway
  BY <1>2 DEF RejectKey, Replay, RejectInput, Admit, Arrives, Reply, Basic,
              TypeOK, Lifecycle
<1>3. ASSUME NEW r \in Request, Respond(r)
      PROVE  Backed
  <2>1. /\ answer[r] = None /\ answer' = [answer EXCEPT ![r] = Response(r)]
        /\ UNCHANGED gateway
    BY <1>3 DEF Respond, Answers, Reply, Basic, TypeOK, Lifecycle
  <2>2. CASE HasKey(r, k) /\ Success(Response(r))
    <3>1. store'[k] = Response(r)
      BY <1>3, <2>2 DEF Respond, Cacheable
    <3>2. result[r] = "approved" /\ gateway[r] = "approved"
      BY <2>2, ResponseType DEF Basic, Lifecycle
    <3>3. Response(r).by = r
      BY <3>2 DEF Response
    <3>. QED  BY <2>1, <3>1, <3>2, <3>3 DEF Basic, TypeOK
  <2>3. CASE ~(HasKey(r, k) /\ Success(Response(r)))
    <3>1. store'[k] = store[k]
      BY <1>3, <2>3 DEF Respond, Cacheable
    <3>2. \A q \in Request : answer[q] # None => answer'[q] = answer[q]
      BY <2>1 DEF Basic, TypeOK
    <3>. QED  BY <1>1, <2>1, <3>1, <3>2
  <2>. QED  BY <2>2, <2>3
<1>4. ASSUME NEW r \in Request, Send(r) \/ GiveUp(r)
      PROVE  Backed
  <2>1. /\ store'[k] = store[k]
        /\ \A q \in Request : answer[q] # None => answer'[q] = answer[q]
        /\ \A q \in Request : gateway[q] = "approved" =>
                                gateway'[q] = "approved"
    BY <1>4 DEF Send, GiveUp, Reply, Moves, Basic, TypeOK, Lifecycle
  <2>. QED  BY <1>1, <2>1
<1>5. ASSUME NEW r \in Request, GatewayHandles(r) \/ Unreached(r)
      PROVE  Backed
  <2>1. /\ store'[k] = store[k] /\ UNCHANGED answer
        /\ \A q \in Request : gateway[q] = "approved" =>
                                gateway'[q] = "approved"
    BY <1>5 DEF GatewayHandles, Unreached, process, Basic, TypeOK
  <2>. QED  BY <1>1, <2>1
<1>6. CASE Cleanup \/ Crash
  <2>1. store'[k] = store[k] /\ UNCHANGED <<answer, gateway>>
    BY <1>6 DEF Cleanup, Crash, process
  <2>. QED  BY <1>1, <2>1
<1>7. CASE UNCHANGED <<answer, store, gateway>>
  BY <1>1, <1>7
<1>. QED
  BY <1>1, <1>2, <1>3, <1>4, <1>5, <1>6, <1>7
  DEF Next, Arrive, Handle, SaveRow, SaveFails, Retry, Callback, CallbackEmpty,
      UpdateRow, UpdateFails, Age, vars, process

(* The invariant that carries the rest, in one piece.                      *)
THEOREM InductiveInvariant == Spec => []IInv
<1>1. Init => IInv
  <2>1. Init => StoreBacked
    BY DEF Init, StoreBacked
  <2>. QED  BY <2>1, InitBasic, InitLedger, InitKeys DEF IInv, Basic, Ledger
<1>2. IInv /\ [Next]_vars => IInv'
  BY BasicStep, LedgerStep, KeysStep, BackedStep DEF IInv, Basic, Ledger
<1>. QED  BY <1>1, <1>2, PTL DEF Spec

(* Two approved transactions never share a key that nothing has exposed:   *)
(* overlap, crash, expiry and a lost answer are the only ways to charge a  *)
(* client twice for one key.                                               *)
THEOREM KeyChargedOnce == Spec => []OneChargePerKey
<1>1. IInv => OneChargePerKey
  BY DEF IInv, KeysGuarded, Guarded, OneChargePerKey, Charged, Exposed
<1>. QED  BY InductiveInvariant, <1>1, PTL

(* All successes reported for such a key are one and the same response.    *)
THEOREM KeyAnsweredAlike == Spec => []OneAnswerPerKey
<1>1. IInv => OneAnswerPerKey
  BY DEF IInv, KeysGuarded, Guarded, OneAnswerPerKey
<1>. QED  BY InductiveInvariant, <1>1, PTL

(* A client refused under such a key has not been charged and will not be. *)
THEOREM RefusedNotCharged == Spec => []RefusalMeansNoCharge
<1>1. IInv => RefusalMeansNoCharge
  BY DEF IInv, KeysGuarded, Guarded, RefusalMeansNoCharge, Exposed
<1>. QED  BY InductiveInvariant, <1>1, PTL

(* What a client may rely on, all of it: one transaction and one response  *)
(* per key that nothing exposed, refusals that cost nothing, and never a   *)
(* second send.                                                            *)
THEOREM PromisesKept == Spec => []ChargePromises
<1>1. OneChargePerKey /\ OneAnswerPerKey /\ RefusalMeansNoCharge /\ AtMostOneSend
        => ChargePromises
  BY DEF ChargePromises
<1>. QED
  BY KeyChargedOnce, KeyAnsweredAlike, RefusedNotCharged, NoResend, <1>1, PTL

-----------------------------------------------------------------------------
(* The handlers implement the contract.                                    *)

(* What the contract rests on: nothing of it speaks of the table, which    *)
(* has a second writer.                                                    *)
CallInv == Basic /\ KeysGuarded /\ StoreBacked

LEMMA ContractStep == CallInv /\ [Next]_vars => [Contract!Next]_(Contract!vars)
<1> SUFFICES ASSUME CallInv, [Next]_vars
             PROVE  Contract!Next \/ UNCHANGED <<ChargeOf, VerdictOf, CoverOf>>
  BY DEF Contract!vars
<1> USE DEF CallInv, Basic
<1>1. ASSUME NEW r \in Request, NEW a \in Answer, ~Success(a), Reply(r, a),
             pc[r] \in {"idle", "operating", "responding"}, a.by = None,
             UNCHANGED gateway
      PROVE  Contract!Refuse(r)
  <2>1. answer[r] = None /\ pc[r] # "lost" /\ a # None
    BY <1>1, NoneAssumption DEF Lifecycle
  <2>2. VerdictOf[r] = "open" /\ UNCHANGED ChargeOf
    BY <1>1, <2>1 DEF VerdictOf, ChargeOf
  <2>3. VerdictOf' = [VerdictOf EXCEPT ![r] = "refused"]
    BY <1>1, <2>1 DEF VerdictOf, Reply, TypeOK, Success
  <2>4. UNCHANGED CoverOf
    BY <1>1, <2>1 DEF CoverOf, Reply, TypeOK
  <2>. QED  BY <2>2, <2>3, <2>4 DEF Contract!Refuse
<1>2. ASSUME NEW r \in Request, NEW a \in Answer, Success(a), Reply(r, a),
             pc[r] \in {"idle", "responding"}, UNCHANGED gateway,
             a.by \in Request, gateway[a.by] = "approved",
             a.by = r \/ (gateway[r] = "none" /\ answer[a.by] = a)
      PROVE  Contract!Accept(r, a.by)
  <2>1. answer[r] = None /\ pc[r] # "lost" /\ a # None
    BY <1>2, NoneAssumption DEF Lifecycle
  <2>2. /\ VerdictOf[r] = "open" /\ UNCHANGED ChargeOf
        /\ ChargeOf[a.by] = "approved"
    BY <1>2, <2>1 DEF VerdictOf, ChargeOf
  <2>3. VerdictOf' = [VerdictOf EXCEPT ![r] = "accepted"]
    BY <1>2, <2>1 DEF VerdictOf, Reply, TypeOK, Success
  <2>4. CoverOf' = [CoverOf EXCEPT ![r] = a.by]
    BY <1>2, <2>1 DEF CoverOf, Reply, TypeOK
  <2>5. a.by # r => /\ ChargeOf[r] = "none"
                    /\ VerdictOf[a.by] = "accepted" /\ CoverOf[a.by] = a.by
    BY <1>2, <2>1 DEF VerdictOf, ChargeOf, CoverOf, Lifecycle
  <2>. QED  BY <2>2, <2>3, <2>4, <2>5 DEF Contract!Accept
<1>3. ASSUME NEW r \in Request, NEW c \in Calls(r),
             RejectKey(r, c) \/ RejectInput(r, c)
      PROVE  Contract!Next
  <2>1. Refusal(400).by = None
    BY DEF Refusal
  <2>2. Contract!Refuse(r)
    BY <1>1, <1>3, <2>1, RefusalType DEF RejectKey, RejectInput, Arrives
  <2>. QED  BY <2>2 DEF Contract!Next
<1>4. ASSUME NEW r \in Request, NEW c \in Calls(r), Replay(r, c)
      PROVE  Contract!Next
  <2> DEFINE a == store[c.key]
  <2>1. /\ a \in Answer /\ Success(a) /\ a.by \in Request
        /\ answer[a.by] = a /\ gateway[a.by] = "approved"
    BY <1>4 DEF Replay, Cached, TypeOK, KeysGuarded, StoreBacked
  <2>2. pc[r] = "idle" /\ gateway[r] = "none" /\ Reply(r, a) /\ UNCHANGED gateway
    BY <1>4 DEF Replay, Arrives, TypeOK, Lifecycle
  <2> HIDE DEF a
  <2>3. Contract!Accept(r, a.by)
    BY <1>2, <2>1, <2>2
  <2>. QED  BY <2>1, <2>3 DEF Contract!Next
<1>5. ASSUME NEW r \in Request, Respond(r) PROVE Contract!Next
  <2>1. /\ Reply(r, Response(r)) /\ pc[r] = "responding"
        /\ UNCHANGED gateway
    BY <1>5 DEF Respond, Answers
  <2>2. Response(r) \in Answer
    BY ResponseType
  <2>3. CASE result[r] = "approved"
    <3>1. Success(Response(r)) /\ Response(r).by = r
      BY <2>3, ResponseType DEF Response
    <3>2. gateway[r] = "approved"
      BY <2>3 DEF Lifecycle
    <3>3. Contract!Accept(r, r)
      <4> DEFINE a == Response(r)
      <4>1. a \in Answer /\ Success(a) /\ a.by = r /\ Reply(r, a)
        BY <2>1, <2>2, <3>1
      <4> HIDE DEF a
      <4>2. Contract!Accept(r, a.by)
        BY <1>2, <2>1, <3>2, <4>1
      <4>. QED  BY <4>1, <4>2
    <3>. QED  BY <3>3 DEF Contract!Next
  <2>4. CASE result[r] # "approved"
    <3>1. ~Success(Response(r)) /\ Response(r).by = None
      BY <2>4, ResponseType DEF Response, Refusal
    <3>2. Contract!Refuse(r)
      BY <1>1, <2>1, <2>2, <3>1
    <3>. QED  BY <3>2 DEF Contract!Next
  <2>. QED  BY <2>3, <2>4
<1>6. ASSUME NEW r \in Request, GiveUp(r) PROVE Contract!Next
  <2>1. Refusal(500).by = None
    BY DEF Refusal
  <2>2. Contract!Refuse(r)
    BY <1>1, <1>6, <2>1, RefusalType DEF GiveUp
  <2>. QED  BY <2>2 DEF Contract!Next
<1>7. ASSUME NEW r \in Request, Send(r) PROVE Contract!Next
  <2>1. gateway[r] = "none" /\ answer[r] = None /\ pc[r] = "operating"
    BY <1>7 DEF Send, Moves, Lifecycle
  <2>2. ChargeOf[r] = "none" /\ VerdictOf[r] = "open"
    BY <2>1 DEF ChargeOf, VerdictOf
  <2>3. ChargeOf' = [ChargeOf EXCEPT ![r] = "pending"]
    BY <1>7 DEF Send, ChargeOf, TypeOK
  <2>4. UNCHANGED <<VerdictOf, CoverOf>>
    BY <1>7, <2>1 DEF Send, Moves, VerdictOf, CoverOf, TypeOK, Success
  <2>5. Contract!Submit(r)
    BY <2>2, <2>3, <2>4 DEF Contract!Submit
  <2>. QED  BY <2>5 DEF Contract!Next
<1>8. ASSUME NEW r \in Request, GatewayHandles(r) \/ Unreached(r)
      PROVE  Contract!Next
  <2>1. ChargeOf[r] = "pending"
    BY <1>8 DEF GatewayHandles, Unreached, ChargeOf
  <2>2. PICK g \in {"approved", "declined", "held", "refused", "unreached"} :
          gateway' = [gateway EXCEPT ![r] = g]
    BY <1>8 DEF GatewayHandles, Unreached
  <2>3. ChargeOf' =
          [ChargeOf EXCEPT ![r] = IF g = "approved" THEN "approved" ELSE "void"]
    BY <2>2 DEF ChargeOf, TypeOK
  <2>4. UNCHANGED <<VerdictOf, CoverOf>>
    BY <1>8 DEF GatewayHandles, Unreached, process, VerdictOf, CoverOf, Success
  <2>5. Contract!Decide(r)
    BY <2>1, <2>3, <2>4 DEF Contract!Decide
  <2>. QED  BY <2>5 DEF Contract!Next
<1>9. CASE Crash
  <2> DEFINE S == {r \in Request : Live(r)}
  <2>1. \A r \in S : VerdictOf[r] = "open"
    BY DEF VerdictOf, Live, Lifecycle
  <2>2. VerdictOf' =
          [r \in Request |-> IF r \in S THEN "unknown" ELSE VerdictOf[r]]
    BY <1>9 DEF Crash, VerdictOf, Live, Success
  <2>3. UNCHANGED <<ChargeOf, CoverOf>>
    BY <1>9 DEF Crash, ChargeOf, CoverOf
  <2>4. S \in SUBSET Request
    OBVIOUS
  <2> HIDE DEF S
  <2>5. Contract!Abandon(S)
    BY <2>1, <2>2, <2>3 DEF Contract!Abandon
  <2>. QED  BY <2>4, <2>5 DEF Contract!Next
<1>10. ASSUME UNCHANGED <<answer, gateway>>,
              \A r \in Request : pc'[r] = "lost" <=> pc[r] = "lost"
       PROVE  UNCHANGED <<ChargeOf, VerdictOf, CoverOf>>
  BY <1>10 DEF ChargeOf, VerdictOf, CoverOf, Success
<1>11. ASSUME NEW r \in Request, NEW c \in Calls(r), Admit(r, c)
       PROVE  UNCHANGED <<ChargeOf, VerdictOf, CoverOf>>
  BY <1>10, <1>11 DEF Admit, Arrives, TypeOK
<1>12. ASSUME NEW r \in Request,
              \/ SaveRow(r) \/ SaveFails(r) \/ Retry(r) \/ Callback(r)
              \/ CallbackEmpty(r) \/ UpdateRow(r) \/ UpdateFails(r)
       PROVE  UNCHANGED <<ChargeOf, VerdictOf, CoverOf>>
  BY <1>10, <1>12
     DEF SaveRow, SaveFails, Retry, Callback, CallbackEmpty, UpdateRow,
         UpdateFails, Moves, TypeOK
<1>13. CASE (\E k \in Key : Age(k)) \/ Cleanup \/ UNCHANGED vars
  BY <1>10, <1>13 DEF Age, Cleanup, vars, process
<1>. QED
  BY <1>3, <1>4, <1>5, <1>6, <1>7, <1>8, <1>9, <1>11, <1>12, <1>13
  DEF Next, Arrive, Handle

(* Every behaviour of the handlers is one the contract allows: a client is *)
(* told "accepted" only on an approved transaction, each request leads to  *)
(* one transaction at most, and no verdict is ever taken back.             *)
THEOREM PaymentsImplementContract == Spec => ImplementsContract
<1>1. Init => Contract!Init
  BY DEF Init, Contract!Init, ChargeOf, VerdictOf, CoverOf
<1>2. IInv => CallInv
  BY DEF IInv, CallInv, Basic
<1>. QED
  BY InductiveInvariant, ContractStep, <1>1, <1>2, PTL
  DEF Spec, ImplementsContract, Contract!Spec

-----------------------------------------------------------------------------
(* What the contract is worth                                              *)

(* An acceptance rests on an approved transaction whose own request was    *)
(* accepted for it; a request accepted on another one's sent nothing.      *)
Backed(r) ==
  VerdictOf[r] = "accepted" =>
    LET q == CoverOf[r] IN
    /\ q \in Request /\ ChargeOf[q] = "approved"
    /\ VerdictOf[q] = "accepted" /\ CoverOf[q] = q
    /\ q # r => ChargeOf[r] = "none"

AllBacked == \A r \in Request : Backed(r)

(* No verdict, no decision of the gateway and no cover is taken back.      *)
Final(r) ==
  /\ VerdictOf[r] # "open" => VerdictOf'[r] = VerdictOf[r]
  /\ VerdictOf[r] = "accepted" => CoverOf'[r] = CoverOf[r]
  /\ ChargeOf[r] \in {"approved", "void"} => ChargeOf'[r] = ChargeOf[r]

LEMMA MappedFunctions ==
  /\ ChargeOf = [r \in Request |-> ChargeOf[r]]
  /\ VerdictOf = [r \in Request |-> VerdictOf[r]]
  /\ CoverOf = [r \in Request |-> CoverOf[r]]
BY DEF ChargeOf, VerdictOf, CoverOf

LEMMA ContractStepKeeps ==
  ASSUME AllBacked, [Contract!Next]_(Contract!vars)
  PROVE  AllBacked' /\ \A r \in Request : Final(r)
<1>. DEFINE Kept == AllBacked' /\ \A r \in Request : Final(r)
<1>1. /\ ChargeOf = [r \in Request |-> ChargeOf[r]] /\ VerdictOf = [r \in Request |-> VerdictOf[r]]
      /\ CoverOf = [r \in Request |-> CoverOf[r]]
  BY MappedFunctions
<1>2. ASSUME NEW r \in Request, Contract!Submit(r) PROVE Kept
  BY <1>1, <1>2 DEF Contract!Submit, AllBacked, Backed, Final
<1>3. ASSUME NEW r \in Request, Contract!Decide(r) PROVE Kept
  BY <1>1, <1>3 DEF Contract!Decide, AllBacked, Backed, Final
<1>4. ASSUME NEW r \in Request, Contract!Refuse(r) PROVE Kept
  BY <1>1, <1>4 DEF Contract!Refuse, AllBacked, Backed, Final
<1>5. ASSUME NEW r \in Request, NEW q \in Request, Contract!Accept(r, q) PROVE Kept
  BY <1>1, <1>5 DEF Contract!Accept, AllBacked, Backed, Final
<1>6. ASSUME NEW S \in SUBSET Request, Contract!Abandon(S) PROVE Kept
  BY <1>1, <1>6 DEF Contract!Abandon, AllBacked, Backed, Final
<1>7. CASE UNCHANGED Contract!vars
  BY <1>7 DEF Contract!vars, AllBacked, Backed, Final
<1>. QED  BY <1>2, <1>3, <1>4, <1>5, <1>6, <1>7 DEF Contract!Next

(* Whatever implements the contract has both properties.                   *)
LEMMA ContractWorth ==
  ImplementsContract => []AllBacked /\ [][\A r \in Request : Final(r)]_(Contract!vars)
<1>1. Contract!Init => AllBacked
  BY DEF Contract!Init, AllBacked, Backed
<1>2. AllBacked /\ [Contract!Next]_(Contract!vars) => AllBacked'
  BY ContractStepKeeps
<1>3. AllBacked /\ [Contract!Next]_(Contract!vars) =>
        [\A r \in Request : Final(r)]_(Contract!vars)
  BY ContractStepKeeps
<1>. QED  BY <1>1, <1>2, <1>3, PTL DEF ImplementsContract, Contract!Spec

(* A success a client was sent rests on an approved transaction of the     *)
(* request itself or of the one whose answer was replayed (idempotency.ts),*)
(* which then was told of success too; a replay sends nothing itself.      *)
THEOREM AcceptancesBacked == Spec => []AllBacked
BY PaymentsImplementContract, ContractWorth, PTL

(* What a client was told, and what the gateway decided, stays.            *)
THEOREM VerdictsFinal == Spec => [][\A r \in Request : Final(r)]_(Contract!vars)
BY PaymentsImplementContract, ContractWorth, PTL

=============================================================================
