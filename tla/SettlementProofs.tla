-------------------------- MODULE SettlementProofs --------------------------
(***************************************************************************)
(* Machine-checked proofs about Settlement: the API and the webhook        *)
(* processor writing to one transactions table, for every set of requests, *)
(* keys and correlation ids and whichever operations reuse a gateway id.   *)
(*                                                                         *)
(* LedgerAgrees, which Payments keeps on its own, does not survive the     *)
(* second writer: a notification may set a row to "failed" that names an   *)
(* approved transaction (a void), or settle it while a statement of the    *)
(* API is still due.  What does survive is proved here.                    *)
(***************************************************************************)
EXTENDS Settlement, PaymentsProofs

(* The gateway decided about a transaction, and gave it an id.             *)
Decisions == {"approved", "declined", "held"}

(* What the steps of the API may do to the data that notifications read:   *)
(* the gateway takes no decision back, ...                                 *)
KeepsDecisions ==
  \A r \in Request : gateway[r] \in Decisions => gateway'[r] = gateway[r]

(* ... a call is made once, and one that refers to a transaction names one *)
(* that was approved, or none the gateway knows, ...                       *)
KeepsCalls ==
  \A r \in Request :
    /\ req[r] # None => req'[r] = req[r]
    /\ req'[r] # None /\ req[r] = None =>
         /\ req'[r].of \in Request => gateway[req'[r].of] = "approved"
         /\ req'[r].op \in {"capture", "cancel"} => req'[r].of # None

(* ... and a row keeps its operation and reference, and names a            *)
(* transaction only when the gateway has decided it; with a server-made id *)
(* it is written once after it was inserted.                               *)
KeepsRows ==
  /\ \A t \in TxId : table[t] # None =>
       /\ table'[t] # None
       /\ table'[t].op = table[t].op /\ table'[t].of = table[t].of
       /\ table[t].anet # None => table'[t].anet # None
  /\ \A t \in Request :
       /\ table[t] # None
       /\ table[t].anet # None \/ table[t].status # "processing"
       => table'[t] = table[t]
  /\ \A t \in TxId : table'[t] # None /\ table'[t].anet # None =>
       \/ table[t] # None /\ table'[t].anet = table[t].anet
       \/ gateway[table'[t].anet] \in Decisions
  /\ \A t \in Request :
       table'[t] # None /\ table'[t].anet # None /\ table'[t] # table[t] =>
         \/ table'[t].status = "completed" /\ gateway[table'[t].anet] = "approved"
         \/ /\ table'[t].status = "failed"
            /\ gateway[table'[t].anet] \in {"declined", "held"}

-----------------------------------------------------------------------------
(* The steps of the API.                                                   *)

LEMMA DecisionsStep == Basic /\ [Next]_vars => KeepsDecisions
<1> SUFFICES ASSUME Basic, [Next]_vars PROVE KeepsDecisions
  OBVIOUS
<1>1. ASSUME NEW r \in Request, Send(r) PROVE KeepsDecisions
  BY <1>1 DEF KeepsDecisions, Decisions, Send, Moves, Basic, TypeOK, Lifecycle
<1>2. ASSUME NEW r \in Request, GatewayHandles(r) \/ Unreached(r)
      PROVE  KeepsDecisions
  BY <1>2 DEF KeepsDecisions, Decisions, GatewayHandles, Unreached, Basic, TypeOK
<1>3. CASE UNCHANGED gateway
  BY <1>3 DEF KeepsDecisions
<1>. QED
  BY <1>1, <1>2, <1>3
  DEF Next, Arrive, Handle, RejectKey, Replay, RejectInput, Admit, Arrives,
      SaveRow, SaveFails, Retry, GiveUp, Callback, CallbackEmpty, UpdateRow,
      UpdateFails, Respond, Age, Cleanup, Crash, vars

LEMMA CallsStep == Basic /\ [Next]_vars => KeepsCalls
<1> SUFFICES ASSUME Basic, [Next]_vars PROVE KeepsCalls
  OBVIOUS
<1>1. ASSUME NEW r \in Request, NEW c \in Calls(r), Arrives(r, c)
      PROVE  KeepsCalls
  <2>1. /\ c.of \in Request => gateway[c.of] = "approved"
        /\ c.op \in {"capture", "cancel"} => c.of # None
    <3>1. PICK s \in processPurchase(r) \union authorizeTransaction(r)
                       \union captureTransaction(r) \union refundTransaction(r)
                       \union cancelTransaction(r),
               k \in Key \union {BadKey, None} :
            c = [op |-> s.op, row |-> s.row, of |-> s.of, key |-> k]
      BY DEF Calls, V1Calls, LegacyCalls, Keyed
    <3>2. /\ s.of \in KnownIds \union {UnknownId, None}
          /\ s.op \in {"capture", "cancel"} => s.of \in KnownIds \union {UnknownId}
      BY DEF processPurchase, authorizeTransaction, captureTransaction,
             refundTransaction, cancelTransaction
    <3>. QED  BY <3>1, <3>2, NoneAssumption DEF KnownIds
  <2>2. req[r] = None /\ req' = [req EXCEPT ![r] = c]
    BY <1>1 DEF Arrives, Basic, Lifecycle
  <2>. QED  BY <2>1, <2>2 DEF KeepsCalls, Basic, TypeOK
<1>2. CASE UNCHANGED req
  BY <1>2 DEF KeepsCalls
<1>. QED
  BY <1>1, <1>2
  DEF Next, Arrive, Handle, RejectKey, Replay, RejectInput, Admit,
      SaveRow, SaveFails, Send, Retry, GiveUp, Callback, CallbackEmpty,
      UpdateRow, UpdateFails, Respond, GatewayHandles, Unreached, Age, Cleanup,
      Crash, vars, process

(* An insertion or an update of a row that the API may write.              *)
LEMMA RowsKept ==
  ASSUME Basic, NEW t \in TxId, NEW new \in Row,
         table' = [table EXCEPT ![t] = new],
         table[t] # None => new.op = table[t].op /\ new.of = table[t].of,
         t \in Request /\ table[t] # None =>
           table[t].status = "processing" /\ table[t].anet = None,
         \/ table[t] = None /\ new.anet = None
         \/ table[t] # None /\ new.anet = table[t].anet /\ new.status = "failed"
         \/ /\ new.status = "completed" /\ new.anet \in Request
            /\ gateway[new.anet] = "approved"
         \/ /\ new.status = "failed" /\ new.anet \in Request
            /\ gateway[new.anet] \in {"declined", "held"}
  PROVE  KeepsRows
<1>1. table'[t] = new /\ \A u \in TxId \ {t} : table'[u] = table[u]
  BY DEF Basic, TypeOK
<1>2. new # None /\ None \notin Request
  BY NoneAssumption
<1>3. Request \subseteq TxId
  BY DEF TxId
<1>. QED  BY <1>1, <1>2, <1>3 DEF KeepsRows, Decisions

LEMMA RowsStep == Basic /\ RowsOwned /\ [Next]_vars => KeepsRows
<1> SUFFICES ASSUME Basic, RowsOwned, [Next]_vars PROVE KeepsRows
  OBVIOUS
<1>1. ASSUME NEW r \in Request, SaveRow(r) PROVE KeepsRows
  <2>1. req[r] \in Call /\ req[r].row \in TxId
    BY <1>1 DEF SaveRow, Moves, Basic, TypeOK, Lifecycle, TxId
  <2> DEFINE new == [op |-> req[r].op, of |-> req[r].of,
                     status |-> "processing", anet |-> None]
  <2>2. new \in Row /\ new.anet = None
    BY <2>1 DEF Call, Row
  <2>3. table[req[r].row] = None /\ table' = [table EXCEPT ![req[r].row] = new]
    BY <1>1 DEF SaveRow
  <2> HIDE DEF new
  <2>. QED  BY <2>1, <2>2, <2>3, RowsKept
<1>2. ASSUME NEW r \in Request, UpdateRow(r) PROVE KeepsRows
  <2>1. /\ req[r].row \in CorrId \union {r} /\ req[r].row \in TxId
        /\ result[r] \in {"approved", "declined", "error"}
        /\ result[r] = "approved" => gateway[r] = "approved"
        /\ result[r] = "declined" => gateway[r] \in {"declined", "held"}
    BY <1>2 DEF UpdateRow, Moves, Basic, TypeOK, Lifecycle, TxId
  <2>2. CASE table[req[r].row] = None
    <3>1. table' = table
      BY <1>2, <2>1, <2>2 DEF UpdateRow, Updated, Basic, TypeOK
    <3>. QED  BY <3>1 DEF KeepsRows
  <2>3. CASE table[req[r].row] # None
    <3> DEFINE t == req[r].row
               old == table[t]
               new == Settle(old, r)
    <3>1. old \in Row
      BY <2>1, <2>3 DEF Basic, TypeOK
    <3>2. /\ new \in Row
          /\ new.status = IF result[r] = "approved" THEN "completed" ELSE "failed"
          /\ new.anet = IF result[r] = "error" THEN old.anet ELSE r
      BY <3>1, SettleType
    <3>3. new.op = old.op /\ new.of = old.of
      BY <3>1 DEF Settle, Row
    <3>4. t \in Request => old.status = "processing" /\ old.anet = None
      BY <1>2, <2>1, <2>3, NoneAssumption DEF RowsOwned, UpdateRow, Moves
    <3>5. table' = [table EXCEPT ![t] = new]
      BY <1>2, <2>3 DEF UpdateRow, Updated
    <3>6. t \in TxId /\ old # None
      BY <2>1, <2>3
    <3> HIDE DEF new
    <3>7. \/ new.anet = old.anet /\ new.status = "failed"
          \/ new.status = "completed" /\ new.anet = r /\ gateway[r] = "approved"
          \/ /\ new.status = "failed" /\ new.anet = r
             /\ gateway[r] \in {"declined", "held"}
      BY <2>1, <3>2
    <3>. QED  BY <3>2, <3>3, <3>4, <3>5, <3>6, <3>7, RowsKept
  <2>. QED  BY <2>2, <2>3
<1>3. CASE UNCHANGED table
  BY <1>3 DEF KeepsRows
<1>. QED
  BY <1>1, <1>2, <1>3
  DEF Next, Arrive, Handle, RejectKey, Replay, RejectInput, Admit, Arrives,
      SaveFails, Send, Retry, GiveUp, Callback, CallbackEmpty, UpdateFails,
      Respond, GatewayHandles, Unreached, Age, Cleanup, Crash, vars

(* RowsOwned is kept by the API whatever notifications have done.          *)
LEMMA OwnedKept ==
  ASSUME RowsOwned, UNCHANGED table,
         \A r \in Request :
           /\ pc'[r] \in {"idle", "saving"} => pc[r] \in {"idle", "saving"}
           /\ pc'[r] \in {"operating", "sent", "updating"} =>
                pc[r] \in {"idle", "saving", "operating", "sent", "updating"}
  PROVE  RowsOwned'
BY DEF RowsOwned

LEMMA OwnedStep == Basic /\ RowsOwned /\ [Next]_vars => RowsOwned'
<1> SUFFICES ASSUME Basic, RowsOwned, [Next]_vars PROVE RowsOwned'
  OBVIOUS
<1>1. ASSUME NEW r \in Request, SaveRow(r) PROVE RowsOwned'
  <2>1. req[r].row \in CorrId \union {r}
    BY <1>1 DEF SaveRow, Moves, Basic, Lifecycle
  <2> DEFINE new == [op |-> req[r].op, of |-> req[r].of,
                     status |-> "processing", anet |-> None]
  <2>2. table' = [table EXCEPT ![req[r].row] = new]
    BY <1>1 DEF SaveRow
  <2>3. new.status = "processing" /\ new.anet = None
    OBVIOUS
  <2> HIDE DEF new
  <2>. QED
    BY <1>1, <2>1, <2>2, <2>3, NoneAssumption
    DEF Basic, TypeOK, TxId, RowsOwned, SaveRow, Moves
<1>2. ASSUME NEW r \in Request, UpdateRow(r) PROVE RowsOwned'
  <2>1. req[r].row \in CorrId \union {r}
    BY <1>2 DEF UpdateRow, Moves, Basic, Lifecycle
  <2> DEFINE old == table[req[r].row]
             new == IF old = None THEN None ELSE Settle(old, r)
  <2>2. table' = [table EXCEPT ![req[r].row] = new]
    BY <1>2 DEF UpdateRow, Updated
  <2> HIDE DEF new, old
  <2>. QED
    BY <1>2, <2>1, <2>2, NoneAssumption
    DEF Basic, TypeOK, TxId, RowsOwned, UpdateRow, Moves
<1>3. ASSUME NEW r \in Request, NEW c \in Calls(r),
             RejectKey(r, c) \/ Replay(r, c) \/ RejectInput(r, c) \/ Admit(r, c)
      PROVE  RowsOwned'
  BY <1>3, OwnedKept
     DEF RejectKey, Replay, RejectInput, Admit, Arrives, Reply, Basic, TypeOK
<1>4. ASSUME NEW r \in Request,
             \/ SaveFails(r) \/ Send(r) \/ Retry(r) \/ GiveUp(r)
             \/ Callback(r) \/ CallbackEmpty(r) \/ UpdateFails(r) \/ Respond(r)
      PROVE  RowsOwned'
  BY <1>4, OwnedKept
     DEF SaveFails, Send, Retry, GiveUp, Callback, CallbackEmpty, UpdateFails,
         Respond, Moves, Reply, Basic, TypeOK
<1>5. CASE Crash
  BY <1>5, OwnedKept DEF Crash, Live, Basic, TypeOK
<1>6. CASE UNCHANGED <<pc, table>>
  BY <1>6, OwnedKept
<1>. QED
  BY <1>1, <1>2, <1>3, <1>4, <1>5, <1>6
  DEF Next, Arrive, Handle, GatewayHandles, Unreached, Age, Cleanup, vars,
      process

-----------------------------------------------------------------------------
(* The invariant of the two writers.                                       *)

(* Every named transaction is decided, and every reference was approved.   *)
NamedDecided ==
  \A t \in TxId : table[t] # None /\ table[t].anet # None =>
    gateway[table[t].anet] \in Decisions

RefsCharged ==
  \A r \in Request : req[r] # None =>
    /\ req[r].of \in Request => Charged(req[r].of)
    /\ req[r].op \in {"capture", "cancel"} => req[r].of # None

(* A notification is of a transaction approved or held, and the row it     *)
(* found, if it has a server-made id, still names what it is about.        *)
NotesAimed ==
  /\ target \in [Request -> TxId \union {None}]
  /\ \A r \in Request :
       /\ notify[r] # "waiting" => Notified(r)
       /\ notify[r] \in {"updating", "applied"} /\ target[r] \in Request =>
            /\ table[target[r]] # None /\ table[target[r]].anet # None
            /\ AnetId(target[r]) = About(r)

ApiInv == Basic /\ RowsOwned /\ NamedDecided /\ RefsCharged

SInv == ApiInv /\ NotesOK /\ NotesAimed /\ LedgerSettles

LEMMA InitSettlement == SettlementInit => SInv
<1> SUFFICES ASSUME SettlementInit PROVE SInv
  OBVIOUS
<1>1. Basic /\ RowsOwned
  BY InitBasic, InitLedger DEF SettlementInit, Ledger
<1>2. NamedDecided /\ RefsCharged
  BY DEF SettlementInit, Init, NamedDecided, RefsCharged
<1>3. NotesOK /\ NotesAimed
  BY DEF SettlementInit, NotesOK, NotesAimed
<1>4. LedgerSettles
  BY DEF SettlementInit, Init, LedgerSettles, RowsMatchGateway, VoidLands, TxId
<1>. QED  BY <1>1, <1>2, <1>3, <1>4 DEF SInv, ApiInv

(* What a decided transaction is called never changes.                     *)
Stable ==
  /\ \A r \in Request : Notified(r) =>
       /\ gateway'[r] = gateway[r] /\ req'[r] = req[r] /\ req[r] # None
       /\ About(r)' = About(r) /\ EventOf(r)' = EventOf(r)
  /\ \A t \in Request : table[t] # None /\ table[t].anet # None =>
       AnetId(t)' = AnetId(t)

LEMMA ApiStep ==
  ASSUME SInv, [Next]_vars, UNCHANGED notes
  PROVE  SInv' /\ Stable
<1> USE DEF SInv, ApiInv
<1>1. KeepsDecisions /\ KeepsCalls /\ KeepsRows
  BY DecisionsStep, CallsStep, RowsStep
<1>2. Basic' /\ RowsOwned'
  BY BasicStep, OwnedStep
<1>3. /\ Request \subseteq TxId
      /\ \A t \in TxId : table[t] # None => table[t].anet \in Request \union {None}
      /\ \A t \in TxId : table'[t] # None => table'[t].anet \in Request \union {None}
  BY <1>2 DEF TxId, Basic, TypeOK, Row
<1>4. NamedDecided'
  BY <1>1, <1>3 DEF NamedDecided, KeepsRows, KeepsDecisions
<1>5. RefsCharged'
  BY <1>1 DEF RefsCharged, KeepsCalls, KeepsDecisions, Decisions, Charged
<1>6. \A r \in Request : Notified(r) =>
        /\ gateway'[r] = gateway[r] /\ req'[r] = req[r] /\ req[r] # None
        /\ About(r)' = About(r) /\ EventOf(r)' = EventOf(r)
  BY <1>1 DEF KeepsDecisions, Decisions, KeepsCalls, Charged, About, EventOf,
              Notified, Basic, Lifecycle
<1>7. \A t \in Request : table[t] # None /\ table[t].anet # None =>
        table'[t] = table[t] /\ AnetId(t)' = AnetId(t)
  <2> SUFFICES ASSUME NEW t \in Request, table[t] # None, table[t].anet # None
               PROVE  table'[t] = table[t] /\ AnetId(t)' = AnetId(t)
    OBVIOUS
  <2>1. table'[t] = table[t]
    BY <1>1 DEF KeepsRows
  <2>2. gateway'[table[t].anet] = gateway[table[t].anet]
    BY <1>1, <1>3 DEF KeepsDecisions, NamedDecided
  <2>. QED  BY <2>1, <2>2 DEF AnetId, Charged
<1>8. Stable
  BY <1>6, <1>7 DEF Stable
<1>9. UNCHANGED <<notify, target, again>>
  BY DEF notes
<1>10. NotesOK'
  BY <1>1, <1>9 DEF NotesOK, KeepsRows
<1>11. NotesAimed'
  BY <1>6, <1>7, <1>9 DEF NotesAimed, Notified
<1>12. RowsMatchGateway'
  <2> DEFINE Settled(q) == notify[q] = "applied" \/ q \in again
  <2> SUFFICES ASSUME NEW t \in Request, table'[t] # None, table'[t].anet # None
               PROVE  /\ table'[t].status = "completed" =>
                           \/ gateway'[table'[t].anet] = "approved"
                           \/ /\ gateway'[table'[t].anet] = "held"
                              /\ Settled(table'[t].anet)
                      /\ table'[t].status = "failed" =>
                           \/ gateway'[table'[t].anet] \in {"declined", "held"}
                           \/ Voided(AnetId(t))'
    BY <1>9 DEF RowsMatchGateway, Charged
  <2>1. table'[t].anet \in Request
    BY <1>3
  <2>2. ASSUME table'[t] # table[t]
        PROVE  /\ table'[t].status = "completed" =>
                    gateway'[table'[t].anet] = "approved"
               /\ table'[t].status = "failed" =>
                    gateway'[table'[t].anet] \in {"declined", "held"}
    BY <1>1, <2>1, <2>2 DEF KeepsRows, KeepsDecisions, Decisions
  <2>3. ASSUME table'[t] = table[t], table[t].status = "completed"
        PROVE  \/ gateway'[table'[t].anet] = "approved"
               \/ /\ gateway'[table'[t].anet] = "held"
                  /\ Settled(table'[t].anet)
    <3>1. \/ gateway[table[t].anet] = "approved"
          \/ gateway[table[t].anet] = "held" /\ Settled(table[t].anet)
      BY <2>3 DEF LedgerSettles, RowsMatchGateway, Charged
    <3>. QED  BY <1>1, <2>1, <2>3, <3>1 DEF KeepsDecisions, Decisions
  <2>4. ASSUME table'[t] = table[t], gateway[table[t].anet] \in {"declined", "held"}
        PROVE  gateway'[table'[t].anet] \in {"declined", "held"}
    BY <1>1, <2>1, <2>4 DEF KeepsDecisions, Decisions
  <2>5. ASSUME table'[t] = table[t], Voided(AnetId(t))
        PROVE  Voided(AnetId(t))'
    <3>1. AnetId(t)' = AnetId(t)
      BY <1>7, <2>5
    <3>2. PICK q \in Request :
            Charged(q) /\ req[q].op = "cancel" /\ About(q) = AnetId(t)
      BY <2>5 DEF Voided
    <3>. QED  BY <1>6, <3>1, <3>2 DEF Voided, Charged, Notified
  <2>6. table'[t] = table[t] /\ table[t].status = "failed" =>
          gateway[table[t].anet] \in {"declined", "held"} \/ Voided(AnetId(t))
    BY DEF LedgerSettles, RowsMatchGateway
  <2> HIDE DEF Settled
  <2>. QED  BY <2>2, <2>3, <2>4, <2>5, <2>6
<1>13. VoidLands'
  <2> SUFFICES ASSUME NEW r \in Request,
                      notify[r] = "applied", EventOf(r)' = "cancel",
                      target[r] \in Request,
                      \A q \in Request \ {r} :
                        Notified(q)' /\ About(q)' = About(r)' =>
                          q \notin again /\ notify[q] \in {"waiting", "missed"}
               PROVE  table'[target[r]].status = "failed"
    BY <1>9 DEF VoidLands
  <2>1. /\ Notified(r) /\ table[target[r]] # None
        /\ table[target[r]].anet # None
    BY DEF NotesAimed
  <2>2. EventOf(r) = "cancel" /\ About(r)' = About(r)
    BY <1>6, <2>1
  <2>3. \A q \in Request \ {r} :
          Notified(q) /\ About(q) = About(r) =>
            q \notin again /\ notify[q] \in {"waiting", "missed"}
    BY <1>6, <2>2 DEF Notified
  <2>4. table[target[r]].status = "failed"
    BY <2>2, <2>3 DEF LedgerSettles, VoidLands
  <2>. QED  BY <1>7, <2>1, <2>4
<1>. QED
  BY <1>2, <1>4, <1>5, <1>8, <1>10, <1>11, <1>12, <1>13 DEF LedgerSettles

-----------------------------------------------------------------------------
(* The steps of the webhook processor.                                     *)

(* Nothing a notification says changes while the API stands still.         *)
LEMMA Still ==
  ASSUME SInv, UNCHANGED vars,
         \A q \in Request : notify[q] = "applied" \/ q \in again =>
                             notify'[q] = "applied" \/ q \in again'
  PROVE  /\ ApiInv' /\ RowsMatchGateway'
         /\ UNCHANGED <<table, gateway, req>>
         /\ \A r \in Request : /\ Notified(r)' = Notified(r) /\ About(r)' = About(r)
                                /\ EventOf(r)' = EventOf(r)
         /\ \A t \in TxId : AnetId(t)' = AnetId(t)
<1>1. Basic' /\ RowsOwned'
  BY BasicStep, OwnedStep DEF SInv, ApiInv
<1>2. UNCHANGED <<table, gateway, req>>
  BY DEF vars, process
<1>3. NamedDecided' /\ RefsCharged'
  BY <1>2 DEF SInv, ApiInv, NamedDecided, RefsCharged, Charged
<1>4. /\ \A r \in Request :
           /\ Charged(r)' = Charged(r) /\ Notified(r)' = Notified(r)
           /\ About(r)' = About(r) /\ EventOf(r)' = EventOf(r)
      /\ \A t \in TxId : AnetId(t)' = AnetId(t)
  BY <1>2 DEF Charged, Notified, About, EventOf, AnetId
<1>5. ASSUME NEW t \in Request, table[t] # None, table[t].anet # None
      PROVE  table[t].anet \in Request /\ AnetId(t)' = AnetId(t)
  BY <1>4, <1>5 DEF SInv, ApiInv, Basic, TypeOK, TxId, Row
<1>6. RowsMatchGateway'
  <2> SUFFICES ASSUME NEW t \in Request, table[t] # None, table[t].anet # None
               PROVE  /\ table[t].status = "completed" =>
                           \/ gateway[table[t].anet] = "approved"
                           \/ /\ gateway[table[t].anet] = "held"
                              /\ \/ notify'[table[t].anet] = "applied"
                                 \/ table[t].anet \in again'
                      /\ table[t].status = "failed" =>
                           \/ gateway[table[t].anet] \in {"declined", "held"}
                           \/ Voided(AnetId(t))'
    BY <1>2 DEF RowsMatchGateway, Charged
  <2>1. Voided(AnetId(t))' <=> Voided(AnetId(t))
    BY <1>2, <1>4, <1>5 DEF Voided
  <2>. QED  BY <1>5, <2>1 DEF SInv, LedgerSettles, RowsMatchGateway, Charged
<1>. QED  BY <1>1, <1>2, <1>3, <1>4, <1>6 DEF ApiInv

LEMMA FindStep ==
  ASSUME SInv, NEW r \in Request, FindRow(r)
  PROVE  SInv'
<1> USE DEF SInv
<1>1. /\ ApiInv' /\ RowsMatchGateway'
      /\ UNCHANGED <<table, gateway, req, again>>
      /\ \A q \in Request : /\ Notified(q)' = Notified(q) /\ About(q)' = About(q)
                             /\ EventOf(q)' = EventOf(q)
      /\ \A t \in TxId : AnetId(t)' = AnetId(t)
  <2>1. UNCHANGED <<vars, again>> /\ notify[r] = "waiting"
    BY DEF FindRow
  <2>2. \A q \in Request \ {r} : notify'[q] = notify[q]
    BY DEF FindRow, NotesOK
  <2>3. \A q \in Request : notify[q] = "applied" \/ q \in again =>
                            notify'[q] = "applied" \/ q \in again'
    BY <2>1, <2>2
  <2>4. UNCHANGED vars
    BY <2>1
  <2>. QED  BY <2>1, <2>3, <2>4, Still
<1>2. notify[r] = "waiting" /\ Notified(r)
  BY DEF FindRow
<1>3. \/ /\ notify' = [notify EXCEPT ![r] = "missed"] /\ target' = target
      \/ /\ notify' = [notify EXCEPT ![r] = "updating"]
         /\ \E t \in TxId : /\ table[t] # None /\ AnetId(t) = About(r)
                            /\ target' = [target EXCEPT ![r] = t]
  BY DEF FindRow, Matching
<1>4. About(r) # None
  <2>1. req[r] # None
    BY <1>2 DEF ApiInv, Basic, Lifecycle, Notified
  <2>. QED
    BY <2>1, SameIdAssumption, NoneAssumption DEF ApiInv, RefsCharged, About
<1>5. \A t \in TxId : AnetId(t) = About(r) => table[t].anet # None
  BY <1>4 DEF AnetId
<1>6. /\ notify'[r] \in {"missed", "updating"}
      /\ \A q \in Request \ {r} : notify'[q] = notify[q] /\ target'[q] = target[q]
      /\ notify' \in [Request -> {"waiting", "updating", "applied", "missed"}]
      /\ target' \in [Request -> TxId \union {None}]
  BY <1>3 DEF NotesOK, NotesAimed
<1>7. notify'[r] = "updating" =>
        /\ target'[r] \in TxId /\ table[target'[r]] # None
        /\ table[target'[r]].anet # None /\ AnetId(target'[r]) = About(r)
  BY <1>3, <1>5 DEF NotesOK, NotesAimed
<1>8. NotesOK'
  BY <1>1, <1>6, <1>7 DEF NotesOK
<1>9. NotesAimed'
  <2>1. ASSUME NEW q \in Request
        PROVE  /\ notify'[q] # "waiting" => Notified(q)
               /\ notify'[q] \in {"updating", "applied"}
                    /\ target'[q] \in Request =>
                    /\ table[target'[q]] # None /\ table[target'[q]].anet # None
                    /\ AnetId(target'[q]) = About(q)
    <3>1. CASE q = r
      BY <1>2, <1>6, <1>7, <3>1
    <3>2. CASE q # r
      BY <1>6, <3>2 DEF NotesAimed
    <3>. QED  BY <3>1, <3>2
  <2>2. Request \subseteq TxId
    BY DEF TxId
  <2>. QED  BY <1>1, <1>6, <2>1, <2>2 DEF NotesAimed
<1>10. VoidLands'
  <2> SUFFICES ASSUME NEW q \in Request,
                      notify'[q] = "applied", EventOf(q) = "cancel",
                      target'[q] \in Request,
                      \A p \in Request \ {q} :
                        Notified(p) /\ About(p) = About(q) =>
                          p \notin again /\ notify'[p] \in {"waiting", "missed"}
               PROVE  table[target'[q]].status = "failed"
    BY <1>1 DEF VoidLands
  <2>1. q # r /\ notify[q] = "applied" /\ target'[q] = target[q]
    BY <1>6
  <2>2. \A p \in Request \ {q} :
          Notified(p) /\ About(p) = About(q) =>
            p \notin again /\ notify[p] \in {"waiting", "missed"}
    BY <1>2, <1>6
  <2>. QED  BY <2>1, <2>2 DEF LedgerSettles, VoidLands
<1>. QED  BY <1>1, <1>8, <1>9, <1>10 DEF LedgerSettles

LEMMA RerunStep ==
  ASSUME SInv, NEW r \in Request, RunAgain(r)
  PROVE  SInv'
<1> USE DEF SInv
<1>1. /\ ApiInv' /\ RowsMatchGateway'
      /\ UNCHANGED <<table, gateway, req>>
      /\ \A q \in Request : /\ Notified(q)' = Notified(q) /\ About(q)' = About(q)
                             /\ EventOf(q)' = EventOf(q)
      /\ \A t \in TxId : AnetId(t)' = AnetId(t)
  <2>1. UNCHANGED vars
    BY DEF RunAgain
  <2>2. \A q \in Request : notify[q] = "applied" \/ q \in again =>
                            notify'[q] = "applied" \/ q \in again'
    BY DEF RunAgain, NotesOK
  <2>. QED  BY <2>1, <2>2, Still
<1>2. /\ notify' = [notify EXCEPT ![r] = "waiting"]
      /\ target' = [target EXCEPT ![r] = None]
      /\ again' = again \union {r}
  BY DEF RunAgain
<1>3. NotesOK'
  BY <1>1, <1>2 DEF NotesOK
<1>4. NotesAimed'
  <2>1. /\ target' \in [Request -> TxId \union {None}]
        /\ notify'[r] = "waiting"
        /\ \A q \in Request \ {r} : notify'[q] = notify[q] /\ target'[q] = target[q]
    BY <1>2 DEF NotesOK, NotesAimed
  <2>2. Request \subseteq TxId
    BY DEF TxId
  <2>. QED  BY <1>1, <2>1, <2>2 DEF NotesAimed
<1>5. VoidLands'
  <2> SUFFICES ASSUME NEW q \in Request,
                      notify'[q] = "applied", EventOf(q) = "cancel",
                      target'[q] \in Request,
                      \A p \in Request \ {q} :
                        Notified(p) /\ About(p) = About(q) =>
                          p \notin again' /\ notify'[p] \in {"waiting", "missed"}
               PROVE  table[target'[q]].status = "failed"
    BY <1>1 DEF VoidLands
  <2>1. q # r /\ notify[q] = "applied" /\ target'[q] = target[q]
    BY <1>2 DEF NotesOK, NotesAimed
  <2>2. \A p \in Request \ {q} :
          Notified(p) /\ About(p) = About(q) =>
            p \notin again /\ notify[p] \in {"waiting", "missed"}
    BY <1>2 DEF NotesOK
  <2>. QED  BY <2>1, <2>2 DEF LedgerSettles, VoidLands
<1>. QED  BY <1>1, <1>3, <1>4, <1>5 DEF LedgerSettles

(* What the update of a notification does to the table.                    *)
LEMMA ApplyRow ==
  ASSUME SInv, NEW r \in Request, ApplyNotice(r)
  PROVE  /\ target[r] \in TxId /\ table[target[r]] # None
         /\ table[target[r]].anet # None
         /\ table' \in [TxId -> Row \union {None}]
         /\ table'[target[r]] =
              [table[target[r]] EXCEPT !.status = Verdict(EventOf(r))]
         /\ table'[target[r]].status = Verdict(EventOf(r))
         /\ \A t \in TxId \ {target[r]} : table'[t] = table[t]
         /\ \A t \in TxId :
              /\ table'[t] = None <=> table[t] = None
              /\ table[t] # None =>
                   /\ table'[t].op = table[t].op /\ table'[t].of = table[t].of
                   /\ table'[t].anet = table[t].anet
<1> DEFINE u == target[r]
           new == [table[u] EXCEPT !.status = Verdict(EventOf(r))]
<1>1. u \in TxId /\ table[u] # None /\ table[u].anet # None
  BY DEF SInv, NotesOK, ApplyNotice
<1>2. table \in [TxId -> Row \union {None}]
  BY DEF SInv, ApiInv, Basic, TypeOK
<1>3. Verdict(EventOf(r)) \in {"completed", "failed"}
  BY DEF Verdict
<1>4. /\ new \in Row /\ new.status = Verdict(EventOf(r))
      /\ new.op = table[u].op /\ new.of = table[u].of /\ new.anet = table[u].anet
  BY <1>1, <1>2, <1>3 DEF Row
<1>5. table' = [table EXCEPT ![u] = new]
  BY DEF ApplyNotice
<1>6. new # None
  BY <1>4, NoneAssumption
<1> HIDE DEF new
<1>7. table'[u] = new /\ \A t \in TxId \ {u} : table'[t] = table[t]
  BY <1>1, <1>2, <1>5
<1>8. table' \in [TxId -> Row \union {None}]
  BY <1>1, <1>2, <1>4, <1>5
<1>9. \A t \in TxId :
        /\ table'[t] = None <=> table[t] = None
        /\ table[t] # None =>
             /\ table'[t].op = table[t].op /\ table'[t].of = table[t].of
             /\ table'[t].anet = table[t].anet
  BY <1>1, <1>4, <1>6, <1>7
<1>. QED  BY <1>1, <1>4, <1>7, <1>8, <1>9 DEF new

LEMMA ApplyStep ==
  ASSUME SInv, NEW r \in Request, ApplyNotice(r)
  PROVE  SInv'
<1> USE DEF SInv, ApiInv
<1> DEFINE u == target[r]
<1>1. /\ u \in TxId /\ table[u] # None /\ table[u].anet # None
      /\ table' \in [TxId -> Row \union {None}]
      /\ table'[u].status = Verdict(EventOf(r))
      /\ \A t \in TxId \ {u} : table'[t] = table[t]
      /\ \A t \in TxId :
           /\ table'[t] = None <=> table[t] = None
           /\ table[t] # None =>
                /\ table'[t].op = table[t].op /\ table'[t].of = table[t].of
                /\ table'[t].anet = table[t].anet
  BY ApplyRow
<1> HIDE DEF u
<1>2. /\ UNCHANGED <<process, store, aged, gateway, history, target, again>>
      /\ UNCHANGED <<pc, req, attempt, result, answer, sends, excused>>
      /\ notify[r] = "updating"
      /\ notify' = [notify EXCEPT ![r] = "applied"]
  BY DEF ApplyNotice, process, history
<1>3. /\ notify'[r] = "applied"
      /\ \A q \in Request \ {r} : notify'[q] = notify[q]
      /\ notify' \in [Request -> {"waiting", "updating", "applied", "missed"}]
      /\ Notified(r)
  BY <1>2 DEF NotesOK, NotesAimed
<1>4. Request \subseteq TxId
  BY DEF TxId
<1>5. \A t \in TxId : table[t] # None => AnetId(t)' = AnetId(t)
  BY <1>1, <1>2 DEF AnetId, Charged
<1>6. \A t \in Request : table[t] # None /\ table[t].anet # None =>
        table[t].anet \in Request
  BY <1>4 DEF Basic, TypeOK, Row
<1>7. u \in Request => AnetId(u) = About(r)
  BY <1>2 DEF NotesAimed, u
<1>8. Basic'
  BY <1>1, <1>2 DEF Basic, TypeOK, Lifecycle
<1>9. RowsOwned'
  BY <1>1, <1>2, <1>4 DEF RowsOwned
<1>10. NamedDecided' /\ RefsCharged'
  BY <1>1, <1>2 DEF NamedDecided, RefsCharged, Charged
<1>11. NotesOK'
  BY <1>1, <1>2, <1>3 DEF NotesOK
<1>12. NotesAimed'
  <2>1. target' = target /\ target \in [Request -> TxId \union {None}]
    BY <1>2 DEF NotesAimed
  <2>2. ASSUME NEW q \in Request, notify'[q] \in {"updating", "applied"},
               target[q] \in Request
        PROVE  /\ table'[target[q]] # None /\ table'[target[q]].anet # None
               /\ AnetId(target[q]) = About(q) /\ table[target[q]] # None
    <3>1. /\ table[target[q]] # None /\ table[target[q]].anet # None
          /\ AnetId(target[q]) = About(q)
      BY <1>2, <1>3, <2>2 DEF NotesAimed
    <3>. QED  BY <1>1, <1>4, <2>2, <3>1
  <2>3. \A q \in Request : notify'[q] # "waiting" => Notified(q)'
    BY <1>2, <1>3 DEF NotesAimed, Notified
  <2>4. \A q \in Request :
          notify'[q] \in {"updating", "applied"} /\ target[q] \in Request =>
            /\ table'[target[q]] # None /\ table'[target[q]].anet # None
            /\ (AnetId(target[q]) = About(q))'
    <3> SUFFICES ASSUME NEW q \in Request, target[q] \in Request,
                        notify'[q] \in {"updating", "applied"}
                 PROVE  /\ table'[target[q]] # None /\ table'[target[q]].anet # None
                        /\ (AnetId(target[q]) = About(q))'
      OBVIOUS
    <3>1. /\ table'[target[q]] # None /\ table'[target[q]].anet # None
          /\ AnetId(target[q]) = About(q) /\ table[target[q]] # None
      BY <2>2
    <3>. QED  BY <1>1, <1>2, <1>4, <2>1, <3>1 DEF AnetId, About, Charged
  <2>. QED  BY <2>1, <2>3, <2>4 DEF NotesAimed
<1>13. RowsMatchGateway'
  <2> DEFINE Held(q) == /\ gateway[q] = "held"
                        /\ notify[q] = "applied" \/ q \in again
             HeldNow(q) == /\ gateway[q] = "held"
                           /\ notify'[q] = "applied" \/ q \in again
  <2> SUFFICES ASSUME NEW t \in Request, table'[t] # None, table'[t].anet # None
               PROVE  /\ table'[t].status = "completed" =>
                           \/ gateway[table'[t].anet] = "approved"
                           \/ HeldNow(table'[t].anet)
                      /\ table'[t].status = "failed" =>
                           \/ gateway[table'[t].anet] \in {"declined", "held"}
                           \/ Voided(AnetId(t))'
    BY <1>2 DEF RowsMatchGateway, Charged
  <2>1. Voided(AnetId(t)) => Voided(AnetId(t))'
    <3>1. AnetId(t)' = AnetId(t)
      BY <1>1, <1>4, <1>5
    <3>2. \A q \in Request : Charged(q)' = Charged(q) /\ About(q)' = About(q)
      BY <1>2 DEF Charged, About
    <3>. QED  BY <1>2, <3>1, <3>2 DEF Voided
  <2>2. /\ table[t] # None /\ table[t].anet # None /\ table'[t].anet = table[t].anet
        /\ table[t].anet \in Request
    BY <1>1, <1>4, <1>6
  <2>3. CASE t # u
    <3>1. table'[t] = table[t]
      BY <1>1, <1>4, <2>3
    <3>2. table[t].status = "completed" =>
            gateway[table[t].anet] = "approved" \/ Held(table[t].anet)
      BY <2>2 DEF LedgerSettles, RowsMatchGateway, Charged
    <3>3. table[t].status = "failed" =>
            gateway[table[t].anet] \in {"declined", "held"} \/ Voided(AnetId(t))
      BY <2>2 DEF LedgerSettles, RowsMatchGateway
    <3>4. Held(table[t].anet) => HeldNow(table[t].anet)
      BY <1>3, <2>2
    <3> HIDE DEF Held, HeldNow
    <3>. QED  BY <2>1, <2>2, <3>1, <3>2, <3>3, <3>4
  <2>4. CASE t = u
    <3>1. AnetId(t) = About(r)
      BY <1>7, <2>4
    <3>2. EventOf(r) = "cancel" => Voided(AnetId(t))
      BY <1>3, <3>1 DEF Voided, EventOf, Notified, Charged
    <3>3. EventOf(r) # "cancel" =>
            gateway[table[t].anet] = "approved" \/ HeldNow(table[t].anet)
      <4>1. gateway[table[t].anet] # "approved" => About(r) = table[t].anet
        BY <3>1 DEF AnetId, Charged
      <4>2. CASE gateway[r] = "approved"
        <5>1. req[r] # None
          BY <4>2 DEF Basic, Lifecycle
        <5>2. req[r].of \in Request => gateway[req[r].of] = "approved"
          BY <5>1 DEF RefsCharged, Charged
        <5>. QED  BY <2>2, <4>1, <4>2, <5>2 DEF About
      <4>3. CASE gateway[r] = "held"
        <5>1. About(r) = r
          BY <4>3 DEF About, Charged
        <5>. QED  BY <1>3, <4>1, <4>3, <5>1
      <4>. QED  BY <1>3, <4>2, <4>3 DEF Notified
    <3>4. table'[t].status = IF EventOf(r) = "cancel" THEN "failed" ELSE "completed"
      BY <1>1, <2>4 DEF Verdict
    <3> HIDE DEF HeldNow
    <3>. QED  BY <2>1, <2>2, <3>2, <3>3, <3>4
  <2>. QED  BY <2>3, <2>4
<1>14. VoidLands'
  <2> SUFFICES ASSUME NEW q \in Request,
                      notify'[q] = "applied", EventOf(q) = "cancel",
                      target[q] \in Request,
                      \A p \in Request \ {q} :
                        Notified(p) /\ About(p) = About(q) =>
                          p \notin again /\ notify'[p] \in {"waiting", "missed"}
               PROVE  table'[target[q]].status = "failed"
    BY <1>2 DEF VoidLands, Notified, EventOf, About, Charged
  <2>1. CASE q = r
    BY <1>1, <2>1 DEF u, Verdict
  <2>2. CASE q # r
    <3>1. notify[q] = "applied" /\ AnetId(target[q]) = About(q)
      BY <1>3, <2>2 DEF NotesAimed
    <3>2. About(r) # About(q)
      BY <1>3, <2>2
    <3>3. target[q] # u
      BY <1>7, <3>1, <3>2
    <3>4. \A p \in Request \ {q} :
            Notified(p) /\ About(p) = About(q) =>
              p \notin again /\ notify[p] \in {"waiting", "missed"}
      BY <1>3, <3>2
    <3>5. table[target[q]].status = "failed"
      BY <3>1, <3>4 DEF LedgerSettles, VoidLands
    <3>. QED  BY <1>1, <1>4, <3>3, <3>5
  <2>. QED  BY <2>1, <2>2
<1>. QED
  BY <1>8, <1>9, <1>10, <1>11, <1>12, <1>13, <1>14 DEF LedgerSettles

-----------------------------------------------------------------------------
(* The theorems.                                                           *)

LEMMA SettlementStep == SInv /\ [SettlementNext]_allVars => SInv'
<1> SUFFICES ASSUME SInv, [SettlementNext]_allVars PROVE SInv'
  OBVIOUS
<1>1. CASE Next /\ UNCHANGED notes
  BY <1>1, ApiStep
<1>2. ASSUME NEW r \in Request, Notification(r) PROVE SInv'
  BY <1>2, FindStep, ApplyStep DEF Notification
<1>3. ASSUME NEW r \in Request, RunAgain(r) PROVE SInv'
  BY <1>3, RerunStep
<1>4. CASE UNCHANGED allVars
  BY <1>4, ApiStep DEF allVars
<1>. QED  BY <1>1, <1>2, <1>3, <1>4 DEF SettlementNext

(* With both writers at work every state satisfies the invariant.          *)
THEOREM SettlementInvariant == SettlementSpec => []SInv
BY InitSettlement, SettlementStep, PTL DEF SettlementSpec

(* A notification that is being applied is applied to a row that exists    *)
(* and that the gateway's answer has named, whatever the API did between   *)
(* the search and the update.                                              *)
THEOREM NotesCorrect == SettlementSpec => []NotesOK
<1>1. SInv => NotesOK
  BY DEF SInv
<1>. QED  BY SettlementInvariant, <1>1, PTL

(* In every order, with every rerun: no row with a server-made id claims a *)
(* completion that the gateway did not approve, unless a notification of   *)
(* its hold for review said so, none that names an approved transaction is *)
(* failed unless the transaction has been voided, and an applied void is   *)
(* not overwritten by anything but another notification about the same     *)
(* transaction.                                                            *)
THEOREM LedgerSettled == SettlementSpec => []LedgerSettles
<1>1. SInv => LedgerSettles
  BY DEF SInv
<1>. QED  BY SettlementInvariant, <1>1, PTL

(* Once settled, such a row changes by a notification about the            *)
(* transaction it names, and in its status alone.                          *)
THEOREM MovedByNotice == SettlementSpec => SettledMovesByNotice
<1> DEFINE ByNotice ==
      \A t \in Request :
        /\ table[t] # None /\ table[t].status # "processing"
        /\ table'[t] # table[t]
        => \E r \in Request :
             /\ Notified(r) /\ About(r) = AnetId(t)
             /\ table'[t] = [table[t] EXCEPT !.status = Verdict(EventOf(r))]
<1>1. ASSUME SInv, [SettlementNext]_allVars,
             NEW t \in Request, table[t] # None,
             table[t].status # "processing", table'[t] # table[t]
      PROVE  \E r \in Request :
               /\ Notified(r) /\ About(r) = AnetId(t)
               /\ table'[t] = [table[t] EXCEPT !.status = Verdict(EventOf(r))]
  <2>1. ASSUME [Next]_vars PROVE FALSE
    <3>1. KeepsRows
      BY <1>1, <2>1, RowsStep DEF SInv, ApiInv
    <3>. QED  BY <1>1, <3>1 DEF KeepsRows
  <2>2. PICK r \in Request : Notification(r) \/ RunAgain(r)
    BY <1>1, <2>1 DEF SettlementNext, allVars
  <2>3. ApplyNotice(r)
    BY <1>1, <2>1, <2>2 DEF Notification, FindRow, RunAgain
  <2>4. t = target[r]
    <3>1. \A v \in TxId \ {target[r]} : table'[v] = table[v]
      BY <1>1, <2>3, ApplyRow
    <3>. QED  BY <1>1, <3>1 DEF TxId
  <2>5. table'[t] = [table[t] EXCEPT !.status = Verdict(EventOf(r))]
    BY <1>1, <2>3, <2>4, ApplyRow
  <2>6. notify[r] = "updating"
    BY <2>3 DEF ApplyNotice
  <2>7. Notified(r) /\ About(r) = AnetId(t)
    BY <1>1, <2>4, <2>6 DEF SInv, NotesAimed
  <2>. QED  BY <2>5, <2>7
<1>2. SInv /\ [SettlementNext]_allVars => ByNotice
  BY <1>1
<1>3. SInv /\ [SettlementNext]_allVars => [ByNotice]_allVars
  BY <1>2
<1>. QED
  BY SettlementInvariant, <1>3, PTL DEF SettlementSpec, SettledMovesByNotice

-----------------------------------------------------------------------------
(* What the clients were promised.  The processor writes to the table      *)
(* alone, and no promise to a client is made on the strength of the table. *)

LEMMA CallInvStep ==
  SInv /\ CallInv /\ [SettlementNext]_allVars => CallInv'
<1> SUFFICES ASSUME SInv, CallInv, [SettlementNext]_allVars PROVE CallInv'
  OBVIOUS
<1>1. Basic'
  BY SettlementStep DEF SInv, ApiInv
<1>2. CASE [Next]_vars
  BY <1>1, <1>2, KeysStep, BackedStep DEF CallInv
<1>3. ASSUME NEW r \in Request, Notification(r) \/ RunAgain(r)
      PROVE  CallInv'
  <2>1. UNCHANGED <<process, store, gateway, history>>
    BY <1>3 DEF Notification, FindRow, ApplyNotice, RunAgain, vars
  <2>2. UNCHANGED <<pc, req, result, answer, store, gateway, excused>>
    BY <2>1 DEF process, history
  <2>. QED
    BY <1>1, <2>2
    DEF CallInv, KeysGuarded, Guarded, StoreBacked, HasKey, Live, Exposed, Success
<1>. QED  BY <1>2, <1>3 DEF SettlementNext, allVars

LEMMA CallInvAlways == SettlementSpec => []CallInv
<1>1. SettlementInit => CallInv
  BY InitBasic, InitKeys DEF SettlementInit, Init, CallInv, StoreBacked
<1>. QED
  BY SettlementInvariant, CallInvStep, <1>1, PTL DEF SettlementSpec

(* Notifications, reruns and voids that overwrite rows break none of the   *)
(* promises about keys, answers and refusals.                              *)
THEOREM PromisesSurvive == SettlementSpec => []ChargePromises
<1>1. CallInv => OneChargePerKey
  BY DEF CallInv, KeysGuarded, Guarded, OneChargePerKey, Charged, Exposed
<1>2. CallInv => OneAnswerPerKey
  BY DEF CallInv, KeysGuarded, Guarded, OneAnswerPerKey
<1>3. CallInv => RefusalMeansNoCharge
  BY DEF CallInv, KeysGuarded, Guarded, RefusalMeansNoCharge, Exposed
<1>4. ASSUME CallInv, NEW r \in Request PROVE sends[r] <= 1
  <2>1. sends[r] = 0 \/ sends[r] = 1
    BY <1>4 DEF CallInv, Basic, Lifecycle
  <2>. QED  BY <2>1
<1>5. CallInv => ChargePromises
  BY <1>1, <1>2, <1>3, <1>4 DEF ChargePromises, AtMostOneSend
<1>. QED  BY CallInvAlways, <1>5, PTL

(* The API beside the webhook processor still implements its contract:     *)
(* every step of the processor is invisible to the clients.                *)
THEOREM SettlementImplementsContract == SettlementSpec => ImplementsContract
<1>1. SettlementInit => Contract!Init
  BY DEF SettlementInit, Init, Contract!Init, ChargeOf, VerdictOf, CoverOf
<1>2. CallInv /\ [SettlementNext]_allVars => [Contract!Next]_(Contract!vars)
  <2> SUFFICES ASSUME CallInv, [SettlementNext]_allVars
               PROVE  [Contract!Next]_(Contract!vars)
    OBVIOUS
  <2>1. CASE [Next]_vars
    BY <2>1, ContractStep
  <2>2. ASSUME NEW r \in Request, Notification(r) \/ RunAgain(r)
        PROVE  UNCHANGED Contract!vars
    <3>1. UNCHANGED <<process, gateway>>
      BY <2>2 DEF Notification, FindRow, ApplyNotice, RunAgain, vars
    <3>2. UNCHANGED <<pc, answer, gateway>>
      BY <3>1 DEF process
    <3>. QED
      BY <3>2 DEF Contract!vars, ChargeOf, VerdictOf, CoverOf, Success
  <2>. QED  BY <2>1, <2>2 DEF SettlementNext, allVars
<1>. QED
  BY CallInvAlways, <1>1, <1>2, PTL
  DEF SettlementSpec, ImplementsContract, Contract!Spec

(* With both writers at work too an acceptance rests on an approved        *)
(* transaction, and no verdict is taken back: what ContractWorth says of   *)
(* every implementation of the contract.                                   *)
THEOREM AcceptancesSurvive ==
  SettlementSpec => []AllBacked /\ [][\A r \in Request : Final(r)]_(Contract!vars)
BY SettlementImplementsContract, ContractWorth, PTL

=============================================================================
