----------------------------- MODULE Settlement -----------------------------
(***************************************************************************)
(* The transactions table as its two writers share it: the API, which      *)
(* inserts a row before the gateway call and updates it after (Payments),  *)
(* and the webhook processor, which sets the status of the row it finds    *)
(* under the gateway id of a notification.                                 *)
(*                                                                         *)
(* The intake and the queue are in Webhooks.  What matters of them here is *)
(* what they leave open: when a notification is processed, in which order, *)
(* and that a job may run again.  A row is found by one statement and      *)
(* updated by the next.                                                    *)
(***************************************************************************)
EXTENDS Payments

CONSTANT
  SameId  \* operations whose answer carries the id of the transaction they
          \* refer to, where the others get a new one

ASSUME SameIdAssumption == SameId \subseteq {"capture", "cancel"}

VARIABLES
  notify,  \* notify[r]: how far the notification about r's transaction came
  target,  \* target[r]: the row it found
  again    \* the requests whose notification was run a second time

notes == <<notify, target, again>>
allVars == <<vars, notes>>

SettlementInit ==
  /\ Init
  /\ notify = [r \in Request |-> "waiting"]
  /\ target = [r \in Request |-> None]
  /\ again = {}

-----------------------------------------------------------------------------
(* The gateway notifies of what it approved and of what it holds for       *)
(* review; of what it declined it does not.                                *)
Notified(r) == gateway[r] \in {"approved", "held"}
EventOf(r) == IF gateway[r] = "held" THEN "held" ELSE req[r].op

(* The gateway id that the notification about r speaks of.                 *)
About(r) == IF req[r].op \in SameId /\ Charged(r) THEN req[r].of ELSE r

(* authorize_net_transaction_id of a row; many rows may have the same.     *)
AnetId(t) ==
  IF table[t].anet # None /\ table[t].op \in SameId /\ Charged(table[t].anet)
  THEN table[t].of ELSE table[t].anet

\* mutant of Verdict: the notification of a capture counts as a failure
VerdictCaptureFails(e) == IF e \in {"cancel", "capture"} THEN "failed" ELSE "completed"
\* mutant of Verdict: a void is a completed payment
VerdictPositive(e) == "completed"

(* mapAuthorizeNetEventType and the handlers: what the row is set to.  A   *)
(* type the map does not know is taken for a completed payment: that of a  *)
(* hold is one of these.                                                   *)
Verdict(e) == IF e = "cancel" THEN "failed" ELSE "completed"

\* mutants of Matching: the reference is searched as well as the id; every
\* unsettled row matches
MatchingReference(id) ==
  {t \in TxId : table[t] # None /\ id \in {AnetId(t), table[t].of}}
MatchingUnsettled(id) ==
  {t \in TxId : table[t] # None
                 /\ (AnetId(t) = id \/ table[t].status = "processing")}

Matching(id) == {t \in TxId : table[t] # None /\ AnetId(t) = id}

(* findOne by authorize_net_transaction_id, in no particular order.        *)
FindRow(r) ==
  /\ notify[r] = "waiting" /\ Notified(r)
  /\ IF Matching(About(r)) = {}
     THEN notify' = [notify EXCEPT ![r] = "missed"] /\ UNCHANGED target
     ELSE /\ notify' = [notify EXCEPT ![r] = "updating"]
          /\ \E t \in Matching(About(r)) : target' = [target EXCEPT ![r] = t]
  /\ UNCHANGED <<vars, again>>

(* UPDATE ... WHERE id, whatever became of the row since it was found.     *)
ApplyNotice(r) ==
  /\ notify[r] = "updating"
  /\ notify' = [notify EXCEPT ![r] = "applied"]
  /\ table' = [table EXCEPT ![target[r]].status = Verdict(EventOf(r))]
  /\ UNCHANGED <<process, store, aged, gateway, history, target, again>>

(* The job stalled or a statement of it failed, and it is run again.       *)
RunAgain(r) ==
  /\ notify[r] # "waiting" /\ r \notin again
  /\ notify' = [notify EXCEPT ![r] = "waiting"]
  /\ target' = [target EXCEPT ![r] = None]
  /\ again' = again \union {r}
  /\ UNCHANGED vars

-----------------------------------------------------------------------------
Notification(r) == FindRow(r) \/ ApplyNotice(r)

SettlementNext ==
  \/ Next /\ UNCHANGED notes
  \/ \E r \in Request : Notification(r) \/ RunAgain(r)

SettlementSpec == SettlementInit /\ [][SettlementNext]_allVars

(* As in Payments; besides, Bull hands every queued notification to a      *)
(* process.  Nothing makes a job run again.                                *)
SettlementFairness ==
  \A r \in Request :
    /\ WF_allVars(Handle(r) /\ UNCHANGED notes)
    /\ WF_allVars(GatewayHandles(r) /\ UNCHANGED notes)
    /\ WF_allVars(Notification(r))

SettlementFairSpec == SettlementSpec /\ SettlementFairness

-----------------------------------------------------------------------------
(* Properties.                                                             *)

(* Type correctness: a notification is being applied to a row that exists  *)
(* and that the gateway's answer has named.                                *)
NotesOK ==
  /\ notify \in [Request -> {"waiting", "updating", "applied", "missed"}]
  /\ again \subseteq Request
  /\ \A r \in Request :
       notify[r] = "updating" => /\ target[r] \in TxId
                                 /\ table[target[r]] # None
                                 /\ table[target[r]].anet # None

Voided(id) == \E q \in Request :
  Charged(q) /\ req[q].op = "cancel" /\ About(q) = id

(* With both writers at work, in any order and with reruns, a row with a   *)
(* server-made id never claims a completion the gateway does not know,     *)
(* except of a transaction held for review, once the notification of the   *)
(* hold was processed; and a failed row that names a transaction names one *)
(* that was declined or held or that has been voided.                      *)
RowsMatchGateway ==
  \A t \in Request : table[t] # None /\ table[t].anet # None =>
    LET q == table[t].anet
    IN  /\ table[t].status = "completed" =>
             Charged(q) \/ (gateway[q] = "held" /\ (notify[q] = "applied" \/ q \in again))
        /\ table[t].status = "failed" =>
             gateway[q] \in {"declined", "held"} \/ Voided(AnetId(t))

(* A void that was applied shows in its row as long as no other            *)
(* notification about the same gateway transaction was applied too.        *)
VoidLands ==
  \A r \in Request :
    /\ notify[r] = "applied" /\ EventOf(r) = "cancel" /\ target[r] \in Request
    /\ \A q \in Request \ {r} :
         Notified(q) /\ About(q) = About(r) =>
           q \notin again /\ notify[q] \in {"waiting", "missed"}
    => table[target[r]].status = "failed"

(* Both at any time: what the table says of a transaction after its        *)
(* notifications is what the gateway decided.                              *)
LedgerSettles == RowsMatchGateway /\ VoidLands

(* A settled row with a server-made id is changed only by a notification   *)
(* about the gateway transaction it names, which changes its status alone. *)
SettledMovesByNotice ==
  [][\A t \in Request :
       /\ table[t] # None /\ table[t].status # "processing"
       /\ table'[t] # table[t]
       => \E r \in Request :
            /\ Notified(r) /\ About(r) = AnetId(t)
            /\ table'[t] = [table[t] EXCEPT !.status = Verdict(EventOf(r))]]_allVars

(* A notification may come before the API has stored the gateway's id, and *)
(* is then only logged, or after; it may meet one of several rows.  None   *)
(* of that loses a charge: when the answer of the gateway arrived, the row *)
(* of the request in the end says completed, unless the transaction has    *)
(* been voided.                                                            *)
ChargesAreBooked ==
  \A r \in Request :
    Charged(r) /\ req[r].row = r ~>
      \/ result[r] = "error"
      \/ /\ table[r] # None /\ table[r].anet = r
         /\ table[r].status = "completed" \/ Voided(AnetId(r))

=============================================================================
