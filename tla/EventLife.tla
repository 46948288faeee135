----------------------------- MODULE EventLife -----------------------------
(***************************************************************************)
(* What the webhook path promises for each notification, without saying    *)
(* how: of all deliveries with one event id a single one is accepted; it   *)
(* is queued once; what it is about is dealt with while it is queued; and  *)
(* it ends either processed, which nothing revokes and which never happens *)
(* before it was dealt with, or given up.  A sender is told "queued" only  *)
(* when it is, and "duplicate" only when another delivery was accepted.    *)
(***************************************************************************)
CONSTANTS Delivery, Event, None

VARIABLES
  event,    \* event[d]: the event id accepted with d
  stage,    \* stage[d]: how far d has come
  handled,  \* the deliveries whose notification was dealt with
  told      \* told[d]: what the sender of d knows

vars == <<event, stage, handled, told>>

Init ==
  /\ event = [d \in Delivery |-> None]
  /\ stage = [d \in Delivery |-> "new"]
  /\ handled = {}
  /\ told = [d \in Delivery |-> None]

Move(d, from, to) ==
  /\ stage[d] = from
  /\ stage' = [stage EXCEPT ![d] = to]

Accept(d, e) ==
  /\ Move(d, "new", "stored")
  /\ \A c \in Delivery : event[c] # e
  /\ event' = [event EXCEPT ![d] = e]
  /\ UNCHANGED <<handled, told>>

Queue(d) ==
  /\ Move(d, "stored", "queued")
  /\ told[d] = None
  /\ \/ UNCHANGED told
     \/ \E answer \in {"queued", "error"} : told' = [told EXCEPT ![d] = answer]
  /\ UNCHANGED <<event, handled>>

Handle(d) ==
  /\ stage[d] = "queued"
  /\ handled' = handled \union {d}
  /\ UNCHANGED <<event, stage, told>>

Finish(d) ==
  /\ Move(d, "queued", "processed")
  /\ d \in handled
  /\ UNCHANGED <<event, handled, told>>

GiveUp(d) ==
  /\ Move(d, "queued", "given up")
  /\ UNCHANGED <<event, handled, told>>

Refuse(d) ==
  /\ told[d] = None
  /\ \/ stage[d] = "new" /\ told' = [told EXCEPT ![d] = "rejected"]
     \/ stage[d] \in {"new", "stored"} /\ told' = [told EXCEPT ![d] = "error"]
     \/ /\ stage[d] = "new" /\ \E c \in Delivery : stage[c] # "new"
        /\ told' = [told EXCEPT ![d] = "duplicate"]
  /\ UNCHANGED <<event, stage, handled>>

Next ==
  \E d \in Delivery :
    \/ \E e \in Event : Accept(d, e)
    \/ Queue(d) \/ Handle(d) \/ Finish(d) \/ GiveUp(d) \/ Refuse(d)

Spec == Init /\ [][Next]_vars

=============================================================================
