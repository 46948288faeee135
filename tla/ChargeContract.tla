--------------------------- MODULE ChargeContract ---------------------------
(***************************************************************************)
(* What the payment API promises its clients, without saying how: a        *)
(* request leads to at most one transaction at the gateway, submitted      *)
(* before the client has its verdict, and a client is told "accepted" only *)
(* on the strength of an approved transaction: its own or, for a repeated  *)
(* request, one that was accepted as its own request's before.             *)
(***************************************************************************)
CONSTANTS Request, None

VARIABLES
  charge,   \* charge[r]: the gateway transaction of r
  verdict,  \* verdict[r]: what the client of r knows
  cover     \* cover[r]: the transaction an acceptance rests on

vars == <<charge, verdict, cover>>

Init ==
  /\ charge = [r \in Request |-> "none"]
  /\ verdict = [r \in Request |-> "open"]
  /\ cover = [r \in Request |-> None]

Submit(r) ==
  /\ charge[r] = "none" /\ verdict[r] = "open"
  /\ charge' = [charge EXCEPT ![r] = "pending"]
  /\ UNCHANGED <<verdict, cover>>

Decide(r) ==
  /\ charge[r] = "pending"
  /\ \E d \in {"approved", "void"} : charge' = [charge EXCEPT ![r] = d]
  /\ UNCHANGED <<verdict, cover>>

Accept(r, q) ==
  /\ verdict[r] = "open" /\ charge[q] = "approved"
  /\ q = r \/ (charge[r] = "none" /\ verdict[q] = "accepted" /\ cover[q] = q)
  /\ verdict' = [verdict EXCEPT ![r] = "accepted"]
  /\ cover' = [cover EXCEPT ![r] = q]
  /\ UNCHANGED charge

Refuse(r) ==
  /\ verdict[r] = "open"
  /\ verdict' = [verdict EXCEPT ![r] = "refused"]
  /\ UNCHANGED <<charge, cover>>

(* A crash leaves the clients of several requests without a verdict.       *)
Abandon(S) ==
  /\ \A r \in S : verdict[r] = "open"
  /\ verdict' = [r \in Request |-> IF r \in S THEN "unknown" ELSE verdict[r]]
  /\ UNCHANGED <<charge, cover>>

Next ==
  \/ \E r \in Request : Submit(r) \/ Decide(r) \/ Refuse(r)
  \/ \E r, q \in Request : Accept(r, q)
  \/ \E S \in SUBSET Request : Abandon(S)

Spec == Init /\ [][Next]_vars

=============================================================================
