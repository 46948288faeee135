----------------------------- MODULE MCWebhooks -----------------------------
(* Instances of Webhooks for TLC.                                          *)
EXTENDS Webhooks, TLC

CONSTANTS d1, d2, e1, t1, s1, g1, api, worker

TwoDeliveries == {d1, d2}
OneEvent == {e1}
OneTxn == {t1}
OneSub == {s1}
OneId == {g1}
ApiOnly == {api}
ApiAndWorker == {api, worker}

Notify(id, type, s) == [id |-> id, type |-> type, subject |-> s]

(* On one transaction: a void with an event id, and without one a          *)
(* notification of a type the code does not know.                          *)
PaymentNotices ==
  {Notify(e1, "payment.void.created", g1), Notify(None, "other", g1)}

(* A cancellation with an event id, and the creation without.              *)
SubNotices ==
  {Notify(e1, "customer.subscription.cancelled", g1),
   Notify(None, "customer.subscription.created", g1)}

OneNotice == {Notify(e1, "payment.authcapture.created", g1)}

(* Deliveries are interchangeable: no definition singles one out.          *)
Symmetry == Permutations(Delivery)

=============================================================================
