----------------------------- MODULE MCPayments -----------------------------
(* Instances of Payments for TLC.                                          *)
EXTENDS Payments, TLC

CONSTANTS r1, r2, r3, k1, c1

TwoRequests == {r1, r2}
ThreeRequests == {r1, r2, r3}
OneKey == {k1}
OneCorrId == {c1}

(* Requests are interchangeable: no definition singles one out.   *)
Symmetry == Permutations(Request)

=============================================================================
