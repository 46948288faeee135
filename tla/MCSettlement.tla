---------------------------- MODULE MCSettlement ----------------------------
(* Instances of Settlement for TLC.                                        *)
EXTENDS Settlement

CONSTANTS r1, r2, r3, c1

TwoRequests == {r1, r2}
ThreeRequests == {r1, r2, r3}
OneCorrId == {c1}

=============================================================================
