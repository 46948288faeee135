----------------------------- MODULE MCBilling -----------------------------
(* Instances of Billing for TLC. *)
EXTENDS Billing, TLC

CONSTANTS s1, s2, r1, r2, c1, c2

Symmetry == Permutations(Runner) \cup Permutations(Client)
=============================================================================
