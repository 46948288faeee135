------------------------------ MODULE MCAccess ------------------------------
(* Instances of Access for TLC.                                            *)
EXTENDS Access, TLC

CONSTANTS c1, c2, c3, c4, k1, k2, k3, k4, a1, x, y, z

TwoCallers == {c1, c2}
FourCallers == {c1, c2, c3, c4}
Symmetry == Permutations(Caller)

(* Two configured keys that share their id, one that is switched off, and  *)
(* one that may be added.                                                  *)
ThreeKeys == <<[hash |-> k1, id |-> "ops", active |-> TRUE],
               [hash |-> k2, id |-> "ops", active |-> TRUE],
               [hash |-> k4, id |-> "old", active |-> FALSE]>>
OneMore == {k3}
Hashes == {k1, k2, k3, k4}
AnyIp == [h \in Hashes |-> {}]
Expiry == [h \in Hashes |-> IF h = k2 THEN 2 ELSE 9]
Rights == [h \in Hashes |-> IF h = k1 THEN {} ELSE {"admin"}]

(* Either two callers with whatever they like, or four who all present the *)
(* same key.                                                               *)
Two == {f \in [Caller -> KeyRequest \union Join \union {Silent}] :
          Cardinality({c \in Caller : f[c] # Silent}) = 2}
Four == [Caller -> {r \in KeyRequest : r.hash = k1}]
TwoOrFour == Two \union {f \in Four : \A c, d \in Caller : f[c] = f[d]}

=============================================================================
