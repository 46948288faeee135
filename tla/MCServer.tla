------------------------------ MODULE MCServer ------------------------------
(* Instances of Server for TLC.                                            *)
EXTENDS Server

CONSTANTS d1, d2

(* Much traffic with little monitoring, the reverse, and some of both.     *)
LoadsOfBoth ==
  {[recorded |-> 0, reports |-> 1, hours |-> 0, requests |-> 3, signals |-> 2],
   [recorded |-> 1, reports |-> 1, hours |-> 1, requests |-> 1, signals |-> 1],
   [recorded |-> 3, reports |-> 1, hours |-> 1, requests |-> 0, signals |-> 0],
   [recorded |-> 1, reports |-> 2, hours |-> 1, requests |-> 0, signals |-> 0]}

Thresholds == [c \in Timed |-> 1]

=============================================================================
