----------------------------- MODULE MCSessions -----------------------------
(* Instances of Sessions: two connections share a port, the third has its   *)
(* own.                                                                     *)
EXTENDS Sessions

CONSTANTS c1, c2, c3, p1, p2

MCPortOf == [c \in Conn |-> IF c = c3 THEN p2 ELSE p1]

=============================================================================
