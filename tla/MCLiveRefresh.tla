---------------------------- MODULE MCLiveRefresh ----------------------------
(***************************************************************************)
(* Three pages on two nodes.                                               *)
(***************************************************************************)
EXTENDS LiveRefresh, TLC

CONSTANTS n1, n2, p1, p2, p3

TwoAndOne == [p \in {p1, p2, p3} |-> IF p = p3 THEN n2 ELSE n1]

=============================================================================
