--------------------------- MODULE MCDispatchQueue ---------------------------
(* Instances of DispatchQueue for TLC. *)
EXTENDS DispatchQueue

CONSTANTS c1, c2, t1, t2, t3, t4

\* Calls for one chat fill its worker's hand, its buffer and its send queue; a
\* second chat competes for the slot.
Crowd == [t \in Tasks |-> IF t = t4 THEN c2 ELSE c1]
=============================================================================
