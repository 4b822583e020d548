------------------------------ MODULE MCHarness -------------------------------
(* Instances of Harness for TLC. *)
EXTENDS Harness

CONSTANTS c1, c2, k1

\* The second update is of a chat of its own; the scheduled task is of the other.
TwoChats == [t \in Tasks |-> IF t = 2 THEN c2 ELSE c1]
=============================================================================
