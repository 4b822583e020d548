----------------------------- MODULE MCWarmPool ------------------------------
(* Instances of WarmPool for TLC: the calls for one chat. *)
EXTENDS WarmPool

CONSTANTS c1, d1, d2, d3

OneChat == [d \in Dispatches |-> c1]
=============================================================================
