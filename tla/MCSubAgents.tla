---------------------------- MODULE MCSubAgents -----------------------------
(* SubAgents for TLC: a main agent spawns two, the first of which spawns one. *)
EXTENDS SubAgents

CONSTANTS a1, a2, a3

Nested == [a \in Agents |-> IF a = a3 THEN a1 ELSE Main]
=============================================================================
