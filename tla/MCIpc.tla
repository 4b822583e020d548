------------------------------- MODULE MCIpc -------------------------------
(* Ipc for TLC: one chat, a turn of its own and one of a sub-agent.        *)
EXTENDS Ipc, TLC

CONSTANTS k1, s1, t1, t2, x, q1, q2, b1, b2, w

MCSubs == <<"messages", "agents", "requests">>
MCChatOf == s1 :> k1
MCSpawnedBy == s1 :> x
MCRootOf == t1 :> k1 @@ t2 :> s1
\* t1 spawns the sub-agent, then makes two requests; t2 tries to reply twice and
\* then, had it the tool, would make a request (w).
MCTurnOf == [c \in Calls |-> IF c \in {b1, b2, w} THEN t2 ELSE t1]
MCSubOf == x :> "agents" @@ [c \in {q1, q2, w} |-> "requests"] @@ [c \in {b1, b2} |-> "messages"]
\* The two requests meet the same clock reading.
MCNameOf == [c \in Calls |-> IF c = b2 THEN 2 ELSE 1]
MCEarlier == ({x} \X {q1, q2}) \cup ({b1, b2} \X {w})
=============================================================================
