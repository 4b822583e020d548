-------------------------- MODULE MCScheduledTasks ---------------------------
(* Instances of ScheduledTasks for TLC. *)
EXTENDS ScheduledTasks, TLC

CONSTANTS c1, c2, t1, t2, t3, t4

\* Two tasks of one chat, one of another, and one whose schedule is not valid.
TwoOwners == t1 :> c1 @@ t2 :> c1 @@ t3 :> c2 @@ t4 :> c2

\* The tasks of one chat.
OneOwner == [t \in Tasks |-> c1]
=============================================================================
