--------------------------- MODULE SerialExecutor ----------------------------
(***************************************************************************)
(* What internal/queue promises its callers, without channels, goroutines  *)
(* or a semaphore: a task is submitted at one instant between the start    *)
(* and the return of its Enqueue call; the tasks of one chat start in the  *)
(* order of submission and never overlap; at most MaxConcurrent tasks run  *)
(* at any time and at most Room tasks of a chat wait; a call is dropped,   *)
(* and the process may die, only once a stop has begun.                    *)
(***************************************************************************)
EXTENDS Integers, Sequences, FiniteSets

CONSTANTS Chats, Tasks, ChatOf, MaxConcurrent, NoTask,
          Room  \* the tasks of a chat that may wait

VARIABLES call,      \* each call: "new", "open", "accepted" or "dropped"
          pending,   \* per chat, the submitted tasks that have not started
          running,   \* per chat, the task that runs
          finished,  \* per chat, the tasks that finished, in order
          stopping,  \* a stop has begun
          crashed    \* the process died

vars == <<call, pending, running, finished, stopping, crashed>>

Init ==
  /\ call = [t \in Tasks |-> "new"]
  /\ pending = [c \in Chats |-> <<>>]
  /\ running = [c \in Chats |-> NoTask]
  /\ finished = [c \in Chats |-> <<>>]
  /\ stopping = FALSE
  /\ crashed = FALSE

Busy == {c \in Chats : running[c] # NoTask}

\* A caller enters Enqueue.
Begin(t) ==
  /\ call[t] = "new"
  /\ call' = [call EXCEPT ![t] = "open"]
  /\ crashed' \in {FALSE, stopping}
  /\ UNCHANGED <<pending, running, finished, stopping>>

\* The call takes effect: there is room for its task.
Submit(t) ==
  /\ call[t] = "open" /\ Len(pending[ChatOf[t]]) < Room
  /\ call' = [call EXCEPT ![t] = "accepted"]
  /\ pending' = [pending EXCEPT ![ChatOf[t]] = Append(@, t)]
  /\ UNCHANGED <<running, finished, stopping, crashed>>

\* The call returns without effect.
Drop(t) ==
  /\ call[t] = "open" /\ stopping
  /\ call' = [call EXCEPT ![t] = "dropped"]
  /\ UNCHANGED <<pending, running, finished, stopping, crashed>>

Start(c) ==
  /\ running[c] = NoTask /\ pending[c] # <<>>
  /\ Cardinality(Busy) < MaxConcurrent
  /\ running' = [running EXCEPT ![c] = Head(pending[c])]
  /\ pending' = [pending EXCEPT ![c] = Tail(@)]
  /\ UNCHANGED <<call, finished, stopping, crashed>>

Finish(c) ==
  /\ running[c] # NoTask
  /\ finished' = [finished EXCEPT ![c] = Append(@, running[c])]
  /\ running' = [running EXCEPT ![c] = NoTask]
  /\ UNCHANGED <<call, pending, stopping, crashed>>

\* A stop begins; it may drop any of the calls that are under way.
BeginStop ==
  /\ ~stopping
  /\ stopping' = TRUE
  /\ \E D \in SUBSET {t \in Tasks : call[t] = "open"} :
        call' = [t \in Tasks |-> IF t \in D THEN "dropped" ELSE call[t]]
  /\ UNCHANGED <<pending, running, finished, crashed>>

Crash ==
  /\ stopping
  /\ crashed' = TRUE
  /\ UNCHANGED <<call, pending, running, finished, stopping>>

Next ==
  /\ ~crashed
  /\ \/ \E t \in Tasks : Begin(t) \/ Submit(t) \/ Drop(t)
     \/ \E c \in Chats : Start(c) \/ Finish(c)
     \/ BeginStop
     \/ Crash

Spec == Init /\ [][Next]_vars
=============================================================================
