------------------------------- MODULE Mailbox --------------------------------
(***************************************************************************)
(* What the file channel promises the agents and the handlers, without     *)
(* files, events, watches or a loop: a tool call posts its file at one     *)
(* instant; a posted file is on its way until its handler is called, once, *)
(* under its chat, and never before those of the calls that the agent had  *)
(* made before; it is lost only when the harness dies, when it is too big, *)
(* or where another call's file may have its name.                         *)
(***************************************************************************)
EXTENDS Sequences

CONSTANTS Calls,
          Earlier,   \* set of <<c, d>>: the agent makes d when c has returned
          Big,       \* the calls whose file is refused
          Rivals,    \* [Calls -> SUBSET Calls]: whose files have the call's name
          ChatOf,    \* the chat of a call
          NoChat

VARIABLES status,    \* each call: "unsent", "posted", "delivered" or "lost"
          inbox,     \* per call, the chats under which its handler was called
          orphaned   \* the calls of agents that outlived their harness

vars == <<status, inbox, orphaned>>

Init ==
  /\ status = [c \in Calls |-> "unsent"]
  /\ inbox = [c \in Calls |-> <<>>]
  /\ orphaned = {}

In(s) == {c \in Calls : status[c] = s}

\* The files that may get lost though the harness lives on.
Exposed == {c \in In("posted") : c \in Big \/ Rivals[c] # {}}

\* Some of these calls are lost; what else there is stays as it is.
Losing(cs) ==
  {f \in [Calls -> {"unsent", "posted", "delivered", "lost"}] :
     \A c \in Calls : f[c] = status[c] \/ (c \in cs /\ f[c] = "lost")}

\* The file appears; it may take the place of a rival's.
Post(c) ==
  /\ status[c] = "unsent" /\ status'[c] = "posted"
  /\ [status' EXCEPT ![c] = "unsent"] \in Losing(Exposed \cap Rivals[c])
  /\ \A d \in In("unsent") : <<d, c>> \notin Earlier
  /\ UNCHANGED <<inbox, orphaned>>

\* The handler is called.
Deliver(c) ==
  /\ status[c] = "posted"
  /\ status' = [status EXCEPT ![c] = "delivered"]
  /\ \A d \in In("unsent") \cup In("posted") : <<d, c>> \notin Earlier
  /\ \/ inbox' = [inbox EXCEPT ![c] = Append(@, ChatOf[c])]
     \/ c \in orphaned /\ inbox' = [inbox EXCEPT ![c] = Append(@, NoChat)]
  /\ UNCHANGED orphaned

\* Calls are not made, fail, or find no harness; an exposed file is refused,
\* overwritten or removed in place of its rival.
Lose ==
  /\ status' \in Losing(In("unsent") \cup Exposed)
  /\ UNCHANGED <<inbox, orphaned>>

\* The harness dies, and with it what is on its way and the agents but those that
\* it leaves behind.
Crash ==
  /\ orphaned' # orphaned \/ In("posted") # {}
  /\ \A c \in In("posted") : status'[c] = "lost"
  /\ status' \in Losing(In("unsent") \cup In("posted"))
  /\ orphaned' \in {o \in SUBSET Calls : orphaned \subseteq o}
  /\ UNCHANGED inbox

\* A step moves a call, or the harness dies.
Next ==
  \/ status' # status /\ (Lose \/ \E c \in Calls : Post(c) \/ Deliver(c))
  \/ Crash

Spec == Init /\ [][Next]_vars
=============================================================================
