------------------------------ MODULE Ipc_proofs ------------------------------
(***************************************************************************)
(* Proofs about Ipc, for any chats, sub-agents, turns and calls, any names *)
(* of their files, and any number of lives of the harness.                 *)
(***************************************************************************)
EXTENDS Ipc, TLAPS

-----------------------------------------------------------------------------
(* Type correctness                                                        *)

\* Where a call's file goes is a path.
LEMMA PathType == \A c \in Calls : Path(c) \in Paths /\ Path(c) # <<>> /\ Root(c) \in Roots
BY IpcAssumption DEF Path, Paths, Root, Roots

\* Meta gives a chat or none.
LEMMA MetaType == \A p \in Paths : Meta(p) \in Chats \cup {NoChat}
<1> TAKE p \in Paths
<1>1. p[1] \in Roots
  BY PathType DEF Paths, Path
<1> QED
  BY <1>1, IpcAssumption DEF Meta, ChatFor, Roots

\* A sequence that grew is not empty.
LEMMA Grown == \A s \in Seq(Chats \cup {NoChat}) : \A e : e \in Chats \cup {NoChat} => Append(s, e) # <<>>
<1> TAKE s \in Seq(Chats \cup {NoChat})
<1> TAKE e
<1> HAVE e \in Chats \cup {NoChat}
<1>1. Len(Append(s, e)) = Len(s) + 1 /\ Len(s) \in Nat
  OBVIOUS
<1> QED
  BY <1>1

\* The half-steps of RegisterDir.
LEMMA HalfSteps ==
  /\ 2 * Len(Subs) \in Nat
  /\ \A n \in Nat : 0 \in 0..n /\ \A i \in 0..n : i # n => i + 1 \in 0..n
<1>1. Len(Subs) \in Nat
  BY IpcAssumption
<1> QED
  BY <1>1

\* One step keeps TypeOK.
LEMMA TypeStep == TypeOK /\ [Next]_vars => TypeOK'
<1> SUFFICES ASSUME TypeOK, [Next]_vars PROVE TypeOK'
  OBVIOUS
<1> USE IpcAssumption DEF TypeOK, agents, harness, Roots
<1>1. ASSUME NEW r \in Roots, Register(r) PROVE TypeOK'
  <2>1. reg[r] \in 0..(2 * Len(Subs)) /\ reg[r] # 2 * Len(Subs)
    BY <1>1 DEF Register, Registered
  <2>2. reg[r] + 1 \in 0..(2 * Len(Subs))
    BY <2>1, HalfSteps
  <2> QED
    BY <1>1, <2>2 DEF Register
<1>2. ASSUME NEW k \in Chats, Arrive(k) PROVE TypeOK'
  <2>1. backlog[k] + 1 \in 0..Room
    BY <1>2 DEF Arrive
  <2>2. backlog' \in [Chats -> 0..Room]
    BY <1>2, <2>1 DEF Arrive
  <2> QED
    BY <1>2, <2>2 DEF Arrive
<1>3. ASSUME NEW k \in Chats, QuietJob(k) PROVE TypeOK'
  <2>1. backlog[k] - 1 \in 0..Room
    BY <1>3 DEF QuietJob
  <2>2. backlog' \in [Chats -> 0..Room]
    BY <1>3, <2>1 DEF QuietJob
  <2> QED
    BY <1>3, <2>2 DEF QuietJob
<1>4. ASSUME NEW k \in Chats, Switch(k) PROVE TypeOK'
  BY <1>4 DEF Switch
<1>5. ASSUME NEW t \in Turns, Exec(t) PROVE TypeOK'
  <2>1. backlog[RootOf[t]] - 1 \in 0..Room
    BY <1>5 DEF Exec
  <2>2. backlog' \in [Chats -> 0..Room]
    BY <1>5, <2>1 DEF Exec
  <2>3. turn' \in [Turns -> {"new", "open", "over"}] /\ tools' \subseteq Turns
    BY <1>5 DEF Exec, Granted
  <2> QED
    BY <1>5, <2>2, <2>3 DEF Exec
<1>6. ASSUME NEW t \in Turns, ExecSub(t) PROVE TypeOK'
  BY <1>6 DEF ExecSub, SubTools
<1>7. ASSUME NEW t \in Turns, End(t) PROVE TypeOK'
  BY <1>7 DEF End, Close
<1>8. ASSUME NEW t \in Turns, Kill(t) PROVE TypeOK'
  BY <1>8 DEF Kill, Close
<1>9. ASSUME NEW c \in Calls, SendMessage(c) PROVE TypeOK'
  BY <1>9 DEF SendMessage
<1>10. ASSUME NEW c \in Calls, CallTool(c) PROVE TypeOK'
  BY <1>10 DEF CallTool
<1>11. ASSUME NEW c \in Calls, Rename(c) PROVE TypeOK'
  <2>1. disk' \in [Paths -> Calls \cup {NoCall}]
    BY <1>11, PathType DEF Rename
  <2>2. events' \in Seq(Paths) /\ Len(events') <= MaxEvents
    <3>1. CASE events' = events
      BY <3>1
    <3>2. CASE Len(events) < MaxEvents /\ events' = Append(events, Path(c))
      BY <3>2, PathType
    <3> QED
      BY <1>11, <3>1, <3>2 DEF Rename
  <2> QED
    BY <1>11, <2>1, <2>2 DEF Rename
<1>12. ASSUME NEW c \in Calls, WriteFails(c) PROVE TypeOK'
  BY <1>12 DEF WriteFails
<1>13. ASSUME NEW c \in Calls, Collect(c) PROVE TypeOK'
  BY <1>13 DEF Collect
<1>14. ASSUME NEW c \in Calls, Timeout(c) PROVE TypeOK'
  BY <1>14 DEF Timeout
<1>15. CASE Take
  <2>1. Head(events) \in Paths /\ events' \in Seq(Paths) /\ Len(events') <= MaxEvents
    BY <1>15 DEF Take
  <2>2. /\ loop' \in [at : {"idle", "handle", "remove"}, path : Paths \cup {<<>>},
                     call : Calls \cup {NoCall}, chat : Chats \cup {NoChat}]
        /\ loop'.at # "idle" => loop'.call \in Calls /\ loop'.path \in Paths
    BY <1>15, <2>1, MetaType DEF Take, Work, Idle
  <2> QED
    BY <1>15, <2>1, <2>2 DEF Take
<1>16. CASE Handle
  <2>1. backlog' \in [Chats -> 0..Room]
    BY <1>16 DEF Handle, RoomFor
  <2>2. spawned' \subseteq SubAgents
    BY <1>16 DEF Handle
  <2>3. handled' \in [Calls -> Seq(Chats \cup {NoChat})]
    BY <1>16 DEF Handle
  <2>4. serving' \subseteq Calls \X (Chats \cup {NoChat})
    BY <1>16 DEF Handle
  <2> QED
    BY <1>16, <2>1, <2>2, <2>3, <2>4 DEF Handle
<1>17. CASE Remove
  BY <1>17 DEF Remove, Idle
<1>18. CASE Serve
  BY <1>18 DEF Serve
<1>19. CASE ServeFails
  BY <1>19 DEF ServeFails
<1>20. CASE Restart
  <2>1. reg' \in [Roots -> 0..(2 * Len(Subs))]
    BY <1>20, HalfSteps DEF Restart
  <2>2. events' = <<>> /\ loop' = Idle /\ life' \in 1..MaxLives
    BY <1>20 DEF Restart, EventsAtStart
  <2> QED
    BY <1>20, <2>1, <2>2 DEF Restart, Close, Idle, Live
<1>21. CASE UNCHANGED vars
  BY <1>21 DEF vars
<1> QED
  BY <1>1, <1>2, <1>3, <1>4, <1>5, <1>6, <1>7, <1>8, <1>9, <1>10, <1>11,
     <1>12, <1>13, <1>14, <1>15, <1>16, <1>17, <1>18, <1>19, <1>20, <1>21
  DEF Next

\* The state of the agents, the files and the harness has its type.
THEOREM TypeCorrect == Spec => []TypeOK
<1>1. Init => TypeOK
  BY IpcAssumption, HalfSteps DEF Init, TypeOK, Idle, Roots
<1> QED
  BY <1>1, TypeStep, PTL DEF Spec

-----------------------------------------------------------------------------
(* The files, and the file in the loop's hands                             *)

\* A file on disk is where its call put it; a file that was handled is either
\* being removed or no event speaks of it any more.
FileInv ==
  /\ \A p \in Paths : disk[p] \in Calls => Path(disk[p]) = p /\ Returned(disk[p])
  /\ loop.at # "idle" => loop.path = Path(loop.call) /\ Returned(loop.call)
  /\ loop.at = "handle" => ~Handled(loop.call)
  /\ loop.at = "remove" => Handled(loop.call)
  /\ \A c \in Calls : Handled(c) => Returned(c)
  /\ \A c \in Calls : Handled(c) /\ disk[Path(c)] = c =>
       \/ loop.at = "remove" /\ loop.call = c
       \/ \A i \in DOMAIN events : events[i] # Path(c)

\* The steps that touch neither a file nor an event, and take no call back.
Aside == UNCHANGED <<disk, events, loop, handled>> /\ \A c \in Calls : Returned(c) => Returned(c)'

\* Which steps these are.
LEMMA AsideStep ==
  ASSUME TypeOK
  PROVE /\ \A r \in Roots : Register(r) => Aside
        /\ \A k \in Chats : Arrive(k) \/ QuietJob(k) \/ Switch(k) => Aside
        /\ \A t \in Turns : Exec(t) \/ ExecSub(t) \/ End(t) \/ Kill(t) => Aside
        /\ \A c \in Calls : SendMessage(c) \/ CallTool(c) \/ WriteFails(c) \/ Collect(c) \/ Timeout(c) => Aside
        /\ Serve \/ ServeFails => Aside
<1> USE DEF TypeOK, Aside, Returned, agents, harness
<1>1. ASSUME NEW r \in Roots, Register(r) PROVE Aside
  BY <1>1 DEF Register
<1>2. ASSUME NEW k \in Chats, Arrive(k) \/ QuietJob(k) \/ Switch(k) PROVE Aside
  BY <1>2 DEF Arrive, QuietJob, Switch
<1>3. ASSUME NEW t \in Turns, Exec(t) \/ ExecSub(t) PROVE Aside
  BY <1>3 DEF Exec, ExecSub
<1>4. ASSUME NEW t \in Turns, End(t) \/ Kill(t) PROVE Aside
  BY <1>4 DEF End, Kill, Close
<1>5. ASSUME NEW c \in Calls, SendMessage(c) \/ CallTool(c) PROVE Aside
  BY <1>5 DEF SendMessage, CallTool, Callable
<1>6. ASSUME NEW c \in Calls, WriteFails(c) \/ Collect(c) \/ Timeout(c) PROVE Aside
  BY <1>6 DEF WriteFails, Collect, Timeout
<1>7. CASE Serve \/ ServeFails
  BY <1>7 DEF Serve, ServeFails
<1> QED
  BY <1>1, <1>2, <1>3, <1>4, <1>5, <1>6, <1>7

\* One step keeps FileInv.
LEMMA FileStep == TypeOK /\ FileInv /\ [Next]_vars => FileInv'
<1> SUFFICES ASSUME TypeOK, FileInv, [Next]_vars PROVE FileInv'
  OBVIOUS
<1> USE IpcAssumption, PathType DEF TypeOK, FileInv, Handled, agents, harness
<1>1. CASE Aside
  BY <1>1 DEF Aside
<1>2. ASSUME NEW c \in Calls, Rename(c) PROVE FileInv'
  <2>1. /\ call[c] = "writing" /\ call' \in [Calls -> {"idle", "writing", "waiting", "done"}]
        /\ disk' = [disk EXCEPT ![Path(c)] = c]
        /\ events' = events \/ events' = Append(events, Path(c))
        /\ UNCHANGED <<loop, handled>>
        /\ Returned(c)' /\ \A d \in Calls \ {c} : Returned(d)' <=> Returned(d)
    BY <1>2 DEF Rename, Returned
  <2>2. ~Returned(c) /\ ~Handled(c)
    BY <2>1 DEF Returned
  <2>3. \A p \in Paths : \A d \in Calls : disk'[p] = d => Path(d) = p /\ Returned(d)'
    BY <2>1
  <2>4. \A d \in Calls : Handled(d) /\ disk'[Path(d)] = d =>
          /\ Path(d) # Path(c) /\ disk[Path(d)] = d
    BY <2>1, <2>2
  <2>5. \A i \in DOMAIN events' : events'[i] = Path(c) \/ (i \in DOMAIN events /\ events'[i] = events[i])
    <3>1. CASE events' = events
      BY <3>1
    <3>2. CASE events' = Append(events, Path(c))
      BY <3>2
    <3> QED
      BY <2>1, <3>1, <3>2
  <2> QED
    BY <2>1, <2>2, <2>3, <2>4, <2>5
<1>3. CASE Take
  <2>1. /\ loop.at = "idle" /\ Head(events) \in Paths
        /\ UNCHANGED <<disk, handled, call>>
        /\ loop' = Work(Head(events))
        /\ \A i \in DOMAIN events' : i + 1 \in DOMAIN events /\ events'[i] = events[i + 1]
        /\ 1 \in DOMAIN events /\ events[1] = Head(events)
    BY <1>3 DEF Take
  <2>2. loop'.at # "idle" => /\ loop'.at = "handle"
                             /\ loop'.call = disk[Head(events)] /\ disk[Head(events)] \in Calls
                             /\ loop'.path = Head(events)
    BY <2>1 DEF Work, Idle
  <2>3. loop'.at # "idle" => ~Handled(loop'.call)
    BY <2>1, <2>2
  <2> QED
    BY <2>1, <2>2, <2>3 DEF Returned
<1>4. CASE Handle
  <2>1. /\ loop.at = "handle" /\ loop' = [loop EXCEPT !.at = "remove"]
        /\ handled' = [handled EXCEPT ![loop.call] = Append(@, loop.chat)]
        /\ UNCHANGED <<disk, events, call>>
    BY <1>4 DEF Handle
  <2>2. loop'.at = "remove" /\ loop'.path = loop.path /\ loop'.call = loop.call
    BY <2>1
  <2>3. \A c \in Calls : handled'[c] = IF c = loop.call THEN Append(handled[c], loop.chat) ELSE handled[c]
    BY <2>1
  <2>4. handled'[loop.call] # <<>>
    <3>1. /\ handled[loop.call] = <<>>
          /\ handled'[loop.call] = Append(handled[loop.call], loop.chat)
      BY <2>1, <2>3
    <3> QED
      BY <3>1
  <2> QED
    BY <2>1, <2>2, <2>3, <2>4 DEF Returned
<1>5. CASE Remove
  <2>1. /\ loop.at = "remove" /\ loop'.at = "idle"
        /\ disk' = [disk EXCEPT ![loop.path] = NoCall]
        /\ UNCHANGED <<events, handled, call>>
    BY <1>5 DEF Remove, Idle
  <2>2. \A c \in Calls : Handled(c) /\ disk'[Path(c)] = c =>
          disk[Path(c)] = c /\ Path(c) # loop.path
    BY <2>1
  <2>3. \A p \in Paths : disk'[p] \in Calls => disk'[p] = disk[p]
    BY <2>1
  <2>4. \A c \in Calls : Handled(c) => Returned(c)
    OBVIOUS
  <2>5. \A c \in Calls : Handled(c) /\ disk'[Path(c)] = c =>
          \A i \in DOMAIN events : events[i] # Path(c)
    BY <2>1, <2>2
  <2> QED
    BY <2>1, <2>3, <2>4, <2>5 DEF Returned
<1>6. CASE Restart
  <2>1. /\ loop'.at = "idle" /\ events' = <<>> /\ UNCHANGED <<disk, handled>>
        /\ \A c \in Calls : Returned(c) => Returned(c)'
    BY <1>6 DEF Restart, Close, Idle, Returned, EventsAtStart
  <2> QED
    BY <2>1
<1>7. CASE UNCHANGED vars
  BY <1>7 DEF vars, Returned
<1> QED
  BY <1>1, <1>2, <1>3, <1>4, <1>5, <1>6, <1>7, AsideStep DEF Next

\* FileInv is an invariant.
LEMMA FileCorrect == Spec => []FileInv
<1>1. Init => FileInv
  BY IpcAssumption, PathType DEF Init, FileInv, Idle, Handled
<1> QED
  BY <1>1, FileStep, TypeCorrect, PTL DEF Spec

\* No file is handled twice, however many calls share its name, whatever was
\* announced twice and wherever the harness dies between Route and os.Remove.
THEOREM NoFileIsHandledTwice == Spec => []HandledAtMostOnce
<1>1. Init => HandledAtMostOnce
  BY DEF Init, HandledAtMostOnce
<1>2. TypeOK /\ FileInv /\ HandledAtMostOnce /\ [Next]_vars => HandledAtMostOnce'
  <2> SUFFICES ASSUME TypeOK, FileInv, HandledAtMostOnce, [Next]_vars PROVE HandledAtMostOnce'
    OBVIOUS
  <2> USE DEF HandledAtMostOnce
  <2>1. CASE Handle
    BY <2>1 DEF Handle, TypeOK, FileInv, Handled
  <2>2. CASE UNCHANGED handled
    BY <2>2
  <2> QED
    BY <2>1, <2>2, AsideStep DEF Next, Aside, Rename, Take, Remove, Restart, vars
<1> QED
  BY <1>1, <1>2, TypeCorrect, FileCorrect, PTL DEF Spec

-----------------------------------------------------------------------------
(* The chat a handler is given                                             *)

\* An agent of this life runs where every directory is registered, and so a file
\* that is announced is under its chat, unless an orphan wrote it.
ChatInv ==
  /\ \A t \in Turns : turn[t] = "open" /\ t \notin orphans => Registered(RootOf[t])
  /\ \A c \in Calls : Busy(c) => turn[TurnOf[c]] = "open"
  /\ \A i \in DOMAIN events :
       disk[events[i]] \in Calls /\ TurnOf[disk[events[i]]] \notin orphans
         => Registered(events[i][1])
  /\ loop.at # "idle" =>
       \/ loop.chat = ChatFor(Root(loop.call))
       \/ loop.chat = NoChat /\ TurnOf[loop.call] \in orphans

\* Where every directory is registered, Meta gives the chat of the root.
LEMMA RegisteredMeta ==
  ASSUME TypeOK, NEW c \in Calls, Registered(Root(c))
  PROVE  Meta(Path(c)) = ChatFor(Root(c))
<1>1. Place(SubOf[c]) \in DOMAIN Subs
  BY IpcAssumption DEF Place
<1>2. Len(Subs) \in Nat /\ Place(SubOf[c]) \in 1..Len(Subs)
  BY <1>1, IpcAssumption
<1>3. 2 * Len(Subs) >= 2 * Place(SubOf[c])
  BY <1>2
<1>4. Path(c)[1] = Root(c) /\ Path(c)[2] = SubOf[c]
  BY DEF Path
<1> QED
  BY <1>3, <1>4 DEF Meta, Registered

\* One step keeps ChatInv.
LEMMA ChatStep == TypeOK /\ FileInv /\ ChatInv /\ [Next]_vars => ChatInv'
<1> SUFFICES ASSUME TypeOK, FileInv, ChatInv, [Next]_vars PROVE ChatInv'
  OBVIOUS
<1> USE IpcAssumption DEF TypeOK, ChatInv, Busy, Registered, agents, harness
<1>1. ASSUME NEW r \in Roots, Register(r) PROVE ChatInv'
  BY <1>1 DEF Register
<1>2. ASSUME NEW k \in Chats, Arrive(k) \/ QuietJob(k) \/ Switch(k) PROVE ChatInv'
  BY <1>2 DEF Arrive, QuietJob, Switch
<1>3. ASSUME NEW t \in Turns, Exec(t) \/ ExecSub(t) PROVE ChatInv'
  BY <1>3 DEF Exec, ExecSub
<1>4. ASSUME NEW t \in Turns, End(t) \/ Kill(t) PROVE ChatInv'
  <2>1. /\ \A u \in Turns : turn'[u] = "open" <=> turn[u] = "open" /\ u # t
        /\ \A c \in Calls : Busy(c)' => Busy(c) /\ TurnOf[c] # t
        /\ UNCHANGED <<disk, events, loop, reg, orphans>>
    BY <1>4 DEF End, Kill, Close
  <2> QED
    BY <2>1 DEF ChatFor, Root
<1>5. ASSUME NEW c \in Calls, SendMessage(c) \/ CallTool(c) PROVE ChatInv'
  BY <1>5 DEF SendMessage, CallTool, Callable, Live
<1>6. ASSUME NEW c \in Calls, WriteFails(c) \/ Collect(c) \/ Timeout(c) PROVE ChatInv'
  BY <1>6 DEF WriteFails, Collect, Timeout
<1>7. ASSUME NEW c \in Calls, Rename(c) PROVE ChatInv'
  <2>1. /\ call[c] = "writing" /\ disk' = [disk EXCEPT ![Path(c)] = c]
        /\ events' = events \/ events' = Append(events, Path(c))
        /\ UNCHANGED <<turn, orphans, reg, loop>>
        /\ \A d \in Calls : Busy(d)' => Busy(d)
    BY <1>7 DEF Rename
  <2>2. TurnOf[c] \notin orphans => Registered(Path(c)[1])
    BY <2>1 DEF Path, Root
  <2>3. ASSUME NEW i \in DOMAIN events', disk'[events'[i]] \in Calls,
               TurnOf[disk'[events'[i]]] \notin orphans
        PROVE  Registered(events'[i][1])
    <3>1. CASE events'[i] = Path(c)
      BY <2>1, <2>2, <2>3, <3>1, PathType
    <3>2. CASE events'[i] # Path(c)
      <4>1. i \in DOMAIN events /\ events'[i] = events[i]
        <5>1. CASE events' = events
          BY <5>1
        <5>2. CASE events' = Append(events, Path(c))
          BY <3>2, <5>2
        <5> QED
          BY <2>1, <5>1, <5>2
      <4>2. disk'[events'[i]] = disk[events[i]]
        BY <2>1, <3>2, <4>1
      <4> QED
        BY <2>3, <4>1, <4>2
    <3> QED
      BY <3>1, <3>2
  <2> QED
    BY <2>1, <2>3 DEF ChatFor, Root
<1>8. CASE Take
  <2>1. /\ loop.at = "idle" /\ events # <<>> /\ events' = Tail(events)
        /\ loop' = Work(Head(events))
        /\ UNCHANGED <<disk, turn, orphans, reg, call>>
    BY <1>8 DEF Take
  <2>2. 1 \in DOMAIN events /\ events[1] = Head(events) /\ Head(events) \in Paths
    BY <2>1
  <2>3. \A i \in DOMAIN events' : i + 1 \in DOMAIN events /\ events'[i] = events[i + 1]
    BY <2>1
  <2>4. ASSUME loop'.at # "idle"
        PROVE  \/ loop'.chat = ChatFor(Root(loop'.call))
               \/ loop'.chat = NoChat /\ TurnOf[loop'.call] \in orphans
    <3> DEFINE c == disk[Head(events)]
    <3>1. c \in Calls /\ loop'.call = c /\ loop'.chat = Meta(Head(events))
      BY <2>1, <2>4 DEF Work, Idle
    <3>2. Head(events) = Path(c) /\ Path(c)[1] = Root(c)
      BY <2>2, <3>1 DEF FileInv, Path
    <3>3. CASE TurnOf[c] \notin orphans
      <4>1. Registered(Root(c))
        BY <2>2, <3>1, <3>2, <3>3
      <4> QED
        BY <3>1, <3>2, <4>1, RegisteredMeta
    <3>4. CASE TurnOf[c] \in orphans
      BY <3>1, <3>2, <3>4 DEF Meta
    <3> QED
      BY <3>3, <3>4
  <2> QED
    BY <2>1, <2>3, <2>4 DEF ChatFor, Root
<1>9. CASE Handle
  BY <1>9 DEF Handle, ChatFor, Root
<1>10. CASE Remove
  <2>1. /\ loop'.at = "idle"
        /\ \A p \in Paths : disk'[p] \in Calls => disk'[p] = disk[p]
        /\ UNCHANGED <<events, turn, orphans, reg, call>>
    BY <1>10 DEF Remove, Idle
  <2> QED
    BY <2>1
<1>11. CASE Serve \/ ServeFails
  BY <1>11 DEF Serve, ServeFails
<1>12. CASE Restart
  BY <1>12 DEF Restart, Close, Idle, Live, EventsAtStart
<1>13. CASE UNCHANGED vars
  BY <1>13 DEF vars
<1> QED
  BY <1>1, <1>2, <1>3, <1>4, <1>5, <1>6, <1>7, <1>8, <1>9, <1>10, <1>11, <1>12, <1>13
  DEF Next

\* ChatInv is an invariant.
LEMMA ChatCorrect == Spec => []ChatInv
<1>1. Init => ChatInv
  BY IpcAssumption DEF Init, ChatInv, Idle, Busy
<1> QED
  BY <1>1, ChatStep, TypeCorrect, FileCorrect, PTL DEF Spec

\* A handler is given the chat of the directory that the file was put in, or no
\* chat for the file of an agent that outlived its harness.
THEOREM HandlersKnowTheirChat == Spec => []UnderItsChat
<1>1. Init => UnderItsChat
  BY DEF Init, UnderItsChat
<1>2. TypeOK /\ ChatInv /\ UnderItsChat /\ [Next]_vars => UnderItsChat'
  <2> SUFFICES ASSUME TypeOK, ChatInv, UnderItsChat, [Next]_vars PROVE UnderItsChat'
    OBVIOUS
  <2> USE DEF UnderItsChat
  <2>1. CASE Handle
    <3>1. /\ loop.at = "handle" /\ loop.call \in Calls /\ orphans' = orphans
          /\ handled' = [handled EXCEPT ![loop.call] = Append(@, loop.chat)]
      BY <2>1 DEF Handle, TypeOK, agents
    <3>2. ASSUME NEW c \in Calls, NEW i \in DOMAIN handled'[c]
          PROVE  \/ handled'[c][i] = ChatFor(Root(c))
                 \/ handled'[c][i] = NoChat /\ TurnOf[c] \in orphans
      <4>1. CASE c = loop.call
        <5>1. /\ handled[c] \in Seq(Chats \cup {NoChat})
              /\ handled'[c] = Append(handled[c], loop.chat)
          BY <3>1, <4>1 DEF TypeOK
        <5>2. handled'[c][i] = loop.chat \/ (i \in DOMAIN handled[c] /\ handled'[c][i] = handled[c][i])
          BY <3>2, <5>1
        <5> QED
          BY <3>1, <4>1, <5>2 DEF ChatInv
      <4>2. CASE c # loop.call
        BY <3>1, <3>2, <4>2 DEF TypeOK
      <4> QED
        BY <4>1, <4>2
    <3> QED
      BY <3>1, <3>2 DEF ChatFor, Root
  <2>2. CASE UNCHANGED handled /\ orphans \subseteq orphans'
    BY <2>2 DEF TypeOK
  <2> QED
    BY <2>1, <2>2
    DEF Next, Register, Arrive, QuietJob, Switch, Exec, ExecSub, End, Kill, SendMessage,
        CallTool, Rename, WriteFails, Collect, Timeout, Take, Remove, Serve, ServeFails,
        Restart, vars, agents, harness
<1> QED
  BY <1>1, <1>2, TypeCorrect, ChatCorrect, PTL DEF Spec

-----------------------------------------------------------------------------
(* One reply, and answers to those who asked                               *)

\* The file of a call is being written, is there, or was.
Sent(c) ==
  call[c] = "writing" \/ disk[Path(c)] = c \/ Handled(c) \/ (loop.at # "idle" /\ loop.call = c)

\* A turn whose reply was sent has its latch set while it runs, and only turns of
\* a chat's own agent send requests.
SentInv ==
  /\ \A t \in tools : RootOf[t] \in Chats
  /\ enabled \subseteq Chats
  /\ \A c \in Calls : Sent(c) => call[c] # "idle"
  /\ \A c \in Calls : Sent(c) /\ SubOf[c] = "messages" /\ turn[TurnOf[c]] = "open"
                        => TurnOf[c] \in latched
  /\ \A c, d \in Calls : /\ SubOf[c] = "messages" /\ SubOf[d] = "messages"
                         /\ TurnOf[c] = TurnOf[d] /\ Sent(c) /\ Sent(d)
                         => c = d
  /\ \A c \in Calls : Sent(c) /\ SubOf[c] = "requests" => Root(c) \in Chats
  /\ \A c \in Calls : call[c] # "idle" => turn[TurnOf[c]] # "new"

\* A step after which no more was sent than before, no call went back and no turn
\* was opened, and which clears no latch of an open turn.
Sober ==
  /\ \A c \in Calls : Sent(c)' => Sent(c)
  /\ \A c \in Calls : call'[c] = "idle" <=> call[c] = "idle"
  /\ \A t \in Turns : turn'[t] = turn[t]
  /\ latched' = latched /\ tools' = tools /\ enabled' \subseteq Chats

\* One step keeps SentInv.
LEMMA SentStep == TypeOK /\ FileInv /\ ChatInv /\ SentInv /\ [Next]_vars => SentInv'
<1> SUFFICES ASSUME TypeOK, FileInv, ChatInv, SentInv, [Next]_vars PROVE SentInv'
  OBVIOUS
<1> USE IpcAssumption, PathType DEF TypeOK, SentInv, agents, harness
<1>1. CASE Sober
  BY <1>1 DEF Sober, Root
<1>2. ASSUME NEW t \in Turns, Exec(t) \/ ExecSub(t) PROVE SentInv'
  <2>1. /\ \A c \in Calls : Sent(c)' <=> Sent(c)
        /\ call' = call /\ latched' = latched /\ enabled' = enabled
    BY <1>2 DEF Exec, ExecSub, Sent, Handled
  <2>2. /\ turn[t] = "new" /\ turn' = [turn EXCEPT ![t] = "open"]
        /\ \A u \in tools' : RootOf[u] \in Chats
    BY <1>2 DEF Exec, ExecSub, Granted, SubTools
  <2>3. \A c \in Calls : Sent(c) => turn'[TurnOf[c]] = turn[TurnOf[c]]
    BY <2>2
  <2> QED
    BY <2>1, <2>2, <2>3 DEF Root
<1>3. ASSUME NEW t \in Turns, End(t) \/ Kill(t) PROVE SentInv'
  <2>1. /\ \A c \in Calls : Sent(c)' => Sent(c)
        /\ UNCHANGED <<disk, handled, loop, enabled>>
        /\ tools' \subseteq tools /\ latched' = latched \ {t}
        /\ \A c \in Calls : call'[c] = IF TurnOf[c] = t THEN "done" ELSE call[c]
        /\ \A u \in Turns : turn'[u] = IF u = t THEN "over" ELSE turn[u]
    BY <1>3 DEF End, Kill, Close, Sent, Handled
  <2> QED
    BY <2>1 DEF Root
<1>4. ASSUME NEW c \in Calls, SendMessage(c) PROVE SentInv'
  <2>1. /\ call[c] = "idle" /\ turn[TurnOf[c]] = "open" /\ ~Sent(c)
        /\ latched' = latched \cup {TurnOf[c]}
        /\ \A d \in Calls : Sent(d)' => Sent(d) \/ (d = c /\ TurnOf[c] \notin latched)
        /\ \A d \in Calls : d # c => call'[d] = call[d]
        /\ call'[c] # "idle" /\ SubOf[c] = "messages"
        /\ UNCHANGED <<turn, tools, enabled>>
    BY <1>4 DEF SendMessage, Callable, Live, Refused, Sent, Handled
  <2>2. \A d \in Calls : /\ Sent(d) /\ SubOf[d] = "messages" /\ TurnOf[d] = TurnOf[c]
                         => TurnOf[c] \in latched
    BY <2>1
  <2>3. \A d \in Calls : Sent(d)' => call'[d] # "idle"
    <3> SUFFICES ASSUME NEW d \in Calls, Sent(d)' PROVE call'[d] # "idle"
      OBVIOUS
    <3>1. CASE d = c
      BY <2>1, <3>1
    <3>2. CASE d # c
      BY <2>1, <3>2
    <3> QED
      BY <3>1, <3>2
  <2>4. \A d \in Calls : Sent(d)' /\ SubOf[d] = "messages" /\ turn'[TurnOf[d]] = "open"
                         => TurnOf[d] \in latched'
    BY <2>1
  <2>5. ASSUME NEW d \in Calls, NEW e \in Calls, SubOf[d] = "messages", SubOf[e] = "messages",
               TurnOf[d] = TurnOf[e], Sent(d)', Sent(e)'
        PROVE  d = e
    <3>1. CASE d = c /\ e # c
      BY <2>1, <2>2, <2>5, <3>1
    <3>2. CASE e = c /\ d # c
      BY <2>1, <2>2, <2>5, <3>2
    <3>3. CASE d # c /\ e # c
      BY <2>1, <2>5, <3>3
    <3> QED
      BY <3>1, <3>2, <3>3
  <2>6. \A d \in Calls : Sent(d)' /\ SubOf[d] = "requests" => Root(d) \in Chats
    BY <2>1
  <2>7. \A d \in Calls : call'[d] # "idle" => turn'[TurnOf[d]] # "new"
    BY <2>1
  <2> QED
    BY <2>1, <2>3, <2>4, <2>5, <2>6, <2>7 DEF Root
<1>5. ASSUME NEW c \in Calls, CallTool(c) PROVE SentInv'
  <2>1. /\ call[c] = "idle" /\ turn[TurnOf[c]] = "open" /\ SubOf[c] # "messages"
        /\ SubOf[c] = "requests" => Root(c) \in Chats
        /\ \A d \in Calls : Sent(d)' => Sent(d) \/ d = c
        /\ \A d \in Calls : d # c => call'[d] = call[d]
        /\ call'[c] # "idle"
        /\ UNCHANGED <<turn, tools, latched, enabled>>
    BY <1>5 DEF CallTool, Callable, Live, Offered, Sent, Handled, Root
  <2> QED
    BY <2>1 DEF Root
<1>6. ASSUME NEW c \in Calls, Rename(c) \/ WriteFails(c) \/ Collect(c) \/ Timeout(c) PROVE Sober
  BY <1>6 DEF Rename, WriteFails, Collect, Timeout, Sober, Sent, Handled
<1>7. ASSUME Take PROVE Sober
  BY <1>7 DEF Take, Work, Idle, FileInv, Sober, Sent, Handled
<1>8. ASSUME Handle PROVE Sober
  <2>1. /\ loop.at = "handle" /\ loop' = [loop EXCEPT !.at = "remove"]
        /\ \A c \in Calls : c # loop.call => handled'[c] = handled[c]
        /\ UNCHANGED <<disk, turn, tools, latched, call, enabled>>
    BY <1>8 DEF Handle
  <2>2. loop'.call = loop.call
    BY <2>1
  <2>3. ASSUME NEW c \in Calls, Sent(c)' PROVE Sent(c)
    <3>1. CASE c = loop.call
      BY <2>1, <3>1 DEF Sent
    <3>2. CASE c # loop.call
      BY <2>1, <2>2, <2>3, <3>2 DEF Sent, Handled
    <3> QED
      BY <3>1, <3>2
  <2> QED
    BY <2>1, <2>3 DEF Sober
<1>9. ASSUME Remove PROVE Sober
  BY <1>9 DEF Remove, Idle, Sober, Sent, Handled
<1>10. CASE Restart
  BY <1>10 DEF Restart, Close, Idle, Live, Sent, Handled, Root
<1>11. ASSUME NEW k \in Chats, Arrive(k) \/ QuietJob(k) \/ Switch(k) PROVE Sober
  BY <1>11 DEF Arrive, QuietJob, Switch, Sober, Sent, Handled
<1>12. ASSUME NEW r \in Roots, Register(r) PROVE Sober
  BY <1>12 DEF Register, Sober, Sent, Handled
<1>13. ASSUME Serve \/ ServeFails PROVE Sober
  BY <1>13 DEF Serve, ServeFails, Sober, Sent, Handled
<1>14. ASSUME UNCHANGED vars PROVE Sober
  BY <1>14 DEF vars, Sober, Sent, Handled
<1> QED
  BY <1>1, <1>2, <1>3, <1>4, <1>5, <1>6, <1>7, <1>8, <1>9, <1>10, <1>11, <1>12, <1>13, <1>14
  DEF Next

\* SentInv is an invariant.
LEMMA SentCorrect == Spec => []SentInv
<1>1. Init => SentInv
  BY IpcAssumption, PathType DEF Init, SentInv, Idle, Sent, Handled
<1> QED
  BY <1>1, SentStep, TypeCorrect, FileCorrect, ChatCorrect, PTL DEF Spec

\* Of the replies of one turn, concurrent ones included, at most one is handled.
THEOREM OneReplyPerTurn == Spec => []OneReply
<1>1. SentInv => OneReply
  BY DEF SentInv, OneReply, Sent
<1> QED
  BY <1>1, SentCorrect, PTL

\* A response goes to the root of the agent that asked, unless that agent outlived
\* its harness: only agents of a chat are given the tools that ask.
THEOREM AnswersReachCallers == Spec => []AnswersReachTheCaller
<1>1. Init => AnswersReachTheCaller
  BY DEF Init, AnswersReachTheCaller
<1>2. TypeOK /\ ChatInv /\ SentInv /\ AnswersReachTheCaller /\ [Next]_vars => AnswersReachTheCaller'
  <2> SUFFICES ASSUME TypeOK, ChatInv, SentInv, AnswersReachTheCaller, [Next]_vars
               PROVE AnswersReachTheCaller'
    OBVIOUS
  <2> USE DEF AnswersReachTheCaller, Root
  <2>1. CASE Handle
    BY <2>1 DEF Handle, TypeOK, ChatInv, SentInv, Sent, ChatFor, agents
  <2>2. CASE Serve \/ ServeFails
    BY <2>2 DEF Serve, ServeFails, agents
  <2>3. ASSUME NEW c \in Calls, Collect(c) PROVE AnswersReachTheCaller'
    BY <2>3 DEF Collect, harness
  <2>4. CASE Restart
    BY <2>4 DEF Restart
  <2>5. CASE UNCHANGED <<answers, serving, orphans>>
    BY <2>5
  <2> QED
    BY <2>1, <2>2, <2>3, <2>4, <2>5
    DEF Next, Register, Arrive, QuietJob, Switch, Exec, ExecSub, End, Kill, SendMessage,
        CallTool, Rename, WriteFails, Timeout, Take, Remove, vars, agents, harness
<1> QED
  BY <1>1, <1>2, TypeCorrect, ChatCorrect, SentCorrect, PTL DEF Spec

-----------------------------------------------------------------------------
(* Nothing that is announced is lost                                       *)

\* An announced file whose name no other call has is handled, or on its way, or
\* too big, as long as the harness that it was announced to lives.
THEOREM NothingAnnouncedIsLost == Spec => []NoSilentLoss
<1>1. Init => NoSilentLoss
  BY DEF Init, NoSilentLoss
<1>2. TypeOK /\ FileInv /\ NoSilentLoss /\ [Next]_vars => NoSilentLoss'
  <2> SUFFICES ASSUME TypeOK, FileInv, NoSilentLoss, [Next]_vars,
                      NEW c \in announced', c \notin Big, ~Overwritable(c)
               PROVE  Handled(c)' \/ Pending(c)'
    BY DEF NoSilentLoss, Overwritable, Path, Root
  <2> USE IpcAssumption, PathType DEF NoSilentLoss, Overwritable, Handled, Pending, TypeOK
  <2>1. CASE Aside /\ UNCHANGED announced
    BY <2>1 DEF Aside
  <2>2. ASSUME NEW d \in Calls, Rename(d) PROVE Handled(c)' \/ Pending(c)'
    <3>1. /\ disk' = [disk EXCEPT ![Path(d)] = d] /\ UNCHANGED <<loop, handled>>
          /\ \/ events' = events /\ announced' = announced
             \/ events' = Append(events, Path(d)) /\ announced' = announced \cup {d}
      BY <2>2 DEF Rename
    <3>2. \A i \in DOMAIN events : i \in DOMAIN events' /\ events'[i] = events[i]
      <4>1. CASE events' = events
        BY <4>1
      <4>2. CASE events' = Append(events, Path(d))
        BY <4>2
      <4> QED
        BY <3>1, <4>1, <4>2
    <3>3. CASE c \in announced /\ c # d
      BY <3>1, <3>2, <3>3
    <3>4. CASE c \in announced /\ c = d
      BY <3>1, <3>2, <3>4
    <3>5. CASE c \notin announced
      <4>1. c = d /\ events' = Append(events, Path(c))
        BY <3>1, <3>5
      <4>2. Len(events) + 1 \in DOMAIN events' /\ events'[Len(events) + 1] = Path(c)
        BY <4>1
      <4> QED
        BY <3>1, <4>1, <4>2
    <3> QED
      BY <3>3, <3>4, <3>5
  <2>3. CASE Take
    <3>1. /\ loop.at = "idle" /\ events # <<>> /\ events' = Tail(events)
          /\ loop' = Work(Head(events)) /\ UNCHANGED <<disk, handled, announced>>
      BY <2>3 DEF Take
    <3>2. Handled(c) \/ (disk[Path(c)] = c /\ \E i \in DOMAIN events : events[i] = Path(c))
      BY <3>1
    <3>3. CASE disk[Path(c)] = c /\ Head(events) = Path(c)
      BY <3>1, <3>3 DEF Work
    <3>4. CASE disk[Path(c)] = c /\ Head(events) # Path(c) /\ \E i \in DOMAIN events : events[i] = Path(c)
      <4>1. PICK i \in DOMAIN events : events[i] = Path(c)
        BY <3>4
      <4>2. i # 1
        BY <3>1, <3>4, <4>1
      <4>3. i - 1 \in DOMAIN Tail(events) /\ Tail(events)[i - 1] = events[i]
        BY <3>1, <4>2
      <4> QED
        BY <3>1, <3>4, <4>1, <4>3
    <3> QED
      BY <3>1, <3>2, <3>3, <3>4
  <2>4. CASE Handle
    <3>1. /\ loop.at = "handle" /\ loop.call \in Calls
          /\ handled' = [handled EXCEPT ![loop.call] = Append(@, loop.chat)]
          /\ UNCHANGED <<disk, events, announced>>
      BY <2>4 DEF Handle
    <3>2. handled'[loop.call] = Append(handled[loop.call], loop.chat)
      BY <3>1
    <3>3. handled'[loop.call] # <<>>
      <4>1. handled[loop.call] \in Seq(Chats \cup {NoChat}) /\ loop.chat \in Chats \cup {NoChat}
        BY <3>1
      <4>2. Append(handled[loop.call], loop.chat) # <<>>
        BY <4>1, Grown
      <4> QED
        BY <3>2, <4>2
    <3>4. c # loop.call => handled'[c] = handled[c]
      BY <3>1
    <3> QED
      BY <3>1, <3>3, <3>4
  <2>5. CASE Remove
    <3>1. /\ loop.at = "remove" /\ loop.path = Path(loop.call) /\ Handled(loop.call)
          /\ disk' = [disk EXCEPT ![loop.path] = NoCall]
          /\ UNCHANGED <<events, handled, announced>>
      BY <2>5 DEF Remove, FileInv
    <3>2. c # loop.call => disk'[Path(c)] = disk[Path(c)]
      BY <3>1
    <3> QED
      BY <3>1, <3>2
  <2>6. CASE Restart
    BY <2>6 DEF Restart
  <2>7. CASE UNCHANGED vars
    BY <2>7 DEF vars, harness
  <2> QED
    BY <2>1, <2>2, <2>3, <2>4, <2>5, <2>6, <2>7, AsideStep
    DEF Next, Register, Arrive, QuietJob, Switch, Exec, ExecSub, End, Kill, SendMessage,
        CallTool, WriteFails, Collect, Timeout, Serve, ServeFails
<1> QED
  BY <1>1, <1>2, TypeCorrect, FileCorrect, PTL DEF Spec

-----------------------------------------------------------------------------
(* Calls made one after the other                                          *)

Announced(p) == \E i \in DOMAIN events : events[i] = p

\* Where d is only called when c has returned, no file or event of d's name is
\* there before; the events of c's file come before those of d's; and once d is in
\* the loop's hands or beyond, c is not on its way any more.
OrderInv ==
  \A p \in Earlier :
    LET c == p[1]  d == p[2] IN
    /\ Sent(d) \/ Announced(Path(d)) => call[c] = "done"
    /\ disk[Path(c)] = c =>
         \A i, j \in DOMAIN events : events[i] = Path(c) /\ events[j] = Path(d) => i < j
    /\ Handled(d) \/ (loop.at # "idle" /\ loop.call = d) => ~Pending(c)

\* A queue after an append, and after its head is taken.
LEMMA Appended ==
  ASSUME NEW S, NEW s \in Seq(S), NEW e \in S
  PROVE  /\ Len(s) \in Nat /\ DOMAIN s = 1..Len(s)
         /\ \A i \in DOMAIN s : i \in DOMAIN Append(s, e) /\ Append(s, e)[i] = s[i]
         /\ \A i \in DOMAIN Append(s, e) :
              \/ i \in DOMAIN s /\ Append(s, e)[i] = s[i]
              \/ i = Len(s) + 1 /\ Append(s, e)[i] = e
<1>1. Len(s) \in Nat /\ DOMAIN s = 1..Len(s)
  OBVIOUS
<1>2. DOMAIN Append(s, e) = 1..(Len(s) + 1)
  OBVIOUS
<1>3. \A i \in 1..Len(s) : Append(s, e)[i] = s[i]
  OBVIOUS
<1>4. Append(s, e)[Len(s) + 1] = e
  OBVIOUS
<1> QED
  BY <1>1, <1>2, <1>3, <1>4

LEMMA HeadTaken ==
  ASSUME NEW S, NEW s \in Seq(S), s # <<>>
  PROVE  /\ 1 \in DOMAIN s /\ s[1] = Head(s) /\ Head(s) \in S
         /\ \A i \in DOMAIN Tail(s) :
              i \in Nat /\ i + 1 \in DOMAIN s /\ Tail(s)[i] = s[i + 1]
         /\ \A i \in DOMAIN s \ {1} :
              i - 1 \in DOMAIN Tail(s) /\ Tail(s)[i - 1] = s[i]
<1>1. 1 \in DOMAIN s /\ s[1] = Head(s) /\ Head(s) \in S
  OBVIOUS
<1>2. Len(s) \in Nat /\ DOMAIN s = 1..Len(s) /\ DOMAIN Tail(s) = 1..(Len(s) - 1)
  OBVIOUS
<1>3. \A i \in 1..(Len(s) - 1) : Tail(s)[i] = s[i + 1]
  OBVIOUS
<1>4. ASSUME NEW i \in DOMAIN s \ {1}
      PROVE  i - 1 \in DOMAIN Tail(s) /\ Tail(s)[i - 1] = s[i]
  <2>1. i - 1 \in 1..(Len(s) - 1) /\ (i - 1) + 1 = i
    BY <1>2
  <2> QED
    BY <1>2, <1>3, <2>1
<1> QED
  BY <1>1, <1>2, <1>3, <1>4

\* A call is sent by its own first step only.
LEMMA SentOnlyByCall ==
  ASSUME TypeOK, FileInv, [Next]_vars, NEW d \in Calls, Sent(d)', ~Sent(d)
  PROVE  Callable(d)
<1> USE IpcAssumption, PathType DEF TypeOK, agents, harness, Sent, Handled
<1>1. ASSUME NEW c \in Calls, SendMessage(c) \/ CallTool(c) PROVE Callable(d)
  BY <1>1 DEF SendMessage, CallTool
<1>2. ASSUME NEW c \in Calls, Rename(c) PROVE FALSE
  BY <1>2 DEF Rename
<1>3. ASSUME NEW c \in Calls, WriteFails(c) \/ Collect(c) \/ Timeout(c) PROVE FALSE
  BY <1>3 DEF WriteFails, Collect, Timeout
<1>4. ASSUME Take PROVE FALSE
  BY <1>4 DEF Take, Work, Idle, FileInv
<1>5. ASSUME Handle PROVE FALSE
  <2>1. /\ loop.at = "handle" /\ loop' = [loop EXCEPT !.at = "remove"]
        /\ \A c \in Calls : c # loop.call => handled'[c] = handled[c]
        /\ UNCHANGED <<disk, call>>
    BY <1>5 DEF Handle
  <2>2. loop'.call = loop.call
    BY <2>1
  <2> QED
    BY <2>1, <2>2
<1>6. ASSUME Remove PROVE FALSE
  BY <1>6 DEF Remove, Idle
<1>7. ASSUME Restart PROVE FALSE
  BY <1>7 DEF Restart, Close, Idle
<1>8. ASSUME NEW k \in Chats, Arrive(k) \/ QuietJob(k) \/ Switch(k) PROVE FALSE
  BY <1>8 DEF Arrive, QuietJob, Switch
<1>9. ASSUME NEW t \in Turns, Exec(t) \/ ExecSub(t) \/ End(t) \/ Kill(t) PROVE FALSE
  BY <1>9 DEF Exec, ExecSub, End, Kill, Close
<1>10. ASSUME NEW r \in Roots, Register(r) PROVE FALSE
  BY <1>10 DEF Register
<1>11. ASSUME Serve \/ ServeFails \/ UNCHANGED vars PROVE FALSE
  BY <1>11 DEF Serve, ServeFails, vars
<1> QED
  BY <1>1, <1>2, <1>3, <1>4, <1>5, <1>6, <1>7, <1>8, <1>9, <1>10, <1>11 DEF Next

\* One step keeps OrderInv for two calls made one after the other.
LEMMA OrderPairStep ==
  ASSUME TypeOK, FileInv, OrderInv, [Next]_vars,
         NEW c \in Calls, NEW d \in Calls, <<c, d>> \in Earlier
  PROVE  /\ Sent(d)' \/ Announced(Path(d))' => call'[c] = "done"
         /\ disk'[Path(c)] = c =>
              \A i, j \in DOMAIN events' :
                events'[i] = Path(c) /\ events'[j] = Path(d) => i < j
         /\ Handled(d)' \/ (loop'.at # "idle" /\ loop'.call = d) => ~Pending(c)'
<1> DEFINE First == Sent(d) \/ Announced(Path(d)) => call[c] = "done"
           Second == disk[Path(c)] = c =>
                       \A i, j \in DOMAIN events : events[i] = Path(c) /\ events[j] = Path(d) => i < j
           Third == Handled(d) \/ (loop.at # "idle" /\ loop.call = d) => ~Pending(c)
<1>0. First /\ Second /\ Third
  BY DEF OrderInv
<1>1. \A f \in Calls : Path(f) = Path(d) => (Sent(f) => call[c] = "done")
  BY OrderAssumption DEF OrderInv
<1>2. Path(c) # Path(d) /\ c # d
  BY OrderAssumption
<1>3. ASSUME Sent(d)', ~Sent(d) PROVE call[c] = "done"
  BY <1>3, SentOnlyByCall DEF Callable
<1>a. ASSUME NEW f \in Calls, events' = events \/ events' = Append(events, Path(f))
      PROVE  /\ Len(events) \in Nat /\ DOMAIN events = 1..Len(events)
             /\ \A i \in DOMAIN events : i \in DOMAIN events' /\ events'[i] = events[i]
             /\ \A i \in DOMAIN events' :
                  \/ i \in DOMAIN events /\ events'[i] = events[i]
                  \/ i = Len(events) + 1 /\ events'[i] = Path(f)
  <2>1. events \in Seq(Paths) /\ Path(f) \in Paths
    BY PathType DEF TypeOK
  <2>2. CASE events' = events
    BY <2>1, <2>2, Appended
  <2>3. CASE events' = Append(events, Path(f))
    BY <2>1, <2>3, Appended
  <2> QED
    BY <1>a, <2>2, <2>3
<1>b. ASSUME events # <<>>, events' = Tail(events)
      PROVE  /\ 1 \in DOMAIN events /\ events[1] = Head(events) /\ Head(events) \in Paths
             /\ \A i \in DOMAIN events' :
                  i \in Nat /\ i + 1 \in DOMAIN events /\ events'[i] = events[i + 1]
  BY <1>b, HeadTaken DEF TypeOK
<1>4. call[c] = "done" => call'[c] = "done"
  BY DEF TypeOK, Next, Register, Arrive, QuietJob, Switch, Exec, ExecSub, End, Kill, Close,
         SendMessage, CallTool, Callable, Rename, WriteFails, Collect, Timeout, Take, Handle,
         Remove, Serve, ServeFails, Restart, vars, agents, harness
<1>5. CASE Aside
  <2>1. Announced(Path(d))' <=> Announced(Path(d))
    BY <1>5 DEF Aside, Announced, Path, Root
  <2>2. Pending(c)' <=> Pending(c)
    BY <1>5 DEF Aside, Pending, Path, Root
  <2> QED
    BY <1>0, <1>3, <1>4, <1>5, <2>1, <2>2 DEF Aside, Handled
<1> USE IpcAssumption, PathType DEF TypeOK, agents, harness
<1>6. ASSUME NEW f \in Calls, Rename(f)
      PROVE  (First /\ Second /\ Third)'
  <2>1. /\ call[f] = "writing" /\ disk' = [disk EXCEPT ![Path(f)] = f]
        /\ UNCHANGED <<loop, handled>>
        /\ events' = events \/ events' = Append(events, Path(f))
    BY <1>6 DEF Rename
  <2>2. /\ Len(events) \in Nat /\ DOMAIN events = 1..Len(events)
        /\ \A i \in DOMAIN events : i \in DOMAIN events' /\ events'[i] = events[i]
        /\ \A i \in DOMAIN events' :
             \/ i \in DOMAIN events /\ events'[i] = events[i]
             \/ i = Len(events) + 1 /\ events'[i] = Path(f)
    BY <1>a, <2>1
  <2>3. Path(f) = Path(d) => call[c] = "done"
    BY <1>1, <2>1 DEF Sent
  <2>4. Sent(d)' \/ Announced(Path(d))' => call[c] = "done"
    <3>1. Announced(Path(d))' => Announced(Path(d)) \/ Path(f) = Path(d)
      BY <2>2 DEF Announced, Path, Root
    <3> QED
      BY <1>0, <1>3, <2>3, <3>1
  <2>5. First'
    BY <1>4, <2>4 DEF Path, Root
  <2>6. CASE f = c
    <3>1. ~Sent(d)' /\ ~Announced(Path(d))'
      BY <2>1, <2>4, <2>6
    <3> QED
      BY <2>5, <3>1 DEF Announced, Sent, Path, Root
  <2>7. CASE f # c /\ Path(f) = Path(c)
    <3>1. disk'[Path(c)] # c
      BY <2>1, <2>7
    <3>2. Pending(c)' => Pending(c)
      BY <2>1, <3>1 DEF Pending, Path, Root
    <3> QED
      BY <1>0, <2>1, <2>5, <3>1, <3>2 DEF Handled, Path, Root
  <2>8. CASE Path(f) # Path(c)
    <3>1. disk'[Path(c)] = disk[Path(c)]
      BY <2>1, <2>8
    <3>2. \A i \in DOMAIN events' : events'[i] = Path(c) =>
            i \in DOMAIN events /\ events[i] = Path(c) /\ i < Len(events) + 1
      BY <2>2, <2>8
    <3>3. Pending(c)' => Pending(c)
      BY <2>1, <3>1, <3>2 DEF Pending, Path, Root
    <3>4. disk'[Path(c)] = c => \A i, j \in DOMAIN events' :
            events'[i] = Path(c) /\ events'[j] = Path(d) => i < j
      <4>1. ASSUME disk[Path(c)] = c, NEW i \in DOMAIN events', NEW j \in DOMAIN events',
                   events'[i] = Path(c), events'[j] = Path(d)
            PROVE  i < j
        <5>1. i \in DOMAIN events /\ events[i] = Path(c) /\ i < Len(events) + 1
          BY <3>2, <4>1
        <5>2. CASE j \in DOMAIN events /\ events[j] = Path(d)
          BY <1>0, <4>1, <5>1, <5>2
        <5>3. CASE j = Len(events) + 1
          BY <5>1, <5>3
        <5> QED
          BY <2>2, <4>1, <5>2, <5>3
      <4> QED
        BY <3>1, <4>1
    <3> QED
      BY <1>0, <2>1, <2>5, <3>3, <3>4 DEF Handled, Path, Root
  <2> QED
    BY <2>6, <2>7, <2>8
<1>7. CASE Take
  <2>1. /\ loop.at = "idle" /\ events # <<>>
        /\ UNCHANGED <<disk, handled, call>> /\ loop' = Work(Head(events))
    BY <1>7 DEF Take
  <2>2. /\ 1 \in DOMAIN events /\ events[1] = Head(events) /\ Head(events) \in Paths
        /\ \A i \in DOMAIN events' :
             i \in Nat /\ i + 1 \in DOMAIN events /\ events'[i] = events[i + 1]
    BY <1>7, <1>b DEF Take
  <2>3. loop'.at # "idle" => /\ disk[Head(events)] = loop'.call /\ loop'.call \in Calls
                             /\ Path(loop'.call) = Head(events)
    BY <2>1, <2>2 DEF Work, Idle, FileInv
  <2>4. Announced(Path(d))' => Announced(Path(d))
    BY <2>2 DEF Announced, Path, Root
  <2>5. First'
    BY <1>0, <1>3, <1>4, <2>4 DEF Path, Root
  <2>6. disk'[Path(c)] = c => \A i, j \in DOMAIN events' :
          events'[i] = Path(c) /\ events'[j] = Path(d) => i < j
    BY <1>0, <2>1, <2>2
  <2>7. Pending(c)' => Pending(c)
    <3>1. CASE loop'.at = "handle" /\ loop'.call = c
      <4>1. disk[Path(c)] = c /\ events[1] = Path(c)
        BY <2>2, <2>3, <3>1
      <4> QED
        BY <2>2, <4>1 DEF Pending
    <3>2. CASE disk[Path(c)] = c /\ \E i \in DOMAIN events' : events'[i] = Path(c)
      BY <2>2, <3>2 DEF Pending
    <3> QED
      BY <2>1, <3>1, <3>2 DEF Pending, Path, Root
  <2>8. ASSUME loop'.at # "idle", loop'.call = d PROVE ~Pending(c)'
    <3>1. events[1] = Path(d) /\ disk[Path(d)] = d
      BY <2>2, <2>3, <2>8
    <3>2. ~(disk[Path(c)] = c /\ \E i \in DOMAIN events' : events'[i] = Path(c))
      BY <1>0, <2>2, <3>1
    <3>3. c # d
      BY <1>2
    <3> QED
      BY <2>1, <2>8, <3>2, <3>3 DEF Pending, Path, Root
  <2> QED
    BY <1>0, <2>1, <2>5, <2>6, <2>7, <2>8 DEF Handled, Path, Root
<1>8. CASE Handle
  <2>1. /\ loop.at = "handle" /\ loop' = [loop EXCEPT !.at = "remove"]
        /\ \A f \in Calls : f # loop.call => handled'[f] = handled[f]
        /\ UNCHANGED <<disk, events, call>>
    BY <1>8 DEF Handle
  <2>2. loop'.call = loop.call /\ loop'.at = "remove"
    BY <2>1
  <2>3. Pending(c)' => Pending(c)
    BY <2>1, <2>2 DEF Pending, Path, Root
  <2>4. Handled(d)' => Handled(d) \/ loop.call = d
    BY <2>1 DEF Handled
  <2>5. First'
    BY <1>0, <1>3, <1>4, <2>1 DEF Announced, Path, Root
  <2> QED
    BY <1>0, <2>1, <2>2, <2>3, <2>4, <2>5 DEF Path, Root
<1>9. CASE Remove
  <2>1. /\ loop.at = "remove" /\ loop'.at = "idle"
        /\ disk' = [disk EXCEPT ![loop.path] = NoCall]
        /\ UNCHANGED <<events, handled, call>>
    BY <1>9 DEF Remove, Idle
  <2>2. disk'[Path(c)] = c => disk[Path(c)] = c
    BY <2>1
  <2>3. Pending(c)' => Pending(c)
    BY <2>1, <2>2 DEF Pending, Path, Root
  <2>4. First'
    BY <1>0, <1>3, <1>4, <2>1 DEF Announced, Path, Root
  <2> QED
    BY <1>0, <2>1, <2>2, <2>3, <2>4 DEF Handled, Path, Root
<1>10. CASE Restart
  <2>1. loop'.at = "idle" /\ events' = <<>> /\ UNCHANGED <<disk, handled>>
    BY <1>10 DEF Restart, Idle, EventsAtStart
  <2>2. ~Pending(c)' /\ ~Announced(Path(d))'
    BY <2>1 DEF Pending, Announced
  <2> QED
    BY <1>0, <1>3, <1>4, <2>1, <2>2 DEF Path, Root
<1>11. CASE UNCHANGED vars
  BY <1>0, <1>11 DEF vars, Sent, Handled, Pending, Announced, Path, Root
<1> QED
  BY <1>5, <1>6, <1>7, <1>8, <1>9, <1>10, <1>11, AsideStep DEF Next

LEMMA OrderStep == TypeOK /\ FileInv /\ OrderInv /\ [Next]_vars => OrderInv'
<1> SUFFICES ASSUME TypeOK, FileInv, OrderInv, [Next]_vars PROVE OrderInv'
  OBVIOUS
<1>1. ASSUME NEW p \in Earlier
      PROVE  p[1] \in Calls /\ p[2] \in Calls /\ p = <<p[1], p[2]>>
  BY OrderAssumption
<1> QED
  BY <1>1, OrderPairStep DEF OrderInv, Path, Root

\* OrderInv is an invariant.
LEMMA OrderCorrect == Spec => []OrderInv
<1>1. Init => OrderInv
  BY IpcAssumption, OrderAssumption, PathType DEF Init, OrderInv, Idle, Sent, Handled, Pending, Announced
<1> QED
  BY <1>1, OrderStep, TypeCorrect, FileCorrect, PTL DEF Spec

\* InSendOrder: what an agent asks for after something else has returned is never
\* handled before it, whichever directories the files go to, and also when names
\* are shared and files are overwritten, refused or announced more than once.
THEOREM CallsAreHandledInOrder == Spec => InSendOrder
<1>1. ASSUME TypeOK, OrderInv, [Next]_vars, NEW p \in Earlier, Handled(p[2])
      PROVE  handled'[p[1]] = handled[p[1]]
  <2>1. p[1] \in Calls /\ ~Pending(p[1])
    BY <1>1, OrderAssumption DEF OrderInv
  <2>2. CASE Handle
    BY <2>1, <2>2 DEF Handle, Pending, TypeOK
  <2>3. CASE UNCHANGED handled
    BY <2>3
  <2> QED
    BY <1>1, <2>2, <2>3, AsideStep DEF Next, Aside, Rename, Take, Remove, Restart, vars
<1>2. TypeOK /\ OrderInv /\ [Next]_vars =>
        [\A p \in Earlier : Handled(p[2]) => handled'[p[1]] = handled[p[1]]]_vars
  BY <1>1
<1> QED
  BY <1>2, TypeCorrect, OrderCorrect, PTL DEF Spec, InSendOrder
-----------------------------------------------------------------------------
(* The channel implements the mailbox                                      *)

\* The values of the mailbox's variables in a state of the channel.
Ways == [c \in Calls |-> Way(c)]
OrphanCalls == {c \in Calls : TurnOf[c] \in orphans}

\* What is on its way was sent.
LEMMA PendingIsReturned ==
  ASSUME TypeOK, FileInv, NEW c \in Calls, Pending(c) \/ Handled(c)
  PROVE  Returned(c)
BY PathType DEF FileInv, Pending, TypeOK

\* A call stays where it is if these three stay.
LEMMA WayKept ==
  ASSUME NEW c \in Calls, Returned(c)' <=> Returned(c), Handled(c)' <=> Handled(c),
         Pending(c)' <=> Pending(c)
  PROVE  Way(c)' = Way(c)
BY DEF Way

\* What may be lost though the harness lives on.
MayBeLost(c) == Way(c) = "unsent" \/ (Way(c) = "posted" /\ (c \in Big \/ SameName[c] # {}))

\* A step that only loses what may be lost is one of the mailbox, or none.
LEMMA LosingStep ==
  ASSUME UNCHANGED <<handled, OrphanCalls>>,
         \A c \in Calls : Way(c)' = Way(c) \/ (Way(c)' = "lost" /\ MayBeLost(c))
  PROVE  Mail!Next \/ UNCHANGED Mail!vars
<1>1. CASE Ways' = Ways
  BY <1>1 DEF Mail!vars, Ways, OrphanCalls
<1>2. CASE Ways' # Ways
  <2>1. Ways' \in Mail!Losing(Mail!In("unsent") \cup Mail!Exposed)
    <3>1. \A c \in Calls : MayBeLost(c) => c \in Mail!In("unsent") \cup Mail!Exposed
      BY DEF MayBeLost, Mail!In, Mail!Exposed
    <3>2. Ways' \in [Calls -> {"unsent", "posted", "delivered", "lost"}]
      BY DEF Ways, Way
    <3>3. \A c \in Calls : Ways'[c] = Way(c)'
      BY DEF Ways
    <3> QED
      BY <3>1, <3>2, <3>3 DEF Mail!Losing
  <2>2. Mail!Lose
    BY <2>1 DEF Mail!Lose, Ways, OrphanCalls
  <2> QED
    BY <1>2, <2>2 DEF Mail!Next, Ways
<1> QED
  BY <1>1, <1>2

\* A file that appears is posted, or lost at once where nobody learns of it.
LEMMA RenameMail ==
  ASSUME TypeOK, FileInv, OrderInv, NEW c \in Calls, Rename(c)
  PROVE  Mail!Next \/ UNCHANGED Mail!vars
<1> USE IpcAssumption, PathType DEF TypeOK
<1>1. /\ call[c] = "writing" /\ call'[c] \in {"waiting", "done"}
      /\ \A d \in Calls : d # c => call'[d] = call[d]
      /\ disk' = [disk EXCEPT ![Path(c)] = c]
      /\ events' = events \/ events' = Append(events, Path(c))
      /\ UNCHANGED <<loop, handled, orphans>>
  BY DEF Rename
<1>2. /\ \A i \in DOMAIN events : i \in DOMAIN events' /\ events'[i] = events[i]
      /\ \A i \in DOMAIN events' :
           (i \in DOMAIN events /\ events'[i] = events[i]) \/ events'[i] = Path(c)
  <2>1. CASE events' = events
    BY <2>1
  <2>2. CASE events' = Append(events, Path(c))
    <3>1. events \in Seq(Paths) /\ Path(c) \in Paths
      OBVIOUS
    <3> QED
      BY <2>2, <3>1, Appended
  <2> QED
    BY <1>1, <2>1, <2>2
<1>3. ~Returned(c) /\ Returned(c)' /\ ~Handled(c) /\ ~Handled(c)' /\ Way(c) = "unsent"
  <2>1. ~Returned(c) /\ Returned(c)'
    BY <1>1 DEF Returned
  <2>2. ~Handled(c)
    BY <2>1, PendingIsReturned
  <2> QED
    BY <1>1, <2>1, <2>2 DEF Handled, Way
<1>4. ASSUME NEW d \in Calls, d # c
      PROVE  \/ Way(d)' = Way(d)
             \/ Way(d)' = "lost" /\ Way(d) = "posted" /\ d \in SameName[c] /\ SameName[d] # {}
  <2>1. (Returned(d)' <=> Returned(d)) /\ (Handled(d)' <=> Handled(d))
    BY <1>1, <1>4 DEF Returned, Handled
  <2>2. CASE Path(d) # Path(c)
    <3>1. disk'[Path(d)] = disk[Path(d)]
      BY <1>1, <2>2
    <3>2. (\E i \in DOMAIN events' : events'[i] = Path(d))
            <=> (\E i \in DOMAIN events : events[i] = Path(d))
      BY <1>2, <2>2
    <3>3. Pending(d)' <=> Pending(d)
      BY <1>1, <3>1, <3>2 DEF Pending, Path, Root
    <3> QED
      BY <2>1, <3>3, WayKept
  <2>3. CASE Path(d) = Path(c)
    <3>1. disk'[Path(d)] # d
      BY <1>1, <1>4, <2>3
    <3>2. Pending(d)' => Pending(d)
      BY <1>1, <3>1 DEF Pending, Path, Root
    <3>3. d \in SameName[c] /\ c \in SameName[d]
      BY <1>4, <2>3 DEF SameName
    <3>4. CASE Pending(d)' <=> Pending(d)
      BY <2>1, <3>4, WayKept
    <3>5. CASE Pending(d) /\ ~Pending(d)'
      <4>1. Returned(d)
        BY <3>5, PendingIsReturned
      <4> QED
        BY <2>1, <3>3, <3>5, <4>1 DEF Way
    <3> QED
      BY <3>2, <3>4, <3>5
  <2> QED
    BY <2>2, <2>3
<1>5. CASE Way(c)' = "lost"
  <2>1. \A d \in Calls : Way(d)' = Way(d) \/ (Way(d)' = "lost" /\ MayBeLost(d))
    BY <1>3, <1>4, <1>5 DEF MayBeLost
  <2> QED
    BY <1>1, <2>1, LosingStep DEF OrphanCalls
<1>6. CASE Way(c)' = "posted"
  <2>1. Ways[c] = "unsent" /\ Ways'[c] = "posted" /\ Ways' # Ways
    BY <1>3, <1>6 DEF Ways
  <2>2. [Ways' EXCEPT ![c] = "unsent"] \in Mail!Losing(Mail!Exposed \cap SameName[c])
    <3> DEFINE f == [Ways' EXCEPT ![c] = "unsent"]
    <3>1. Ways' \in [Calls -> {"unsent", "posted", "delivered", "lost"}]
      BY DEF Ways, Way
    <3>2. f \in [Calls -> {"unsent", "posted", "delivered", "lost"}]
      BY <3>1
    <3>3. \A d \in Calls : f[d] = IF d = c THEN "unsent" ELSE Way(d)'
      BY <3>1 DEF Ways
    <3>4. ASSUME NEW d \in Calls
          PROVE  f[d] = Way(d) \/ (f[d] = "lost" /\ d \in Mail!Exposed \cap SameName[c])
      <4>1. CASE d = c
        BY <1>3, <3>3, <4>1
      <4>2. CASE d # c
        <5>1. \/ Way(d)' = Way(d)
              \/ Way(d)' = "lost" /\ Way(d) = "posted" /\ d \in SameName[c] /\ SameName[d] # {}
          BY <1>4, <4>2
        <5>2. Way(d) = "posted" /\ SameName[d] # {} => d \in Mail!Exposed
          BY DEF Mail!Exposed, Mail!In
        <5> QED
          BY <3>3, <4>2, <5>1, <5>2
      <4> QED
        BY <4>1, <4>2
    <3> HIDE DEF f
    <3>5. f \in Mail!Losing(Mail!Exposed \cap SameName[c])
      BY <3>2, <3>4 DEF Mail!Losing
    <3> QED
      BY <3>5 DEF f
  <2>3. \A d \in Mail!In("unsent") : <<d, c>> \notin Earlier
    <3>1. ASSUME NEW d \in Calls, <<d, c>> \in Earlier PROVE Way(d) # "unsent"
      <4>1. Sent(c)
        BY <1>1 DEF Sent
      <4>2. call[d] = "done"
        BY <3>1, <4>1 DEF OrderInv
      <4> QED
        BY <4>2 DEF Way, Returned
    <3> QED
      BY <3>1 DEF Mail!In
  <2>4. UNCHANGED <<handled, OrphanCalls>>
    BY <1>1 DEF OrphanCalls
  <2>5. Mail!Post(c)
    BY <2>1, <2>2, <2>3, <2>4 DEF Mail!Post, Ways, OrphanCalls
  <2> QED
    BY <2>1, <2>5 DEF Mail!Next, Ways
<1> QED
  BY <1>3, <1>5, <1>6 DEF Way

\* The loop's steps: what it takes up it delivers or, if it is too big, refuses; a
\* file that it removes in place of another is a rival's.
LEMMA LoopMail ==
  ASSUME TypeOK, FileInv, ChatInv, OrderInv, Take \/ Handle \/ Remove
  PROVE  Mail!Next \/ UNCHANGED Mail!vars
<1> USE IpcAssumption, PathType DEF TypeOK, agents, harness
<1>1. CASE Take
  <2>1. /\ loop.at = "idle" /\ events # <<>>
        /\ UNCHANGED <<disk, handled, call, orphans>> /\ loop' = Work(Head(events))
    BY <1>1 DEF Take
  <2>2. /\ 1 \in DOMAIN events /\ events[1] = Head(events) /\ Head(events) \in Paths
        /\ \A i \in DOMAIN events' :
             i \in Nat /\ i + 1 \in DOMAIN events /\ events'[i] = events[i + 1]
    BY <1>1, HeadTaken DEF Take
  <2>3. ASSUME NEW c \in Calls
        PROVE  Way(c)' = Way(c) \/ (Way(c)' = "lost" /\ MayBeLost(c))
    <3>1. (Returned(c)' <=> Returned(c)) /\ (Handled(c)' <=> Handled(c))
      BY <2>1 DEF Returned, Handled
    <3>2. Pending(c)' => Pending(c)
      <4>1. CASE loop'.at = "handle" /\ loop'.call = c
        <5>1. disk[Head(events)] = c /\ Path(c) = Head(events)
          BY <2>1, <2>2, <4>1 DEF Work, Idle, FileInv
        <5> QED
          BY <2>2, <5>1 DEF Pending
      <4>2. CASE disk[Path(c)] = c /\ \E i \in DOMAIN events' : events'[i] = Path(c)
        BY <2>2, <4>2 DEF Pending
      <4> QED
        BY <2>1, <4>1, <4>2 DEF Pending, Path, Root
    <3>3. CASE Pending(c)' <=> Pending(c)
      BY <3>1, <3>3, WayKept
    <3>4. CASE Pending(c) /\ ~Pending(c)'
      <4>1. CASE Handled(c)
        BY <3>1, <4>1 DEF Way
      <4>2. CASE ~Handled(c)
        <5>1. Returned(c)
          BY <3>4, PendingIsReturned
        <5>2. PICK i \in DOMAIN events : disk[Path(c)] = c /\ events[i] = Path(c)
          BY <2>1, <3>4 DEF Pending
        <5>3. i = 1
          <6>1. ASSUME i # 1 PROVE i - 1 \in DOMAIN events' /\ events'[i - 1] = events[i]
            <7>1. events \in Seq(Paths) /\ events' = Tail(events)
              BY <1>1 DEF Take
            <7> QED
              BY <2>1, <6>1, <7>1, HeadTaken
          <6> QED
            BY <2>1, <3>4, <5>2, <6>1 DEF Pending, Path, Root
        <5>4. c \in Big
          BY <2>1, <2>2, <3>4, <5>2, <5>3 DEF Work, Pending
        <5> QED
          BY <3>1, <3>4, <4>2, <5>1, <5>4 DEF Way, MayBeLost
      <4> QED
        BY <4>1, <4>2
    <3> QED
      BY <3>2, <3>3, <3>4
  <2> QED
    BY <2>1, <2>3, LosingStep DEF OrphanCalls
<1>2. CASE Handle
  <2>0. PICK c \in Calls : c = loop.call /\ loop.at = "handle"
    BY <1>2 DEF Handle
  <2>1. /\ loop.at = "handle" /\ loop' = [loop EXCEPT !.at = "remove"] /\ c \in Calls
        /\ handled' = [handled EXCEPT ![c] = Append(@, loop.chat)]
        /\ UNCHANGED <<disk, events, call, orphans>>
    BY <1>2, <2>0 DEF Handle
  <2>2. loop'.at = "remove" /\ loop'.call = c
    BY <2>0, <2>1
  <2>3. Returned(c) /\ ~Handled(c) /\ Pending(c) /\ Handled(c)'
    <3>1. handled[c] \in Seq(Chats \cup {NoChat}) /\ loop.chat \in Chats \cup {NoChat}
      BY <2>1
    <3>2. Append(handled[c], loop.chat) # <<>>
      BY <3>1, Grown
    <3> QED
      BY <2>0, <2>1, <3>2 DEF FileInv, Pending, Handled
  <2>4. Way(c) = "posted" /\ Way(c)' = "delivered"
    BY <2>1, <2>3 DEF Way, Returned
  <2>5. ASSUME NEW d \in Calls, d # c PROVE Way(d)' = Way(d)
    <3>1. /\ Returned(d)' <=> Returned(d)
          /\ Handled(d)' <=> Handled(d)
      BY <2>1, <2>5 DEF Returned, Handled
    <3>2. Pending(d)' <=> Pending(d)
      BY <2>0, <2>1, <2>2, <2>5 DEF Pending, Path, Root
    <3> QED
      BY <3>1, <3>2, WayKept
  <2>6. Ways' = [Ways EXCEPT ![c] = "delivered"] /\ Ways[c] = "posted" /\ Ways' # Ways
    <3>1. \A d \in Calls : Ways'[d] = IF d = c THEN "delivered" ELSE Ways[d]
      BY <2>4, <2>5 DEF Ways
    <3>2. Ways = [d \in Calls |-> Ways[d]] /\ Ways' = [d \in Calls |-> Ways'[d]]
      BY DEF Ways
    <3>3. Ways[c] = "posted" /\ Ways'[c] = "delivered"
      BY <2>1, <2>4 DEF Ways
    <3> QED
      BY <3>1, <3>2, <3>3
  <2>7. \A d \in Mail!In("unsent") \cup Mail!In("posted") : <<d, c>> \notin Earlier
    <3>1. ASSUME NEW d \in Calls, <<d, c>> \in Earlier
          PROVE  Way(d) # "unsent" /\ Way(d) # "posted"
      <4>1. Sent(c) /\ loop.at # "idle" /\ loop.call = c
        BY <2>0, <2>1 DEF Sent
      <4>2. call[d] = "done" /\ ~Pending(d)
        BY <3>1, <4>1 DEF OrderInv
      <4> QED
        BY <4>2 DEF Way, Returned
    <3> QED
      BY <3>1 DEF Mail!In
  <2>8. /\ loop.chat = ChatFor(Root(c)) \/ (loop.chat = NoChat /\ c \in OrphanCalls)
        /\ UNCHANGED OrphanCalls
    BY <2>0, <2>1 DEF ChatInv, OrphanCalls
  <2>9. Mail!Deliver(c)
    <3>1. \/ handled' = [handled EXCEPT ![c] = Append(@, ChatFor(Root(c)))]
          \/ c \in OrphanCalls /\ handled' = [handled EXCEPT ![c] = Append(@, NoChat)]
      BY <2>1, <2>8
    <3>2. [d \in Calls |-> ChatFor(Root(d))][c] = ChatFor(Root(c))
      BY <2>1
    <3> QED
      BY <2>6, <2>7, <2>8, <3>1, <3>2 DEF Mail!Deliver, Ways, OrphanCalls
  <2> QED
    BY <2>1, <2>6, <2>9 DEF Mail!Next, Ways
<1>3. CASE Remove
  <2>1. /\ loop.at = "remove" /\ loop' = Idle
        /\ disk' = [disk EXCEPT ![loop.path] = NoCall]
        /\ UNCHANGED <<events, handled, call, orphans>>
    BY <1>3 DEF Remove
  <2>2. loop.call \in Calls /\ loop.path = Path(loop.call) /\ Handled(loop.call)
    BY <2>1 DEF FileInv
  <2>3. ASSUME NEW c \in Calls
        PROVE  Way(c)' = Way(c) \/ (Way(c)' = "lost" /\ MayBeLost(c))
    <3>1. (Returned(c)' <=> Returned(c)) /\ (Handled(c)' <=> Handled(c))
      BY <2>1 DEF Returned, Handled
    <3>2. disk'[Path(c)] = c => disk[Path(c)] = c
      BY <2>1
    <3>3. Pending(c)' => Pending(c)
      BY <2>1, <3>2 DEF Pending, Path, Root, Idle
    <3>4. CASE Pending(c)' <=> Pending(c)
      BY <3>1, <3>4, WayKept
    <3>5. CASE Pending(c) /\ ~Pending(c)'
      <4>1. CASE Handled(c)
        BY <3>1, <4>1 DEF Way
      <4>2. CASE ~Handled(c)
        <5>1. Returned(c)
          BY <3>5, PendingIsReturned
        <5>2. c # loop.call /\ Path(c) = Path(loop.call)
          BY <2>1, <2>2, <3>5, <4>2 DEF Pending, Path, Root
        <5>3. SameName[c] # {}
          BY <2>2, <5>2 DEF SameName
        <5> QED
          BY <3>1, <3>5, <4>2, <5>1, <5>3 DEF Way, MayBeLost
      <4> QED
        BY <4>1, <4>2
    <3> QED
      BY <3>3, <3>4, <3>5
  <2> QED
    BY <2>1, <2>3, LosingStep DEF OrphanCalls
<1> QED
  BY <1>1, <1>2, <1>3

\* The steps beside the files lose at most calls that were not sent.
LEMMA AsideMail ==
  ASSUME TypeOK, FileInv, Aside, UNCHANGED orphans
  PROVE  Mail!Next \/ UNCHANGED Mail!vars
<1>1. ASSUME NEW c \in Calls
      PROVE  Way(c)' = Way(c) \/ (Way(c)' = "lost" /\ MayBeLost(c))
  <2>1. (Handled(c)' <=> Handled(c)) /\ (Pending(c)' <=> Pending(c))
    BY DEF Aside, Handled, Pending, Path, Root
  <2>2. CASE Returned(c)' <=> Returned(c)
    BY <2>1, <2>2, WayKept
  <2>3. CASE ~Returned(c) /\ Returned(c)'
    <3>1. ~Handled(c) /\ ~Pending(c)
      BY <2>3, PendingIsReturned
    <3> QED
      BY <2>1, <2>3, <3>1 DEF Way, MayBeLost
  <2> QED
    BY <2>2, <2>3 DEF Aside
<1> QED
  BY <1>1, LosingStep DEF Aside, OrphanCalls

\* After a restart nothing is on its way.
LEMMA RestartMail ==
  ASSUME TypeOK, FileInv, Restart
  PROVE  Mail!Next \/ UNCHANGED Mail!vars
<1>1. /\ loop'.at = "idle" /\ events' = <<>> /\ handled' = handled /\ orphans \subseteq orphans'
      /\ \A c \in Calls : Returned(c) => Returned(c)'
  BY DEF Restart, Close, Idle, EventsAtStart, Returned, TypeOK
<1>2. ASSUME NEW c \in Calls
      PROVE  /\ Way(c)' = Way(c) \/ (Way(c)' = "lost" /\ Way(c) \in {"unsent", "posted"})
             /\ Way(c) = "posted" => Way(c)' = "lost"
  <2>1. ~Pending(c)' /\ (Handled(c)' <=> Handled(c))
    BY <1>1 DEF Pending, Handled
  <2>2. Handled(c) => Returned(c)
    BY PendingIsReturned
  <2> QED
    BY <1>1, <2>1, <2>2 DEF Way
<1>3. OrphanCalls \subseteq OrphanCalls' /\ OrphanCalls' \in SUBSET Calls
  BY <1>1 DEF OrphanCalls
<1>4. CASE OrphanCalls' # OrphanCalls \/ Mail!In("posted") # {}
  <2>1. \A c \in Mail!In("posted") : Ways'[c] = "lost"
    BY <1>2 DEF Mail!In, Ways
  <2>2. Ways' \in Mail!Losing(Mail!In("unsent") \cup Mail!In("posted"))
    <3>1. Ways' \in [Calls -> {"unsent", "posted", "delivered", "lost"}]
      BY DEF Ways, Way
    <3>2. \A c \in Calls : Ways'[c] = Way(c)'
      BY DEF Ways
    <3>3. \A c \in Calls : Way(c) \in {"unsent", "posted"} => c \in Mail!In("unsent") \cup Mail!In("posted")
      BY DEF Mail!In
    <3> QED
      BY <1>2, <3>1, <3>2, <3>3 DEF Mail!Losing
  <2>3. OrphanCalls' \in {o \in SUBSET Calls : OrphanCalls \subseteq o}
    BY <1>3
  <2>4. Mail!Crash
    BY <1>1, <1>4, <2>1, <2>2, <2>3 DEF Mail!Crash, Ways, OrphanCalls
  <2> QED
    BY <2>4 DEF Mail!Next
<1>5. CASE OrphanCalls' = OrphanCalls /\ Mail!In("posted") = {}
  <2>1. \A c \in Calls : Way(c) # "posted"
    BY <1>5 DEF Mail!In
  <2>2. \A c \in Calls : Way(c)' = Way(c) \/ (Way(c)' = "lost" /\ MayBeLost(c))
    BY <1>2, <2>1 DEF MayBeLost
  <2> QED
    BY <1>1, <1>5, <2>2, LosingStep
<1> QED
  BY <1>4, <1>5

LEMMA MailStep ==
  TypeOK /\ FileInv /\ ChatInv /\ OrderInv /\ [Next]_vars => [Mail!Next]_(Mail!vars)
<1> SUFFICES ASSUME TypeOK, FileInv, ChatInv, OrderInv, [Next]_vars
             PROVE  Mail!Next \/ UNCHANGED Mail!vars
  OBVIOUS
<1>1. ASSUME NEW c \in Calls, Rename(c) PROVE Mail!Next \/ UNCHANGED Mail!vars
  BY <1>1, RenameMail
<1>2. CASE Take \/ Handle \/ Remove
  BY <1>2, LoopMail
<1>3. CASE Restart
  BY <1>3, RestartMail
<1>4. CASE Aside /\ UNCHANGED orphans
  BY <1>4, AsideMail
<1>5. CASE UNCHANGED vars
  <2>1. Aside /\ UNCHANGED orphans
    BY <1>5 DEF vars, agents, harness, Aside, Returned
  <2> QED
    BY <2>1, AsideMail
<1>6. ASSUME NEW r \in Roots, Register(r) PROVE Aside /\ UNCHANGED orphans
  BY <1>6, AsideStep DEF Register, agents
<1>7. ASSUME NEW k \in Chats, Arrive(k) \/ QuietJob(k) \/ Switch(k) PROVE Aside /\ UNCHANGED orphans
  BY <1>7, AsideStep DEF Arrive, QuietJob, Switch, agents
<1>8. ASSUME NEW t \in Turns, Exec(t) \/ ExecSub(t) \/ End(t) \/ Kill(t) PROVE Aside /\ UNCHANGED orphans
  BY <1>8, AsideStep DEF Exec, ExecSub, End, Kill
<1>9. ASSUME NEW c \in Calls,
             SendMessage(c) \/ CallTool(c) \/ WriteFails(c) \/ Collect(c) \/ Timeout(c)
      PROVE  Aside /\ UNCHANGED orphans
  BY <1>9, AsideStep DEF SendMessage, CallTool, WriteFails, Collect, Timeout
<1>10. ASSUME Serve \/ ServeFails PROVE Aside /\ UNCHANGED orphans
  BY <1>10, AsideStep DEF Serve, ServeFails, agents
<1> QED
  BY <1>1, <1>2, <1>3, <1>4, <1>5, <1>6, <1>7, <1>8, <1>9, <1>10 DEF Next

\* The channel keeps what Mailbox promises: each file is handled at most once, under
\* its chat, after all its agent had asked for before, and is lost only in a crash,
\* when it is too big, or to a file of the same name.
THEOREM ChannelImplementsMailbox == Spec => ImplementsMailbox
<1>1. Init => Mail!Init
  <2> SUFFICES ASSUME Init PROVE Mail!Init
    OBVIOUS
  <2>1. \A c \in Calls : Way(c) = "unsent"
    BY DEF Init, Way, Returned
  <2> QED
    BY <2>1 DEF Init, Mail!Init
<1> QED
  BY <1>1, MailStep, TypeCorrect, FileCorrect, ChatCorrect, OrderCorrect, PTL
  DEF ImplementsMailbox, Spec, Mail!Spec
=============================================================================
