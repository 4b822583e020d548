-------------------------------- MODULE Ipc --------------------------------
(***************************************************************************)
(* The file channel between the agents and the harness.  pitu-mcp, started *)
(* afresh by every `opencode run`, turns a tool call into a file renamed   *)
(* into a directory of its root (cmd/pitu-mcp/tools.go, dispatch.go); the  *)
(* watcher announces it, the watch loop routes it to a handler and removes *)
(* it (internal/ipc/watcher.go, router.go; the handlers in cmd/pitu/       *)
(* main.go); a capability request is answered by a file in responses/,     *)
(* for which the tool polls until its timeout.                             *)
(*                                                                         *)
(* A root is the ipc/ directory of a chat or of one of its sub-agents: the *)
(* chat or the sub-agent names it.                                         *)
(***************************************************************************)
EXTENDS Naturals, Sequences

CONSTANTS
  Chats, SubAgents, Turns, Calls,
  NoChat,        \* the empty chat ID of a directory the watcher has no meta for
  NoCall,        \* an empty path
  Subs,          \* sequence: the watched directories in the order of RegisterDir
  ChatOf,        \* [SubAgents -> Chats]: the chat a sub-agent works for
  SpawnedBy,     \* [SubAgents -> Calls]: the call that spawns it
  RootOf,        \* [Turns -> Chats \cup SubAgents]: where a turn's agent runs
  TurnOf,        \* [Calls -> Turns]: the turn that makes a call
  SubOf,         \* [Calls -> Range(Subs)]: the directory its file goes to
  NameOf,        \* [Calls -> names]: the UnixNano time of its rename
  Earlier,       \* set of <<c, d>>: the agent makes d when c has returned
  Big,           \* the calls whose file is over maxIPCFileSize
  Room,          \* the buffer of a chat's job channel
  MaxEvents,     \* the kernel's event queue
  MaxLives       \* bound: lives of the harness

ASSUME IpcAssumption ==
  /\ Room \in Nat \ {0} /\ MaxEvents \in Nat \ {0} /\ MaxLives \in Nat \ {0}
  /\ Subs \in Seq(STRING)
  /\ ChatOf \in [SubAgents -> Chats]
  /\ RootOf \in [Turns -> Chats \cup SubAgents]
  /\ TurnOf \in [Calls -> Turns]
  /\ SubOf \in [Calls -> {Subs[i] : i \in DOMAIN Subs}]
  /\ Chats \cap SubAgents = {} /\ NoChat \notin Chats /\ NoCall \notin Calls

VARIABLES
  life,      \* the current life of the harness
  reg,       \* half-steps of RegisterDir done: odd = a directory watched, no meta yet
  spawned,   \* the sub-agents whose goroutine runs in this life
  backlog,   \* jobs waiting in a chat's channel
  turn,      \* a turn: "new", "open" or "over"
  orphans,   \* the turns that ever outlived their harness
  tools,     \* the turns whose pitu-mcp registered the capability's tools
  latched,   \* the turns whose sendMessageCalled is set
  call,      \* a call: "idle", "writing", "waiting", "done"
  disk,      \* what a path of a watched directory holds
  events,    \* the announced paths
  loop,      \* the watch loop: its step and the file it works on
  handled,   \* the handler calls made for a file: the chat IDs passed
  serving,   \* the goroutines of handleCapabilityRequest: <<call, chat ID>>
  answers,   \* the files in responses/: <<call, root>>
  announced, \* the calls whose file was announced to a harness that lived on
  enabled    \* chat_capabilities: the chats the capability is on for

agents == <<turn, orphans, tools, latched, call>>
harness == <<life, reg, spawned, backlog, events, loop, serving>>
vars == <<agents, harness, disk, handled, answers, announced, enabled>>

Roots == Chats \cup SubAgents
ChatFor(r) == IF r \in Chats THEN r ELSE ChatOf[r]
Root(c) == RootOf[TurnOf[c]]
Path(c) == <<Root(c), SubOf[c], NameOf[c]>>
Paths == {Path(c) : c \in Calls}

\* Calls that share a path read the clock at one moment, and so after the same
\* calls have returned: no clock is set back while an agent works.
ASSUME OrderAssumption ==
  /\ Earlier \subseteq Calls \X Calls
  /\ \A p \in Earlier : p[1] # p[2]
  /\ \A p \in Earlier : \A f \in Calls : Path(f) = Path(p[2]) => <<p[1], f>> \in Earlier

Place(s) == CHOOSE i \in DOMAIN Subs : Subs[i] = s
Watched(p) == reg[p[1]] >= 2 * Place(p[2]) - 1
Meta(p) == IF reg[p[1]] >= 2 * Place(p[2]) THEN ChatFor(p[1]) ELSE NoChat

\* Mutant: RegisterDir returns before it has written the last meta.
AllWatched(r) == reg[r] >= 2 * Len(Subs) - 1
Registered(r) == reg[r] = 2 * Len(Subs)

Live == {t \in Turns : turn[t] = "open"}
Busy(c) == call[c] \in {"writing", "waiting"}
Returned(c) == call[c] \in {"waiting", "done"}
CallsOf(t) == {c \in Calls : TurnOf[c] = t}
WorkerFree(k) == \A t \in Live \ orphans : RootOf[t] # k

Idle == [at |-> "idle", path |-> <<>>, call |-> NoCall, chat |-> NoChat]

TypeOK ==
  /\ life \in 1..MaxLives
  /\ reg \in [Roots -> 0..(2 * Len(Subs))]
  /\ spawned \subseteq SubAgents
  /\ backlog \in [Chats -> 0..Room]
  /\ turn \in [Turns -> {"new", "open", "over"}]
  /\ orphans \subseteq Turns /\ tools \subseteq Turns /\ latched \subseteq Turns
  /\ call \in [Calls -> {"idle", "writing", "waiting", "done"}]
  /\ disk \in [Paths -> Calls \cup {NoCall}]
  /\ events \in Seq(Paths) /\ Len(events) <= MaxEvents
  /\ loop \in [at : {"idle", "handle", "remove"}, path : Paths \cup {<<>>},
               call : Calls \cup {NoCall}, chat : Chats \cup {NoChat}]
  /\ loop.at # "idle" => loop.call \in Calls /\ loop.path \in Paths
  /\ handled \in [Calls -> Seq(Chats \cup {NoChat})]
  /\ serving \subseteq Calls \X (Chats \cup {NoChat})
  /\ answers \subseteq Calls \X (Chats \cup {NoChat})
  /\ announced \subseteq Calls /\ enabled \subseteq Chats

Init ==
  /\ life = 1
  /\ reg = [r \in Roots |-> 0] /\ spawned = {}
  /\ backlog = [k \in Chats |-> 0]
  /\ turn = [t \in Turns |-> "new"]
  /\ orphans = {} /\ tools = {} /\ latched = {}
  /\ call = [c \in Calls |-> "idle"]
  /\ disk = [p \in Paths |-> NoCall] /\ events = <<>> /\ loop = Idle
  /\ handled = [c \in Calls |-> <<>>] /\ serving = {} /\ answers = {}
  /\ announced = {} /\ enabled = {}

-----------------------------------------------------------------------------
(* The harness around the channel: containers, jobs, settings.             *)

\* RegisterDir, called once the container runs: fsWatcher.Add, then the meta
\* under the lock, directory by directory.
Register(r) ==
  /\ r \in Chats \cup spawned
  /\ ~Registered(r)
  /\ reg' = [reg EXCEPT ![r] = @ + 1]
  /\ UNCHANGED <<life, spawned, backlog, events, loop, serving,
                 agents, disk, handled, answers, announced, enabled>>

\* A message from Telegram or a schedule reaches the chat's channel.
Arrive(k) ==
  /\ backlog[k] < Room
  /\ backlog' = [backlog EXCEPT ![k] = @ + 1]
  /\ UNCHANGED <<life, reg, spawned, events, loop, serving,
                 agents, disk, handled, answers, announced, enabled>>

\* GetCapabilities, through the lookup that main injects, which logs an error and
\* returns none; PITU_CAPABILITIES.
Granted(t) == {tools} \cup (IF RootOf[t] \in enabled THEN {tools \cup {t}} ELSE {})

\* The chat's worker runs a job: execOpenCode reads the settings and starts an
\* agent, and with it a pitu-mcp whose latch is clear.
Exec(t) ==
  LET k == RootOf[t] IN
  /\ k \in Chats
  /\ turn[t] = "new" /\ WorkerFree(k) /\ Registered(k)
  /\ backlog[k] > 0
  /\ backlog' = [backlog EXCEPT ![k] = @ - 1]
  /\ turn' = [turn EXCEPT ![t] = "open"]
  /\ tools' \in Granted(t)
  /\ UNCHANGED <<orphans, latched, call, life, reg, spawned, events, loop,
                 serving, disk, handled, answers, announced, enabled>>

\* A job that fails, or whose agent calls no tool.
QuietJob(k) ==
  /\ WorkerFree(k) /\ backlog[k] > 0
  /\ backlog' = [backlog EXCEPT ![k] = @ - 1]
  /\ UNCHANGED <<life, reg, spawned, events, loop, serving,
                 agents, disk, handled, answers, announced, enabled>>

\* Mutant: the exec of a sub-agent gets the capabilities of its chat.
ToolsOfChat(t) == IF ChatFor(RootOf[t]) \in enabled THEN tools \cup {t} ELSE tools
\* BuildSpawnArgs sets no PITU_CAPABILITIES.
SubTools(t) == tools

\* The goroutine of SpawnSubAgent.
ExecSub(t) ==
  /\ RootOf[t] \in spawned /\ Registered(RootOf[t])
  /\ turn[t] = "new"
  /\ turn' = [turn EXCEPT ![t] = "open"]
  /\ tools' = SubTools(t)
  /\ UNCHANGED <<orphans, latched, call,
                 harness, disk, handled, answers, announced, enabled>>

\* `pitu capabilities enable|disable`, a process of its own on the same store.
\* Bound: while a turn of the chat is still to read the setting.
Switch(k) ==
  /\ \E t \in Turns : RootOf[t] = k /\ turn[t] = "new"
  /\ enabled' = IF k \in enabled THEN enabled \ {k} ELSE enabled \cup {k}
  /\ UNCHANGED <<agents, harness, disk, handled, answers, announced>>

\* Turns are over: their calls are done, made or not, and pitu-mcp exits.
Close(ts) ==
  /\ tools' = tools \ ts /\ latched' = latched \ ts
  /\ turn' = [t \in Turns |-> IF t \in ts THEN "over" ELSE turn[t]]
  /\ call' = [c \in Calls |-> IF TurnOf[c] \in ts THEN "done" ELSE call[c]]

\* The agent is done: no call of its turn is under way.
End(t) ==
  /\ t \in Live
  /\ \A c \in CallsOf(t) : ~Busy(c)
  /\ Close({t})
  /\ UNCHANGED <<orphans, harness, disk, handled, answers, announced, enabled>>

\* The container is stopped under it (podman stop kills pitu-mcp too).
Kill(t) ==
  /\ t \in Live
  /\ Close({t})
  /\ UNCHANGED <<orphans, harness, disk, handled, answers, announced, enabled>>

-----------------------------------------------------------------------------
(* pitu-mcp: one action per step of a tool call.  The first one reaches to *)
(* the clock reading that names the file.                                  *)

Callable(c) ==
  /\ TurnOf[c] \in Live /\ call[c] = "idle"
  /\ \A d \in Calls : <<d, c>> \in Earlier => call[d] = "done"

\* Mutant: the latch is set when a write has succeeded.
RefusedLate(c) ==
  \E d \in CallsOf(TurnOf[c]) : SubOf[d] = "messages" /\ call[d] = "done"
Refused(c) == TurnOf[c] \in latched

\* sendMessage: the CompareAndSwap refuses a second call of the turn.
SendMessage(c) ==
  /\ Callable(c) /\ SubOf[c] = "messages"
  /\ latched' = latched \cup {TurnOf[c]}
  /\ call' = [call EXCEPT ![c] = IF Refused(c) THEN "done" ELSE "writing"]
  /\ UNCHANGED <<turn, orphans, tools,
                 harness, disk, handled, answers, announced, enabled>>

\* pitu-mcp registers the tools of a capability only if its exec was granted it.
Offered(c) == SubOf[c] = "requests" => TurnOf[c] \in tools

\* The fire-and-forget tools, and a tool of the capability.
CallTool(c) ==
  /\ Callable(c) /\ SubOf[c] # "messages" /\ Offered(c)
  /\ call' = [call EXCEPT ![c] = "writing"]
  /\ UNCHANGED <<turn, orphans, tools, latched,
                 harness, disk, handled, answers, announced, enabled>>

\* writeIPC: the rename makes a complete file appear and announces it once,
\* unless the directory is unwatched or the event queue is full.
Rename(c) ==
  /\ call[c] = "writing"
  /\ disk' = [disk EXCEPT ![Path(c)] = c]
  /\ IF Watched(Path(c)) /\ Len(events) < MaxEvents
     THEN events' = Append(events, Path(c)) /\ announced' = announced \cup {c}
     ELSE UNCHANGED <<events, announced>>
  /\ call' = [call EXCEPT ![c] = IF SubOf[c] = "requests" THEN "waiting" ELSE "done"]
  /\ UNCHANGED <<turn, orphans, tools, latched, life, reg, spawned, backlog,
                 loop, serving, handled, answers, enabled>>

\* writeIPC: the temp file, its write or its rename fails.
WriteFails(c) ==
  /\ call[c] = "writing"
  /\ call' = [call EXCEPT ![c] = "done"]
  /\ UNCHANGED <<turn, orphans, tools, latched,
                 harness, disk, handled, answers, announced, enabled>>

\* dispatchCapability: a tick finds the response in the tool's own root, and
\* consumes it.
Collect(c) ==
  /\ call[c] = "waiting" /\ <<c, Root(c)>> \in answers
  /\ answers' = answers \ {<<c, Root(c)>>}
  /\ call' = [call EXCEPT ![c] = "done"]
  /\ UNCHANGED <<turn, orphans, tools, latched,
                 harness, disk, handled, announced, enabled>>

\* Mutant: the wait has no deadline.
NoDeadline(c) == FALSE /\ UNCHANGED vars

\* dispatchCapability: the deadline passes; the response may be there by now.
Timeout(c) ==
  /\ call[c] = "waiting"
  /\ call' = [call EXCEPT ![c] = "done"]
  /\ UNCHANGED <<turn, orphans, tools, latched,
                 harness, disk, handled, answers, announced, enabled>>

-----------------------------------------------------------------------------
(* The watch loop and the handlers.                                        *)

\* Mutant: an event from a directory without a meta is skipped.
WorkIfKnown(p) ==
  IF disk[p] \in Calls \ Big /\ Meta(p) # NoChat
  THEN [at |-> "handle", path |-> p, call |-> disk[p], chat |-> Meta(p)] ELSE Idle
\* What Route is given and reads: an error (the file is gone or too big) ends it.
Work(p) ==
  IF disk[p] \in Calls \ Big
  THEN [at |-> "handle", path |-> p, call |-> disk[p], chat |-> Meta(p)] ELSE Idle

\* Mutant: a goroutine per event.
TakeAny ==
  /\ loop.at = "idle" /\ events # <<>>
  /\ \E i \in DOMAIN events :
       /\ loop' = Work(events[i])
       /\ events' = SubSeq(events, 1, i - 1) \o SubSeq(events, i + 1, Len(events))
  /\ UNCHANGED <<life, reg, spawned, backlog, serving,
                 agents, disk, handled, answers, announced, enabled>>

\* Watch receives an event and looks its meta up; Route stats the file and reads
\* it, here in one step.  After an error the loop goes on and leaves the file there.
Take ==
  /\ loop.at = "idle" /\ events # <<>>
  /\ loop' = Work(Head(events))
  /\ events' = Tail(events)
  /\ UNCHANGED <<life, reg, spawned, backlog, serving,
                 agents, disk, handled, answers, announced, enabled>>

\* A message with a SubAgentID is bubbled up: the watch loop itself enqueues a
\* job, and waits while the chat's channel is full.
Bubbles(c) == SubOf[c] = "messages" /\ Root(c) \in SubAgents

\* Mutant: the loop does not wait for the channel.
NoWait(c, k) == TRUE
RoomFor(c, k) == Bubbles(c) /\ k \in Chats => backlog[k] < Room

\* Route's switch: the handler of the directory runs to its end in the loop.
Handle ==
  LET c == loop.call  k == loop.chat IN
  /\ loop.at = "handle"
  /\ RoomFor(c, k)
  /\ backlog' = IF Bubbles(c) /\ k \in Chats THEN [backlog EXCEPT ![k] = @ + 1]
                ELSE backlog
  /\ spawned' = IF k \in Chats
                THEN spawned \cup {s \in SubAgents : SpawnedBy[s] = c} ELSE spawned
  /\ serving' = IF SubOf[c] = "requests" THEN serving \cup {<<c, k>>} ELSE serving
  /\ handled' = [handled EXCEPT ![c] = Append(@, k)]
  /\ loop' = [loop EXCEPT !.at = "remove"]
  /\ UNCHANGED <<life, reg, events, agents, disk, answers, announced, enabled>>

\* os.Remove after Route: it removes what the path holds by now.
Remove ==
  /\ loop.at = "remove"
  /\ disk' = [disk EXCEPT ![loop.path] = NoCall]
  /\ loop' = Idle
  /\ UNCHANGED <<life, reg, spawned, backlog, events, serving,
                 agents, handled, answers, announced, enabled>>

\* handleCapabilityRequest's goroutine: the response goes to the chat's root.
Serve ==
  \E s \in serving :
     /\ serving' = serving \ {s}
     /\ answers' = answers \cup {s}
     /\ UNCHANGED <<life, reg, spawned, backlog, events, loop,
                    agents, disk, handled, announced, enabled>>

\* WriteResponse fails: only a log line says so.
ServeFails ==
  \E s \in serving :
     /\ serving' = serving \ {s}
     /\ UNCHANGED <<life, reg, spawned, backlog, events, loop,
                    agents, disk, handled, answers, announced, enabled>>

\* The file of c is announced, or read and about to be handled.
Pending(c) ==
  \/ disk[Path(c)] = c /\ \E i \in DOMAIN events : events[i] = Path(c)
  \/ loop.at = "handle" /\ loop.call = c

\* Mutant: the start announces a file it finds.
FoundAtStart ==
  LET found == {p \in Paths : disk[p] # NoCall} IN
  IF found = {} THEN <<>> ELSE <<CHOOSE p \in found : TRUE>>
\* A new watcher knows of no file.
EventsAtStart == <<>>

\* The harness dies and is started again.  Files and containers stay; the
\* watches, the events, the jobs and the goroutines are gone, and so are the
\* agents, except those that run on inside their container.
Restart ==
  /\ life < MaxLives
  /\ life' = life + 1
  /\ reg' = [r \in Roots |-> 0] /\ spawned' = {}
  /\ backlog' = [k \in Chats |-> 0]
  /\ events' = EventsAtStart /\ loop' = Idle /\ serving' = {}
  /\ announced' = {c \in announced : ~Pending(c)}
  /\ \E left \in SUBSET Live :
       /\ Close(Live \ left)
       /\ orphans' = orphans \cup left
  /\ UNCHANGED <<disk, handled, answers, enabled>>

-----------------------------------------------------------------------------
Next ==
  \/ \E r \in Roots : Register(r)
  \/ \E k \in Chats : Arrive(k) \/ QuietJob(k) \/ Switch(k)
  \/ \E t \in Turns : Exec(t) \/ ExecSub(t) \/ End(t) \/ Kill(t)
  \/ \E c \in Calls : \/ SendMessage(c) \/ CallTool(c) \/ Rename(c) \/ WriteFails(c)
                      \/ Collect(c) \/ Timeout(c)
  \/ Take \/ Handle \/ Remove \/ Serve \/ ServeFails \/ Restart

Spec == Init /\ [][Next]_vars

(* Goroutines and processes run; a job's agent ends once its calls have    *)
(* returned.  Go hands a freed slot of a channel to the sender that has    *)
(* waited longest: SF for Handle.  Nobody has to call, kill or crash.      *)
Fairness ==
  /\ WF_vars(Take) /\ SF_vars(Handle) /\ WF_vars(Remove)
  /\ WF_vars(\E c \in Calls : Rename(c) \/ WriteFails(c))
  /\ WF_vars(\E c \in Calls : Timeout(c))
  /\ WF_vars(\E t \in Turns : End(t))
  /\ \A k \in Chats : WF_vars(QuietJob(k))

FairSpec == Spec /\ Fairness

-----------------------------------------------------------------------------
(* What the channel promises.                                              *)

\* No file is handled twice, whatever is overwritten, refused, left behind by
\* a crash or announced again (Route before os.Remove, no scan at a start).
HandledAtMostOnce == \A c \in Calls : Len(handled[c]) <= 1

\* A handler gets the chat of the directory.  Only an agent that outlived its
\* harness can beat RegisterDir to a directory and be handled under no chat.
UnderItsChat ==
  \A c \in Calls : \A i \in DOMAIN handled[c] :
     \/ handled[c][i] = ChatFor(Root(c))
     \/ handled[c][i] = NoChat /\ TurnOf[c] \in orphans

Handled(c) == handled[c] # <<>>

\* "Exactly one reply per inbound message": of the sendMessage calls of a turn,
\* concurrent ones included, at most one reaches the handler (tools.go latch).
OneReply ==
  \A c, d \in Calls :
     /\ SubOf[c] = "messages" /\ SubOf[d] = "messages" /\ TurnOf[c] = TurnOf[d]
     /\ Handled(c) /\ Handled(d)
     => c = d

\* Calls an agent makes one after the other are handled in that order, though
\* their files go to different directories: no earlier one comes late.
InSendOrder ==
  [][\A p \in Earlier : Handled(p[2]) => handled'[p[1]] = handled[p[1]]]_vars

\* The response is written where the caller polls.  handleCapabilityRequest
\* knows only the chat: it is right because no sub-agent has the tools.
AnswersReachTheCaller ==
  \A a \in answers \cup serving : a[2] = Root(a[1]) \/ TurnOf[a[1]] \in orphans

\* An announced file is handled or on the way to its handler, unless it is too
\* big for Route or another file of the same name took its place.
Overwritable(c) == \E d \in Calls \ {c} : Path(d) = Path(c)
NoSilentLoss ==
  \A c \in announced : Handled(c) \/ Pending(c) \/ c \in Big \/ Overwritable(c)

\* Where a call is on its way from the agent to the handler.
Way(c) ==
  IF ~Returned(c) THEN "unsent"
  ELSE IF Handled(c) THEN "delivered"
  ELSE IF Pending(c) THEN "posted" ELSE "lost"

\* The calls whose file has the same name.
SameName == [c \in Calls |-> {d \in Calls \ {c} : Path(d) = Path(c)}]

\* The channel implements the mailbox: a call's file is posted when its rename is
\* announced, and delivered when Route calls its handler.
Mail == INSTANCE Mailbox WITH
  Rivals   <- SameName,
  ChatOf   <- [c \in Calls |-> ChatFor(Root(c))],
  status   <- [c \in Calls |-> Way(c)],
  inbox    <- handled,
  orphaned <- {c \in Calls : TurnOf[c] \in orphans}

\* Refinement of the promise stated in Mailbox: at most once, under its chat, in
\* order, and lost only as it says (watcher.go:71-102, router.go).
ImplementsMailbox == Mail!Spec

\* The calls are finite: in the end every announced file has been taken and the
\* watch loop is back at its select.  Neither a full channel nor an agent that
\* waits for the loop itself to route its request holds it for ever.
ChannelDrains == <>[](loop.at = "idle" /\ events = <<>>)

=============================================================================
