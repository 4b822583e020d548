---------------------------- MODULE DispatchQueue ----------------------------
(***************************************************************************)
(* internal/queue/queue.go: one buffered channel and one worker goroutine  *)
(* per chat, a semaphore channel shared by all workers, a mutex over the   *)
(* map of channels, and a done channel that Stop closes.                   *)
(*                                                                         *)
(* A task stands for one call of Enqueue: the Telegram handler, the IPC    *)
(* watch loop and the cron goroutines make them concurrently.  Every step  *)
(* is what one goroutine does between two points where another can run.    *)
(*                                                                         *)
(* Go's channels are modelled by their rules: a send to a full channel     *)
(* parks the sender in the channel's queue, a receive from a full channel  *)
(* lets the first parked sender in, closing a channel wakes the parked     *)
(* goroutines at once, a send on a closed channel panics, and a select     *)
(* with several ready cases takes any of them.                             *)
(***************************************************************************)
EXTENDS Integers, Sequences, FiniteSets

CONSTANTS Chats,          \* chat identifiers, the keys of q.chats
          Tasks,          \* the calls of Enqueue
          ChatOf,         \* the chat each call names
          Cap,            \* the buffer of a chat's channel (256 in the code)
          MaxConcurrent,  \* the buffer of q.sem; the configuration may say 0
          NoTask          \* a worker that holds no task

ASSUME ConstantsAssumption ==
  /\ IsFiniteSet(Chats)
  /\ ChatOf \in [Tasks -> Chats]
  /\ Cap \in Nat \ {0}
  /\ MaxConcurrent \in Nat
  /\ NoTask \notin Tasks

VARIABLES chats,     \* the chats that have a channel in q.chats
          closed,    \* the chats whose channel Stop has closed
          buf,       \* the tasks buffered in each channel
          sendq,     \* the callers parked on each full channel, oldest first
          done,      \* q.done is closed
          sem,       \* the number of slots taken in q.sem
          worker,    \* where each chat's worker is
          hand,      \* the task each worker took and has not finished
          call,      \* where each call of Enqueue is
          stop,      \* where the one effective call of Stop is
          panicked,  \* the process died of a panic
          sent,      \* history: the tasks each channel accepted, in order
          ran        \* history: the tasks each chat's worker finished, in order

queueVars == <<chats, closed, buf, sendq, done>>
vars == <<chats, closed, buf, sendq, done, sem, worker, hand, call, stop,
          panicked, sent, ran>>

CallStates   == {"new", "select", "parked", "accepted", "dropped"}
WorkerStates == {"none", "recv", "acquire", "running", "exited"}
StopStates   == {"idle", "signalled", "closing", "waiting", "returned"}

Live == {c \in Chats : worker[c] \in {"recv", "acquire", "running"}}
Running == {c \in Chats : worker[c] = "running"}

Init ==
  /\ chats = {} /\ closed = {}
  /\ buf = [c \in Chats |-> <<>>]
  /\ sendq = [c \in Chats |-> <<>>]
  /\ done = FALSE
  /\ sem = 0
  /\ worker = [c \in Chats |-> "none"]
  /\ hand = [c \in Chats |-> NoTask]
  /\ call = [t \in Tasks |-> "new"]
  /\ stop = "idle"
  /\ panicked = FALSE
  /\ sent = [c \in Chats |-> <<>>]
  /\ ran = [c \in Chats |-> <<>>]

-----------------------------------------------------------------------------
(* Enqueue                                                                 *)

\* Stop keeps q.mu while it closes the channels; a lookup holds it for one step.
MuFree == stop # "closing"

\* The map lookup under q.mu finds the chat's channel.
FindChannel(t) ==
  /\ call[t] = "new" /\ MuFree /\ ChatOf[t] \in chats
  /\ call' = [call EXCEPT ![t] = "select"]
  /\ UNCHANGED <<queueVars, sem, worker, hand, stop, panicked, sent, ran>>

\* The WaitGroup panics when its counter leaves zero while Wait is waking up.
WaitGroupReused == stop = "waiting" /\ chats # {} /\ Live = {}

\* The map lookup finds nothing: make the channel, count and start its worker.
CreateChannel(t) ==
  LET c == ChatOf[t] IN
  /\ call[t] = "new" /\ MuFree /\ c \notin chats
  /\ chats' = chats \cup {c}
  /\ worker' = [worker EXCEPT ![c] = "recv"]
  /\ call' = [call EXCEPT ![t] = "select"]
  /\ panicked' \in (IF WaitGroupReused THEN BOOLEAN ELSE {FALSE})
  /\ UNCHANGED <<closed, buf, sendq, done, sem, hand, stop, sent, ran>>

\* select, case ch <- fn with room in the buffer.
Send(t) ==
  LET c == ChatOf[t] IN
  /\ call[t] = "select" /\ c \notin closed /\ Len(buf[c]) < Cap
  /\ buf' = [buf EXCEPT ![c] = Append(@, t)]
  /\ sent' = [sent EXCEPT ![c] = Append(@, t)]
  /\ call' = [call EXCEPT ![t] = "accepted"]
  /\ UNCHANGED <<chats, closed, sendq, done, sem, worker, hand, stop, panicked, ran>>

\* select with neither case ready: the caller waits on both channels.
Park(t) ==
  LET c == ChatOf[t] IN
  /\ call[t] = "select" /\ c \notin closed /\ Len(buf[c]) = Cap /\ ~done
  /\ sendq' = [sendq EXCEPT ![c] = Append(@, t)]
  /\ call' = [call EXCEPT ![t] = "parked"]
  /\ UNCHANGED <<chats, closed, buf, done, sem, worker, hand, stop, panicked, sent, ran>>

\* Mutant: send first and look at done afterwards, without a select.
GiveUpLate(t) ==
  /\ call[t] \in {"select", "accepted"} /\ done
  /\ call' = [call EXCEPT ![t] = "dropped"]
  /\ UNCHANGED <<queueVars, sem, worker, hand, stop, panicked, sent, ran>>

\* select, case <-q.done: Enqueue returns and the task is never queued.
GiveUp(t) ==
  /\ call[t] = "select" /\ done
  /\ call' = [call EXCEPT ![t] = "dropped"]
  /\ UNCHANGED <<queueVars, sem, worker, hand, stop, panicked, sent, ran>>

\* select, case ch <- fn on a closed channel.
SendOnClosed(t) ==
  /\ call[t] = "select" /\ ChatOf[t] \in closed
  /\ panicked' = TRUE
  /\ UNCHANGED <<queueVars, sem, worker, hand, call, stop, sent, ran>>

-----------------------------------------------------------------------------
(* worker                                                                  *)

\* A channel is first in, first out.
Oldest(s) == Head(s)

\* for fn := range ch: take the oldest task; the first parked sender gets in.
Recv(c) ==
  /\ worker[c] = "recv" /\ buf[c] # <<>>
  /\ worker' = [worker EXCEPT ![c] = "acquire"]
  /\ hand' = [hand EXCEPT ![c] = Oldest(buf[c])]
  /\ IF sendq[c] = <<>>
     THEN /\ buf' = [buf EXCEPT ![c] = Tail(@)]
          /\ UNCHANGED <<sendq, call, sent>>
     ELSE LET t == Head(sendq[c]) IN
          /\ buf' = [buf EXCEPT ![c] = Append(Tail(@), t)]
          /\ sendq' = [sendq EXCEPT ![c] = Tail(@)]
          /\ call' = [call EXCEPT ![t] = "accepted"]
          /\ sent' = [sent EXCEPT ![c] = Append(@, t)]
  /\ UNCHANGED <<chats, closed, done, sem, stop, panicked, ran>>

\* A send to q.sem finds room.  Mutant: one slot too many.
SlotFreeOffByOne == sem <= MaxConcurrent
SlotFree == sem < MaxConcurrent

\* Mutant: the worker runs fn in a goroutine and goes on to the next task.
AcquireAndGo(c) ==
  /\ worker[c] = "acquire" /\ SlotFree
  /\ sem' = sem + 1
  /\ worker' = [worker EXCEPT ![c] = "recv"]
  /\ UNCHANGED <<queueVars, hand, call, stop, panicked, sent, ran>>

\* q.sem <- struct{}{}, then fn begins.
Acquire(c) ==
  /\ worker[c] = "acquire" /\ SlotFree
  /\ sem' = sem + 1
  /\ worker' = [worker EXCEPT ![c] = "running"]
  /\ UNCHANGED <<queueVars, hand, call, stop, panicked, sent, ran>>

\* <-q.sem.  Mutants: the slot is given back twice, or never.
ReleasedTwice == sem - 2
NotReleased == sem
Released == sem - 1

\* fn returns and the worker gives its slot back.
Finish(c) ==
  /\ worker[c] = "running"
  /\ sem' = Released
  /\ ran' = [ran EXCEPT ![c] = Append(@, hand[c])]
  /\ hand' = [hand EXCEPT ![c] = NoTask]
  /\ worker' = [worker EXCEPT ![c] = "recv"]
  /\ UNCHANGED <<queueVars, call, stop, panicked, sent>>

\* The channel is closed and empty.  Mutant: the worker leaves a closed channel
\* at once.
ClosedOnly(c) == c \in closed
Drained(c) == buf[c] = <<>> /\ c \in closed

\* The range loop ends on a closed and empty channel: q.wg.Done.
Exit(c) ==
  /\ worker[c] = "recv" /\ Drained(c)
  /\ worker' = [worker EXCEPT ![c] = "exited"]
  /\ UNCHANGED <<queueVars, sem, hand, call, stop, panicked, sent, ran>>

-----------------------------------------------------------------------------
(* Stop                                                                    *)

\* Mutant: the channels are closed before done.
SignalForgotten ==
  /\ stop = "idle"
  /\ stop' = "signalled"
  /\ UNCHANGED <<queueVars, sem, worker, hand, call, panicked, sent, ran>>

\* close(q.done): every caller parked in the select wakes up with that case.
Signal ==
  /\ stop = "idle"
  /\ stop' = "signalled"
  /\ done' = TRUE
  /\ call' = [t \in Tasks |-> IF call[t] = "parked" THEN "dropped" ELSE call[t]]
  /\ sendq' = [c \in Chats |-> <<>>]
  /\ UNCHANGED <<chats, closed, buf, sem, worker, hand, panicked, sent, ran>>

Lock ==
  /\ stop = "signalled"
  /\ stop' = "closing"
  /\ UNCHANGED <<queueVars, sem, worker, hand, call, panicked, sent, ran>>

CloseChannel(c) ==
  /\ stop = "closing" /\ c \in chats \ closed
  /\ closed' = closed \cup {c}
  /\ UNCHANGED <<chats, buf, sendq, done, sem, worker, hand, call, stop, panicked, sent, ran>>

Unlock ==
  /\ stop = "closing" /\ chats \subseteq closed
  /\ stop' = "waiting"
  /\ UNCHANGED <<queueVars, sem, worker, hand, call, panicked, sent, ran>>

\* q.wg.Wait returns when no worker is left.
WaitReturns ==
  /\ stop = "waiting" /\ Live = {}
  /\ stop' = "returned"
  /\ UNCHANGED <<queueVars, sem, worker, hand, call, panicked, sent, ran>>

-----------------------------------------------------------------------------
Select(t) == Send(t) \/ Park(t) \/ GiveUp(t) \/ SendOnClosed(t)
Enqueue(t) == FindChannel(t) \/ CreateChannel(t) \/ Select(t)
Work(c) == Recv(c) \/ Acquire(c) \/ Finish(c) \/ Exit(c)
CloseAll == Lock \/ (\E c \in Chats : CloseChannel(c)) \/ Unlock \/ WaitReturns
Stop == Signal \/ CloseAll

\* A panic that nobody recovers ends the process and every goroutine with it.
Next ==
  /\ ~panicked
  /\ \/ \E t \in Tasks : Enqueue(t)
     \/ \E c \in Chats : Work(c)
     \/ Stop

Spec == Init /\ [][Next]_vars

\* Goroutines are scheduled, tasks return, and senders parked on q.sem are let
\* in first come first served (hence the strong fairness of Acquire).  Nobody
\* is obliged to call Enqueue or Stop.
Fairness ==
  /\ \A t \in Tasks : WF_vars(~panicked /\ Select(t))
  /\ \A c \in Chats : /\ WF_vars(~panicked /\ (Recv(c) \/ Finish(c) \/ Exit(c)))
                      /\ SF_vars(~panicked /\ Acquire(c))
  /\ WF_vars(~panicked /\ CloseAll)

FairSpec == Spec /\ Fairness

-----------------------------------------------------------------------------
(* Properties                                                              *)

SeqElems(s) == {s[i] : i \in 1..Len(s)}
InHand(c) == IF hand[c] = NoTask THEN <<>> ELSE <<hand[c]>>

\* Type invariant of the queue's state.
TypeOK ==
  /\ chats \subseteq Chats /\ closed \subseteq chats
  /\ buf \in [Chats -> Seq(Tasks)]
  /\ sendq \in [Chats -> Seq(Tasks)]
  /\ done \in BOOLEAN
  /\ sem \in Nat
  /\ worker \in [Chats -> WorkerStates]
  /\ hand \in [Chats -> Tasks \cup {NoTask}]
  /\ call \in [Tasks -> CallStates]
  /\ stop \in StopStates
  /\ panicked \in BOOLEAN
  /\ sent \in [Chats -> Seq(Tasks)]
  /\ ran \in [Chats -> Seq(Tasks)]

\* Every chat that has a channel has its own worker (queue.go:6), which holds a
\* task exactly while it waits for a slot or runs, and which leaves only when
\* Stop has closed the channel and the buffer is empty.
WorkerPerChat ==
  \A c \in Chats :
    /\ worker[c] = "none" <=> c \notin chats
    /\ hand[c] # NoTask <=> worker[c] \in {"acquire", "running"}
    /\ worker[c] = "exited" => c \in closed /\ buf[c] = <<>>

\* The global cap (queue.go:25): the semaphore counts exactly the tasks that
\* run, so no interleaving of workers runs more than MaxConcurrent at once and
\* no slot leaks.
SlotsBounded == sem = Cardinality(Running) /\ sem <= MaxConcurrent

\* Per-chat FIFO without loss or repetition (queue.go:5): what a chat's worker
\* finished, then the task it holds, then the buffer, is the order of acceptance.
FIFO == \A c \in Chats : sent[c] = ran[c] \o InHand(c) \o buf[c]

\* An Enqueue that returned through the send is queued once, in its own chat,
\* and a call that is still waiting or was dropped is queued nowhere.
AcceptedOnce ==
  \A c \in Chats :
    /\ SeqElems(sent[c]) = {t \in Tasks : ChatOf[t] = c /\ call[t] = "accepted"}
    /\ \A i, j \in 1..Len(sent[c]) : sent[c][i] = sent[c][j] => i = j

\* Stop closes done before any chat's channel (queue.go:54-58), so that a
\* caller parked on a full channel leaves through done and not by the panic of
\* a close under its feet; and callers park only where there is no room.
ParkedSafely ==
  \A c \in Chats : sendq[c] # <<>> => c \notin closed /\ Len(buf[c]) = Cap

\* A caller that waits on a full channel stands in its line of senders, and the
\* worker whose receives admit it has not left.
ParkedAreServed ==
  \A t \in Tasks : call[t] = "parked" =>
    /\ ChatOf[t] \notin closed /\ ChatOf[t] \in Live
    /\ \E i \in DOMAIN sendq[ChatOf[t]] : sendq[ChatOf[t]][i] = t

\* A chat's backlog is bounded: the buffer and the task in its worker's hand.
BacklogBounded == \A c \in Chats : Len(sent[c]) <= Len(ran[c]) + Cap + 1

\* What max_concurrent = 0 does (config.go:77): no task runs, and a chat's
\* channel takes no more than its backlog.
NothingRuns == \A c \in Chats : ran[c] = <<>> /\ Len(sent[c]) <= Cap + 1

\* When Stop returns, every task accepted by a channel it closed has run
\* (queue.go:51), those still buffered when it was called included.
StopDrains == stop = "returned" => \A c \in closed : sent[c] = ran[c]

\* A worker that has left its loop leaves nothing behind, and its channel never
\* takes another task: otherwise Enqueue would report success for a task that
\* nobody is left to run.
NothingAfterExit ==
  [][\A c \in Chats : worker[c] = "exited" => sent[c] = ran[c] /\ sent'[c] = sent[c]]_vars

\* Every task the queue accepted runs to its end, at whatever point Stop is
\* called, unless the process panics first.
AcceptedTasksRun ==
  \A t \in Tasks :
    call[t] = "accepted" ~> panicked \/ t \in SeqElems(ran[ChatOf[t]])

\* Enqueue never blocks forever (queue.go:36-39): a full channel drains, or
\* Stop lets the caller go.
EnqueueReturns ==
  \A t \in Tasks :
    call[t] \in {"select", "parked"} ~> panicked \/ call[t] \in {"accepted", "dropped"}

\* Stop "shuts down all workers" (queue.go:51) and returns, unless a chat made its
\* first Enqueue after Stop had gone through the map: its worker is never stopped,
\* and it is the only thing that can keep Stop waiting.
StopReturns ==
  stop = "signalled" ~>
    panicked \/ (stop = "returned" /\ Live = {}) \/ (stop = "waiting" /\ chats # closed)

\* The queue implements the serial executor: a call takes effect when its task
\* enters the channel's buffer, and a task starts when its worker gets a slot; so
\* the channel's buffer and the worker's hand are the room in which tasks wait.
Executor == INSTANCE SerialExecutor WITH
  call     <- [t \in Tasks |->
                 IF call[t] \in {"select", "parked"} THEN "open" ELSE call[t]],
  pending  <- [c \in Chats |->
                 IF worker[c] = "acquire" THEN <<hand[c]>> \o buf[c] ELSE buf[c]],
  running  <- [c \in Chats |-> IF worker[c] = "running" THEN hand[c] ELSE NoTask],
  finished <- ran,
  stopping <- done,
  crashed  <- panicked,
  Room     <- Cap + 1

\* Refinement of the promise stated in SerialExecutor (queue.go:5-6, 24-25).
ImplementsSerialExecutor == Executor!Spec
=============================================================================
