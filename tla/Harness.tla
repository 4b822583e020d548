------------------------------- MODULE Harness --------------------------------
(***************************************************************************)
(* The process as a whole: Telegram's update queue, the poll loop          *)
(* (internal/telegram/poller.go) with the update handler of                *)
(* cmd/pitu/main.go in line, the rate limiter, the dispatch queue, the     *)
(* containers that its jobs use, the signal goroutine that shuts down, the *)
(* return of main that ends everything, and crashes and restarts.          *)
(*                                                                         *)
(* The queue is an instance of SerialExecutor, which DispatchQueue         *)
(* implements.  A chat's container is in the pool or not: its life is      *)
(* WarmPool's subject.                                                     *)
(***************************************************************************)
EXTENDS Integers, Sequences, FiniteSets

CONSTANTS Chats,
          NumUpdates,    \* the updates that Telegram will ever have: 1..NumUpdates
          CronJobs,      \* the firings of scheduled tasks
          ChatOf,        \* the chat of each update and firing
          Texts,         \* the updates that have a text
          Allowed,       \* the chats that isAllowed lets in
          Limited,       \* a rate limit is configured
          MaxConcurrent,
          Room,          \* the tasks of a chat that may wait (257 in the code)
          NoTask,
          MaxLives       \* bound: how often the process runs

Updates == 1..NumUpdates
Tasks == Updates \cup CronJobs

ASSUME HarnessAssumption ==
  /\ NumUpdates \in Nat
  /\ ChatOf \in [Tasks -> Chats]
  /\ Texts \subseteq Updates /\ Allowed \subseteq Chats
  /\ Limited \in BOOLEAN
  /\ MaxConcurrent \in Nat /\ Room \in Nat /\ MaxLives \in Nat
  /\ NoTask \notin Tasks
  /\ CronJobs \cap Updates = {}

VARIABLES arrived,    \* Telegram: the updates it has so far are 1..arrived
          confirmed,  \* Telegram: those it will not deliver again are 1..confirmed
          at,         \* where the process is: "poll" (in getUpdates), "handle" or
                      \* "enqueue" (in the handler), "exited" (main returned), or
                      \* "down" (it died)
          offset,     \* the poller's offset
          next, last, \* the updates of the batch that are still to be handled
          recent,     \* the chats that Allow has charged within the interval
          call, pending, running, finished, stopping, crashed,  \* SerialExecutor
          stage,      \* per chat, how far its worker's Dispatch is
          pool,       \* the chats that have a container
          cancelled,  \* ctx is cancelled
          sig,        \* where the signal goroutine is
          owed,       \* the chats whose container StopAll still has to stop
          visited,    \* the chats that StopAll has visited
          life,       \* the number of this process
          handled     \* history: the last process that handled each update, or 0

server == <<arrived, confirmed>>
poller == <<at, offset, next, last, handled>>
queue == <<call, pending, running, finished, stopping, crashed>>
shutdown == <<cancelled, sig, owed, visited>>
vars == <<server, poller, recent, queue, stage, pool, shutdown, life>>

Q == INSTANCE SerialExecutor

Init ==
  /\ arrived = 0 /\ confirmed = 0
  /\ at = "poll" /\ offset = 0 /\ next = 1 /\ last = 0
  /\ recent = {}
  /\ Q!Init
  /\ stage = [c \in Chats |-> "none"]
  /\ pool = {}
  /\ cancelled = FALSE /\ sig = "wait" /\ owed = {} /\ visited = {}
  /\ life = 1
  /\ handled = [u \in Updates |-> 0]

Alive == at \in {"poll", "handle", "enqueue"}

-----------------------------------------------------------------------------
(* Telegram and getUpdates                                                 *)

Arrive ==
  /\ arrived < NumUpdates
  /\ arrived' = arrived + 1
  /\ UNCHANGED <<confirmed, poller, recent, queue, stage, pool, shutdown, life>>

\* The server drops what is below the offset of a request that reaches it.
Confirmed == IF offset > confirmed + 1 THEN offset - 1 ELSE confirmed

Fetch ==
  /\ at = "poll" /\ ~cancelled
  /\ confirmed' = Confirmed
  /\ IF arrived > Confirmed
     THEN at' = "handle" /\ next' = Confirmed + 1 /\ last' = arrived
     ELSE UNCHANGED <<at, next, last>>
  /\ UNCHANGED <<arrived, offset, handled, recent, queue, stage, pool, shutdown, life>>

\* An error, or a response that is lost; after a back-off Poll asks again.
FetchFails ==
  /\ at = "poll" /\ ~cancelled
  /\ confirmed' \in {confirmed, Confirmed}
  /\ UNCHANGED <<arrived, poller, recent, queue, stage, pool, shutdown, life>>

\* Poll notices the cancelled context, before a request or in one; main returns
\* and the process ends, whatever its other goroutines are doing.
PollReturns ==
  /\ at = "poll" /\ cancelled
  /\ at' = "exited"
  /\ confirmed' \in {confirmed, Confirmed}
  /\ UNCHANGED <<arrived, offset, next, last, handled, recent, queue, stage, pool, shutdown, life>>

-----------------------------------------------------------------------------
(* The update handler                                                      *)

\* Mutants: the offset is left at the update, or goes one too far.
SameOffset(u) == u
FarOffset(u) == u + 2
NextOffset(u) == IF u >= offset THEN u + 1 ELSE offset

\* The handler returns: the next update of the batch, if there is one.
Advance ==
  /\ offset' = NextOffset(next)
  /\ handled' = [handled EXCEPT ![next] = life]
  /\ next' = next + 1
  /\ at' = IF next < last THEN "handle" ELSE "poll"
  /\ UNCHANGED last

\* isAllowed, Allow and the test of the text, in this order: Allow charges the
\* chat before it is known that there is a text.
Allow(c) == ~Limited \/ c \notin recent
Charge(c) == recent' = IF Limited THEN recent \cup {c} ELSE recent

Reject ==
  LET c == ChatOf[next] IN
  /\ at = "handle"
  /\ \/ (c \notin Allowed \/ ~Allow(c)) /\ UNCHANGED recent
     \/ c \in Allowed /\ Allow(c) /\ next \notin Texts /\ Charge(c)
  /\ Advance
  /\ UNCHANGED <<server, queue, stage, pool, shutdown, life>>

\* The message is saved and the handler calls Enqueue.
Accept ==
  LET c == ChatOf[next] IN
  /\ at = "handle"
  /\ c \in Allowed /\ Allow(c) /\ next \in Texts
  /\ Charge(c)
  /\ Q!Begin(next)
  /\ at' = IF crashed' THEN "down" ELSE "enqueue"
  /\ UNCHANGED <<server, offset, next, last, handled, stage, pool, shutdown, life>>

EnqueueReturns ==
  /\ at = "enqueue" /\ call[next] \in {"accepted", "dropped"}
  /\ Advance
  /\ UNCHANGED <<server, recent, queue, stage, pool, shutdown, life>>

\* The interval after the chat's last charge is over.
Cool(c) ==
  /\ Alive /\ c \in recent
  /\ recent' = recent \ {c}
  /\ UNCHANGED <<server, poller, queue, stage, pool, shutdown, life>>

-----------------------------------------------------------------------------
(* The queue, its jobs and their containers                                *)

\* cron's goroutines learn of the cancelled context in their own time.
CronFires(k) ==
  /\ Alive
  /\ Q!Begin(k)
  /\ at' = IF crashed' THEN "down" ELSE at
  /\ UNCHANGED <<server, offset, next, last, handled, recent, stage, pool, shutdown, life>>

Submit(t) ==
  /\ Alive /\ Q!Submit(t)
  /\ UNCHANGED <<server, poller, recent, stage, pool, shutdown, life>>

Drop(t) ==
  /\ Alive /\ Q!Drop(t)
  /\ UNCHANGED <<server, poller, recent, stage, pool, shutdown, life>>

\* A call that sends to a channel that Stop has closed.
Panic(t) ==
  /\ Alive /\ call[t] = "open"
  /\ Q!Crash
  /\ at' = "down"
  /\ UNCHANGED <<server, offset, next, last, handled, recent, stage, pool, shutdown, life>>

Start(c) ==
  /\ Alive /\ Q!Start(c)
  /\ stage' = [stage EXCEPT ![c] = "ensure"]
  /\ UNCHANGED <<server, poller, recent, pool, shutdown, life>>

\* A message's job has main's context, a scheduled one the background context:
\* podman run is not begun under a cancelled context.
ContextDone(c) == cancelled /\ running[c] \in Updates

\* The chat's container is in the pool, or podman run begins, under startMu.
Ensure(c) ==
  /\ Alive /\ stage[c] = "ensure"
  /\ \/ c \in pool /\ stage' = [stage EXCEPT ![c] = "exec"]
     \/ /\ c \notin pool /\ ~ContextDone(c)
        /\ \A d \in Chats : stage[d] # "run"
        /\ stage' = [stage EXCEPT ![c] = "run"]
  /\ UNCHANGED <<server, poller, recent, queue, pool, shutdown, life>>

\* podman run has returned, it may be after cancel or StopAll, and the container
\* is stored.
RunReturns(c) ==
  /\ Alive /\ stage[c] = "run"
  /\ pool' = pool \cup {c}
  /\ stage' = [stage EXCEPT ![c] = "exec"]
  /\ UNCHANGED <<server, poller, recent, queue, shutdown, life>>

\* Dispatch returns: the agent is done, or a call of podman failed or was killed.
JobEnds(c) ==
  /\ Alive /\ stage[c] # "none"
  /\ Q!Finish(c)
  /\ stage' = [stage EXCEPT ![c] = "none"]
  /\ UNCHANGED <<server, poller, recent, pool, shutdown, life>>

\* The TTL of a chat's container.
Expire(c) ==
  /\ Alive /\ c \in pool
  /\ pool' = pool \ {c} /\ owed' = owed \ {c}
  /\ UNCHANGED <<server, poller, recent, queue, stage, cancelled, sig, visited, life>>

-----------------------------------------------------------------------------
(* Shutdown                                                                *)

\* Mutant: the context is not cancelled.
CancelForgotten ==
  /\ Alive /\ sig = "wait"
  /\ sig' = "cancelled"
  /\ UNCHANGED <<server, poller, recent, queue, stage, pool, cancelled, owed, visited, life>>

Cancel ==
  /\ Alive /\ sig = "wait"
  /\ cancelled' = TRUE /\ sig' = "cancelled"
  /\ UNCHANGED <<server, poller, recent, queue, stage, pool, owed, visited, life>>

\* StopAll ranges over the pool: it visits a chat once, those that are in the pool
\* throughout for certain and those that come or go meanwhile perhaps.
StopAll ==
  /\ Alive /\ sig = "cancelled"
  /\ sig' = "stopAll" /\ owed' = pool
  /\ UNCHANGED <<server, poller, recent, queue, stage, pool, cancelled, visited, life>>

StopContainer(c) ==
  /\ Alive /\ sig = "stopAll" /\ c \in pool \ visited
  /\ pool' = pool \ {c} /\ owed' = owed \ {c} /\ visited' = visited \cup {c}
  /\ UNCHANGED <<server, poller, recent, queue, stage, cancelled, sig, life>>

StopQueue ==
  /\ Alive /\ sig = "stopAll" /\ owed = {}
  /\ sig' = "stop"
  /\ Q!BeginStop
  /\ UNCHANGED <<server, poller, recent, stage, pool, cancelled, owed, visited, life>>

-----------------------------------------------------------------------------
(* Crash and restart                                                       *)

Crash ==
  /\ Alive
  /\ at' = "down"
  /\ UNCHANGED <<server, offset, next, last, handled, recent, queue, stage, pool, shutdown, life>>

Restart ==
  /\ ~Alive /\ life < MaxLives
  /\ life' = life + 1
  /\ at' = "poll" /\ offset' = 0 /\ next' = 1 /\ last' = 0
  /\ recent' = {} /\ pool' = {}
  /\ stage' = [c \in Chats |-> "none"]
  /\ cancelled' = FALSE /\ sig' = "wait" /\ owed' = {} /\ visited' = {}
  /\ call' = [t \in Tasks |-> "new"]
  /\ pending' = [c \in Chats |-> <<>>] /\ finished' = [c \in Chats |-> <<>>]
  /\ running' = [c \in Chats |-> NoTask]
  /\ stopping' = FALSE /\ crashed' = FALSE
  /\ UNCHANGED <<server, handled>>

-----------------------------------------------------------------------------
Handler == Reject \/ Accept \/ EnqueueReturns
Signal == StopAll \/ (\E c \in Chats : StopContainer(c)) \/ StopQueue
Drops == \E t \in Tasks : Drop(t)
Submits(c) == \E t \in Tasks : ChatOf[t] = c /\ Submit(t)

Next ==
  \/ Arrive \/ Fetch \/ FetchFails \/ PollReturns \/ Handler
  \/ \E k \in CronJobs : CronFires(k)
  \/ Drops \/ \E t \in Tasks : Panic(t)
  \/ \E c \in Chats :
       \/ Cool(c) \/ Submits(c) \/ Start(c) \/ Ensure(c) \/ RunReturns(c) \/ JobEnds(c)
       \/ Expire(c)
  \/ Cancel \/ Signal \/ Crash \/ Restart

Spec == Init /\ [][Next]_vars

\* While a goroutine of the process is ready, one of them goes on: jobs and podman
\* return.  Slots of channels are given in turn, and a getUpdates succeeds now and
\* then.  Nobody has to send, signal or crash.  The tasks of a life are finite, so
\* fairness to the goroutines together is fairness to each.
Goroutines ==
  PollReturns \/ Handler \/ Signal \/ Drops \/ \E c \in Chats : JobEnds(c)

FairSpec ==
  /\ Spec
  /\ SF_vars(Fetch) /\ WF_vars(Goroutines)
  /\ SF_vars(\E c \in Chats : Submits(c)) /\ SF_vars(\E c \in Chats : Start(c))

-----------------------------------------------------------------------------
(* Properties                                                              *)

\* Type invariant of the harness: an update is being handled exactly while the
\* batch has one.
TypeOK ==
  /\ arrived \in 0..NumUpdates /\ confirmed \in 0..arrived
  /\ at \in {"poll", "handle", "enqueue", "exited", "down"}
  /\ offset \in 0..(NumUpdates + 1)
  /\ next \in 1..(NumUpdates + 1) /\ last \in 0..arrived
  /\ at \in {"handle", "enqueue"} => next <= last
  /\ recent \subseteq Chats /\ pool \subseteq Chats
  /\ owed \subseteq pool /\ visited \subseteq Chats
  /\ call \in [Tasks -> {"new", "open", "accepted", "dropped"}]
  /\ pending \in [Chats -> Seq(Tasks)] /\ finished \in [Chats -> Seq(Tasks)]
  /\ running \in [Chats -> Tasks \cup {NoTask}]
  /\ stage \in [Chats -> {"none", "ensure", "run", "exec"}]
  /\ stopping \in BOOLEAN /\ crashed \in BOOLEAN /\ cancelled \in BOOLEAN
  /\ sig \in {"wait", "cancelled", "stopAll", "stop"}
  /\ life \in 1..(MaxLives + 1)
  /\ handled \in [Updates -> 0..(MaxLives + 1)]

\* What a chat's worker did, does and will do.
Line(c) ==
  finished[c] \o (IF running[c] = NoTask THEN <<>> ELSE <<running[c]>>) \o pending[c]

\* In the life of one process no update is handled twice, and the messages of a
\* chat are run in the order in which Telegram has them, over lost responses,
\* retries, and scheduled tasks in between.
HandledInOrder ==
  /\ at \in {"handle", "enqueue"} => \A u \in Updates : handled[u] = life => u < next
  /\ \A c \in Chats : \A i, j \in 1..Len(Line(c)) :
       i < j /\ Line(c)[i] \in Updates /\ Line(c)[j] \in Updates => Line(c)[i] < Line(c)[j]

\* Telegram is never told to forget an update that no process has handled,
\* wherever the process dies (poller.go:73-78).
ConfirmedAreHandled == \A u \in 1..confirmed : handled[u] > 0

\* Again and again the process has handled all the updates that Telegram has,
\* though getUpdates fails and a full channel of one chat holds up the loop for
\* all, unless it is stopped or dies.
UpdatesAreHandled ==
  []<>((\A u \in 1..arrived : handled[u] > 0) \/ cancelled \/ ~Alive)

\* After a signal the process ends, though the poll loop may be in an Enqueue that
\* only Stop, two steps later, can end.
ShutdownEnds == sig = "cancelled" ~> ~Alive

\* docs/SECURITY.md:181 says of the shutdown that it "ensures containers are not
\* left running as orphans after the harness exits".
NoOrphans == at = "exited" => pool = {}
=============================================================================
