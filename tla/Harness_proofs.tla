---------------------------- MODULE Harness_proofs ----------------------------
(***************************************************************************)
(* Proofs about Harness, for any chats, updates, firings and allowlist,    *)
(* with or without a rate limit, and any number of lives.                  *)
(***************************************************************************)
EXTENDS Harness, SequenceTheorems, TLAPS

USE HarnessAssumption

-----------------------------------------------------------------------------
(* Type correctness                                                        *)

\* Poll asks for an update that Telegram has, or for the one after.
OffsetBound == offset <= arrived + 1

\* Updates and firings are the tasks of the queue, and belong to chats.
LEMMA UpdateType == /\ \A n \in 1..NumUpdates : n \in Updates /\ n \in Tasks /\ ChatOf[n] \in Chats
                    /\ NumUpdates \in Nat
BY DEF Updates, Tasks

\* The steps of the poll loop keep the type of what they change.
LEMMA AdvanceType ==
  ASSUME TypeOK, OffsetBound, at \in {"handle", "enqueue"}, Advance
  PROVE  /\ at' \in {"handle", "poll"} /\ offset' \in 0..(NumUpdates + 1) /\ offset' <= arrived + 1
         /\ next \in Updates /\ next' = next + 1 /\ next' \in 1..(NumUpdates + 1) /\ last' = last
         /\ at' = "handle" => next' <= last'
         /\ handled' \in [Updates -> 0..(MaxLives + 1)]
<1>1. next \in Updates /\ next <= arrived /\ arrived \in 0..NumUpdates /\ last \in 0..arrived
  BY DEF TypeOK, Updates
<1>2. life \in 0..(MaxLives + 1)
  BY DEF TypeOK
<1>3. handled' \in [Updates -> 0..(MaxLives + 1)]
  BY <1>1, <1>2 DEF Advance, TypeOK
<1>4. offset' \in 0..(NumUpdates + 1) /\ offset' <= arrived + 1
  BY <1>1 DEF Advance, NextOffset, TypeOK, OffsetBound
<1>5. at' = "handle" => next' <= last'
  BY <1>1 DEF Advance, TypeOK
<1> QED
  BY <1>1, <1>3, <1>4, <1>5 DEF Advance, TypeOK

\* The queue has its type.
QueueOK ==
  /\ call \in [Tasks -> {"new", "open", "accepted", "dropped"}]
  /\ pending \in [Chats -> Seq(Tasks)] /\ finished \in [Chats -> Seq(Tasks)]
  /\ running \in [Chats -> Tasks \cup {NoTask}]
  /\ stopping \in BOOLEAN /\ crashed \in BOOLEAN

\* The steps of the queue keep its types.
LEMMA QueueType ==
  ASSUME QueueOK
  PROVE  /\ \A t \in Tasks : Q!Begin(t) \/ Q!Submit(t) \/ Q!Drop(t) => QueueOK'
         /\ \A c \in Chats : Q!Start(c) \/ Q!Finish(c) => QueueOK'
         /\ Q!BeginStop \/ Q!Crash \/ UNCHANGED queue => QueueOK'
<1> USE DEF QueueOK
<1>1. ASSUME NEW t \in Tasks, Q!Begin(t) \/ Q!Drop(t) PROVE QueueOK'
  BY <1>1 DEF Q!Begin, Q!Drop
<1>2. ASSUME NEW t \in Tasks, Q!Submit(t) PROVE QueueOK'
  <2>1. pending' \in [Chats -> Seq(Tasks)]
    BY <1>2 DEF Q!Submit
  <2> QED
    BY <1>2, <2>1 DEF Q!Submit
<1>3. ASSUME NEW c \in Chats, Q!Start(c) PROVE QueueOK'
  <2>1. Head(pending[c]) \in Tasks /\ Tail(pending[c]) \in Seq(Tasks)
    BY <1>3 DEF Q!Start
  <2> QED
    BY <1>3, <2>1 DEF Q!Start
<1>4. ASSUME NEW c \in Chats, Q!Finish(c) PROVE QueueOK'
  <2>1. Append(finished[c], running[c]) \in Seq(Tasks)
    BY <1>4 DEF Q!Finish
  <2> QED
    BY <1>4, <2>1 DEF Q!Finish
<1>5. ASSUME Q!BeginStop PROVE QueueOK'
  BY <1>5 DEF Q!BeginStop
<1>6. ASSUME Q!Crash \/ UNCHANGED queue PROVE QueueOK'
  BY <1>6 DEF Q!Crash, queue
<1> QED
  BY <1>1, <1>2, <1>3, <1>4, <1>5, <1>6

\* A queue at the start of a life.
LEMMA FreshQueue ==
  /\ [t \in Tasks |-> "new"] \in [Tasks -> {"new", "open", "accepted", "dropped"}]
  /\ [c \in Chats |-> <<>>] \in [Chats -> Seq(Tasks)]
  /\ [c \in Chats |-> NoTask] \in [Chats -> Tasks \cup {NoTask}]
<1>1. <<>> \in Seq(Tasks)
  BY EmptySeq
<1> QED
  BY <1>1

\* Everything but the queue has its type.
RestOK ==
  /\ arrived \in 0..NumUpdates /\ confirmed \in 0..arrived
  /\ at \in {"poll", "handle", "enqueue", "exited", "down"}
  /\ offset \in 0..(NumUpdates + 1)
  /\ next \in 1..(NumUpdates + 1) /\ last \in 0..arrived
  /\ at \in {"handle", "enqueue"} => next <= last
  /\ recent \subseteq Chats /\ pool \subseteq Chats
  /\ owed \subseteq pool /\ visited \subseteq Chats
  /\ stage \in [Chats -> {"none", "ensure", "run", "exec"}]
  /\ cancelled \in BOOLEAN
  /\ sig \in {"wait", "cancelled", "stopAll", "stop"}
  /\ life \in 1..(MaxLives + 1)
  /\ handled \in [Updates -> 0..(MaxLives + 1)]
  /\ OffsetBound

\* The two parts of the type invariant.
LEMMA SplitType == TypeOK /\ OffsetBound <=> QueueOK /\ RestOK
BY DEF TypeOK, QueueOK, RestOK

\* Next, action by action.
Step ==
  \/ Arrive \/ Fetch \/ FetchFails \/ PollReturns \/ Reject \/ Accept \/ EnqueueReturns
  \/ \E k \in CronJobs : CronFires(k)
  \/ \E t \in Tasks : Submit(t) \/ Drop(t) \/ Panic(t)
  \/ \E c \in Chats :
       \/ Cool(c) \/ Start(c) \/ Ensure(c) \/ RunReturns(c) \/ JobEnds(c)
       \/ Expire(c) \/ StopContainer(c)
  \/ Cancel \/ StopAll \/ StopQueue \/ Crash \/ Restart

\* A step is one of these.
LEMMA NextIsStep == Next => Step
BY DEF Next, Step, Handler, Drops, Submits, Signal

\* One step keeps the types.
LEMMA TypeStep == TypeOK /\ OffsetBound /\ [Next]_vars => (TypeOK /\ OffsetBound)'
<1> SUFFICES ASSUME TypeOK, OffsetBound, [Next]_vars PROVE (TypeOK /\ OffsetBound)'
  OBVIOUS
<1>t. QueueOK /\ RestOK
  BY SplitType
<1>1. QueueOK'
  <2>1. CASE UNCHANGED queue
    BY <1>t, <2>1, QueueType
  <2>2. CASE Accept
    <3>1. next \in Tasks /\ Q!Begin(next)
      BY <1>t, <2>2, UpdateType DEF Accept, RestOK
    <3> QED
      BY <1>t, <3>1, QueueType
  <2>3. CASE Restart
    BY <1>t, <2>3, FreshQueue DEF Restart, QueueOK
  <2>4. CASE \E k \in CronJobs : CronFires(k)
    BY <1>t, <2>4, QueueType DEF CronFires, Tasks
  <2> QED
    BY <1>t, <2>1, <2>2, <2>3, <2>4, QueueType, NextIsStep
    DEF Step, Arrive, Fetch, FetchFails, PollReturns, Reject, EnqueueReturns, Submit, Drop,
        Panic, Cool, Start, JobEnds, Ensure, RunReturns, Expire, StopContainer, Cancel, StopAll,
        StopQueue, Crash, vars
<1>2. RestOK'
  <2> USE <1>t DEF RestOK, OffsetBound, server, poller, shutdown
  <2>1. CASE Arrive
    BY <2>1 DEF Arrive
  <2>2. CASE Fetch
    <3>1. Confirmed \in 0..arrived
      BY DEF Confirmed
    <3> QED
      BY <2>2, <3>1 DEF Fetch
  <2>3. CASE FetchFails \/ PollReturns
    <3>1. Confirmed \in 0..arrived
      BY DEF Confirmed
    <3> QED
      BY <2>3, <3>1 DEF FetchFails, PollReturns
  <2>4. CASE Reject
    <3>1. recent' \subseteq Chats
      BY <2>4, UpdateType DEF Reject, Charge, Updates
    <3> QED
      BY <2>4, <3>1, AdvanceType DEF Reject
  <2>5. CASE Accept
    <3>1. recent' \subseteq Chats
      BY <2>5, UpdateType DEF Accept, Charge
    <3> QED
      BY <2>5, <3>1 DEF Accept
  <2>6. CASE EnqueueReturns
    BY <2>6, AdvanceType DEF EnqueueReturns
  <2>7. ASSUME NEW k \in CronJobs, CronFires(k) PROVE RestOK'
    BY <2>7 DEF CronFires
  <2>8. ASSUME NEW t \in Tasks, Submit(t) \/ Drop(t) \/ Panic(t) PROVE RestOK'
    BY <2>8 DEF Submit, Drop, Panic
  <2>9. ASSUME NEW c \in Chats, Cool(c) \/ Start(c) \/ JobEnds(c) \/ Ensure(c) \/ RunReturns(c) PROVE RestOK'
    BY <2>9 DEF Cool, Start, JobEnds, Ensure, RunReturns
  <2>10. ASSUME NEW c \in Chats, Expire(c) \/ StopContainer(c) PROVE RestOK'
    BY <2>10 DEF Expire, StopContainer
  <2>11. CASE Cancel \/ StopAll \/ StopQueue
    BY <2>11 DEF Cancel, StopAll, StopQueue
  <2>12. CASE Crash
    BY <2>12 DEF Crash
  <2>13. CASE Restart
    <3>1. /\ stage' \in [Chats -> {"none", "ensure", "run", "exec"}] /\ life' \in 1..(MaxLives + 1)
          /\ offset' = 0 /\ next' = 1 /\ last' = 0 /\ at' = "poll"
          /\ UNCHANGED <<arrived, confirmed, handled>>
          /\ recent' = {} /\ pool' = {} /\ owed' = {} /\ visited' = {}
          /\ cancelled' = FALSE /\ sig' = "wait"
      BY <2>13 DEF Restart
    <3> QED
      <4>1. 0 \in 0..(NumUpdates + 1) /\ 1 \in 1..(NumUpdates + 1) /\ 0 \in 0..arrived /\ 0 <= arrived + 1
        OBVIOUS
      <4>2. {} \subseteq Chats
        OBVIOUS
      <4> QED
        BY <3>1, <4>1, <4>2
  <2>14. CASE UNCHANGED vars
    BY <2>14 DEF vars
  <2> QED
    BY <2>1, <2>2, <2>3, <2>4, <2>5, <2>6, <2>7, <2>8, <2>9, <2>10, <2>11, <2>12, <2>13, <2>14,
       NextIsStep DEF Step
<1> QED
  BY <1>1, <1>2 DEF TypeOK, QueueOK, RestOK

\* Both are invariants.
LEMMA TypeInvariant == Spec => [](TypeOK /\ OffsetBound)
<1>1. Init => TypeOK /\ OffsetBound
  <2> SUFFICES ASSUME Init PROVE TypeOK /\ OffsetBound
    OBVIOUS
  <2>1. QueueOK
    BY FreshQueue DEF Init, Q!Init, QueueOK
  <2>2. /\ handled \in [Updates -> 0..(MaxLives + 1)]
        /\ stage \in [Chats -> {"none", "ensure", "run", "exec"}]
    BY DEF Init
  <2>3. /\ arrived \in 0..NumUpdates /\ confirmed \in 0..arrived /\ last \in 0..arrived
        /\ offset \in 0..(NumUpdates + 1) /\ next \in 1..(NumUpdates + 1)
        /\ life \in 1..(MaxLives + 1) /\ offset <= arrived + 1
    BY DEF Init
  <2>4. RestOK
    BY <2>2, <2>3 DEF Init, RestOK, OffsetBound
  <2> QED
    BY <2>1, <2>4, SplitType
<1> QED
  BY <1>1, TypeStep, PTL DEF Spec

\* The state of the harness has its type, and an update is being handled exactly
\* while the batch has one.
THEOREM TypeCorrect == Spec => []TypeOK
BY TypeInvariant, PTL

-----------------------------------------------------------------------------
(* Updates are handled before they are confirmed, and once in a life       *)

\* What Poll and Telegram are past has been handled, and this life has handled
\* nothing that Poll is not past.
PollInv ==
  /\ \A u \in Updates : u < offset \/ u <= confirmed => handled[u] > 0
  /\ \A u \in Updates : handled[u] <= life /\ (handled[u] = life => u < offset)
  /\ at \in {"handle", "enqueue"} =>
       offset <= next /\ \A u \in Updates : u < next => handled[u] > 0

\* One step keeps PollInv.
LEMMA PollStep == TypeOK /\ OffsetBound /\ PollInv /\ [Next]_vars => PollInv'
<1> SUFFICES ASSUME TypeOK, OffsetBound, PollInv, [Next]_vars PROVE PollInv'
  OBVIOUS
<1> USE DEF PollInv, server, poller
<1>t. /\ offset \in Nat /\ confirmed \in Nat /\ next \in Nat /\ life \in Nat \ {0}
      /\ handled \in [Updates -> Nat] /\ Updates \subseteq Nat
  BY DEF TypeOK, Updates
<1>1. CASE UNCHANGED <<offset, confirmed, handled, life, next>> /\ (at' = at \/ at' \notin {"handle", "enqueue"} \/ at = "handle")
  BY <1>1
<1>2. CASE Fetch \/ FetchFails \/ PollReturns
  <2>1. /\ confirmed' = confirmed \/ confirmed' = Confirmed
        /\ UNCHANGED <<offset, handled, life>>
        /\ at' \in {"handle", "enqueue"} => next' = Confirmed + 1
    BY <1>2 DEF Fetch, FetchFails, PollReturns
  <2>2. Confirmed \in Nat /\ offset <= Confirmed + 1
        /\ \A u \in Updates : u <= Confirmed => u < offset \/ u <= confirmed
    BY <1>t DEF Confirmed
  <2> QED
    BY <1>t, <2>1, <2>2
<1>3. CASE Reject \/ EnqueueReturns
  <2>1. /\ at \in {"handle", "enqueue"} /\ Advance /\ UNCHANGED <<confirmed, life>>
    BY <1>3 DEF Reject, EnqueueReturns
  <2>2. /\ next \in Updates /\ offset' = next + 1 /\ next' = next + 1
        /\ handled' = [handled EXCEPT ![next] = life]
    BY <1>t, <2>1, AdvanceType DEF Advance, NextOffset
  <2> QED
    BY <1>t, <2>1, <2>2
<1>4. CASE Restart
  BY <1>t, <1>4 DEF Restart
<1> QED
  BY <1>1, <1>2, <1>3, <1>4, NextIsStep
  DEF Step, Arrive, Accept, CronFires, Submit, Drop, Panic, Cool, Start, JobEnds, Ensure, RunReturns,
      Expire, StopContainer, Cancel, StopAll, StopQueue, Crash, vars

\* PollInv is an invariant.
LEMMA PollCorrect == Spec => []PollInv
<1>1. Init => PollInv
  BY DEF Init, PollInv, Updates
<1> QED
  BY <1>1, PollStep, TypeInvariant, PTL DEF Spec

\* Telegram is never told to forget an update that no process has handled.
THEOREM ConfirmedIsHandled == Spec => []ConfirmedAreHandled
<1>1. TypeOK /\ PollInv => ConfirmedAreHandled
  BY DEF TypeOK, PollInv, ConfirmedAreHandled, Updates
<1> QED
  BY <1>1, TypeInvariant, PollCorrect, PTL

-----------------------------------------------------------------------------
(* The messages of a chat run in Telegram's order                          *)

\* The task that runs moves to the end of those that are finished.
LEMMA FinishedLine ==
  ASSUME NEW f \in Seq(Tasks), NEW p \in Seq(Tasks), NEW t \in Tasks
  PROVE  f \o <<t>> \o p = Append(f, t) \o <<>> \o p
<1>1. Append(f, t) \in Seq(Tasks)
  OBVIOUS
<1> QED
  BY <1>1, ConcatEmptySeq, AppendIsConcat

\* The first task that waits begins to run.
LEMMA StartedLine ==
  ASSUME NEW f \in Seq(Tasks), NEW p \in Seq(Tasks), p # <<>>
  PROVE  f \o <<>> \o p = f \o <<Head(p)>> \o Tail(p)
<1>1. p = <<Head(p)>> \o Tail(p) /\ Head(p) \in Tasks /\ Tail(p) \in Seq(Tasks)
  BY HeadTailProperties, HeadTailAppend
<1>2. f \o <<>> = f
  BY ConcatEmptySeq
<1>3. (f \o <<Head(p)>>) \o Tail(p) = f \o (<<Head(p)>> \o Tail(p))
  <2>1. <<Head(p)>> \in Seq(Tasks) /\ Tail(p) \in Seq(Tasks)
    BY <1>1
  <2> QED
    BY <2>1, ConcatAssociative
<1> QED
  BY <1>1, <1>2, <1>3

\* A task joins those that wait.
LEMMA LongerLine ==
  ASSUME NEW g \in Seq(Tasks), NEW p \in Seq(Tasks), NEW t \in Tasks
  PROVE  g \o Append(p, t) = Append(g \o p, t)
<1>1. g \o p \in Seq(Tasks) /\ <<t>> \in Seq(Tasks)
  BY ConcatProperties
<1>2. Append(p, t) = p \o <<t>> /\ Append(g \o p, t) = (g \o p) \o <<t>>
  BY <1>1, AppendIsConcat
<1>3. (g \o p) \o <<t>> = g \o (p \o <<t>>)
  BY <1>1, ConcatAssociative
<1> QED
  BY <1>2, <1>3

\* What a chat's line becomes in a step of the queue.
LEMMA LineChange ==
  ASSUME TypeOK
  PROVE  /\ \A c \in Chats : Line(c) \in Seq(Tasks)
         /\ \A t \in Tasks : Q!Submit(t) =>
              \A c \in Chats : Line(c)' = IF c = ChatOf[t] THEN Append(Line(c), t) ELSE Line(c)
         /\ \A d \in Chats : Q!Start(d) \/ Q!Finish(d) => \A c \in Chats : Line(c)' = Line(c)
<1> USE DEF TypeOK
<1>1. ASSUME NEW c \in Chats PROVE Line(c) \in Seq(Tasks)
  <2>1. (IF running[c] = NoTask THEN <<>> ELSE <<running[c]>>) \in Seq(Tasks)
    BY EmptySeq
  <2> QED
    BY <2>1, ConcatProperties DEF Line
<1>2. ASSUME NEW t \in Tasks, Q!Submit(t), NEW c \in Chats
      PROVE  Line(c)' = IF c = ChatOf[t] THEN Append(Line(c), t) ELSE Line(c)
  <2>1. /\ pending'[c] = IF c = ChatOf[t] THEN Append(pending[c], t) ELSE pending[c]
        /\ UNCHANGED <<running, finished>>
    BY <1>2 DEF Q!Submit
  <2>2. (IF running[c] = NoTask THEN <<>> ELSE <<running[c]>>) \in Seq(Tasks)
    BY EmptySeq
  <2>3. finished[c] \in Seq(Tasks) /\ pending[c] \in Seq(Tasks)
    OBVIOUS
  <2> DEFINE m == IF running[c] = NoTask THEN <<>> ELSE <<running[c]>>
  <2>4. finished[c] \o m \o Append(pending[c], t) = Append(finished[c] \o m \o pending[c], t)
    <3> HIDE DEF m
    <3>1. finished[c] \o m \in Seq(Tasks)
      BY <2>2, <2>3, ConcatProperties DEF m
    <3> QED
      BY <2>3, <3>1, LongerLine
  <2> QED
    BY <2>1, <2>4 DEF Line
<1>3. ASSUME NEW d \in Chats, Q!Start(d), NEW c \in Chats PROVE Line(c)' = Line(c)
  <2>1. CASE c = d
    <3>1. /\ running[c] = NoTask /\ pending[c] # <<>> /\ finished' = finished
          /\ running'[c] = Head(pending[c]) /\ pending'[c] = Tail(pending[c])
      BY <1>3, <2>1 DEF Q!Start
    <3>2. Head(pending[c]) # NoTask /\ Head(pending[c]) \in Tasks
      BY <3>1, HeadTailProperties
    <3>3. finished[c] \in Seq(Tasks) /\ pending[c] \in Seq(Tasks)
      OBVIOUS
    <3>4. finished[c] \o <<>> \o pending[c] = finished[c] \o <<Head(pending[c])>> \o Tail(pending[c])
      BY <3>1, <3>3, StartedLine
    <3> QED
      BY <3>1, <3>2, <3>4 DEF Line
  <2>2. CASE c # d
    BY <1>3, <2>2 DEF Q!Start, Line
  <2> QED
    BY <2>1, <2>2
<1>4. ASSUME NEW d \in Chats, Q!Finish(d), NEW c \in Chats PROVE Line(c)' = Line(c)
  <2>1. CASE c = d
    <3>1. /\ running[c] # NoTask /\ running'[c] = NoTask /\ pending' = pending
          /\ finished'[c] = Append(finished[c], running[c])
      BY <1>4, <2>1 DEF Q!Finish
    <3>2. /\ running[c] \in Tasks /\ finished[c] \in Seq(Tasks) /\ pending[c] \in Seq(Tasks)
      BY <3>1
    <3>3. finished[c] \o <<running[c]>> \o pending[c] = Append(finished[c], running[c]) \o <<>> \o pending[c]
      BY <3>2, FinishedLine
    <3> QED
      BY <3>1, <3>3 DEF Line
  <2>2. CASE c # d
    BY <1>4, <2>2 DEF Q!Finish, Line
  <2> QED
    BY <2>1, <2>2
<1> QED
  BY <1>1, <1>2, <1>3, <1>4

\* Of this life's updates only the one in Enqueue is not behind Poll's offset, and
\* what is in a line was accepted.
CallInv ==
  /\ Alive => \A u \in Updates :
       /\ call[u] = "open" => at = "enqueue" /\ u = next
       /\ call[u] # "new" => u < offset \/ (at = "enqueue" /\ u = next)
  /\ \A c \in Chats : \A i \in 1..Len(Line(c)) : call[Line(c)[i]] = "accepted"

InOrder ==
  \A c \in Chats : \A i, j \in 1..Len(Line(c)) :
    i < j /\ Line(c)[i] \in Updates /\ Line(c)[j] \in Updates => Line(c)[i] < Line(c)[j]

\* One step keeps CallInv.
LEMMA CallStep == TypeOK /\ OffsetBound /\ PollInv /\ CallInv /\ [Next]_vars => CallInv'
<1> SUFFICES ASSUME TypeOK, OffsetBound, PollInv, CallInv, [Next]_vars PROVE CallInv'
  OBVIOUS
<1> USE DEF CallInv
<1>t. /\ offset \in Nat /\ next \in Nat /\ Updates \subseteq Nat /\ Updates \subseteq Tasks
      /\ call \in [Tasks -> {"new", "open", "accepted", "dropped"}]
  BY DEF TypeOK, Updates, Tasks
<1>l. \A c \in Chats : Line(c) \in Seq(Tasks)
  BY LineChange
<1>a. ASSUME \A c \in Chats : Line(c)' = Line(c),
             \A t \in Tasks : call[t] = "accepted" => call'[t] = "accepted"
      PROVE  \A c \in Chats : \A i \in 1..Len(Line(c))' : call'[Line(c)'[i]] = "accepted"
  BY <1>a, <1>l
<1>b. ASSUME UNCHANGED <<pending, running, finished>>
      PROVE  \A c \in Chats : Line(c)' = Line(c)
  BY <1>b DEF Line
<1>1. CASE UNCHANGED <<offset, next, queue>> /\ (at' = at \/ at' \notin {"handle", "enqueue", "poll"})
  BY <1>1, <1>a, <1>b DEF Alive, queue
<1>2. CASE Fetch
  BY <1>2, <1>a, <1>b DEF Fetch, Alive, queue
<1>3. CASE Reject \/ EnqueueReturns
  <2>1. /\ at \in {"handle", "enqueue"} /\ Advance /\ UNCHANGED queue
        /\ at = "enqueue" => call[next] # "open"
    BY <1>3 DEF Reject, EnqueueReturns
  <2>2. offset' = next + 1 /\ offset <= next /\ at' \in {"handle", "poll"}
    BY <1>t, <2>1, AdvanceType DEF Advance, NextOffset, PollInv
  <2>3. \A u \in Updates : call[u] # "open" /\ (call[u] # "new" => u < offset')
    BY <1>t, <2>1, <2>2 DEF Alive
  <2> QED
    BY <2>1, <2>2, <2>3, <1>a, <1>b DEF queue
<1>4. CASE Accept
  <2>1. /\ at = "handle" /\ call[next] = "new" /\ call' = [call EXCEPT ![next] = "open"]
        /\ at' \in {"down", "enqueue"} /\ UNCHANGED <<pending, running, finished, offset, next>>
    BY <1>4 DEF Accept, Q!Begin
  <2> QED
    BY <1>t, <2>1, <1>a, <1>b DEF Alive
<1>5. ASSUME NEW k \in CronJobs, CronFires(k) PROVE CallInv'
  <2>1. /\ call[k] = "new" /\ call' = [call EXCEPT ![k] = "open"] /\ k \notin Updates
        /\ at' \in {"down", at} /\ UNCHANGED <<pending, running, finished, offset, next>>
    BY <1>5 DEF CronFires, Q!Begin
  <2> QED
    BY <1>t, <2>1, <1>a, <1>b DEF Alive
<1>6. ASSUME NEW t \in Tasks, Submit(t) PROVE CallInv'
  <2>1. /\ call[t] = "open" /\ call' = [call EXCEPT ![t] = "accepted"]
        /\ UNCHANGED <<at, offset, next>> /\ Q!Submit(t)
    BY <1>6 DEF Submit, Q!Submit, poller
  <2>2. ASSUME NEW c \in Chats, NEW i \in 1..Len(Line(c)')
        PROVE  call'[Line(c)'[i]] = "accepted"
    <3>1. Line(c)' = IF c = ChatOf[t] THEN Append(Line(c), t) ELSE Line(c)
      BY <2>1, LineChange
    <3>2. Line(c)'[i] = t \/ (i \in 1..Len(Line(c)) /\ Line(c)'[i] = Line(c)[i])
      BY <1>l, <2>2, <3>1
    <3>3. i \in 1..Len(Line(c)) => Line(c)[i] \in Tasks
      BY <1>l
    <3> QED
      BY <1>t, <2>1, <3>2, <3>3
  <2> QED
    BY <1>t, <2>1, <2>2 DEF Alive
<1>7. ASSUME NEW t \in Tasks, Drop(t) PROVE CallInv'
  <2>1. /\ call[t] = "open" /\ call' = [call EXCEPT ![t] = "dropped"]
        /\ UNCHANGED <<at, offset, next, pending, running, finished>>
    BY <1>7 DEF Drop, Q!Drop, poller
  <2> QED
    BY <1>t, <2>1, <1>a, <1>b DEF Alive
<1>8. ASSUME NEW c \in Chats, Start(c) \/ JobEnds(c) PROVE CallInv'
  <2>1. /\ UNCHANGED <<call, at, offset, next>> /\ \A d \in Chats : Line(d)' = Line(d)
    BY <1>8, LineChange DEF Start, JobEnds, Q!Start, Q!Finish, poller
  <2> QED
    BY <2>1, <1>a DEF Alive
<1>9. CASE StopQueue
  <2>1. /\ \A t \in Tasks : call'[t] \in {call[t], "dropped"} /\ (call'[t] # call[t] => call[t] = "open")
        /\ UNCHANGED <<at, offset, next, pending, running, finished>>
    BY <1>9 DEF StopQueue, Q!BeginStop, poller
  <2> QED
    BY <1>t, <2>1, <1>a, <1>b DEF Alive
<1>10. CASE Restart
  <2>1. /\ \A u \in Updates : call'[u] = "new"
        /\ \A c \in Chats : finished'[c] = <<>> /\ pending'[c] = <<>> /\ running'[c] = NoTask
    BY <1>t, <1>10 DEF Restart
  <2>2. \A c \in Chats : Len(Line(c)') = 0
    BY <2>1, ConcatEmptySeq, EmptySeq DEF Line
  <2> QED
    BY <2>1, <2>2
<1>11. ASSUME NEW t \in Tasks, Panic(t) PROVE CallInv'
  <2>1. at' = "down" /\ UNCHANGED <<call, pending, running, finished>>
    BY <1>11 DEF Panic, Q!Crash
  <2> QED
    BY <2>1, <1>a, <1>b DEF Alive
<1> QED
  BY <1>1, <1>2, <1>3, <1>4, <1>5, <1>6, <1>7, <1>8, <1>9, <1>10, <1>11, NextIsStep
  DEF Step, Arrive, FetchFails, PollReturns, Cool, Ensure, RunReturns, Expire, StopContainer,
      Cancel, StopAll, Crash, vars, poller, queue

\* One step keeps InOrder: the update that is submitted is the last of this life.
LEMMA OrderStep ==
  TypeOK /\ OffsetBound /\ PollInv /\ CallInv /\ InOrder /\ [Next]_vars => InOrder'
<1> SUFFICES ASSUME TypeOK, OffsetBound, PollInv, CallInv, InOrder, [Next]_vars PROVE InOrder'
  OBVIOUS
<1> USE DEF InOrder
<1>l. \A c \in Chats : Line(c) \in Seq(Tasks)
  BY LineChange
<1>1. CASE \A c \in Chats : Line(c)' = Line(c)
  BY <1>1
<1>2. ASSUME NEW t \in Tasks, Submit(t) PROVE InOrder'
  <2>1. /\ call[t] = "open" /\ Alive /\ Q!Submit(t)
    BY <1>2 DEF Submit, Q!Submit
  <2>2. t \in Updates =>
          \A c \in Chats : \A i \in 1..Len(Line(c)) : Line(c)[i] \in Updates => Line(c)[i] < t
    <3> SUFFICES ASSUME t \in Updates, NEW c \in Chats, NEW i \in 1..Len(Line(c)), Line(c)[i] \in Updates
                 PROVE  Line(c)[i] < t
      OBVIOUS
    <3>1. at = "enqueue" /\ t = next /\ offset <= next /\ next \in Nat /\ offset \in Nat
      BY <2>1 DEF CallInv, PollInv, TypeOK
    <3>2. call[Line(c)[i]] = "accepted" /\ Line(c)[i] # t
      BY <2>1 DEF CallInv
    <3>3. Line(c)[i] < offset /\ Line(c)[i] \in Nat
      BY <2>1, <3>1, <3>2 DEF CallInv, Updates
    <3> QED
      BY <3>1, <3>3
  <2>3. ASSUME NEW c \in Chats, NEW i \in 1..Len(Line(c)'), NEW j \in 1..Len(Line(c)'), i < j,
               Line(c)'[i] \in Updates, Line(c)'[j] \in Updates
        PROVE  Line(c)'[i] < Line(c)'[j]
    <3>1. CASE c # ChatOf[t]
      BY <2>1, <2>3, <3>1, LineChange
    <3>2. CASE c = ChatOf[t]
      <4>1. Line(c)' = Append(Line(c), t)
        BY <2>1, <3>2, LineChange
      <4>2. Len(Line(c)') = Len(Line(c)) + 1 /\ Len(Line(c)) \in Nat
        BY <1>l, <4>1
      <4>3. i \in 1..Len(Line(c)) /\ Line(c)'[i] = Line(c)[i]
        BY <1>l, <2>3, <4>1, <4>2
      <4>4. CASE j = Len(Line(c)) + 1
        <5>1. Line(c)'[j] = t
          BY <1>l, <4>1, <4>4
        <5> QED
          BY <2>2, <2>3, <4>3, <5>1
      <4>5. CASE j # Len(Line(c)) + 1
        <5>1. j \in 1..Len(Line(c))
          BY <2>3, <4>2, <4>5
        <5>2. Line(c)'[j] = Line(c)[j]
          BY <1>l, <4>1, <5>1
        <5> QED
          BY <2>3, <4>3, <5>1, <5>2
      <4> QED
        BY <4>4, <4>5
    <3> QED
      BY <3>1, <3>2
  <2> QED
    BY <2>3
<1>3. ASSUME NEW c \in Chats, Start(c) \/ JobEnds(c) PROVE \A d \in Chats : Line(d)' = Line(d)
  BY <1>3, LineChange DEF Start, JobEnds
<1>4. CASE Restart
  <2>1. \A c \in Chats : finished'[c] = <<>> /\ pending'[c] = <<>> /\ running'[c] = NoTask
    BY <1>4 DEF Restart
  <2>2. \A c \in Chats : Len(Line(c)') = 0
    BY <2>1, ConcatEmptySeq, EmptySeq DEF Line
  <2> QED
    BY <2>2
<1>5. CASE UNCHANGED <<pending, running, finished>>
  BY <1>1, <1>5 DEF Line
<1> QED
  BY <1>1, <1>2, <1>3, <1>4, <1>5, NextIsStep
  DEF Step, Arrive, Fetch, FetchFails, PollReturns, Reject, Accept, EnqueueReturns, CronFires,
      Drop, Panic, Cool, Ensure, RunReturns, Expire, StopContainer, Cancel, StopAll, StopQueue, Crash,
      Q!Begin, Q!Drop, Q!Crash, Q!BeginStop, vars, queue

\* In the life of one process no update is handled twice, and the messages of a
\* chat run in Telegram's order.
THEOREM MessagesRunInOrder == Spec => []HandledInOrder
<1>1. Init => CallInv /\ InOrder
  <2> SUFFICES ASSUME Init PROVE CallInv /\ InOrder
    OBVIOUS
  <2>1. \A c \in Chats : finished[c] = <<>> /\ pending[c] = <<>> /\ running[c] = NoTask
    BY DEF Init, Q!Init
  <2>2. \A c \in Chats : Len(Line(c)) = 0
    BY <2>1, ConcatEmptySeq, EmptySeq DEF Line
  <2>3. \A u \in Updates : call[u] = "new"
    BY DEF Init, Q!Init, Tasks
  <2> QED
    BY <2>2, <2>3 DEF CallInv, InOrder
<1>2. TypeOK /\ PollInv /\ InOrder => HandledInOrder
  <2>1. TypeOK /\ PollInv /\ at \in {"handle", "enqueue"} =>
          \A u \in Updates : handled[u] = life => u < next
    BY DEF TypeOK, PollInv, Updates
  <2> QED
    BY <2>1 DEF InOrder, HandledInOrder
<1> QED
  BY <1>1, <1>2, CallStep, OrderStep, TypeInvariant, PollCorrect, PTL DEF Spec
=============================================================================
