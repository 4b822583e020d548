------------------------ MODULE DispatchQueue_proofs ------------------------
(* Theorems about DispatchQueue for every number of chats, calls and slots. *)
EXTENDS DispatchQueue, SequenceTheorems, FiniteSetTheorems, TLAPS

USE ConstantsAssumption

\* One step of the queue, as the disjunction of its actions.
Step ==
  \/ \E t \in Tasks : FindChannel(t) \/ CreateChannel(t) \/ Send(t) \/ Park(t)
                      \/ GiveUp(t) \/ SendOnClosed(t)
  \/ \E c \in Chats : Recv(c) \/ Acquire(c) \/ Finish(c) \/ Exit(c) \/ CloseChannel(c)
  \/ Signal \/ Lock \/ Unlock \/ WaitReturns

LEMMA NextIsStep == [Next]_vars => (Step /\ ~panicked) \/ UNCHANGED vars
BY DEF Next, Step, Enqueue, Select, Work, Stop, CloseAll

LEMMA RunningIsFinite == IsFiniteSet(Running)
BY FS_Subset DEF Running, ConstantsAssumption

-----------------------------------------------------------------------------
(* Type correctness                                                        *)

LEMMA InitType == Init => TypeOK
<1> SUFFICES ASSUME Init PROVE TypeOK
  OBVIOUS
<1> USE DEF Init
<1>1. chats \subseteq Chats /\ closed \subseteq chats
  OBVIOUS
<1>2. buf \in [Chats -> Seq(Tasks)]
  OBVIOUS
<1>3. done \in BOOLEAN
  OBVIOUS
<1>4. worker \in [Chats -> WorkerStates]
  BY DEF WorkerStates
<1>5. hand \in [Chats -> Tasks \cup {NoTask}]
  OBVIOUS
<1>6. sem \in Nat /\ panicked \in BOOLEAN
  OBVIOUS
<1>7. call \in [Tasks -> CallStates] /\ stop \in StopStates
  BY DEF CallStates, StopStates
<1>8. sendq \in [Chats -> Seq(Tasks)] /\ sent \in [Chats -> Seq(Tasks)]
      /\ ran \in [Chats -> Seq(Tasks)]
  OBVIOUS
<1> QED
  BY <1>1, <1>2, <1>3, <1>4, <1>5, <1>6, <1>7, <1>8 DEF TypeOK


LEMMA StepType == TypeOK /\ WorkerPerChat /\ SlotsBounded /\ [Next]_vars => TypeOK'
<1> SUFFICES ASSUME TypeOK, WorkerPerChat, SlotsBounded, [Next]_vars PROVE TypeOK'
  OBVIOUS
<1> USE DEF TypeOK, CallStates, WorkerStates, StopStates, queueVars
<1>1. ASSUME NEW t \in Tasks, FindChannel(t) PROVE TypeOK'
  BY <1>1 DEF FindChannel
<1>2. ASSUME NEW t \in Tasks, CreateChannel(t) PROVE TypeOK'
  <2>1. panicked' \in BOOLEAN
    BY <1>2 DEF CreateChannel
  <2>2. chats' \subseteq Chats /\ closed' \subseteq chats'
    BY <1>2 DEF CreateChannel
  <2>3. worker' \in [Chats -> WorkerStates] /\ call' \in [Tasks -> CallStates]
    BY <1>2 DEF CreateChannel
  <2> QED
    BY <1>2, <2>1, <2>2, <2>3 DEF CreateChannel
<1>3. ASSUME NEW t \in Tasks, Send(t) PROVE TypeOK'
  BY <1>3 DEF Send
<1>4. ASSUME NEW t \in Tasks, Park(t) PROVE TypeOK'
  BY <1>4 DEF Park
<1>5. ASSUME NEW t \in Tasks, GiveUp(t) PROVE TypeOK'
  BY <1>5 DEF GiveUp
<1>6. ASSUME NEW t \in Tasks, SendOnClosed(t) PROVE TypeOK'
  BY <1>6 DEF SendOnClosed
<1>7. ASSUME NEW c \in Chats, Recv(c) PROVE TypeOK'
  <2>1. Head(buf[c]) \in Tasks /\ Tail(buf[c]) \in Seq(Tasks)
    BY <1>7, HeadTailProperties DEF Recv
  <2>2. hand' \in [Chats -> Tasks \cup {NoTask}] /\ worker' \in [Chats -> WorkerStates]
    BY <1>7, <2>1 DEF Recv, Oldest
  <2>3. /\ buf' \in [Chats -> Seq(Tasks)] /\ sendq' \in [Chats -> Seq(Tasks)]
        /\ sent' \in [Chats -> Seq(Tasks)] /\ call' \in [Tasks -> CallStates]
    <3>1. CASE sendq[c] = <<>>
      BY <1>7, <2>1, <3>1 DEF Recv
    <3>2. CASE sendq[c] # <<>>
      <4>1. Head(sendq[c]) \in Tasks /\ Tail(sendq[c]) \in Seq(Tasks)
        BY <3>2, HeadTailProperties
      <4>2. Append(Tail(buf[c]), Head(sendq[c])) \in Seq(Tasks)
        BY <2>1, <4>1, AppendProperties
      <4>3. /\ buf' = [buf EXCEPT ![c] = Append(Tail(buf[c]), Head(sendq[c]))]
            /\ sendq' = [sendq EXCEPT ![c] = Tail(sendq[c])]
            /\ sent' = [sent EXCEPT ![c] = Append(sent[c], Head(sendq[c]))]
        BY <1>7, <3>2 DEF Recv
      <4>4. /\ buf' \in [Chats -> Seq(Tasks)] /\ sendq' \in [Chats -> Seq(Tasks)]
            /\ sent' \in [Chats -> Seq(Tasks)]
        BY <4>1, <4>2, <4>3, AppendProperties
      <4> QED
        BY <1>7, <3>2, <4>1, <4>4 DEF Recv
    <3> QED
      BY <3>1, <3>2
  <2> QED
    BY <1>7, <2>2, <2>3 DEF Recv
<1>8. ASSUME NEW c \in Chats, Acquire(c) PROVE TypeOK'
  BY <1>8 DEF Acquire
<1>9. ASSUME NEW c \in Chats, Finish(c) PROVE TypeOK'
  <2>1. hand[c] \in Tasks
    BY <1>9 DEF Finish, WorkerPerChat
  <2>2. c \in Running
    BY <1>9 DEF Finish, Running
  <2>3. Cardinality(Running) \in Nat /\ Cardinality(Running) # 0
    BY <2>2, RunningIsFinite, FS_EmptySet, FS_CardinalityType
  <2>4. sem' \in Nat
    BY <1>9, <2>3 DEF Finish, Released, SlotsBounded
  <2> QED
    BY <1>9, <2>1, <2>4 DEF Finish
<1>10. ASSUME NEW c \in Chats, Exit(c) PROVE TypeOK'
  BY <1>10 DEF Exit
<1>11. ASSUME NEW c \in Chats, CloseChannel(c) PROVE TypeOK'
  BY <1>11 DEF CloseChannel
<1>12. CASE Signal
  <2>1. call' \in [Tasks -> CallStates] /\ sendq' \in [Chats -> Seq(Tasks)]
    BY <1>12 DEF Signal
  <2> QED
    BY <1>12, <2>1 DEF Signal
<1>13. CASE Lock \/ Unlock \/ WaitReturns
  BY <1>13 DEF Lock, Unlock, WaitReturns
<1>14. CASE UNCHANGED vars
  BY <1>14 DEF vars
<1> QED
  BY <1>1, <1>2, <1>3, <1>4, <1>5, <1>6, <1>7, <1>8, <1>9, <1>10, <1>11, <1>12,
     <1>13, <1>14, NextIsStep DEF Step

-----------------------------------------------------------------------------
(* The semaphore                                                           *)

LEMMA StepSlots == TypeOK /\ WorkerPerChat /\ SlotsBounded /\ [Next]_vars => SlotsBounded'
<1> SUFFICES ASSUME TypeOK, WorkerPerChat, SlotsBounded, [Next]_vars PROVE SlotsBounded'
  OBVIOUS
<1>a. Cardinality(Running) \in Nat
  BY RunningIsFinite, FS_CardinalityType
<1>b. ASSUME Running' = Running, sem' = sem PROVE SlotsBounded'
  BY <1>b DEF SlotsBounded
<1>1. ASSUME NEW t \in Tasks,
             FindChannel(t) \/ Send(t) \/ Park(t) \/ GiveUp(t) \/ SendOnClosed(t)
      PROVE  SlotsBounded'
  BY <1>1, <1>b DEF FindChannel, Send, Park, GiveUp, SendOnClosed, Running
<1>2. ASSUME NEW t \in Tasks, CreateChannel(t) PROVE SlotsBounded'
  BY <1>2, <1>b DEF CreateChannel, Running, TypeOK, WorkerPerChat
<1>3. ASSUME NEW c \in Chats, Recv(c) \/ Exit(c) \/ CloseChannel(c) PROVE SlotsBounded'
  <2>1. Running' = Running /\ sem' = sem
    BY <1>3 DEF Recv, Exit, CloseChannel, Running, TypeOK
  <2> QED
    BY <1>b, <2>1
<1>4. ASSUME NEW c \in Chats, Acquire(c) PROVE SlotsBounded'
  <2>1. Running' = Running \cup {c} /\ c \notin Running
    BY <1>4 DEF Acquire, Running, TypeOK
  <2>2. Cardinality(Running') = Cardinality(Running) + 1
    BY <2>1, RunningIsFinite, FS_AddElement
  <2> QED
    BY <1>4, <2>2, <1>a DEF Acquire, SlotFree, SlotsBounded
<1>5. ASSUME NEW c \in Chats, Finish(c) PROVE SlotsBounded'
  <2>1. Running' = Running \ {c} /\ c \in Running
    BY <1>5 DEF Finish, Running, TypeOK
  <2>2. Cardinality(Running') = Cardinality(Running) - 1
    BY <2>1, RunningIsFinite, FS_RemoveElement
  <2> QED
    BY <1>5, <2>2, <1>a DEF Finish, Released, SlotsBounded
<1>6. CASE Signal \/ Lock \/ Unlock \/ WaitReturns \/ UNCHANGED vars
  BY <1>6, <1>b DEF Signal, Lock, Unlock, WaitReturns, vars, Running
<1> QED
  BY <1>1, <1>2, <1>3, <1>4, <1>5, <1>6, NextIsStep DEF Step

-----------------------------------------------------------------------------
(* Workers                                                                 *)

LEMMA StepWorkers == TypeOK /\ WorkerPerChat /\ [Next]_vars => WorkerPerChat'
<1> SUFFICES ASSUME TypeOK, WorkerPerChat, [Next]_vars PROVE WorkerPerChat'
  OBVIOUS
<1> USE DEF TypeOK, WorkerPerChat, queueVars
<1>1. ASSUME NEW t \in Tasks, FindChannel(t) \/ GiveUp(t) \/ SendOnClosed(t)
      PROVE  WorkerPerChat'
  BY <1>1 DEF FindChannel, GiveUp, SendOnClosed
<1>2. ASSUME NEW t \in Tasks, CreateChannel(t) PROVE WorkerPerChat'
  BY <1>2 DEF CreateChannel
<1>3. ASSUME NEW t \in Tasks, Send(t) \/ Park(t) PROVE WorkerPerChat'
  <2>1. \A d \in Chats : d \in closed => buf'[d] = buf[d]
    BY <1>3 DEF Send, Park
  <2>2. UNCHANGED <<worker, hand, chats, closed>>
    BY <1>3 DEF Send, Park
  <2> QED
    BY <2>1, <2>2
<1>4. ASSUME NEW c \in Chats, Recv(c) PROVE WorkerPerChat'
  <2>1. Head(buf[c]) \in Tasks
    BY <1>4, HeadTailProperties DEF Recv
  <2>2. \A d \in Chats \ {c} : buf'[d] = buf[d]
    BY <1>4 DEF Recv
  <2>3. /\ worker' = [worker EXCEPT ![c] = "acquire"]
        /\ hand' = [hand EXCEPT ![c] = Head(buf[c])]
        /\ UNCHANGED <<chats, closed>>
    BY <1>4 DEF Recv, Oldest
  <2>4. worker[c] = "recv"
    BY <1>4 DEF Recv
  <2> QED
    BY <2>1, <2>2, <2>3, <2>4
<1>5. ASSUME NEW c \in Chats, Acquire(c) PROVE WorkerPerChat'
  BY <1>5 DEF Acquire
<1>9. ASSUME NEW c \in Chats, Finish(c) PROVE WorkerPerChat'
  <2>1. /\ worker[c] = "running" /\ worker' = [worker EXCEPT ![c] = "recv"]
        /\ hand' = [hand EXCEPT ![c] = NoTask]
        /\ UNCHANGED <<chats, closed, buf>>
    BY <1>9 DEF Finish
  <2> QED
    BY <2>1
<1>6. ASSUME NEW c \in Chats, Exit(c) PROVE WorkerPerChat'
  BY <1>6 DEF Exit, Drained
<1>7. ASSUME NEW c \in Chats, CloseChannel(c) PROVE WorkerPerChat'
  BY <1>7 DEF CloseChannel
<1>8. CASE Signal \/ Lock \/ Unlock \/ WaitReturns \/ UNCHANGED vars
  BY <1>8 DEF Signal, Lock, Unlock, WaitReturns, vars
<1> QED
  BY <1>1, <1>2, <1>3, <1>4, <1>5, <1>6, <1>7, <1>8, <1>9, NextIsStep DEF Step

\* The inductive invariant behind the first three theorems.
CoreInv == TypeOK /\ WorkerPerChat /\ SlotsBounded

LEMMA InitCore == Init => CoreInv
<1> SUFFICES ASSUME Init PROVE CoreInv
  OBVIOUS
<1>1. TypeOK
  BY InitType
<1>2. WorkerPerChat
  BY DEF Init, WorkerPerChat
<1>3. SlotsBounded
  <2>1. Running = {}
    BY DEF Init, Running
  <2> QED
    BY <2>1, FS_EmptySet DEF Init, SlotsBounded
<1> QED
  BY <1>1, <1>2, <1>3 DEF CoreInv

LEMMA StepCore == CoreInv /\ [Next]_vars => CoreInv'
BY StepType, StepSlots, StepWorkers DEF CoreInv

LEMMA CoreCorrect == Spec => []CoreInv
<1> QED
  BY InitCore, StepCore, PTL DEF Spec

\* The queue's state always has its type, for every number of chats and calls.
THEOREM TypeCorrect == Spec => []TypeOK
<1>1. CoreInv => TypeOK
  BY DEF CoreInv
<1> QED
  BY CoreCorrect, <1>1, PTL

\* No schedule of the workers runs more than MaxConcurrent tasks at once or
\* loses a slot (queue.go:25, 45-47).
THEOREM SlotsAreBounded == Spec => []SlotsBounded
<1>1. CoreInv => SlotsBounded
  BY DEF CoreInv
<1> QED
  BY CoreCorrect, <1>1, PTL

\* Each chat keeps its worker until its channel is closed and empty (queue.go:6).
THEOREM WorkersAreDedicated == Spec => []WorkerPerChat
<1>1. CoreInv => WorkerPerChat
  BY DEF CoreInv
<1> QED
  BY CoreCorrect, <1>1, PTL

-----------------------------------------------------------------------------
(* First in, first out                                                     *)

LEMMA AppendToConcat ==
  \A r, s \in Seq(Tasks), e \in Tasks : Append(r \o s, e) = r \o Append(s, e)
<1> SUFFICES ASSUME NEW r \in Seq(Tasks), NEW s \in Seq(Tasks), NEW e \in Tasks
             PROVE  Append(r \o s, e) = r \o Append(s, e)
  OBVIOUS
<1>1. r \o s \in Seq(Tasks) /\ <<e>> \in Seq(Tasks)
  BY ConcatProperties
<1>2. Append(r \o s, e) = (r \o s) \o <<e>> /\ Append(s, e) = s \o <<e>>
  BY <1>1, AppendIsConcat
<1> QED
  BY <1>1, <1>2, ConcatAssociative

LEMMA HeadThenTail ==
  ASSUME NEW S, NEW r \in Seq(S), NEW s \in Seq(S), s # <<>>
  PROVE  (r \o <<Head(s)>>) \o Tail(s) = r \o s
<1>1. Head(s) \in S /\ Tail(s) \in Seq(S) /\ <<Head(s)>> \in Seq(S)
  BY HeadTailProperties
<1>2. <<Head(s)>> \o Tail(s) = s
  BY <1>1, HeadTailProperties, ConcatProperties, SeqEqual
<1> QED
  BY <1>1, <1>2, ConcatAssociative

LEMMA StepFIFO == CoreInv /\ FIFO /\ [Next]_vars => FIFO'
<1> SUFFICES ASSUME CoreInv, FIFO, [Next]_vars, NEW d \in Chats
             PROVE  sent'[d] = (ran[d] \o InHand(d) \o buf[d])'
  BY DEF FIFO
<1>0. TypeOK /\ WorkerPerChat /\ sent[d] = (ran[d] \o InHand(d)) \o buf[d]
  BY DEF CoreInv, FIFO
<1>a. /\ ran[d] \in Seq(Tasks) /\ buf[d] \in Seq(Tasks) /\ InHand(d) \in Seq(Tasks)
      /\ ran[d] \o InHand(d) \in Seq(Tasks)
  BY <1>0, ConcatProperties, EmptySeq DEF TypeOK, InHand
<1>b. ASSUME UNCHANGED <<sent[d], ran[d], hand[d], buf[d]>>
      PROVE  sent'[d] = (ran[d] \o InHand(d) \o buf[d])'
  BY <1>0, <1>b DEF InHand
<1>1. ASSUME NEW t \in Tasks,
             FindChannel(t) \/ CreateChannel(t) \/ Park(t) \/ GiveUp(t) \/ SendOnClosed(t)
      PROVE  sent'[d] = (ran[d] \o InHand(d) \o buf[d])'
  BY <1>1, <1>b DEF FindChannel, CreateChannel, Park, GiveUp, SendOnClosed, queueVars
<1>2. ASSUME NEW t \in Tasks, Send(t)
      PROVE  sent'[d] = (ran[d] \o InHand(d) \o buf[d])'
  <2>1. CASE ChatOf[t] = d
    <3>1. /\ buf'[d] = Append(buf[d], t) /\ sent'[d] = Append(sent[d], t)
          /\ ran'[d] = ran[d] /\ hand'[d] = hand[d]
      BY <1>2, <2>1, <1>0 DEF Send, TypeOK
    <3>a. Append((ran[d] \o InHand(d)) \o buf[d], t)
             = (ran[d] \o InHand(d)) \o Append(buf[d], t)
      BY <1>a, AppendToConcat, Zenon
    <3>2. Append(sent[d], t) = (ran[d] \o InHand(d)) \o Append(buf[d], t)
      BY <1>0, <3>a, Zenon
    <3> QED
      BY <3>1, <3>2 DEF InHand
  <2>2. CASE ChatOf[t] # d
    BY <1>2, <2>2, <1>0, <1>b DEF Send, TypeOK
  <2> QED
    BY <2>1, <2>2
<1>3. ASSUME NEW c \in Chats, Recv(c)
      PROVE  sent'[d] = (ran[d] \o InHand(d) \o buf[d])'
  <2>1. CASE c = d
    <3>1. /\ buf[d] # <<>> /\ hand[d] = NoTask /\ hand'[d] = Head(buf[d])
          /\ ran'[d] = ran[d]
      BY <1>3, <2>1, <1>0 DEF Recv, Oldest, TypeOK, WorkerPerChat
    <3>2. Head(buf[d]) \in Tasks /\ Tail(buf[d]) \in Seq(Tasks)
      BY <3>1, <1>a, HeadTailProperties
    <3>3. InHand(d) = <<>> /\ InHand(d)' = <<Head(buf[d])>>
      BY <3>1, <3>2 DEF InHand
    <3>a. sent[d] = ran[d] \o buf[d]
      BY <1>0, <1>a, <3>3, ConcatEmptySeq
    <3>b. (ran[d] \o <<Head(buf[d])>>) \o Tail(buf[d]) = ran[d] \o buf[d]
      BY <1>a, <3>1, HeadThenTail, Zenon
    <3>4. sent[d] = (ran[d] \o <<Head(buf[d])>>) \o Tail(buf[d])
      BY <3>a, <3>b, Zenon
    <3>5. CASE sendq[d] = <<>>
      <4>1. buf'[d] = Tail(buf[d]) /\ sent'[d] = sent[d]
        BY <1>3, <2>1, <1>0, <3>5 DEF Recv, TypeOK
      <4> QED
        BY <4>1, <3>1, <3>3, <3>4
    <3>6. CASE sendq[d] # <<>>
      <4>1. Head(sendq[d]) \in Tasks
        BY <3>6, <1>0, HeadTailProperties DEF TypeOK
      <4>2. /\ buf'[d] = Append(Tail(buf[d]), Head(sendq[d]))
            /\ sent'[d] = Append(sent[d], Head(sendq[d]))
        BY <1>3, <2>1, <1>0, <3>6 DEF Recv, TypeOK
      <4>3. ran[d] \o <<Head(buf[d])>> \in Seq(Tasks)
        BY <1>a, <3>2, ConcatProperties
      <4>4. Append((ran[d] \o <<Head(buf[d])>>) \o Tail(buf[d]), Head(sendq[d]))
              = (ran[d] \o <<Head(buf[d])>>) \o Append(Tail(buf[d]), Head(sendq[d]))
        BY <3>2, <4>1, <4>3, AppendToConcat, Zenon
      <4> QED
        BY <4>2, <4>4, <3>4, <3>1, <3>3
    <3> QED
      BY <3>5, <3>6
  <2>2. CASE c # d
    <3>1. UNCHANGED <<sent[d], ran[d], hand[d], buf[d]>>
      BY <1>3, <2>2, <1>0 DEF Recv, TypeOK
    <3> QED
      BY <3>1, <1>b
  <2> QED
    BY <2>1, <2>2
<1>4. ASSUME NEW c \in Chats, Finish(c)
      PROVE  sent'[d] = (ran[d] \o InHand(d) \o buf[d])'
  <2>1. CASE c = d
    <3>1. /\ hand[d] \in Tasks /\ hand'[d] = NoTask /\ ran'[d] = Append(ran[d], hand[d])
          /\ UNCHANGED <<sent, buf>>
      BY <1>4, <2>1, <1>0 DEF Finish, TypeOK, WorkerPerChat, queueVars
    <3>2. InHand(d) = <<hand[d]>> /\ InHand(d)' = <<>>
      BY <3>1 DEF InHand, ConstantsAssumption
    <3>a. Append(ran[d], hand[d]) = ran[d] \o <<hand[d]>>
      BY <3>1, <1>a, AppendIsConcat, Zenon
    <3>b. (ran[d] \o InHand(d)) \o <<>> = ran[d] \o InHand(d)
      BY <1>a, ConcatEmptySeq, Zenon
    <3>3. ran'[d] = ran[d] \o InHand(d) /\ ran'[d] \o <<>> = ran'[d]
      BY <3>1, <3>2, <3>a, <3>b, Zenon
    <3> QED
      BY <1>0, <3>1, <3>2, <3>3
  <2>2. CASE c # d
    BY <1>4, <2>2, <1>0, <1>b DEF Finish, TypeOK, queueVars
  <2> QED
    BY <2>1, <2>2
<1>5. ASSUME NEW c \in Chats, Acquire(c) \/ Exit(c) \/ CloseChannel(c)
      PROVE  sent'[d] = (ran[d] \o InHand(d) \o buf[d])'
  BY <1>5, <1>b DEF Acquire, Exit, CloseChannel, queueVars
<1>6. CASE Signal \/ Lock \/ Unlock \/ WaitReturns \/ UNCHANGED vars
  BY <1>6, <1>b DEF Signal, Lock, Unlock, WaitReturns, vars, queueVars
<1> QED
  BY <1>1, <1>2, <1>3, <1>4, <1>5, <1>6, NextIsStep DEF Step

LEMMA InitFIFO == Init => FIFO
BY ConcatEmptySeq, EmptySeq DEF Init, FIFO, InHand

\* Whatever the interleaving of callers, workers and Stop, a chat's tasks run in
\* the order in which its channel accepted them, none lost and none repeated
\* (queue.go:24).
THEOREM TasksRunInOrder == Spec => []FIFO
<1> QED
  BY InitCore, StepCore, InitFIFO, StepFIFO, PTL DEF Spec

-----------------------------------------------------------------------------
(* Stop                                                                    *)

\* What Stop has done by the time it is at each of its steps.
StopInv ==
  /\ done <=> stop # "idle"
  /\ stop \in {"idle", "signalled"} => closed = {}
  /\ stop = "returned" => \A c \in closed : worker[c] = "exited"

LEMMA StepStop == CoreInv /\ StopInv /\ [Next]_vars => StopInv'
<1> SUFFICES ASSUME CoreInv, StopInv, [Next]_vars PROVE StopInv'
  OBVIOUS
<1>0. TypeOK /\ WorkerPerChat
  BY DEF CoreInv
<1>a. ASSUME UNCHANGED <<done, stop, closed>>,
             \A c \in closed : worker[c] = "exited" => worker'[c] = "exited"
      PROVE  StopInv'
  BY <1>a DEF StopInv
<1>1. ASSUME NEW t \in Tasks,
             FindChannel(t) \/ Send(t) \/ Park(t) \/ GiveUp(t) \/ SendOnClosed(t)
      PROVE  StopInv'
  BY <1>1, <1>a DEF FindChannel, Send, Park, GiveUp, SendOnClosed, queueVars
<1>2. ASSUME NEW t \in Tasks, CreateChannel(t) PROVE StopInv'
  BY <1>2, <1>a, <1>0 DEF CreateChannel, TypeOK
<1>3. ASSUME NEW c \in Chats, Recv(c) \/ Acquire(c) \/ Finish(c) \/ Exit(c)
      PROVE  StopInv'
  <2>1. UNCHANGED <<done, stop, closed>>
    BY <1>3 DEF Recv, Acquire, Finish, Exit, queueVars
  <2>2. \A d \in Chats : worker[d] = "exited" => worker'[d] = "exited"
    BY <1>3, <1>0 DEF Recv, Acquire, Finish, Exit, TypeOK
  <2> QED
    BY <2>1, <2>2, <1>a, <1>0 DEF TypeOK
<1>4. ASSUME NEW c \in Chats, CloseChannel(c) PROVE StopInv'
  BY <1>4 DEF CloseChannel, StopInv
<1>5. CASE Signal
  BY <1>5 DEF Signal, StopInv
<1>6. CASE Lock \/ Unlock
  BY <1>6 DEF Lock, Unlock, StopInv, queueVars
<1>7. CASE WaitReturns
  <2>1. \A c \in closed : worker[c] = "exited"
    BY <1>7, <1>0 DEF WaitReturns, Live, TypeOK, WorkerPerChat, WorkerStates
  <2> QED
    BY <1>7, <2>1 DEF WaitReturns, StopInv, queueVars
<1>8. CASE UNCHANGED vars
  BY <1>8 DEF vars, StopInv
<1> QED
  BY <1>1, <1>2, <1>3, <1>4, <1>5, <1>6, <1>7, <1>8, NextIsStep DEF Step

LEMMA InitStop == Init => StopInv
BY DEF Init, StopInv

LEMMA StopCorrect == Spec => []StopInv
<1> QED
  BY InitCore, StepCore, InitStop, StepStop, PTL DEF Spec

\* A worker that left has run everything its channel ever accepted.
LEMMA ExitedIsEmpty ==
  ASSUME CoreInv, FIFO, NEW c \in Chats, worker[c] = "exited"
  PROVE  sent[c] = ran[c]
<1>1. hand[c] = NoTask /\ buf[c] = <<>> /\ ran[c] \in Seq(Tasks)
  BY DEF CoreInv, WorkerPerChat, TypeOK
<1>2. sent[c] = (ran[c] \o <<>>) \o <<>>
  BY <1>1 DEF FIFO, InHand
<1> QED
  BY <1>1, <1>2, ConcatEmptySeq

\* When Stop returns, the channels it closed have nothing left to run, at
\* whatever points it interleaved with callers and workers (queue.go:51).
THEOREM StopDrainsClosedChannels == Spec => []StopDrains
<1>1. CoreInv /\ FIFO /\ StopInv => StopDrains
  BY ExitedIsEmpty DEF StopInv, StopDrains, CoreInv, TypeOK
<1> QED
  BY CoreCorrect, TasksRunInOrder, StopCorrect, <1>1, PTL

\* No task enters the channel of a worker that has left (queue.go:44, 54-58).
THEOREM NothingIsAcceptedAfterExit == Spec => NothingAfterExit
<1>1. CoreInv /\ FIFO /\ [Next]_vars
        => [\A c \in Chats : worker[c] = "exited" => sent[c] = ran[c] /\ sent'[c] = sent[c]]_vars
  <2> SUFFICES ASSUME CoreInv, FIFO, [Next]_vars,
                      NEW c \in Chats, worker[c] = "exited", ~UNCHANGED vars
               PROVE  sent[c] = ran[c] /\ sent'[c] = sent[c]
    BY DEF vars
  <2>1. sent[c] = ran[c]
    BY ExitedIsEmpty
  <2>2. c \in closed /\ sent \in [Chats -> Seq(Tasks)]
    BY DEF CoreInv, WorkerPerChat, TypeOK
  <2>3. ASSUME NEW t \in Tasks, Enqueue(t) PROVE sent'[c] = sent[c]
    BY <2>2, <2>3 DEF Enqueue, FindChannel, CreateChannel, Select, Send, Park, GiveUp,
                      SendOnClosed
  <2>4. ASSUME NEW d \in Chats, Recv(d) PROVE sent'[c] = sent[c]
    BY <2>2, <2>4 DEF Recv
  <2>5. ASSUME NEW d \in Chats, Acquire(d) \/ Finish(d) \/ Exit(d) PROVE sent'[c] = sent[c]
    BY <2>5 DEF Acquire, Finish, Exit
  <2>6. CASE Stop
    BY <2>1, <2>6 DEF Stop, CloseAll, Signal, Lock, CloseChannel, Unlock, WaitReturns
  <2>7. \/ \E t \in Tasks : Enqueue(t)
        \/ \E d \in Chats : Recv(d) \/ Acquire(d) \/ Finish(d) \/ Exit(d)
        \/ Stop
    BY DEF Next, Work
  <2> QED
    BY <2>1, <2>3, <2>4, <2>5, <2>6, <2>7
<1> QED
  BY CoreCorrect, TasksRunInOrder, <1>1, PTL DEF Spec, NothingAfterExit

-----------------------------------------------------------------------------
(* Parked callers                                                          *)

\* The callers parked on a channel are calls for its chat, each parked once, and
\* they wait for nothing but room.
ParkInv ==
  \A c \in Chats :
    /\ \A i \in 1..Len(sendq[c]) :
         ChatOf[sendq[c][i]] = c /\ call[sendq[c][i]] = "parked"
    /\ \A i, j \in 1..Len(sendq[c]) : sendq[c][i] = sendq[c][j] => i = j
    /\ sendq[c] # <<>> => ~done /\ Len(buf[c]) = Cap

LEMMA StepPark == CoreInv /\ ParkInv /\ [Next]_vars => ParkInv'
<1> SUFFICES ASSUME CoreInv, ParkInv, [Next]_vars PROVE ParkInv'
  OBVIOUS
<1>0. TypeOK
  BY DEF CoreInv
<1> USE DEF TypeOK, queueVars, ConstantsAssumption
<1>e. \A c \in Chats : \A i \in 1..Len(sendq[c]) : sendq[c][i] \in Tasks
  BY <1>0, ElementOfSeq
<1>1. ASSUME NEW t \in Tasks, FindChannel(t) \/ CreateChannel(t) \/ GiveUp(t)
      PROVE  ParkInv'
  <2>1. /\ UNCHANGED <<sendq, buf, done>>
        /\ \A u \in Tasks : call[u] = "parked" => call'[u] = "parked"
    BY <1>0, <1>1 DEF FindChannel, CreateChannel, GiveUp
  <2> QED
    BY <1>0, <1>e, <2>1 DEF ParkInv
<1>2. ASSUME NEW t \in Tasks, Send(t) PROVE ParkInv'
  <2>1. /\ UNCHANGED <<sendq, done>>
        /\ \A u \in Tasks : call[u] = "parked" => call'[u] = "parked"
    BY <1>0, <1>2 DEF Send
  <2>2. sendq[ChatOf[t]] = <<>>
    BY <1>0, <1>2 DEF Send, ParkInv
  <2>3. \A d \in Chats : d # ChatOf[t] => buf'[d] = buf[d]
    BY <1>0, <1>2 DEF Send
  <2> QED
    BY <1>0, <1>e, <2>1, <2>2, <2>3 DEF ParkInv
<1>3. ASSUME NEW t \in Tasks, Park(t) PROVE ParkInv'
  <2> DEFINE c == ChatOf[t]
  <2>1. /\ UNCHANGED <<buf, done>> /\ ~done /\ Len(buf[c]) = Cap
        /\ call[t] = "select" /\ call' = [call EXCEPT ![t] = "parked"]
        /\ sendq' = [sendq EXCEPT ![c] = Append(sendq[c], t)]
    BY <1>0, <1>3 DEF Park
  <2>2. \A d \in Chats : d # c => sendq'[d] = sendq[d]
    BY <1>0, <2>1
  <2>3. /\ Len(sendq'[c]) = Len(sendq[c]) + 1
        /\ sendq'[c][Len(sendq[c]) + 1] = t
        /\ \A i \in 1..Len(sendq[c]) : sendq'[c][i] = sendq[c][i]
    BY <1>0, <2>1, AppendProperties
  <2>4. \A u \in Tasks : call[u] = "parked" => call'[u] = "parked" /\ u # t
    BY <1>0, <2>1
  <2>5. call'[t] = "parked"
    BY <1>0, <2>1
  <2>6. \A d \in Chats : d # c =>
          /\ \A i \in 1..Len(sendq'[d]) :
               ChatOf[sendq'[d][i]] = d /\ call'[sendq'[d][i]] = "parked"
          /\ \A i, j \in 1..Len(sendq'[d]) : sendq'[d][i] = sendq'[d][j] => i = j
    BY <1>0, <1>e, <2>2, <2>4 DEF ParkInv
  <2>a. /\ c \in Chats /\ Len(sendq[c]) \in Nat
        /\ \A i \in 1..Len(sendq'[c]) : i \in 1..Len(sendq[c]) \/ i = Len(sendq[c]) + 1
    BY <1>0, <2>3, LenProperties
  <2>b. \A i \in 1..Len(sendq[c]) : sendq'[c][i] # t /\ ChatOf[sendq'[c][i]] = c
                                  /\ call'[sendq'[c][i]] = "parked"
    BY <1>e, <2>a, <2>3, <2>4 DEF ParkInv
  <2>7. \A i \in 1..Len(sendq'[c]) :
               ChatOf[sendq'[c][i]] = c /\ call'[sendq'[c][i]] = "parked"
    BY <2>a, <2>b, <2>3, <2>5
  <2>8. \A i, j \in 1..Len(sendq'[c]) : sendq'[c][i] = sendq'[c][j] => i = j
    <3>1. \A i, j \in 1..Len(sendq[c]) : sendq'[c][i] = sendq'[c][j] => i = j
      BY <2>a, <2>3 DEF ParkInv
    <3> HIDE DEF c
    <3> QED
      BY <2>a, <2>b, <2>3, <3>1
  <2>9. \A d \in Chats : sendq'[d] # <<>> => ~done' /\ Len(buf'[d]) = Cap
    BY <1>0, <2>1, <2>2 DEF ParkInv
  <2> QED
    BY <2>6, <2>7, <2>8, <2>9 DEF ParkInv
<1>4. ASSUME NEW c \in Chats, Recv(c) PROVE ParkInv'
  <2>1. CASE sendq[c] = <<>>
    <3>1. UNCHANGED <<sendq, call, done>> /\ \A d \in Chats : d # c => buf'[d] = buf[d]
      BY <1>0, <1>4, <2>1 DEF Recv
    <3> QED
      BY <1>0, <2>1, <3>1 DEF ParkInv
  <2>2. CASE sendq[c] # <<>>
    <3> DEFINE t == Head(sendq[c])
    <3>1. /\ buf[c] # <<>> /\ UNCHANGED done
          /\ buf' = [buf EXCEPT ![c] = Append(Tail(buf[c]), t)]
          /\ sendq' = [sendq EXCEPT ![c] = Tail(sendq[c])]
          /\ call' = [call EXCEPT ![t] = "accepted"]
      BY <1>4, <2>2 DEF Recv
    <3>2. /\ Len(sendq[c]) > 0 /\ t = sendq[c][1] /\ t \in Tasks
          /\ ChatOf[t] = c
      <4>1. sendq[c] \in Seq(Tasks) /\ Len(sendq[c]) \in Nat /\ Len(sendq[c]) # 0
        BY <1>0, <2>2, EmptySeq, LenProperties
      <4>2. t = sendq[c][1] /\ 1 \in 1..Len(sendq[c])
        BY <4>1
      <4> QED
        BY <1>e, <4>1, <4>2 DEF ParkInv
    <3>3. /\ Len(sendq'[c]) = Len(sendq[c]) - 1
          /\ \A i \in 1..Len(sendq'[c]) : sendq'[c][i] = sendq[c][i + 1]
      BY <1>0, <2>2, <3>1, HeadTailProperties
    <3>4. \A d \in Chats : d # c => sendq'[d] = sendq[d] /\ buf'[d] = buf[d]
      BY <1>0, <3>1
    <3>5. \A u \in Tasks : u # t => call'[u] = call[u]
      BY <1>0, <3>1
    <3>6. Len(buf'[c]) = Len(buf[c])
      <4>1. Tail(buf[c]) \in Seq(Tasks) /\ Len(Tail(buf[c])) = Len(buf[c]) - 1
        BY <1>0, <3>1, HeadTailProperties
      <4> QED
        BY <1>0, <3>1, <3>2, <4>1, AppendProperties
    <3>7. \A d \in Chats : d # c =>
          /\ \A i \in 1..Len(sendq'[d]) :
               ChatOf[sendq'[d][i]] = d /\ call'[sendq'[d][i]] = "parked"
          /\ \A i, j \in 1..Len(sendq'[d]) : sendq'[d][i] = sendq'[d][j] => i = j
          /\ sendq'[d] # <<>> => ~done' /\ Len(buf'[d]) = Cap
      <4> SUFFICES ASSUME NEW d \in Chats, d # c
                   PROVE  /\ \A i \in 1..Len(sendq[d]) : call'[sendq[d][i]] = "parked"
        BY <3>1, <3>4 DEF ParkInv
      <4>1. \A i \in 1..Len(sendq[d]) : sendq[d][i] \in Tasks /\ ChatOf[sendq[d][i]] = d
        BY <1>0, ElementOfSeq DEF ParkInv
      <4> QED
        BY <3>2, <3>5, <4>1 DEF ParkInv
    <3>a. /\ Len(sendq[c]) \in Nat
          /\ \A i \in 1..Len(sendq'[c]) : i \in Nat /\ i + 1 \in 1..Len(sendq[c]) /\ i + 1 # 1
      BY <1>0, <3>2, <3>3, LenProperties
    <3>8. \A i \in 1..Len(sendq'[c]) :
               ChatOf[sendq'[c][i]] = c /\ call'[sendq'[c][i]] = "parked"
      <4> SUFFICES ASSUME NEW i \in 1..Len(sendq'[c])
                   PROVE  ChatOf[sendq'[c][i]] = c /\ call'[sendq'[c][i]] = "parked"
        OBVIOUS
      <4>1. sendq[c][i + 1] \in Tasks /\ sendq[c][i + 1] # t /\ 1 \in 1..Len(sendq[c])
        BY <1>e, <3>2, <3>a DEF ParkInv
      <4>2. ChatOf[sendq[c][i + 1]] = c /\ call[sendq[c][i + 1]] = "parked"
        BY <3>a DEF ParkInv
      <4> HIDE DEF t
      <4> QED
        BY <3>3, <3>5, <4>1, <4>2
    <3>9. \A i, j \in 1..Len(sendq'[c]) : sendq'[c][i] = sendq'[c][j] => i = j
      <4> SUFFICES ASSUME NEW i \in 1..Len(sendq'[c]), NEW j \in 1..Len(sendq'[c]),
                          sendq'[c][i] = sendq'[c][j]
                   PROVE  i = j
        OBVIOUS
      <4>1. sendq[c][i + 1] = sendq[c][j + 1]
        BY <3>3
      <4>2. i + 1 = j + 1
        BY <3>a, <4>1 DEF ParkInv
      <4> QED
        BY <3>a, <4>2
    <3>10. sendq'[c] # <<>> => ~done' /\ Len(buf'[c]) = Cap
      BY <2>2, <3>1, <3>6 DEF ParkInv
    <3> QED
      BY <3>7, <3>8, <3>9, <3>10 DEF ParkInv
  <2> QED
    BY <2>1, <2>2
<1>5. CASE Signal
  <2>1. \A c \in Chats : sendq'[c] = <<>>
    BY <1>5 DEF Signal
  <2> QED
    BY <2>1, EmptySeq DEF ParkInv
<1>6. ASSUME NEW c \in Chats, Acquire(c) \/ Finish(c) \/ Exit(c) \/ CloseChannel(c)
      PROVE  ParkInv'
  BY <1>6 DEF Acquire, Finish, Exit, CloseChannel, ParkInv
<1>7. ASSUME NEW t \in Tasks, SendOnClosed(t) PROVE ParkInv'
  BY <1>7 DEF SendOnClosed, ParkInv
<1>8. CASE Lock \/ Unlock \/ WaitReturns \/ UNCHANGED vars
  BY <1>8 DEF Lock, Unlock, WaitReturns, vars, ParkInv
<1> QED
  BY <1>1, <1>2, <1>3, <1>4, <1>5, <1>6, <1>7, <1>8, NextIsStep DEF Step

LEMMA InitPark == Init => ParkInv
BY EmptySeq DEF Init, ParkInv

LEMMA ParkCorrect == Spec => []ParkInv
<1> QED
  BY InitCore, StepCore, InitPark, StepPark, PTL DEF Spec

\* Closing a channel never finds a caller parked on it (queue.go:36-39, 54-58).
THEOREM ClosePanicsNoParkedCaller == Spec => []ParkedSafely
<1>1. CoreInv /\ StopInv /\ ParkInv => ParkedSafely
  BY DEF StopInv, ParkInv, ParkedSafely, CoreInv, TypeOK, StopStates
<1> QED
  BY CoreCorrect, StopCorrect, ParkCorrect, <1>1, PTL

-----------------------------------------------------------------------------
(* Nobody waits for a worker that is not there                             *)

\* A call past its lookup has a channel, and a parked one is in that channel's queue.
WaitInv ==
  /\ \A t \in Tasks : call[t] \in {"select", "parked"} => ChatOf[t] \in chats
  /\ \A t \in Tasks : call[t] = "parked" =>
       \E i \in DOMAIN sendq[ChatOf[t]] : sendq[ChatOf[t]][i] = t

LEMMA StepWait == TypeOK /\ WaitInv /\ [Next]_vars => WaitInv'
<1> SUFFICES ASSUME TypeOK, WaitInv, [Next]_vars PROVE WaitInv'
  OBVIOUS
<1> USE ConstantsAssumption DEF TypeOK, WaitInv, queueVars
<1>1. ASSUME NEW t \in Tasks, FindChannel(t) \/ CreateChannel(t) \/ GiveUp(t) \/ SendOnClosed(t)
      PROVE  WaitInv'
  BY <1>1 DEF FindChannel, CreateChannel, GiveUp, SendOnClosed
<1>2. ASSUME NEW t \in Tasks, Send(t) PROVE WaitInv'
  BY <1>2 DEF Send
<1>3. ASSUME NEW t \in Tasks, Park(t) PROVE WaitInv'
  <2> DEFINE c == ChatOf[t]
  <2>1. /\ call[t] = "select" /\ call' = [call EXCEPT ![t] = "parked"] /\ chats' = chats
        /\ sendq' = [sendq EXCEPT ![c] = Append(sendq[c], t)] /\ c \in Chats
    BY <1>3 DEF Park
  <2>2. /\ sendq[c] \in Seq(Tasks)
        /\ DOMAIN sendq[c] = 1..Len(sendq[c]) /\ Len(sendq[c]) \in Nat
        /\ DOMAIN Append(sendq[c], t) = 1..(Len(sendq[c]) + 1)
        /\ Append(sendq[c], t)[Len(sendq[c]) + 1] = t
        /\ \A i \in 1..Len(sendq[c]) : Append(sendq[c], t)[i] = sendq[c][i]
    BY <2>1
  <2>3. \E i \in DOMAIN Append(sendq[c], t) : Append(sendq[c], t)[i] = t
    <3>1. Len(sendq[c]) + 1 \in DOMAIN Append(sendq[c], t)
      BY <2>2
    <3> QED
      BY <2>2, <3>1
  <2>4. \A u \in Tasks : (\E i \in DOMAIN sendq[c] : sendq[c][i] = u)
           => \E i \in DOMAIN Append(sendq[c], t) : Append(sendq[c], t)[i] = u
    <3>1. \A i \in DOMAIN sendq[c] : i \in DOMAIN Append(sendq[c], t)
      BY <2>2
    <3> QED
      BY <2>2, <3>1
  <2>5. /\ sendq'[c] = Append(sendq[c], t)
        /\ \A d \in Chats : d # c => sendq'[d] = sendq[d]
    BY <2>1
  <2>6. ASSUME NEW u \in Tasks, call'[u] = "parked"
        PROVE  \E i \in DOMAIN sendq'[ChatOf[u]] : sendq'[ChatOf[u]][i] = u
    <3>1. CASE u = t
      BY <2>3, <2>5, <3>1
    <3>2. CASE u # t
      <4>1. call[u] = "parked" /\ ChatOf[u] \in Chats
        BY <2>1, <2>6, <3>2
      <4> HIDE DEF c
      <4> QED
        BY <2>4, <2>5, <4>1
    <3> QED
      BY <3>1, <3>2
  <2>7. \A u \in Tasks : call'[u] \in {"select", "parked"} => ChatOf[u] \in chats'
    BY <2>1
  <2> QED
    BY <2>6, <2>7
<1>4. ASSUME NEW c \in Chats, Recv(c) PROVE WaitInv'
  <2>1. CASE sendq[c] = <<>>
    BY <1>4, <2>1 DEF Recv
  <2>2. CASE sendq[c] # <<>>
    <3> DEFINE t == Head(sendq[c])
    <3>1. /\ sendq' = [sendq EXCEPT ![c] = Tail(sendq[c])] /\ chats' = chats
          /\ call' = [call EXCEPT ![t] = "accepted"]
      BY <1>4, <2>2 DEF Recv
    <3>2. \A u \in Tasks : u # t /\ (\E i \in DOMAIN sendq[c] : sendq[c][i] = u)
            => \E i \in DOMAIN Tail(sendq[c]) : Tail(sendq[c])[i] = u
      <4>1. /\ DOMAIN sendq[c] = 1..Len(sendq[c]) /\ Len(sendq[c]) \in Nat
            /\ DOMAIN Tail(sendq[c]) = 1..(Len(sendq[c]) - 1) /\ t = sendq[c][1]
            /\ \A i \in 1..(Len(sendq[c]) - 1) : Tail(sendq[c])[i] = sendq[c][i + 1]
        BY <2>2
      <4> HIDE DEF t
      <4>2. \A i \in DOMAIN sendq[c] : sendq[c][i] # t =>
              i - 1 \in 1..(Len(sendq[c]) - 1) /\ Tail(sendq[c])[i - 1] = sendq[c][i]
        <5> SUFFICES ASSUME NEW i \in 1..Len(sendq[c]), i # 1
                     PROVE  i - 1 \in 1..(Len(sendq[c]) - 1) /\ Tail(sendq[c])[i - 1] = sendq[c][i]
          BY <4>1
        <5>1. i - 1 \in 1..(Len(sendq[c]) - 1) /\ (i - 1) + 1 = i
          BY <4>1
        <5> QED
          BY <4>1, <5>1
      <4> QED
        BY <4>1, <4>2
    <3>3. /\ sendq'[c] = Tail(sendq[c])
          /\ \A d \in Chats : d # c => sendq'[d] = sendq[d]
      BY <3>1
    <3>4. \A u \in Tasks : call'[u] \in {"select", "parked"} => u # t /\ call'[u] = call[u]
      BY <3>1
    <3> HIDE DEF t
    <3>5. ASSUME NEW u \in Tasks, call'[u] = "parked"
          PROVE  \E i \in DOMAIN sendq'[ChatOf[u]] : sendq'[ChatOf[u]][i] = u
      <4>1. u # t /\ call[u] = "parked" /\ ChatOf[u] \in Chats
        BY <3>4, <3>5
      <4> QED
        BY <3>2, <3>3, <4>1
    <3> QED
      BY <3>1, <3>4, <3>5
  <2> QED
    BY <2>1, <2>2
<1>5. CASE Signal
  BY <1>5 DEF Signal
<1>6. ASSUME NEW c \in Chats, Acquire(c) \/ Finish(c) \/ Exit(c) \/ CloseChannel(c)
      PROVE  WaitInv'
  BY <1>6 DEF Acquire, Finish, Exit, CloseChannel
<1>7. CASE Lock \/ Unlock \/ WaitReturns \/ UNCHANGED vars
  BY <1>7 DEF Lock, Unlock, WaitReturns, vars
<1> QED
  BY <1>1, <1>2, <1>3, <1>4, <1>5, <1>6, <1>7, NextIsStep DEF Step

\* A caller parked on a full channel always has the worker that will let it in, in
\* the channel where it waits (queue.go:36-39): with a fair scheduler it gets in.
THEOREM ParkedCallersAreServed == Spec => []ParkedAreServed
<1>1. Init => WaitInv
  BY DEF Init, WaitInv
<1>2. CoreInv /\ StopInv /\ ParkInv /\ WaitInv => ParkedAreServed
  <2> SUFFICES ASSUME CoreInv, StopInv, ParkInv, WaitInv, NEW t \in Tasks, call[t] = "parked"
               PROVE  /\ ChatOf[t] \notin closed /\ ChatOf[t] \in Live
                      /\ \E i \in DOMAIN sendq[ChatOf[t]] : sendq[ChatOf[t]][i] = t
    BY DEF ParkedAreServed
  <2> DEFINE c == ChatOf[t]
  <2>1. /\ c \in Chats /\ c \in chats
        /\ \E i \in DOMAIN sendq[c] : sendq[c][i] = t
    BY ConstantsAssumption DEF WaitInv
  <2>2. sendq[c] # <<>>
    BY <2>1
  <2>3. ~done /\ Len(buf[c]) = Cap /\ Len(buf[c]) # 0
    BY <2>1, <2>2, ConstantsAssumption DEF ParkInv
  <2>4. c \notin closed
    BY <2>3 DEF StopInv, CoreInv, TypeOK, StopStates
  <2>5. worker[c] \in WorkerStates /\ worker[c] # "none" /\ worker[c] # "exited"
    BY <2>1, <2>4 DEF CoreInv, TypeOK, WorkerPerChat
  <2> QED
    BY <2>1, <2>4, <2>5 DEF Live, WorkerStates
<1>3. CoreInv => TypeOK
  BY DEF CoreInv
<1> QED
  BY <1>1, <1>2, <1>3, StepWait, CoreCorrect, StopCorrect, ParkCorrect, PTL DEF Spec

-----------------------------------------------------------------------------
(* The backlog, and a limit of zero                                        *)

\* No channel holds more than its buffer.
Buffered == \A c \in Chats : Len(buf[c]) <= Cap

LEMMA StepBuffered == TypeOK /\ Buffered /\ [Next]_vars => Buffered'
<1> SUFFICES ASSUME TypeOK, Buffered, [Next]_vars PROVE Buffered'
  OBVIOUS
<1> USE ConstantsAssumption DEF TypeOK, Buffered, queueVars
<1>1. ASSUME NEW t \in Tasks, Send(t) PROVE Buffered'
  <2> DEFINE c == ChatOf[t]
  <2>1. /\ c \in Chats /\ Len(buf[c]) < Cap
        /\ buf' = [buf EXCEPT ![c] = Append(buf[c], t)]
    BY <1>1 DEF Send
  <2>2. Len(Append(buf[c], t)) <= Cap
    BY <2>1, AppendProperties, LenProperties
  <2> QED
    BY <2>1, <2>2
<1>2. ASSUME NEW c \in Chats, Recv(c) PROVE Buffered'
  <2>1. Tail(buf[c]) \in Seq(Tasks) /\ Len(Tail(buf[c])) = Len(buf[c]) - 1 /\ Len(buf[c]) \in Nat
    BY <1>2, HeadTailProperties, LenProperties DEF Recv
  <2>2. CASE sendq[c] = <<>>
    <3>1. buf' = [buf EXCEPT ![c] = Tail(buf[c])]
      BY <1>2, <2>2 DEF Recv
    <3>2. Len(buf[c]) <= Cap /\ Len(Tail(buf[c])) <= Cap
      BY <2>1
    <3> QED
      BY <3>1, <3>2
  <2>3. CASE sendq[c] # <<>>
    <3>1. Head(sendq[c]) \in Tasks
      BY <2>3, HeadTailProperties
    <3>2. Len(Append(Tail(buf[c]), Head(sendq[c]))) <= Cap
      BY <2>1, <3>1, AppendProperties
    <3>3. buf' = [buf EXCEPT ![c] = Append(Tail(buf[c]), Head(sendq[c]))]
      BY <1>2, <2>3 DEF Recv
    <3> QED
      BY <3>2, <3>3
  <2> QED
    BY <2>2, <2>3
<1>3. CASE UNCHANGED buf
  BY <1>3
<1>4. ASSUME NEW t \in Tasks,
             FindChannel(t) \/ CreateChannel(t) \/ Park(t) \/ GiveUp(t) \/ SendOnClosed(t)
      PROVE  UNCHANGED buf
  BY <1>4 DEF FindChannel, CreateChannel, Park, GiveUp, SendOnClosed
<1>5. ASSUME NEW c \in Chats, Acquire(c) \/ Finish(c) \/ Exit(c) \/ CloseChannel(c)
      PROVE  UNCHANGED buf
  BY <1>5 DEF Acquire, Finish, Exit, CloseChannel
<1>6. CASE Signal \/ Lock \/ Unlock \/ WaitReturns \/ UNCHANGED vars
  BY <1>3, <1>6 DEF Signal, Lock, Unlock, WaitReturns, vars
<1> HIDE DEF TypeOK, Buffered
<1> QED
  BY <1>1, <1>2, <1>3, <1>4, <1>5, <1>6, NextIsStep DEF Step

LEMMA BufferedCorrect == Spec => []Buffered
<1>1. Init => Buffered
  BY ConstantsAssumption DEF Init, Buffered
<1>2. CoreInv => TypeOK
  BY DEF CoreInv
<1> QED
  BY <1>1, <1>2, StepBuffered, CoreCorrect, PTL DEF Spec

\* What a chat has accepted is ahead of what it has run by the buffer and the task
\* in its worker's hand, at the most (queue.go:33).
LEMMA BacklogFromBuffer == TypeOK /\ FIFO /\ Buffered => BacklogBounded
<1> SUFFICES ASSUME TypeOK, FIFO, Buffered, NEW c \in Chats
             PROVE  Len(sent[c]) <= Len(ran[c]) + Cap + 1
  BY DEF BacklogBounded
<1>1. /\ ran[c] \in Seq(Tasks) /\ buf[c] \in Seq(Tasks)
      /\ InHand(c) \in Seq(Tasks) /\ Len(InHand(c)) \in {0, 1}
  BY EmptySeq DEF TypeOK, InHand
<1>2. /\ ran[c] \o InHand(c) \in Seq(Tasks)
      /\ Len(ran[c] \o InHand(c)) = Len(ran[c]) + Len(InHand(c))
  BY <1>1, ConcatProperties
<1>3. Len((ran[c] \o InHand(c)) \o buf[c]) = Len(ran[c]) + Len(InHand(c)) + Len(buf[c])
  BY <1>1, <1>2, ConcatProperties
<1>4. /\ Len(ran[c]) \in Nat /\ Len(buf[c]) \in Nat /\ Cap \in Nat
      /\ Len(buf[c]) <= Cap /\ sent[c] = (ran[c] \o InHand(c)) \o buf[c]
  BY <1>1, LenProperties, ConstantsAssumption DEF Buffered, FIFO
<1>5. PICK h \in {0, 1} : Len(InHand(c)) = h
  BY <1>1, Zenon
<1>6. Len(sent[c]) = Len(ran[c]) + h + Len(buf[c])
  BY <1>3, <1>4, <1>5
<1>7. \A a, b \in Nat : b <= Cap => a + h + b <= a + Cap + 1
  BY <1>5
<1> QED
  BY <1>4, <1>6, <1>7

THEOREM BacklogIsBounded == Spec => []BacklogBounded
<1>1. CoreInv => TypeOK
  BY DEF CoreInv
<1> QED
  BY <1>1, BacklogFromBuffer, CoreCorrect, TasksRunInOrder, BufferedCorrect, PTL

\* With max_concurrent = 0, which config.go:77 accepts, nothing ever runs, and after
\* a chat's first Cap + 1 tasks its callers get in no more.
THEOREM NoSlotNothingRuns ==
  ASSUME MaxConcurrent = 0
  PROVE  Spec => []NothingRuns
<1> DEFINE Unrun == \A c \in Chats : ran[c] = <<>> /\ worker[c] # "running"
<1>1. Init => Unrun
  BY DEF Init
<1>2. TypeOK /\ Unrun /\ [Next]_vars => Unrun'
  <2> SUFFICES ASSUME TypeOK, Unrun, [Next]_vars PROVE Unrun'
    OBVIOUS
  <2> USE DEF TypeOK
  <2>1. ASSUME NEW c \in Chats, Acquire(c) \/ Finish(c) PROVE FALSE
    BY <2>1 DEF Acquire, SlotFree, Finish
  <2>2. ASSUME NEW t \in Tasks, CreateChannel(t) PROVE Unrun'
    BY <2>2 DEF CreateChannel
  <2>3. ASSUME NEW c \in Chats, Recv(c) \/ Exit(c) PROVE Unrun'
    BY <2>3 DEF Recv, Exit, queueVars
  <2>4. CASE UNCHANGED <<ran, worker>>
    BY <2>4
  <2> QED
    BY <2>1, <2>2, <2>3, <2>4, NextIsStep
    DEF Step, FindChannel, Send, Park, GiveUp, SendOnClosed, CloseChannel, Signal, Lock,
        Unlock, WaitReturns, vars
<1>3. TypeOK /\ Unrun /\ BacklogBounded => NothingRuns
  <2> SUFFICES ASSUME Unrun, BacklogBounded, NEW c \in Chats
               PROVE  ran[c] = <<>> /\ Len(sent[c]) <= Cap + 1
    BY DEF NothingRuns
  <2>1. ran[c] = <<>> /\ Len(ran[c]) = 0
    BY EmptySeq
  <2> QED
    BY <2>1, ConstantsAssumption DEF BacklogBounded
<1> QED
  BY <1>1, <1>2, <1>3, TypeCorrect, BacklogIsBounded, PTL DEF Spec

-----------------------------------------------------------------------------
(* Acceptance                                                              *)

\* The elements of S are the elements of s, once each.
Lists(s, S) == SeqElems(s) = S /\ \A i, j \in 1..Len(s) : s[i] = s[j] => i = j

\* A new element at the end.
LEMMA ListsAppend ==
  ASSUME NEW s \in Seq(Tasks), NEW S, Lists(s, S), NEW t \in Tasks, t \notin S
  PROVE  Lists(Append(s, t), S \cup {t})
<1> DEFINE a == Append(s, t)
<1>1. /\ Len(s) \in Nat /\ Len(a) = Len(s) + 1
      /\ \A i \in 1..Len(s) : a[i] = s[i]
      /\ a[Len(s) + 1] = t
  BY AppendProperties, LenProperties
<1>2. \A i \in 1..Len(s) : s[i] \in S
  BY DEF Lists, SeqElems
<1> HIDE DEF a
<1>3. SeqElems(a) = S \cup {t}
  <2>1. \A i \in 1..Len(a) : a[i] \in S \cup {t}
    BY <1>1, <1>2
  <2>2. ASSUME NEW x \in S \cup {t} PROVE \E i \in 1..Len(a) : a[i] = x
    <3>1. CASE x = t
      BY <1>1, <3>1
    <3>2. CASE x \in S
      <4>1. PICK i \in 1..Len(s) : s[i] = x
        BY <3>2 DEF Lists, SeqElems
      <4> QED
        BY <1>1, <4>1
    <3> QED
      BY <3>1, <3>2
  <2> QED
    BY <2>1, <2>2 DEF SeqElems
<1>4. ASSUME NEW i \in 1..Len(a), NEW j \in 1..Len(a), a[i] = a[j] PROVE i = j
  BY <1>1, <1>2, <1>4 DEF Lists
<1> QED
  BY <1>3, <1>4 DEF Lists, a

Accepted(c) == {t \in Tasks : ChatOf[t] = c /\ call[t] = "accepted"}

\* AcceptedOnce, chat by chat.
LEMMA OnceAsLists == AcceptedOnce <=> \A c \in Chats : Lists(sent[c], Accepted(c))
BY DEF AcceptedOnce, Lists, Accepted

\* One step keeps AcceptedOnce: a task that gets into a channel was not accepted
\* before, whether its own call sends it or the worker lets it in.
LEMMA StepOnce == CoreInv /\ ParkInv /\ AcceptedOnce /\ [Next]_vars => AcceptedOnce'
<1> SUFFICES ASSUME CoreInv, ParkInv, \A c \in Chats : Lists(sent[c], Accepted(c)), [Next]_vars,
                    NEW c \in Chats
             PROVE  Lists(sent'[c], Accepted(c)')
  BY OnceAsLists DEF AcceptedOnce, Lists, Accepted, SeqElems
<1>0. TypeOK /\ sent[c] \in Seq(Tasks)
  BY DEF CoreInv, TypeOK
<1>a. ASSUME sent' = sent, \A t \in Tasks : call'[t] = "accepted" <=> call[t] = "accepted"
      PROVE  Lists(sent'[c], Accepted(c)')
  BY <1>a DEF Accepted
<1>b. ASSUME NEW t \in Tasks, call[t] # "accepted", call' = [call EXCEPT ![t] = "accepted"],
             sent' = [sent EXCEPT ![ChatOf[t]] = Append(@, t)]
      PROVE  Lists(sent'[c], Accepted(c)')
  <2>1. CASE c = ChatOf[t]
    <3>1. Accepted(c)' = Accepted(c) \cup {t} /\ t \notin Accepted(c) /\ sent'[c] = Append(sent[c], t)
      BY <1>0, <1>b, <2>1 DEF Accepted, TypeOK
    <3> QED
      BY <1>0, <3>1, ListsAppend
  <2>2. CASE c # ChatOf[t]
    <3>1. Accepted(c)' = Accepted(c) /\ sent'[c] = sent[c]
      BY <1>0, <1>b, <2>2 DEF Accepted, TypeOK
    <3> QED
      BY <3>1
  <2> QED
    BY <2>1, <2>2
<1>1. ASSUME NEW t \in Tasks,
             FindChannel(t) \/ CreateChannel(t) \/ Park(t) \/ GiveUp(t) \/ SendOnClosed(t)
      PROVE  Lists(sent'[c], Accepted(c)')
  BY <1>0, <1>1, <1>a DEF FindChannel, CreateChannel, Park, GiveUp, SendOnClosed, TypeOK
<1>2. ASSUME NEW t \in Tasks, Send(t) PROVE Lists(sent'[c], Accepted(c)')
  BY <1>2, <1>b DEF Send
<1>3. ASSUME NEW d \in Chats, Recv(d) PROVE Lists(sent'[c], Accepted(c)')
  <2>1. CASE sendq[d] = <<>>
    BY <1>3, <1>a, <2>1 DEF Recv
  <2>2. CASE sendq[d] # <<>>
    <3> DEFINE t == Head(sendq[d])
    <3>1. sendq[d] \in Seq(Tasks) /\ t \in Tasks /\ t = sendq[d][1] /\ 1 \in 1..Len(sendq[d])
      BY <1>0, <2>2, HeadTailProperties, EmptySeq DEF TypeOK
    <3>2. ChatOf[t] = d /\ call[t] = "parked"
      BY <3>1 DEF ParkInv
    <3>3. call' = [call EXCEPT ![t] = "accepted"] /\ sent' = [sent EXCEPT ![d] = Append(@, t)]
      BY <1>3, <2>2 DEF Recv
    <3> HIDE DEF t
    <3> QED
      BY <1>b, <3>1, <3>2, <3>3
  <2> QED
    BY <2>1, <2>2
<1>4. ASSUME NEW d \in Chats, Acquire(d) \/ Finish(d) \/ Exit(d) \/ CloseChannel(d)
      PROVE  Lists(sent'[c], Accepted(c)')
  BY <1>4, <1>a DEF Acquire, Finish, Exit, CloseChannel
<1>5. CASE Signal
  <2>1. sent' = sent /\ \A t \in Tasks : call'[t] = IF call[t] = "parked" THEN "dropped" ELSE call[t]
    BY <1>5 DEF Signal
  <2> QED
    BY <1>a, <2>1
<1>6. CASE Lock \/ Unlock \/ WaitReturns \/ UNCHANGED vars
  BY <1>6, <1>a DEF Lock, Unlock, WaitReturns, vars
<1> QED
  BY <1>1, <1>2, <1>3, <1>4, <1>5, <1>6, NextIsStep DEF Step

\* A call that returned through the send is queued once, in its own chat, and one
\* that waits or was dropped is queued nowhere.
THEOREM AcceptedTasksAreQueuedOnce == Spec => []AcceptedOnce
<1>1. Init => AcceptedOnce
  BY EmptySeq DEF Init, AcceptedOnce, SeqElems
<1> QED
  BY <1>1, StepOnce, CoreCorrect, ParkCorrect, PTL DEF Spec

-----------------------------------------------------------------------------
LEMMA HeadTailOfCons ==
  ASSUME NEW e \in Tasks, NEW s \in Seq(Tasks)
  PROVE  /\ <<e>> \o s # <<>> /\ Head(<<e>> \o s) = e /\ Tail(<<e>> \o s) = s
<1>1. <<e>> \in Seq(Tasks) /\ Len(<<e>>) = 1 /\ <<e>>[1] = e
  OBVIOUS
<1>2. /\ <<e>> \o s \in Seq(Tasks) /\ Len(<<e>> \o s) = 1 + Len(s)
      /\ \A i \in 1..Len(<<e>> \o s) :
           (<<e>> \o s)[i] = IF i <= 1 THEN <<e>>[i] ELSE s[i - 1]
  BY <1>1, ConcatProperties
<1>3. Len(s) \in Nat /\ <<e>> \o s # <<>>
  BY <1>2, LenProperties, EmptySeq
<1>4. Head(<<e>> \o s) = e
  BY <1>1, <1>2, <1>3, HeadTailProperties
<1>5. /\ Tail(<<e>> \o s) \in Seq(Tasks) /\ Len(Tail(<<e>> \o s)) = Len(s)
      /\ \A i \in 1..Len(s) : Tail(<<e>> \o s)[i] = (<<e>> \o s)[i + 1]
  BY <1>2, <1>3, HeadTailProperties
<1>6. \A i \in 1..Len(s) : (<<e>> \o s)[i + 1] = s[i]
  BY <1>2, <1>3
<1>7. Tail(<<e>> \o s) = s
  BY <1>5, <1>6, SeqEqual
<1> QED
  BY <1>3, <1>4, <1>7

LEMMA LenOfCons ==
  ASSUME NEW e \in Tasks, NEW s \in Seq(Tasks)
  PROVE  Len(<<e>> \o s) = 1 + Len(s)
<1>1. <<e>> \in Seq(Tasks) /\ Len(<<e>>) = 1
  OBVIOUS
<1> QED
  BY <1>1, ConcatProperties

-----------------------------------------------------------------------------
(* The queue implements the serial executor                                *)

\* The values of the executor's variables in a state of the queue.
AbsCall == [t \in Tasks |-> IF call[t] \in {"select", "parked"} THEN "open" ELSE call[t]]
AbsPending == [c \in Chats |->
                 IF worker[c] = "acquire" THEN <<hand[c]>> \o buf[c] ELSE buf[c]]
AbsRunning == [c \in Chats |-> IF worker[c] = "running" THEN hand[c] ELSE NoTask]

LEMMA AbsBusy == CoreInv => Executor!Busy = Running
BY DEF Executor!Busy, Running, CoreInv, TypeOK, WorkerPerChat

LEMMA InitAbstract == Init => Executor!Init
BY DEF Init, Executor!Init

\* The abstract state changes only where these three values do.
LEMMA Stutter ==
  ASSUME AbsCall' = AbsCall, AbsPending' = AbsPending, AbsRunning' = AbsRunning,
         UNCHANGED <<ran, done, panicked>>
  PROVE  UNCHANGED Executor!vars
BY DEF AbsCall, AbsPending, AbsRunning, Executor!vars

LEMMA StepAbstract ==
  CoreInv /\ StopInv /\ ParkInv /\ [Next]_vars => [Executor!Next]_(Executor!vars)
<1> SUFFICES ASSUME CoreInv, StopInv, ParkInv, [Next]_vars
             PROVE  Executor!Next \/ UNCHANGED Executor!vars
  OBVIOUS
<1>0. TypeOK /\ WorkerPerChat
  BY DEF CoreInv
<1> USE DEF queueVars, ConstantsAssumption
<1>1. ASSUME NEW t \in Tasks, FindChannel(t), ~panicked PROVE Executor!Next
  <2>1. Executor!Begin(t)
    <3>1. AbsCall[t] = "new" /\ AbsCall' = [AbsCall EXCEPT ![t] = "open"]
      BY <1>0, <1>1 DEF FindChannel, AbsCall, TypeOK
    <3>2. panicked' \in {FALSE, done}
      BY <1>0, <1>1 DEF FindChannel, TypeOK
    <3>3. UNCHANGED <<AbsPending, AbsRunning, ran, done>>
      BY <1>1 DEF FindChannel, AbsPending, AbsRunning
    <3> QED
      BY <3>1, <3>2, <3>3 DEF Executor!Begin, AbsCall, AbsPending, AbsRunning
  <2> QED
    BY <1>1, <2>1 DEF Executor!Next
<1>2. ASSUME NEW t \in Tasks, CreateChannel(t), ~panicked PROVE Executor!Next
  <2>1. Executor!Begin(t)
    <3>1. AbsCall[t] = "new" /\ AbsCall' = [AbsCall EXCEPT ![t] = "open"]
      BY <1>0, <1>2 DEF CreateChannel, AbsCall, TypeOK
    <3>2. panicked' \in {FALSE, done}
      <4>1. CASE WaitGroupReused
        <5>1. done = TRUE
          BY <1>0, <4>1 DEF WaitGroupReused, StopInv, TypeOK
        <5>2. panicked' \in BOOLEAN
          BY <1>2, <4>1 DEF CreateChannel
        <5> QED
          BY <5>1, <5>2
      <4>2. CASE ~WaitGroupReused
        <5>1. panicked' \in {FALSE}
          BY <1>2, <4>2 DEF CreateChannel
        <5> QED
          BY <5>1
      <4> QED
        BY <4>1, <4>2
    <3>3. UNCHANGED <<ran, done, hand, buf>>
          /\ worker' = [worker EXCEPT ![ChatOf[t]] = "recv"] /\ worker[ChatOf[t]] = "none"
      BY <1>0, <1>2 DEF CreateChannel, WorkerPerChat
    <3>4. UNCHANGED <<AbsPending, AbsRunning>>
      BY <1>0, <3>3 DEF AbsPending, AbsRunning, TypeOK
    <3> QED
      BY <3>1, <3>2, <3>3, <3>4 DEF Executor!Begin, AbsCall, AbsPending, AbsRunning
  <2> QED
    BY <1>2, <2>1 DEF Executor!Next
<1>3. ASSUME NEW t \in Tasks, Send(t), ~panicked PROVE Executor!Next
  <2> DEFINE c == ChatOf[t]
  <2>1. /\ call[t] = "select" /\ call' = [call EXCEPT ![t] = "accepted"]
        /\ buf' = [buf EXCEPT ![c] = Append(buf[c], t)] /\ c \in Chats
        /\ UNCHANGED <<worker, hand, ran, done, panicked>>
    BY <1>0, <1>3 DEF Send, TypeOK
  <2>2. AbsCall[t] = "open" /\ AbsCall' = [AbsCall EXCEPT ![t] = "accepted"]
    BY <1>0, <2>1 DEF AbsCall, TypeOK
  <2>3. AbsPending' = [AbsPending EXCEPT ![c] = Append(AbsPending[c], t)]
    <3>1. CASE worker[c] = "acquire"
      <4>1. hand[c] \in Tasks /\ <<hand[c]>> \in Seq(Tasks) /\ buf[c] \in Seq(Tasks)
        BY <1>0, <2>1, <3>1 DEF TypeOK, WorkerPerChat
      <4>2. Append(<<hand[c]>> \o buf[c], t) = <<hand[c]>> \o Append(buf[c], t)
        BY <4>1, AppendToConcat, Zenon
      <4> HIDE DEF c
      <4>3. AbsPending[c] = <<hand[c]>> \o buf[c]
            /\ AbsPending'[c] = <<hand[c]>> \o Append(buf[c], t)
        BY <1>0, <2>1, <3>1 DEF AbsPending, TypeOK
      <4>4. \A d \in Chats : d # c => AbsPending'[d] = AbsPending[d]
        BY <1>0, <2>1 DEF AbsPending, TypeOK
      <4> QED
        BY <2>1, <4>2, <4>3, <4>4 DEF AbsPending
    <3>2. CASE worker[c] # "acquire"
      <4> HIDE DEF c
      <4> QED
        BY <1>0, <2>1, <3>2 DEF AbsPending, TypeOK
    <3> QED
      BY <3>1, <3>2
  <2>4. AbsRunning' = AbsRunning
    BY <2>1 DEF AbsRunning
  <2>5. Len(AbsPending[c]) < Cap + 1
    <3>1. Len(buf[c]) < Cap /\ Len(buf[c]) \in Nat /\ Cap \in Nat
      BY <1>0, <1>3, <2>1, LenProperties DEF Send, TypeOK
    <3>2. CASE worker[c] = "acquire"
      <4>1. hand[c] \in Tasks /\ buf[c] \in Seq(Tasks)
        BY <1>0, <2>1, <3>2 DEF TypeOK, WorkerPerChat
      <4>2. Len(<<hand[c]>> \o buf[c]) = 1 + Len(buf[c])
        BY <4>1, LenOfCons
      <4> QED
        BY <2>1, <3>1, <3>2, <4>2 DEF AbsPending
    <3>3. CASE worker[c] # "acquire"
      BY <2>1, <3>1, <3>3 DEF AbsPending
    <3> QED
      BY <3>2, <3>3
  <2>6. Executor!Submit(t)
    BY <2>1, <2>2, <2>3, <2>4, <2>5 DEF Executor!Submit, AbsCall, AbsPending, AbsRunning
  <2> QED
    BY <1>3, <2>6 DEF Executor!Next
<1>4. ASSUME NEW t \in Tasks, Park(t) PROVE UNCHANGED Executor!vars
  <2>1. AbsCall' = AbsCall
    BY <1>0, <1>4 DEF Park, AbsCall, TypeOK
  <2>2. UNCHANGED <<buf, worker, hand, ran, done, panicked>>
    BY <1>4 DEF Park
  <2> QED
    BY <2>1, <2>2, Stutter DEF AbsPending, AbsRunning
<1>5. ASSUME NEW t \in Tasks, GiveUp(t), ~panicked PROVE Executor!Next
  <2>1. AbsCall[t] = "open" /\ AbsCall' = [AbsCall EXCEPT ![t] = "dropped"]
    BY <1>0, <1>5 DEF GiveUp, AbsCall, TypeOK
  <2>2. done /\ UNCHANGED <<AbsPending, AbsRunning, ran, done, panicked>>
    BY <1>5 DEF GiveUp, AbsPending, AbsRunning
  <2>3. Executor!Drop(t)
    BY <2>1, <2>2 DEF Executor!Drop, AbsCall, AbsPending, AbsRunning
  <2> QED
    BY <1>5, <2>3 DEF Executor!Next
<1>6. ASSUME NEW t \in Tasks, SendOnClosed(t), ~panicked PROVE Executor!Next
  <2>1. done
    BY <1>0, <1>6 DEF SendOnClosed, StopInv
  <2>2. UNCHANGED <<AbsCall, AbsPending, AbsRunning, ran, done>> /\ panicked' = TRUE
    BY <1>6 DEF SendOnClosed, AbsCall, AbsPending, AbsRunning
  <2>3. Executor!Crash
    BY <2>1, <2>2 DEF Executor!Crash, AbsCall, AbsPending, AbsRunning
  <2> QED
    BY <1>6, <2>3 DEF Executor!Next
<1>7. ASSUME NEW c \in Chats, Recv(c), ~panicked
      PROVE  Executor!Next \/ UNCHANGED Executor!vars
  <2>1. /\ worker[c] = "recv" /\ worker' = [worker EXCEPT ![c] = "acquire"]
        /\ buf[c] # <<>> /\ hand' = [hand EXCEPT ![c] = Head(buf[c])]
        /\ UNCHANGED <<ran, done, panicked>>
    BY <1>7 DEF Recv, Oldest
  <2>2. Head(buf[c]) \in Tasks /\ Tail(buf[c]) \in Seq(Tasks)
        /\ <<Head(buf[c])>> \in Seq(Tasks) /\ <<Head(buf[c])>> \o Tail(buf[c]) = buf[c]
    <3>1. Head(buf[c]) \in Tasks /\ Tail(buf[c]) \in Seq(Tasks) /\ buf[c] \in Seq(Tasks)
      BY <1>0, <2>1, HeadTailProperties DEF TypeOK
    <3> QED
      BY <2>1, <3>1, HeadTailProperties, ConcatProperties, SeqEqual
  <2>3. AbsRunning' = AbsRunning
    BY <1>0, <2>1 DEF AbsRunning, TypeOK
  <2>4. \A d \in Chats : d # c => AbsPending'[d] = AbsPending[d]
    <3>1. \A d \in Chats : d # c => UNCHANGED <<buf[d], worker[d], hand[d]>>
      BY <1>0, <1>7, <2>1 DEF TypeOK, Recv
    <3> QED
      BY <3>1 DEF AbsPending
  <2>5. AbsPending[c] = buf[c] /\ AbsPending'[c] = <<Head(buf[c])>> \o buf'[c]
    BY <1>0, <2>1 DEF AbsPending, TypeOK
  <2>6. CASE sendq[c] = <<>>
    <3>1. buf'[c] = Tail(buf[c]) /\ call' = call
      BY <1>0, <1>7, <2>6 DEF Recv, TypeOK
    <3>2. AbsPending'[c] = AbsPending[c]
      BY <2>2, <2>5, <3>1
    <3>3. AbsPending' = AbsPending
      BY <2>4, <3>2 DEF AbsPending
    <3> QED
      BY <2>1, <2>3, <3>1, <3>3, Stutter DEF AbsCall
  <2>7. CASE sendq[c] # <<>>
    <3>0. PICK t \in Tasks : t = Head(sendq[c])
      BY <1>0, <2>7, HeadTailProperties DEF TypeOK
    <3>1. buf'[c] = Append(Tail(buf[c]), t) /\ call' = [call EXCEPT ![t] = "accepted"]
      BY <1>0, <1>7, <2>7, <3>0 DEF Recv, TypeOK
    <3>2. t \in Tasks /\ ChatOf[t] = c /\ call[t] = "parked"
      <4>1. sendq[c] \in Seq(Tasks) /\ Len(sendq[c]) \in Nat /\ Len(sendq[c]) # 0
        BY <1>0, <2>7, EmptySeq, LenProperties DEF TypeOK
      <4>2. t = sendq[c][1] /\ 1 \in 1..Len(sendq[c])
        BY <3>0, <4>1
      <4> QED
        BY <4>1, <4>2, ElementOfSeq DEF ParkInv
    <3>3. AbsCall[t] = "open" /\ AbsCall' = [AbsCall EXCEPT ![t] = "accepted"]
      BY <1>0, <3>1, <3>2 DEF AbsCall, TypeOK
    <3>4. AbsPending'[c] = Append(AbsPending[c], t)
      <4>1. Append(<<Head(buf[c])>> \o Tail(buf[c]), t)
              = <<Head(buf[c])>> \o Append(Tail(buf[c]), t)
        BY <2>2, <3>2, AppendToConcat, Zenon
      <4> QED
        BY <2>2, <2>5, <3>1, <4>1
    <3>5. AbsPending' = [AbsPending EXCEPT ![c] = Append(@, t)]
      BY <2>4, <3>4 DEF AbsPending
    <3>6. Len(AbsPending[c]) < Cap + 1
      BY <2>5, <2>7 DEF ParkInv
    <3>7. Executor!Submit(t)
      BY <2>1, <2>3, <3>2, <3>3, <3>5, <3>6 DEF Executor!Submit, AbsCall, AbsPending, AbsRunning
    <3> QED
      BY <1>7, <3>7 DEF Executor!Next
  <2> QED
    BY <2>6, <2>7
<1>8. ASSUME NEW c \in Chats, Acquire(c), ~panicked PROVE Executor!Next
  <2>1. /\ worker[c] = "acquire" /\ worker' = [worker EXCEPT ![c] = "running"]
        /\ UNCHANGED <<buf, hand, call, ran, done, panicked>>
    BY <1>8 DEF Acquire
  <2>2. hand[c] \in Tasks /\ buf[c] \in Seq(Tasks)
    BY <1>0, <2>1 DEF TypeOK, WorkerPerChat
  <2>3. /\ AbsPending[c] = <<hand[c]>> \o buf[c] /\ AbsPending'[c] = buf[c]
        /\ AbsRunning[c] = NoTask /\ AbsRunning'[c] = hand[c]
    BY <1>0, <2>1 DEF AbsPending, AbsRunning, TypeOK
  <2>4. /\ <<hand[c]>> \o buf[c] # <<>> /\ Head(<<hand[c]>> \o buf[c]) = hand[c]
        /\ Tail(<<hand[c]>> \o buf[c]) = buf[c]
    BY <2>2, HeadTailOfCons
  <2>5. /\ \A d \in Chats : d # c => AbsPending'[d] = AbsPending[d]
        /\ \A d \in Chats : d # c => AbsRunning'[d] = AbsRunning[d]
    BY <1>0, <2>1 DEF AbsPending, AbsRunning, TypeOK
  <2>a. Tail(AbsPending[c]) = buf[c] /\ Head(AbsPending[c]) = hand[c] /\ AbsPending[c] # <<>>
    BY <2>3, <2>4
  <2>b. AbsPending' = [AbsPending EXCEPT ![c] = buf[c]]
    BY <2>3, <2>5 DEF AbsPending
  <2>c. AbsRunning' = [AbsRunning EXCEPT ![c] = hand[c]]
    BY <2>3, <2>5 DEF AbsRunning
  <2>6. /\ AbsPending' = [AbsPending EXCEPT ![c] = Tail(AbsPending[c])]
        /\ AbsRunning' = [AbsRunning EXCEPT ![c] = Head(AbsPending[c])]
    BY <2>a, <2>b, <2>c
  <2>7. Cardinality(Executor!Busy) < MaxConcurrent
    BY <1>8, AbsBusy DEF CoreInv, SlotsBounded, Acquire, SlotFree
  <2>d. UNCHANGED <<AbsCall, ran, done, panicked>>
    BY <2>1 DEF AbsCall
  <2>8. Executor!Start(c)
    <3>1. AbsRunning[c] = NoTask /\ AbsPending[c] # <<>> /\ Cardinality(Executor!Busy) < MaxConcurrent
      BY <2>3, <2>a, <2>7
    <3>2. /\ AbsRunning' = [AbsRunning EXCEPT ![c] = Head(AbsPending[c])]
          /\ AbsPending' = [AbsPending EXCEPT ![c] = Tail(AbsPending[c])]
          /\ UNCHANGED <<AbsCall, ran, done, panicked>>
      BY <2>6, <2>d
    <3>3. Executor!Cardinality(Executor!Busy) < MaxConcurrent
      BY <3>1 DEF Executor!Cardinality, Cardinality, Executor!IsFiniteSet, IsFiniteSet
    <3> QED
      BY <3>1, <3>2, <3>3, Zenon DEF Executor!Start, AbsCall, AbsPending, AbsRunning
  <2> QED
    BY <1>8, <2>8 DEF Executor!Next
<1>9. ASSUME NEW c \in Chats, Finish(c), ~panicked PROVE Executor!Next
  <2>1. /\ worker[c] = "running" /\ worker' = [worker EXCEPT ![c] = "recv"]
        /\ hand[c] # NoTask /\ hand' = [hand EXCEPT ![c] = NoTask]
        /\ ran' = [ran EXCEPT ![c] = Append(@, hand[c])]
        /\ UNCHANGED <<buf, call, done, panicked>>
    BY <1>0, <1>9 DEF Finish, WorkerPerChat
  <2>2. AbsPending' = AbsPending
    BY <1>0, <2>1 DEF AbsPending, TypeOK
  <2>3. AbsRunning[c] = hand[c] /\ AbsRunning' = [AbsRunning EXCEPT ![c] = NoTask]
    BY <1>0, <2>1 DEF AbsRunning, TypeOK
  <2>4. Executor!Finish(c)
    BY <2>1, <2>2, <2>3 DEF Executor!Finish, AbsCall, AbsPending, AbsRunning
  <2> QED
    BY <1>9, <2>4 DEF Executor!Next
<1>10. ASSUME NEW c \in Chats, Exit(c) PROVE UNCHANGED Executor!vars
  <2>1. AbsPending' = AbsPending /\ AbsRunning' = AbsRunning
    BY <1>0, <1>10 DEF Exit, AbsPending, AbsRunning, TypeOK
  <2> QED
    BY <1>10, <2>1, Stutter DEF Exit, AbsCall
<1>11. CASE Signal /\ ~panicked
  <2>1. \A t \in Tasks : AbsCall'[t] = IF call[t] = "parked" THEN "dropped" ELSE AbsCall[t]
    BY <1>0, <1>11 DEF Signal, AbsCall, TypeOK, CallStates
  <2> DEFINE D == {t \in Tasks : call[t] = "parked"}
  <2>2. /\ AbsCall' = [t \in Tasks |-> IF t \in D THEN "dropped" ELSE AbsCall[t]]
        /\ D \in SUBSET {t \in Tasks : AbsCall[t] = "open"}
    BY <2>1 DEF AbsCall
  <2>3. ~done /\ done' = TRUE /\ UNCHANGED <<AbsPending, AbsRunning, ran, panicked>>
    BY <1>0, <1>11 DEF Signal, StopInv, AbsPending, AbsRunning
  <2> HIDE DEF D
  <2>4. Executor!BeginStop
    BY <2>2, <2>3 DEF Executor!BeginStop, AbsCall, AbsPending, AbsRunning
  <2> QED
    BY <1>11, <2>4 DEF Executor!Next
<1>12. ASSUME NEW c \in Chats, CloseChannel(c) PROVE UNCHANGED Executor!vars
  BY <1>12, Stutter DEF CloseChannel, AbsCall, AbsPending, AbsRunning
<1>13. CASE Lock \/ Unlock \/ WaitReturns \/ UNCHANGED vars
  BY <1>13, Stutter DEF Lock, Unlock, WaitReturns, vars, AbsCall, AbsPending, AbsRunning
<1> QED
  BY <1>1, <1>2, <1>3, <1>4, <1>5, <1>6, <1>7, <1>8, <1>9, <1>10, <1>11, <1>12,
     <1>13, NextIsStep DEF Step

\* The queue keeps the promise of SerialExecutor (queue.go:5-6, 24-25): tasks take
\* effect at one instant of their call, start in that order within a chat, never
\* overlap there, and never exceed MaxConcurrent.
THEOREM QueueImplementsExecutor == Spec => ImplementsSerialExecutor
<1> QED
  BY InitAbstract, CoreCorrect, StopCorrect, ParkCorrect, StepAbstract, PTL
  DEF ImplementsSerialExecutor, Spec, Executor!Spec
=============================================================================
