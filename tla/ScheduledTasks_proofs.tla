------------------------ MODULE ScheduledTasks_proofs ------------------------
(***************************************************************************)
(* Proofs about ScheduledTasks, for every set of chats and tasks, every    *)
(* choice of owners and valid schedules, every combination of failing      *)
(* calls, and a crash between any two of them.                             *)
(***************************************************************************)
EXTENDS ScheduledTasks, TLAPS

-----------------------------------------------------------------------------
(* Type correctness                                                        *)

\* What a snapshot of a chat shows: rows of the chat's own tasks.
LEMMA ViewType ==
  ASSUME NEW c \in Chats
  PROVE  /\ View(c) \in SUBSET (Tasks \X {"active", "paused"})
         /\ \A e \in View(c) : Owner[e[1]] = c
  BY DEF View

\* Writing a snapshot keeps the type of the snapshots.
LEMMA WriteType ==
  ASSUME NEW c \in Chats, TypeOK, WriteSnapshot(c)
  PROVE  /\ snap' \in [Chats -> SUBSET (Tasks \X {"active", "paused"})]
         /\ \A d \in Chats : \A e \in snap'[d] : Owner[e[1]] = d
         /\ missed' \subseteq Chats
<1>1. CASE snap' = [snap EXCEPT ![c] = View(c)] /\ missed' = missed \ {c}
  BY <1>1, ViewType DEF TypeOK
<1>2. CASE UNCHANGED snap /\ missed' = missed \cup {c}
  BY <1>2 DEF TypeOK
<1> QED
  BY <1>1, <1>2 DEF WriteSnapshot

\* One step keeps TypeOK.
LEMMA TypeStep == TypeOK /\ [Next]_vars => TypeOK'
<1> SUFFICES ASSUME TypeOK, [Next]_vars PROVE TypeOK'
  OBVIOUS
<1> USE TasksAssumption DEF TypeOK, Rows, Stages, Requests, Active, Return
<1>1. CASE Load
  BY <1>1 DEF Load, Loads
<1>2. ASSUME NEW c \in Chats, StartupSnapshot(c) PROVE TypeOK'
  BY <1>2, WriteType DEF StartupSnapshot
<1>3. CASE Start
  BY <1>3 DEF Start
<1>4. CASE Crash
  BY <1>4 DEF Crash
<1>5. ASSUME NEW t \in Tasks, Create(t) PROVE TypeOK'
  BY <1>5 DEF Create
<1>6. CASE Save
  BY <1>6 DEF Save
<1>7. CASE Add
  BY <1>7 DEF Add
<1>8. CASE Undo
  BY <1>8 DEF Undo
<1>9. CASE Snapshot
  BY <1>9, WriteType DEF Snapshot
<1>10. ASSUME NEW t \in Tasks, NEW c \in Chats, Pause(t, c) PROVE TypeOK'
  BY <1>10 DEF Pause
<1>11. CASE PauseTask
  BY <1>11 DEF PauseTask
<1>12. CASE Unregister
  BY <1>12 DEF Unregister
<1>13. ASSUME NEW t \in Tasks, Fire(t) PROVE TypeOK'
  BY <1>13 DEF Fire
<1>14. ASSUME NEW t \in Tasks, HandOver(t) PROVE TypeOK'
  BY <1>14 DEF HandOver
<1>15. CASE UNCHANGED vars
  BY <1>15 DEF vars
<1> QED
  BY <1>1, <1>2, <1>3, <1>4, <1>5, <1>6, <1>7, <1>8, <1>9, <1>10, <1>11, <1>12, <1>13,
     <1>14, <1>15
  DEF Next

\* The state of the tasks has its type, and no tasks.json shows another chat's tasks.
THEOREM TypeCorrect == Spec => []TypeOK
<1>1. Init => TypeOK
  BY TasksAssumption DEF Init, TypeOK, Rows, Stages
<1> QED
  BY <1>1, TypeStep, PTL DEF Spec

-----------------------------------------------------------------------------
(* The store, cron and the snapshots                                       *)

\* What the handler of a create knows of its task before it has finished: cron
\* and the snapshots have never seen it, and its request is its owner's.
BeingCreated ==
  at \in {"save", "add", "undo"} =>
    /\ row[req.task] = IF at = "save" THEN "none" ELSE "active"
    /\ req.task \notin cron
    /\ at = "undo" => req.task \in lost
    /\ req.chat = Owner[req.task]
    /\ \A c \in Chats, r \in {"active", "paused"} : <<req.task, r>> \notin snap[c]

\* What it takes to keep CronIsActive and SnapshotIsNotAhead: beside them the
\* facts about a task being created, and that a task being taken out of cron is
\* no longer active.
StoreInv ==
  /\ CronIsActive
  /\ SnapshotIsNotAhead
  /\ BeingCreated
  /\ at = "unregister" => row[req.task] # "active"

\* A snapshot that is written now is not ahead of the rows it is made of.
LEMMA WriteNotAhead ==
  ASSUME NEW c \in Chats, TypeOK, SnapshotIsNotAhead, WriteSnapshot(c), UNCHANGED row
  PROVE  SnapshotIsNotAhead'
<1>1. CASE snap' = [snap EXCEPT ![c] = View(c)]
  <2> SUFFICES ASSUME NEW d \in Chats, NEW t \in Tasks
               PROVE  /\ <<t, "active">> \in snap'[d] => row[t] \in {"active", "paused"}
                      /\ <<t, "paused">> \in snap'[d] => row[t] = "paused"
    BY DEF SnapshotIsNotAhead
  <2>1. CASE d # c
    BY <1>1, <2>1 DEF SnapshotIsNotAhead, TypeOK
  <2>2. CASE d = c
    <3>1. snap'[d] = View(c)
      BY <1>1, <2>2 DEF TypeOK
    <3> QED
      BY <3>1 DEF View
  <2> QED
    BY <2>1, <2>2
<1>2. CASE UNCHANGED snap
  BY <1>2 DEF SnapshotIsNotAhead
<1> QED
  BY <1>1, <1>2 DEF WriteSnapshot

\* One step keeps StoreInv.
LEMMA StoreStep == TypeOK /\ StoreInv /\ [Next]_vars => StoreInv'
<1> SUFFICES ASSUME TypeOK, StoreInv, [Next]_vars PROVE StoreInv'
  OBVIOUS
<1> USE TasksAssumption DEF StoreInv, CronIsActive, SnapshotIsNotAhead, BeingCreated,
      TypeOK, Rows, Stages, Requests, Active, Return, Pausing
<1>1. CASE Load
  BY <1>1 DEF Load, Loads
<1>2. ASSUME NEW c \in Chats, StartupSnapshot(c) PROVE StoreInv'
  <2>1. SnapshotIsNotAhead'
    BY <1>2, WriteNotAhead DEF StartupSnapshot
  <2>2. at = "startup" /\ UNCHANGED <<row, cron, at, req>>
    BY <1>2 DEF StartupSnapshot
  <2> QED
    BY <2>1, <2>2
<1>3. CASE Start
  BY <1>3 DEF Start
<1>4. CASE Crash
  BY <1>4 DEF Crash
<1>5. ASSUME NEW t \in Tasks, Create(t) PROVE StoreInv'
  BY <1>5 DEF Create
<1>6. CASE Save
  BY <1>6 DEF Save
<1>7. CASE Add
  BY <1>7 DEF Add
<1>8. CASE Undo
  BY <1>8 DEF Undo
<1>9. CASE Snapshot
  <2>1. SnapshotIsNotAhead'
    BY <1>9, WriteNotAhead DEF Snapshot
  <2>2. at = "snapshot" /\ at' = "idle" /\ UNCHANGED <<row, cron>>
    BY <1>9 DEF Snapshot
  <2> QED
    BY <2>1, <2>2
<1>10. ASSUME NEW t \in Tasks, NEW c \in Chats, Pause(t, c) PROVE StoreInv'
  BY <1>10 DEF Pause
<1>11. CASE PauseTask
  BY <1>11 DEF PauseTask
<1>12. CASE Unregister
  BY <1>12 DEF Unregister
<1>13. ASSUME NEW t \in Tasks, Fire(t) PROVE StoreInv'
  BY <1>13 DEF Fire
<1>14. ASSUME NEW t \in Tasks, HandOver(t) PROVE StoreInv'
  BY <1>14 DEF HandOver
<1>15. CASE UNCHANGED vars
  BY <1>15 DEF vars
<1> QED
  BY <1>1, <1>2, <1>3, <1>4, <1>5, <1>6, <1>7, <1>8, <1>9, <1>10, <1>11, <1>12, <1>13,
     <1>14, <1>15
  DEF Next

\* StoreInv holds in every reachable state.
LEMMA StoreInvariant == Spec => []StoreInv
<1>1. Init => StoreInv
  BY TasksAssumption DEF Init, StoreInv, CronIsActive, SnapshotIsNotAhead, BeingCreated
<1> QED
  BY <1>1, TypeCorrect, StoreStep, PTL DEF Spec

\* cron never runs what the store does not say is active.
THEOREM CronFollowsTheStore == Spec => []CronIsActive
  BY StoreInvariant, PTL DEF StoreInv

\* tasks.json is never ahead of the store.
THEOREM SnapshotsFollowTheStore == Spec => []SnapshotIsNotAhead
  BY StoreInvariant, PTL DEF StoreInv

\* A paused task never fires again, over crashes and restarts.
THEOREM PausedTasksStayQuiet == Spec => PausedStaysQuiet
<1>1. TypeOK /\ CronIsActive /\ [Next]_vars =>
        [\A t \in Tasks : jobs'[t] > jobs[t] => row[t] = "active" \/ Pausing(t)]_vars
  <2> SUFFICES ASSUME TypeOK, CronIsActive, [Next]_vars, NEW t \in Tasks, jobs'[t] > jobs[t]
               PROVE row[t] = "active" \/ Pausing(t)
    OBVIOUS
  <2>1. CASE t \in cron
    BY <2>1 DEF CronIsActive
  <2>2. ASSUME NEW u \in Tasks, Fire(u) PROVE t \in cron
    BY <2>2 DEF Fire, TypeOK
  <2>3. ASSUME NEW u \in Tasks, HandOver(u) PROVE FALSE
    BY <2>3, TasksAssumption DEF HandOver, TypeOK
  <2>4. CASE Crash
    BY <2>4, TasksAssumption DEF Crash, TypeOK
  <2>5. CASE UNCHANGED jobs
    BY <2>5, TasksAssumption DEF TypeOK
  <2> QED
    BY <2>1, <2>2, <2>3, <2>4, <2>5
    DEF Next, Load, StartupSnapshot, Start, Create, Save, Add, Undo, Snapshot, Pause,
        PauseTask, Unregister, vars
<1> QED
  BY <1>1, TypeCorrect, CronFollowsTheStore, PTL DEF Spec, PausedStaysQuiet

-----------------------------------------------------------------------------
(* Every active task is scheduled                                          *)

\* Strengthens ActiveIsScheduled to every moment of a running harness: the only
\* active task outside cron and lost is the one the handler has just saved.
ScheduledInv ==
  at # "down" => \A t \in Active : t \in cron \cup lost \/ (at = "add" /\ req.task = t)

\* One step keeps ScheduledInv.
LEMMA ScheduledStep == TypeOK /\ StoreInv /\ ScheduledInv /\ [Next]_vars => ScheduledInv'
<1> SUFFICES ASSUME TypeOK, StoreInv, ScheduledInv, [Next]_vars PROVE ScheduledInv'
  OBVIOUS
<1> USE TasksAssumption DEF ScheduledInv, StoreInv, BeingCreated,
      TypeOK, Rows, Stages, Requests, Active, Return
<1>1. CASE Load
  BY <1>1 DEF Load, Loads
<1>2. ASSUME NEW c \in Chats, StartupSnapshot(c) PROVE ScheduledInv'
  BY <1>2 DEF StartupSnapshot, WriteSnapshot
<1>3. CASE Start
  BY <1>3 DEF Start
<1>4. CASE Crash
  BY <1>4 DEF Crash
<1>5. ASSUME NEW t \in Tasks, Create(t) PROVE ScheduledInv'
  BY <1>5 DEF Create
<1>6. CASE Save
  BY <1>6 DEF Save
<1>7. CASE Add
  BY <1>7 DEF Add
<1>8. CASE Undo
  BY <1>8 DEF Undo
<1>9. CASE Snapshot
  BY <1>9 DEF Snapshot, WriteSnapshot
<1>10. ASSUME NEW t \in Tasks, NEW c \in Chats, Pause(t, c) PROVE ScheduledInv'
  BY <1>10 DEF Pause
<1>11. CASE PauseTask
  BY <1>11 DEF PauseTask
<1>12. CASE Unregister
  BY <1>12 DEF Unregister
<1>13. ASSUME NEW t \in Tasks, Fire(t) PROVE ScheduledInv'
  BY <1>13 DEF Fire
<1>14. ASSUME NEW t \in Tasks, HandOver(t) PROVE ScheduledInv'
  BY <1>14 DEF HandOver
<1>15. CASE UNCHANGED vars
  BY <1>15 DEF vars
<1> QED
  BY <1>1, <1>2, <1>3, <1>4, <1>5, <1>6, <1>7, <1>8, <1>9, <1>10, <1>11, <1>12, <1>13,
     <1>14, <1>15
  DEF Next

\* Between requests every active row is scheduled unless Add or the load failed.
THEOREM ActiveTasksAreScheduled == Spec => []ActiveIsScheduled
<1>1. Init => ScheduledInv
  BY DEF Init, ScheduledInv
<1>2. ScheduledInv => ActiveIsScheduled
  BY DEF ScheduledInv, ActiveIsScheduled
<1> QED
  BY <1>1, <1>2, TypeCorrect, StoreInvariant, ScheduledStep, PTL DEF Spec

-----------------------------------------------------------------------------
(* tasks.json is up to date                                                *)

\* The snapshot of c is still to be written: by the startup, or as the last call
\* of the request that is being handled.
Due(c) ==
  \/ c \in todo
  \/ at \in {"add", "undo", "unregister", "snapshot"} /\ req.chat = c

\* Strengthens SnapshotIsCurrent to every moment of a running harness.
FreshInv ==
  /\ at # "startup" => todo = {}
  /\ at # "down" =>
       \A t \in Active : Owner[t] \notin missed =>
         snap[Owner[t]] = View(Owner[t]) \/ Due(Owner[t])

\* What a chat's snapshot would show changes only with the rows of its tasks.
LEMMA ViewUnchanged ==
  ASSUME NEW c \in Chats,
         \A t \in Tasks : Owner[t] = c =>
           row'[t] = row[t] \/ (row[t] \in {"new", "none"} /\ row'[t] \in {"new", "none"})
  PROVE  View(c)' = View(c)
<1> DEFINE Shown  == {u \in Tasks : Owner[u] = c /\ row[u] \in {"active", "paused"}}
           Shown1 == {u \in Tasks : Owner[u] = c /\ row'[u] \in {"active", "paused"}}
<1>1. Shown1 = Shown
  OBVIOUS
<1>2. \A t \in Shown : row'[t] = row[t]
  OBVIOUS
<1>3. View(c) = {<<t, row[t]>> : t \in Shown} /\ View(c)' = {<<t, row'[t]>> : t \in Shown1}
  BY DEF View
<1> HIDE DEF Shown, Shown1
<1> QED
  BY <1>1, <1>2, <1>3

\* Where no row changes, no view does.
LEMMA ViewsUnchanged ==
  ASSUME UNCHANGED row PROVE \A c \in Chats : View(c)' = View(c)
  BY DEF View

\* One step keeps FreshInv.
LEMMA FreshStep == TypeOK /\ StoreInv /\ FreshInv /\ [Next]_vars => FreshInv'
<1> SUFFICES ASSUME TypeOK, StoreInv, FreshInv, [Next]_vars PROVE FreshInv'
  OBVIOUS
<1> USE TasksAssumption DEF FreshInv, Due, TypeOK, Rows, Stages, Requests, Active, Return
<1>1. CASE Load
  BY <1>1 DEF Load, Loads
<1>2. ASSUME NEW c \in Chats, StartupSnapshot(c) PROVE FreshInv'
  BY <1>2, ViewsUnchanged DEF StartupSnapshot, WriteSnapshot
<1>3. CASE Start
  BY <1>3, ViewsUnchanged DEF Start
<1>4. CASE Crash
  BY <1>4 DEF Crash
<1>5. ASSUME NEW t \in Tasks, Create(t) PROVE FreshInv'
  <2>1. \A c \in Chats : View(c)' = View(c)
    BY <1>5, ViewUnchanged DEF Create
  <2> QED
    BY <1>5, <2>1 DEF Create
<1>6. CASE Save
  <2>1. \A c \in Chats : c # req.chat => View(c)' = View(c)
    BY <1>6, ViewUnchanged DEF Save, StoreInv, BeingCreated
  <2> QED
    BY <1>6, <2>1, ViewsUnchanged DEF Save, StoreInv, BeingCreated
<1>7. CASE Add
  BY <1>7, ViewsUnchanged DEF Add
<1>8. CASE Undo
  <2>1. \A c \in Chats : c # req.chat => View(c)' = View(c)
    BY <1>8, ViewUnchanged DEF Undo, StoreInv, BeingCreated
  <2> QED
    BY <1>8, <2>1 DEF Undo
<1>9. CASE Snapshot
  BY <1>9, ViewsUnchanged DEF Snapshot, WriteSnapshot
<1>10. ASSUME NEW t \in Tasks, NEW c \in Chats, Pause(t, c) PROVE FreshInv'
  BY <1>10, ViewsUnchanged DEF Pause
<1>11. CASE PauseTask
  <2>1. \A c \in Chats : c # Owner[req.task] => View(c)' = View(c)
    BY <1>11, ViewUnchanged DEF PauseTask
  <2>2. row[req.task] # "active" => UNCHANGED row
    BY <1>11 DEF PauseTask
  <2> QED
    BY <1>11, <2>1, <2>2, ViewsUnchanged DEF PauseTask
<1>12. CASE Unregister
  BY <1>12, ViewsUnchanged DEF Unregister
<1>13. ASSUME NEW t \in Tasks, Fire(t) PROVE FreshInv'
  BY <1>13, ViewsUnchanged DEF Fire
<1>14. ASSUME NEW t \in Tasks, HandOver(t) PROVE FreshInv'
  BY <1>14, ViewsUnchanged DEF HandOver
<1>15. CASE UNCHANGED vars
  BY <1>15, ViewsUnchanged DEF vars
<1> QED
  BY <1>1, <1>2, <1>3, <1>4, <1>5, <1>6, <1>7, <1>8, <1>9, <1>10, <1>11, <1>12, <1>13,
     <1>14, <1>15
  DEF Next

\* Between requests the tasks.json of a chat with an active task is what the store
\* says, over crashes and restarts.
THEOREM SnapshotsAreCurrent == Spec => []SnapshotIsCurrent
<1>1. Init => FreshInv
  BY DEF Init, FreshInv
<1>2. FreshInv => SnapshotIsCurrent
  BY DEF FreshInv, Due, SnapshotIsCurrent
<1> QED
  BY <1>1, <1>2, TypeCorrect, StoreInvariant, FreshStep, PTL DEF Spec
=============================================================================
