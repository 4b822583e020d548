---------------------------- MODULE ScheduledTasks ----------------------------
(***************************************************************************)
(* Scheduled tasks: cmd/pitu/main.go (the onTask handler and the startup), *)
(* internal/store/tasks.go, internal/scheduler/scheduler.go and            *)
(* cmd/pitu/snapshot.go.                                                   *)
(*                                                                         *)
(* A task lives in three places that no transaction ties together: a row   *)
(* of the SQLite table, a cron entry in memory, and the tasks.json that    *)
(* the chat's agent reads.  The IPC watch loop creates and pauses tasks,   *)
(* one request at a time and one call after another; the cron goroutines   *)
(* fire them meanwhile; the process may die between any two calls, and     *)
(* what it held in memory with it.                                         *)
(***************************************************************************)
EXTENDS Integers, FiniteSets

CONSTANTS Chats, Tasks,
          Owner,     \* the chat that schedules each task
          Valid,     \* the tasks whose schedule the cron parser accepts
          Faults,    \* the calls that may fail: a subset of FaultKinds
          MaxJobs,   \* bound: the firings of a task not yet handed over
          NoRequest

\* GetAllActiveTasks, SaveTask, Add, DeleteTask, PauseTask, writeTasksSnapshot.
FaultKinds == {"load", "save", "add", "delete", "pause", "snapshot"}

ASSUME TasksAssumption ==
  /\ Owner \in [Tasks -> Chats]
  /\ Valid \subseteq Tasks
  /\ Faults \subseteq FaultKinds
  /\ MaxJobs \in Nat
  /\ NoRequest \notin [task : Tasks, chat : Chats]

VARIABLES row,     \* each task: "new" (not asked for), "none" (no row), or
                   \* the row's state, "active" or "paused"
          snap,    \* per chat, the rows that its tasks.json shows
          cron,    \* the tasks registered with cron
          jobs,    \* per task, the firings not yet handed to the queue
          at,      \* where the harness is: "down", starting up, or in the
                   \* handler of a request
          req,     \* the request in the handler
          todo,    \* the chats whose startup snapshot is still to be written
          missed,  \* history: the chats that a failure or another chat's
                   \* pause left with an old tasks.json
          lost     \* history: the active tasks that Add or the load failed on

vars == <<row, snap, cron, jobs, at, req, todo, missed, lost>>

Rows == {"new", "none", "active", "paused"}
Stages == {"down", "startup", "idle", "save", "add", "undo", "pause", "unregister", "snapshot"}
Requests == [task : Tasks, chat : Chats]

Active == {t \in Tasks : row[t] = "active"}
MayFail(f) == f \in Faults

\* GetTasksByChatID.  Mutant: the query forgets the chat.
ViewOfAll(c) == {<<t, row[t]>> : t \in {u \in Tasks : row[u] \in {"active", "paused"}}}
View(c) == {<<t, row[t]>> : t \in {u \in Tasks : Owner[u] = c /\ row[u] \in {"active", "paused"}}}

Init ==
  /\ row = [t \in Tasks |-> "new"]
  /\ snap = [c \in Chats |-> {}]
  /\ cron = {} /\ jobs = [t \in Tasks |-> 0]
  /\ at = "down" /\ req = NoRequest /\ todo = {}
  /\ missed = {} /\ lost = {}

\* writeTasksSnapshot: query, write a temporary file, rename it over tasks.json.
WriteSnapshot(c) ==
  \/ /\ snap' = [snap EXCEPT ![c] = View(c)]
     /\ missed' = missed \ {c}
  \/ /\ MayFail("snapshot")
     /\ missed' = missed \cup {c}
     /\ UNCHANGED snap

-----------------------------------------------------------------------------
(* Startup and crash                                                       *)

\* Mutant: paused rows are loaded too.
LoadsPaused == {{t \in Tasks : row[t] \in {"active", "paused"}}}

\* GetAllActiveTasks: the query fails, or the rows break off, and main drops the
\* error and goes on with what it got.
Loads == {Active} \cup (IF MayFail("load") THEN SUBSET Active ELSE {})

\* main loads the active tasks and adds each to cron; an error of Add is logged.
Load ==
  /\ at = "down"
  /\ \E L \in Loads : \E F \in IF MayFail("add") THEN SUBSET L ELSE {{}} :
       /\ cron' = L \ F
       /\ lost' = Active \ (L \ F)
       /\ todo' = {Owner[t] : t \in L}
       /\ missed' = missed \cup {Owner[t] : t \in Active \ L}
  /\ at' = "startup"
  /\ UNCHANGED <<row, snap, jobs, req>>

\* Mutant: the startup writes no snapshots.
NoStartupSnapshot(c) ==
  /\ at = "startup" /\ c \in todo
  /\ todo' = todo \ {c}
  /\ UNCHANGED <<row, snap, cron, jobs, at, req, missed, lost>>

\* The startup snapshot of one of the chats that have an active task.
StartupSnapshot(c) ==
  /\ at = "startup" /\ c \in todo
  /\ WriteSnapshot(c)
  /\ todo' = todo \ {c}
  /\ UNCHANGED <<row, cron, jobs, at, req, lost>>

\* The watch loop and cron start.
Start ==
  /\ at = "startup" /\ todo = {}
  /\ at' = "idle"
  /\ UNCHANGED <<row, snap, cron, jobs, req, todo, missed, lost>>

\* The process dies, at whatever point: SQLite and the snapshots remain.
Crash ==
  /\ at # "down"
  /\ at' = "down" /\ req' = NoRequest /\ todo' = {}
  /\ cron' = {} /\ lost' = {}
  /\ jobs' = [t \in Tasks |-> 0]
  /\ UNCHANGED <<row, snap, missed>>

-----------------------------------------------------------------------------
(* onTask, action "create"                                                 *)

\* The tool makes a new id for each task, so a task is asked for once; a request
\* that fails or that a crash interrupts is not made again.  Validate comes
\* before anything is written.
Create(t) ==
  /\ at = "idle" /\ row[t] = "new"
  /\ row' = [row EXCEPT ![t] = "none"]
  /\ IF t \in Valid
     THEN at' = "save" /\ req' = [task |-> t, chat |-> Owner[t]]
     ELSE UNCHANGED <<at, req>>
  /\ UNCHANGED <<snap, cron, jobs, todo, missed, lost>>

\* Every way out of the handler.
Return == at' = "idle" /\ req' = NoRequest

Save ==
  /\ at = "save"
  /\ \/ /\ row' = [row EXCEPT ![req.task] = "active"]
        /\ at' = "add"
        /\ UNCHANGED req
     \/ /\ MayFail("save")
        /\ Return
        /\ UNCHANGED row
  /\ UNCHANGED <<snap, cron, jobs, todo, missed, lost>>

\* Mutant: only the next startup schedules the task.
AddLater ==
  /\ at = "add"
  /\ at' = "snapshot"
  /\ UNCHANGED <<row, snap, cron, jobs, req, todo, missed, lost>>

Add ==
  /\ at = "add"
  /\ \/ cron' = cron \cup {req.task} /\ at' = "snapshot" /\ UNCHANGED lost
     \/ MayFail("add") /\ lost' = lost \cup {req.task} /\ at' = "undo" /\ UNCHANGED cron
  /\ UNCHANGED <<row, snap, jobs, req, todo, missed>>

\* The compensating DeleteTask.
Undo ==
  /\ at = "undo"
  /\ \/ row' = [row EXCEPT ![req.task] = "none"]
     \/ MayFail("delete") /\ UNCHANGED row
  /\ at' = "snapshot"
  /\ UNCHANGED <<snap, cron, jobs, req, todo, missed, lost>>

\* The last call of either request.
Snapshot ==
  /\ at = "snapshot"
  /\ WriteSnapshot(req.chat)
  /\ Return
  /\ UNCHANGED <<row, cron, jobs, todo, lost>>

-----------------------------------------------------------------------------
(* onTask, action "pause"                                                  *)

\* The request names any id that some agent was given, of its own chat or not.
Pause(t, c) ==
  /\ at = "idle" /\ row[t] # "new"
  /\ at' = "pause" /\ req' = [task |-> t, chat |-> c]
  /\ UNCHANGED <<row, snap, cron, jobs, todo, missed, lost>>

\* PauseTask updates the row, if there is one, whatever chat it is of.
PauseTask ==
  /\ at = "pause"
  /\ \/ /\ row' = [row EXCEPT ![req.task] = IF @ = "active" THEN "paused" ELSE @]
        /\ missed' = IF row[req.task] = "active" /\ Owner[req.task] # req.chat
                     THEN missed \cup {Owner[req.task]} ELSE missed
        /\ at' = "unregister"
        /\ UNCHANGED req
     \/ /\ MayFail("pause")
        /\ Return
        /\ UNCHANGED <<row, missed>>
  /\ UNCHANGED <<snap, cron, jobs, todo, lost>>

\* Mutant: the pause reaches the store and not cron.
RowOnly ==
  /\ at = "unregister"
  /\ at' = "snapshot"
  /\ UNCHANGED <<row, snap, cron, jobs, req, todo, missed, lost>>

\* Scheduler.Pause; cron.Remove returns when the entry is gone.
Unregister ==
  /\ at = "unregister"
  /\ cron' = cron \ {req.task}
  /\ at' = "snapshot"
  /\ UNCHANGED <<row, snap, jobs, req, todo, missed, lost>>

-----------------------------------------------------------------------------
(* cron                                                                    *)

\* A cron entry comes due: its goroutine has the prompt and will enqueue it.
Fire(t) ==
  /\ at \notin {"down", "startup"}
  /\ t \in cron /\ jobs[t] < MaxJobs
  /\ jobs' = [jobs EXCEPT ![t] = @ + 1]
  /\ UNCHANGED <<row, snap, cron, at, req, todo, missed, lost>>

\* The goroutine's Enqueue returns.
HandOver(t) ==
  /\ jobs[t] > 0
  /\ jobs' = [jobs EXCEPT ![t] = @ - 1]
  /\ UNCHANGED <<row, snap, cron, at, req, todo, missed, lost>>

-----------------------------------------------------------------------------
Next ==
  \/ Load \/ (\E c \in Chats : StartupSnapshot(c)) \/ Start \/ Crash
  \/ (\E t \in Tasks : Create(t)) \/ Save \/ Add \/ Undo \/ Snapshot
  \/ (\E t \in Tasks, c \in Chats : Pause(t, c)) \/ PauseTask \/ Unregister
  \/ \E t \in Tasks : Fire(t) \/ HandOver(t)

Spec == Init /\ [][Next]_vars

-----------------------------------------------------------------------------
(* Properties                                                              *)

Pausing(t) == at = "unregister" /\ req.task = t

\* Type invariant: the handler has a request exactly while it works on one, and
\* a tasks.json lists tasks of its own chat only.
TypeOK ==
  /\ row \in [Tasks -> Rows]
  /\ snap \in [Chats -> SUBSET (Tasks \X {"active", "paused"})]
  /\ \A c \in Chats : \A e \in snap[c] : Owner[e[1]] = c
  /\ cron \subseteq Tasks /\ lost \subseteq Tasks
  /\ jobs \in [Tasks -> 0..MaxJobs]
  /\ at \in Stages
  /\ req \in Requests \cup {NoRequest}
  /\ req = NoRequest <=> at \in {"down", "startup", "idle"}
  /\ todo \subseteq Chats /\ missed \subseteq Chats

\* cron never runs what the store does not say is active (main.go:142-178): the
\* only exception is the task that the handler is pausing at this moment.
CronIsActive == \A t \in cron : row[t] = "active" \/ Pausing(t)

\* Between requests every active row is scheduled, whatever crash or restart came
\* in between, unless Add or the load failed on it.
ActiveIsScheduled == at = "idle" => Active \subseteq cron \cup lost

\* A paused task never fires again, in this process or the next: at the firing
\* the row is active or its pause is still on the way to cron (server.go:54,
\* "the only way to stop a task from running").
PausedStaysQuiet ==
  [][\A t \in Tasks : jobs'[t] > jobs[t] => row[t] = "active" \/ Pausing(t)]_vars

\* Between requests the tasks.json of a chat with an active task is what the
\* store says, over crashes and restarts; a failed write and a pause from another
\* chat are the only excuses.
SnapshotIsCurrent ==
  at = "idle" =>
    \A c \in {Owner[t] : t \in Active} \ missed : snap[c] = View(c)

\* tasks.json may be old but never ahead of the store: it shows no task that the
\* store never had and none as paused that may still fire after a restart.
SnapshotIsNotAhead ==
  \A c \in Chats, t \in Tasks :
    /\ <<t, "active">> \in snap[c] => row[t] \in {"active", "paused"}
    /\ <<t, "paused">> \in snap[c] => row[t] = "paused"

\* main.go:230 says that startup snapshots are written "so agents see current task
\* state immediately after restart": so for every chat, not only for those that
\* still have an active task.
SnapshotIsCurrentAfterRestart ==
  at = "idle" => \A c \in Chats \ missed : snap[c] = View(c)
=============================================================================
