# Formal models of Pitu

TLA+ modules that model Pitu's harness, TLC configurations that check them on
small instances, and theorems about them that TLAPS proves for every value of
the constants. Every definition is translated from the Go source; paths below
are relative to the repository. `PROJECT.json` lists, for every definition, the
lines it stands for, and for every property a small change of the code that
breaks it.

    tlc -config Queue.cfg MCDispatchQueue     # model-check an instance
    tlapm DispatchQueue_proofs.tla            # check the proofs of a module

## The system

Pitu runs on a host, talks to Telegram, and gives each chat an AI agent in a
podman container. The harness (`cmd/pitu`) is one process with these goroutines:
the Telegram poll loop, the IPC watch loop, cron with one goroutine per firing,
one worker per chat, one timer callback per container, one goroutine per
capability request and per sub-agent, and one that waits for a signal.

| Component | State | Operations | Where it is hard |
|---|---|---|---|
| Dispatch queue (`internal/queue`) | map of buffered channels, semaphore, `done`, WaitGroup | `Enqueue`, the worker loop, `Stop` | callers parked on a full channel, Stop at any point, closed channels |
| Warm pool (`internal/container`) | `pool`, `subPool`, `startMu`, a TTL timer per handle, containers outside the process | `Dispatch`, `ensureContainer`, the timer callback, `StopAll`, `SpawnSubAgent` | double-checked lock, timers that fire late or twice, failing podman |
| Scheduled tasks (`internal/scheduler`, `store/tasks.go`, `snapshot.go`, `onTask`) | SQLite rows, cron entries, `tasks.json` per chat | create, pause, startup load, firing | three copies and no transaction, a crash between any two calls |
| Harness wiring (`cmd/pitu/main.go`) | context, the closures that connect the parts | startup, handlers, shutdown | main returns with Poll while the signal goroutine is still stopping containers |
| Poller and sender (`internal/telegram`) | the update offset, in memory | `Poll`, `getUpdates`, send | handler in line, crash before or after the offset is confirmed |
| Rate limiter (`internal/ratelimit`) | last accepted time per chat | `Allow` | charged before the update is known to be a message |
| IPC watcher and router (`internal/ipc`) | watched directories and their chat | `RegisterDir`, `Watch`, `Route` | files older than the watch, errors, one loop for all chats |
| Tool server (`cmd/pitu-mcp`) | one latch per turn | the tools, `writeIPC` | latch before write, file names from the clock |
| Capability requests (`ipc/capability.go`, `pitu-mcp/dispatch.go`) | request and response files | request, respond, wait | timeout against a late answer |
| Capability settings (`store/capabilities.go`) | a set per chat | enable, disable, read at each exec | change during an exec |
| Skills (`internal/skills`) | two directory trees, the merged mount | `Unpack`, `Discover`, `Merge`, `WriteContext` | precedence, upgrades that remove a skill |
| Messages, groups, sessions (`internal/store`) | append-only tables | save, upsert | none that a model would show |
| Config, service files | files | parse, render | missing range checks (`max_concurrent = 0`) |

How they meet: the poll handler, `onMessage` (for sub-agents) and cron enqueue
closures; a worker runs a closure, which calls `Dispatch`; a container's agent
writes files; the watch loop routes them to the sender, the task handler, the
store, the spawner or the capability handler. On a signal the context is
cancelled, then `StopAll`, then `Stop`.

What makes each part correct:

- queue: per-chat order, no loss or repetition, the global cap, calls that
  return, a Stop that drains and ends;
- pool: one start per chat, no live container that nobody will stop, dispatches
  that return, dead handles that leave;
- tasks: cron runs exactly the active rows, a paused task stays quiet over
  restarts, `tasks.json` says what the store says;
- wiring: nothing runs on after the exit, no message is enqueued twice in a life;
- poller, IPC, capabilities: each file or update handled at most once, and at
  least once where nothing crashes; no answer given to another request;
- skills: the first source of a name wins, and nothing stale is merged.

## What is modelled

### DispatchQueue (`internal/queue/queue.go`)

| Code | Model |
|---|---|
| `q.chats`, the channels in it | `chats`, `closed`, `buf` (buffers), `sendq` (senders parked on a full channel) |
| `q.done`, `q.sem`, `q.wg` | `done`, `sem`, `Live` |
| a worker goroutine | `worker[c]` (where it is) and `hand[c]` (its task) |
| a call of `Enqueue` | `call[t]`: lookup under `q.mu`, the select, the return |
| `Stop` | `stop`: close done, lock, close channels, unlock, wait |

Go's rules are part of the model because the hard behaviours come from them: a
receive from a full channel admits the first parked sender, closing wakes parked
goroutines at once, a send on a closed channel panics, a select takes any ready
case, and a WaitGroup panics when it is reused while Wait wakes up. Abstracted:
what a task does (it returns), and the mutex, which is taken for one step in a
lookup and from `Lock` to `Unlock` in Stop. `sent` and `ran` are history.

`SerialExecutor` is what callers are promised, without channels: a task is
submitted at one instant of its call, the tasks of a chat start in order and
never overlap, at most `MaxConcurrent` run, and a call is dropped or the process
dies only once a stop has begun. `DispatchQueue` implements it under the
mapping at its end: `Send`, or the `Recv` that admits a parked sender, is the
submission, and `Acquire` the start. `Room` is what a chat takes before a call has to
wait: `Cap + 1`, the buffer of 256 and the task in the worker's hand.

### WarmPool (`internal/container/manager.go`)

| Code | Model |
|---|---|
| `pool`, `startMu` | `pool` (by chat), `mu` |
| a `*Handle` | the dispatch that started its container; `timer`, `session` |
| a container | `cont`: none, live, dead, or left running by a failed `podman stop` |
| a call of `Dispatch` | `pc[d]` from the fast path to the end of the exec |
| a timer callback | `cb`: before `podman stop`, before `pool.Delete`, idle |
| main's context and its `cancel` | `ctx`; `UnderMain`, the calls made under it |
| `StopAll` over `pool` | `all`, `taken`, `visited`, `owed` (the guarantees of `sync.Map.Range`) |

Every wait for podman is a step, so all else can happen meanwhile. `podman run` is
several: the client starts, the container is made, the client returns, and then the
timer is armed and the handle stored. Failures of run, input file, exec and stop, and
containers that die alone, are `Faults`. A signal cancels main's context before
StopAll (`main.go:250`). Messages are dispatched under it (`main.go:295`), so the
cancellation kills their podman clients (`RunKilled`, and the second case of
`ExecEnds`): a client killed after it made the container leaves it running, with an ID
that nobody has. `LiveIsGuarded` and `ContainersStop` name that case, `Lost`, as the
one exception. Calls for scheduled tasks and for sub-agents' messages are under the
background context (`main.go:118`, `main.go:132`) and go on. A `podman run` that fails
by itself is taken to leave no container running. `OnePerChat` says that the queue serialises the calls for one chat; where it is
not needed it is off, so that the pool stands alone. Abstracted: directories, the
env file and argument lists (their errors are the `run` fault), time (a timer may
fire at any moment after it is armed). One assumption: a timer that is armed
again while its callback runs does not fire before the callback ends, a matter
of minutes against seconds. Sub-agents are `SubAgents`' part.

### SubAgents (`internal/container/manager.go`)

| Code | Model |
|---|---|
| a call of `SpawnSubAgent` and its goroutine | `pc[a]`, from the routed file to the end of the exec |
| its container, TTL timer, `stopSubAgentContainer` | `cont[a]`, `timer[a]`, `cb[a]` |
| `subPool` | `subPool` |
| the context, the watch loop | `ctx`, `watching` |
| `StopAll`: the chats' pool, then `subPool.Range` | `all`, `taken`, `began`, `visited` |

`podman run`, `Arm` before `Store`, and `StopAll` are as in `WarmPool`. What differs
is what the model is for: a spawn takes no lock and no slot of the queue, is always
under the context that the shutdown cancels, and never arms its timer again; a
sub-agent may spawn, and the watch loop may still route its file after the
cancellation. The callback may come before the store, and then the entry of
a dead container stays in `subPool`; the code allows it and no property forbids
it. The model ends where the process exits: what that leaves is `Harness`'s part.
Directories, the env file and arguments are the `run` fault.

### ScheduledTasks (`main.go`, `scheduler.go`, `store/tasks.go`, `snapshot.go`)

| Code | Model |
|---|---|
| a row of `tasks` | `row[t]`: not asked for, no row, active, paused |
| `entryIDs` and cron | `cron` |
| a cron goroutine before its `Enqueue` returns | `jobs[t]` |
| `tasks.json` | `snap[c]`, what the last rename put there |
| the watch goroutine in `onTask`, the startup | `at`, `req`, `todo` |

Every call of the handler is a step: validate, save, add, compensating delete,
snapshot; pause the row, remove the cron entry, snapshot. A crash may come
between any two of them and keeps `row` and `snap`. Each call may fail. `missed`
and `lost` are history: they name the chats whose snapshot a failure (or another
chat's pause) left old, and the tasks that `Add` or the load failed on, so that
the properties state the exact exceptions. A startup load that fails half-way gives
part of the active tasks, and main goes on with them (`main.go:223`). Abstracted: schedules (valid or not),
prompts, and the temporary file, which the rename makes invisible. SQLite
statements are atomic and durable.

### Harness (`main.go`, `telegram/poller.go`, `ratelimit.go`)

The process as a whole, around the queue and the pool.

| Code | Model |
|---|---|
| Telegram's queue of updates (external) | `arrived`, `confirmed`: a request drops what is below its offset |
| the loop of `Poll`, the handler in line | `at`, `offset`, and the batch `next..last` |
| the limiter's `last` map | `recent`, the chats charged within the interval |
| the queue | `Q == INSTANCE SerialExecutor`, which `DispatchQueue` implements |
| a job's `Dispatch` | `stage[c]`: no job, before the container is there, in `podman run`, in the exec |
| containers | `pool`; their inner life is `WarmPool`'s |
| ctx and the signal goroutine | `cancelled`, `sig`, `owed`, `visited` |
| the exit of main, a crash, the next start | `at = "exited"`, `"down"`, `Restart` (`life`) |

The handler tests the allowlist, charges the limiter, tests the text and calls
`Enqueue`, which blocks the loop while the chat has `Room` tasks that have not begun,
the bound of the executor that `DispatchQueue` implements. The
poll loop, and with it the process, ends when the context is cancelled, whatever
the signal goroutine has done by then. Jobs of messages run under that context
and do not begin a `podman run` once it is cancelled, though one under way may still
return and store its container; those of cron run under the background context and
go on. What a killed `podman run` leaves is `WarmPool`'s matter. A restart keeps only what Telegram has. Abstracted:
texts, durations, the sender (it keeps no state), the saved message and
`CONTEXT.md`. `handled` is history.

### Ipc (`internal/ipc`, `cmd/pitu-mcp`, the router's closures in `main.go`, `store/capabilities.go`)

The channel from the agents to the harness and back.

| Code | Model |
|---|---|
| a chat's `ipc/` or a sub-agent's | a root; its watched directories are `Subs`, in `RegisterDir`'s order |
| `RegisterDir`: `fsWatcher.Add`, then the meta under the lock | `reg[r]`, which counts half-steps: odd is a directory watched without a meta |
| an exec and its `pitu-mcp` | a turn: `turn`, `tools` (`PITU_CAPABILITIES`), `latched` (`sendMessageCalled`) |
| a tool call | `call[c]`: idle, writing, waiting for a response, done |
| the file's path and what it holds | `disk[Path(c)]`; two calls may have one `NameOf`, a `UnixNano` reading |
| the kernel's queue and fsnotify's channel | `events`, at most `MaxEvents` long |
| the loop of `Watch` and `Route` | `loop`: look up and read, handle, remove |
| the job channel of a chat | `backlog[k]`, at most `Room` |
| `handleCapabilityRequest`'s goroutine, `responses/` | `serving`, `answers` |
| `chat_capabilities` | `enabled` |
| a crash and the next start | `Restart`; the agents that run on are `orphans` |

One loop serves every directory, and a handler runs in it to its end: a bubbled
message enqueues a job and waits while the channel is full, and meanwhile nothing
else is routed, the requests that agents wait for included. A capability request
is answered in a goroutine. A `Restart` keeps files, settings and, if they are
lucky, agents; it covers the graceful stop, whose details are `Harness`'s. What
is lost, the model loses too: files written before the watch, with the event queue
full, over another file, too big for `Route`, or found at a start. `handled`,
`announced` and `orphans` are history.

Abstracted: contents, the tools' arguments, what the handlers do with a file
(tasks are `ScheduledTasks`', spawned containers `SubAgents`'); that a directory
cannot be registered (an error that is only logged, after which the channel is
silent for that directory); that `Route` stats a file and then reads it, here one step
(a file renamed over it in between is handled in its place, whatever its size; in the
model it meets the size check); registering again what is registered (idempotent).
Calls that meet one clock reading have read it at one moment, so that what an agent
does before one of them it does before the other: `OrderAssumption`, which is the
code's `UnixNano` in file names and a clock that is not set back while an agent works.

`Mailbox` is what agents and handlers are promised, without files, events, watches or
a loop: a call is posted at one instant, is on its way until its handler is called,
once, under its chat and after those of the calls made before it, and is lost only
when the harness dies, when it is too big, or where another call's file may have its
name. `Ipc` implements it under the mapping at its end: `Way` says of each call
whether it is unsent, posted (announced, or in the loop's hands), delivered or lost;
`Rename` posts, `Handle` delivers, and the rest are losses or stutters. An agent that
outlived its harness may be handled under no chat, and `Mailbox` says so.

Left out: a spawn that is handled under no chat, whose directories nobody
watches. As in the code, an answer that comes after the timeout stays in
`responses/`, and a capability that is disabled during an exec stays usable to
its end. A capability lookup that fails is logged and grants none (`main.go:212`).
The operator's `Switch` is bounded to the time when a turn of the chat is
still to come.

### Skills (`internal/skills`, the start in `main.go`)

| Code | Model |
|---|---|
| the embedded assets | `Releases[release]`, a tree per binary |
| the operator's directory, `skills-builtin`, the extra paths | `disk[d]`, in the order `Dirs` of precedence |
| the start of `main` | `phase`: unpack, discover, clear, merge, up |
| `discovered`, which messages go on using | `found` |
| `data/skills`, mounted into the containers | `mount`: the files under each name |
| `AGENTS.md` | `catalog`, `told` |

`Unpack` and `Merge` are a step per skill, and `Discover` a step per entry, so that a
start may end between any two of them and the operator may edit meanwhile. The
model's `Look` reads an entry when it comes to it, where the code has the list of a
directory's entries from one `ReadDir`: a skill that appears in between may be seen by
the model and not by the code, but then the start is no longer `fresh`, and the
properties that would tell claim nothing of it. The reference `Provider` is the first
place that lists a name, a choice and no loop. Abstracted: files within one skill (a
crash in the middle of one is not modelled), contents, the catalog's text beyond its
names, the `AGENTS.md` of more than one chat. The operator does not edit
`skills-builtin`. `CONTEXT.md` and the persona files are left out: one write if absent,
one read at the start.

## Runs

| Run | Instance | Shows |
|---|---|---|
| `queue` | three calls of one chat and one of another, a buffer of one, one slot, Stop | order, no loss, the cap, safe parking, draining and the refinement; with fairness, accepted tasks run, Enqueue returns, Stop returns (with its exception) |
| `pool` | two dispatches of one chat that the queue does not serialise, one under main's context, a signal with its cancel and StopAll, every fault | the double-checked lock, no forgotten live container but one whose `podman run` the signal killed; with fairness, dispatches return, containers stop (with that exception), dead handles leave |
| `pool_busy` | three dispatches of one chat, one after the other, no fault | **violated**: only idle containers expire (`docs/SECURITY.md:33`) |
| `pool_stale` | the same | **violated**: what StopAll must stop is in the pool (`manager.go:268`) |
| `tasks` | three tasks of two chats and an invalid one, every fault, crashes, pauses from any chat | cron, store and snapshots agree |
| `tasks_boot` | one task, no fault, a crash | **violated**: snapshots are current after a restart (`main.go:230`) |
| `harness` | three updates of two chats (one without a text), a scheduled task, one slot, room for one, a rate limit, two lives | one handling per life in Telegram's order, nothing confirmed that was not handled; with fairness, updates are handled and a signal ends the process |
| `harness_orphans` | two updates, no scheduled task | **violated**: no container is left after the exit (`docs/SECURITY.md:181`) |
| `ipc` | one chat, one sub-agent, a turn of each, six calls, two of which meet one clock reading, one file too big, two event slots, room for one job, two lives | the channel implements `Mailbox` (a file is handled at most once, under its chat and in order), one reply per turn, answers where they are waited for, no silent loss; with fairness, the loop gets back to its select |
| `subagents` | three spawns, one by another, every fault, a shutdown | no forgotten live container, StopAll reaches what is in `subPool` |
| `skills` | two names, two binaries of which the second drops a skill and a file, three trees in each operator directory | the mount is the reference merge, `AGENTS.md` lists what is mounted |
| `skills_linger` | the same | **violated**: a dropped built-in does not linger (`merge.go:14`) |

Why these bounds are enough to meet the hard cases:

- `queue`: three calls fill the worker's hand, the buffer and the send queue, so
  every path of `Recv`, and `done` reaching a parked sender, is taken; the second
  chat's worker waits for the one slot with a task in its hand, and its first call
  may come after Stop has gone through the map.
- `pool`: two dispatches of one chat race for the lock; one is under main's context,
  so that its `podman run` and its exec may be killed, the other is not, so that it may
  start a container behind StopAll. The stale timer needs a dispatch that re-arms it
  and one that starts the next container; the third lets the first be a later message.
- `tasks`: two tasks of one chat tell "the chat has another active task" from "it
  has none". `MaxJobs` bounds firings that wait; one is enough, as the properties
  speak of single firings.
- `harness`: the first and third update are of one chat, so they have an order; the
  scheduled task takes the only room, so that an update of its chat holds up the
  loop and with it the update of the other chat. Two lives are enough for a crash
  before or after the confirmation. Retries and failures have no bound.
- `ipc`: the chat's turn spawns the sub-agent and then makes two requests whose
  files collide; the sub-agent's turn tries to reply twice, and would make a request
  if it had the tool. Its reply bubbles up into a channel with room for one job. One
  chat is enough: a file is never looked up under another root.
- `subagents`: one for what is in the pool when Range begins, one stored behind
  it, one that another spawns.
- `skills`: with three directories and two names, a name is listed twice in one
  directory, twice in different ones, or hidden by a directory that cannot be
  listed.

The other bounds are the sets of chats, calls and tasks. Deadlock is checked for
the tasks and the skills, which never come to rest; it is not for queue, pool,
harness, Ipc and sub-agents, whose calls are finite.

**Fairness.** Weak fairness of every goroutine's step: Go's scheduler runs ready
goroutines, and podman calls and tasks are taken to return; StopAll goes on once the context is
cancelled. Strong fairness of
`Acquire`: senders parked on the semaphore channel are served first come, first
served. Weak fairness of a timer's firing: the clock runs. In `Harness`, weak
fairness of the goroutines taken together, which is that of each, because the
tasks of a life are finite; strong fairness of a successful `getUpdates` (the network
works now and then), of submissions and of starts (parked senders are served
in turn). In `Ipc`, weak fairness of the loop's `Take` and `Remove`, of the end of
a write, of the tools' deadline, of jobs and of turns whose calls have returned;
strong fairness of `Handle`, as a freed place of a channel goes to the sender that
has waited longest. None of calls of Enqueue, Dispatch or Stop, of messages that
arrive, of signals, of failures and of crashes.

**The violated properties** are real disagreements between the code and its
comments or docs; `PROJECT.json` quotes both under `findings`. In short: the TTL
counts from the start of an exec and not from its end; a timer re-armed by a
dispatch that met an expiring container deletes the entry of the next one; the
startup forgets the snapshots of chats whose tasks are all paused; main returns
before StopAll is done, often before it has begun, and leaves containers running;
`skills-builtin` is never cleared, so a built-in that an upgrade has dropped is
merged and listed for ever.

Five more were met in reading, and are exceptions that a property names or no
property's matter: cancelling the context before StopAll kills a `podman run` under
way, which may leave a container that nobody knows, in spite of `docs/SECURITY.md:181`
(`LiveIsGuarded` and `ContainersStop` except it through `Lost`, `SubLiveIsGuarded`
likewise); a chat whose first `Enqueue` comes behind Stop's pass over the map
has a worker that nobody stops (`queue.go:51`; `StopReturns` excepts it); a pause by
another chat's agent refreshes the wrong `tasks.json` (`SnapshotIsCurrent` excepts
it); `AGENTS.md` tells agents to read each `SKILL.md` "at the listed path"
(`context.go:53`), which is its path on the host (`catalog.go:17`), while only
`/workspace/skills` is mounted; skills and persona are read once, at the start
(`main.go:93`), though `docs/ARCHITECTURE.md:414` says that a message picks changes up
immediately (with the merge done at the start, listing them would name skills that
are not mounted, the mutant of `CatalogIsMount`).

## Proofs

| Module | Theorems |
|---|---|
| `DispatchQueue_proofs` | `TypeCorrect`, `SlotsAreBounded`, `WorkersAreDedicated`, `TasksRunInOrder`, `StopDrainsClosedChannels`, `NothingIsAcceptedAfterExit`, `ClosePanicsNoParkedCaller`, `ParkedCallersAreServed`, `AcceptedTasksAreQueuedOnce`, `BacklogIsBounded`, `NoSlotNothingRuns`, `QueueImplementsExecutor` |
| `WarmPool_proofs` | `TypeCorrect`, `StartsAreAlone`, `NoStartIsDuplicate`, `LiveIsAlwaysGuarded` |
| `ScheduledTasks_proofs` | `TypeCorrect`, `CronFollowsTheStore`, `PausedTasksStayQuiet`, `ActiveTasksAreScheduled`, `SnapshotsFollowTheStore`, `SnapshotsAreCurrent` |
| `SubAgents_proofs` | `TypeCorrect`, `SubLiveIsAlwaysGuarded`, `StopAllReachesThePool` |
| `Ipc_proofs` | `TypeCorrect`, `NoFileIsHandledTwice`, `HandlersKnowTheirChat`, `OneReplyPerTurn`, `AnswersReachCallers`, `NothingAnnouncedIsLost`, `CallsAreHandledInOrder`, `ChannelImplementsMailbox` |
| `Harness_proofs` | `TypeCorrect`, `MessagesRunInOrder`, `ConfirmedIsHandled` |
| `Skills_proofs` | `TypeCorrect`, `MountIsTheMerge`, `CatalogMatchesMount` |

Each starts from the module's assumptions on its constants and nothing else: one per
module, and in `Ipc` a second, `OrderAssumption`, on which only the order and the
mailbox rest. `NoSlotNothingRuns` adds `MaxConcurrent = 0` as its hypothesis.

- Queue. `CoreInv` is the type invariant with `WorkerPerChat` and `SlotsBounded`:
  the semaphore's count can be kept only together with what each worker holds.
  `FIFO` is inductive beside it. `StopInv` adds where Stop is (a worker that left
  has a closed, empty channel, and nothing is sent to a closed one), which gives
  draining and "nothing after exit"; `ParkInv` adds that callers park only before
  `done`. The refinement maps every action to an action of `SerialExecutor` or to
  a stutter; the mapped count of busy chats is the semaphore's count.
  `AcceptedOnce` is inductive beside the types: `Lists` says which chats' lists of
  accepted tasks a step makes longer, and by which task. `WaitInv` adds that a parked
  caller stands in its chat's line of senders, `Buffered` that a buffer never exceeds
  `Cap`: the first gives `ParkedAreServed`, the second, with `FIFO`, `BacklogBounded`.
  With no slot, that no worker runs and no task ever did is inductive (`NothingRuns`).
- Pool. `StartsAlone` is inductive beside the type invariant: while a dispatch
  holds the lock nobody else stores, and callbacks and StopAll only empty
  entries. `NoDuplicateStart` follows, as only `Store` fills an entry.
  `LiveIsGuarded` is inductive too: each step that takes one guard away puts the
  next in place, but for the kill of the podman client of a call under main's context,
  which only a cancelled context does.
- Tasks. `StoreInv` adds to `CronIsActive` and `SnapshotIsNotAhead` what the
  handler knows of a task being created (neither cron nor a snapshot has seen it)
  and that a task being taken out of cron is no longer active. `ScheduledInv` and
  `FreshInv` extend the two properties that speak of the time between requests
  to all times, naming the task just saved and the snapshots still due.

- Sub-agents. `Held` says that whatever holds a container (timer, callback, entry,
  StopAll) comes after its `podman run`, so that `LiveIsGuarded`'s argument applies
  again. `Reaching` says that what Range has to visit and is live is
  ahead of it or in its hands.
- Ipc. `FileInv` follows one file: what is on disk is where its call put it, and of
  a file that was handled and is still there no event speaks, unless the loop is
  about to remove it; so it is not handled again. It needs no assumption on names,
  as the file that overwrites another is another call's. `ChatInv` adds that an
  agent of this life runs where every directory has its meta, and what is then true
  of its files and of the loop. `SentInv` follows a call from its write to its
  handling: the latch is set as long as the turn runs, which gives one reply per
  turn, and only a chat's own agent has the capability's tools, which gives the place
  of the answer. `NoSilentLoss` is inductive beside `FileInv`. `OrderInv` speaks of two
  calls of which one comes after the other: the second writes, and a file may appear
  under its name, only when the first has returned; in the queue of events the first
  file's name stands before the second's; and once the second is in the loop's hands the
  first is no longer on its way. The last part makes `InSendOrder` hold, and is what
  `Deliver` of the mailbox asks for. The refinement has one lemma per kind of step.
  `WayKept` says what leaves a call where it is, `LosingStep` what a step may lose;
  `RenameMail` is the hardest: one rename may at once post a call and, taking the
  place of another file, lose a rival.
- Skills. `FoundInv` says that what was found are first places of their names and that
  no name listed before the cursor is missing, as long as the start is `fresh`.
  `MountFollows` follows Merge: mounted are the names copied so far, each with the files
  of the skill found. `CatalogFollows` says that messages list what the start found.
  At the end the found skills are the reference's providers (`FirstIsProvider`).
- Harness. `OffsetBound` goes with the type invariant. `PollInv` says that what is
  below the offset, or confirmed, was handled, and that this life handled nothing
  above the offset; `ConfirmedAreHandled` follows. `CallInv` adds that of this life's
  updates only the one in Enqueue is not behind the offset, so that an update which
  joins its chat's line is greater than those in it: with the lemmas on how a step
  changes a line, `InOrder` is inductive.

Proved only, as no run repeats them: `NothingIsAcceptedAfterExit`, `ParkedAreServed`,
`BacklogBounded`, `NothingRuns`, `HandledAtMostOnce` (the run of `Ipc` checks the mailbox,
which implies it).

Model-checked only: liveness under fairness, and the violated properties.

## Not modelled, and what is left

1. `Harness` over `DispatchQueue`: that it keeps what it has over `SerialExecutor`
   follows from the refinement, whose `Room` is now the queue's, for the queue's own
   steps; the composition itself is not written down.
2. Abstract specifications of the pool and of the tasks, and the refinements to them.
3. Skills: a crash inside the copy of one skill, the persona files.
4. Ipc: the error returns of `RegisterDir`, which leave part of a root unwatched; the
   stat and the read of a file as two steps.

Not planned: the message, group and session tables (append-only records and upserts
that no other part reads back; the session table is not used), parsing and
rendering of configuration (`max_concurrent = 0` is accepted:
`NoSlotNothingRuns` says what comes of it), the installation of services (unit
files and one call of `systemctl` or `launchctl`, by hand), argument lists, wording
and logging. Liveness and ENABLED stay with TLC.
