----------------------------- MODULE SubAgents ------------------------------
(***************************************************************************)
(* internal/container/manager.go: the containers of sub-agents.            *)
(*                                                                         *)
(* SpawnSubAgent, called by the watch loop for a file in agents/, starts a *)
(* goroutine that runs a fresh container, arms its TTL timer, stores it in *)
(* subPool and runs one agent in it.  Unlike a Dispatch (WarmPool) it takes *)
(* no slot of the queue and no lock, always runs under main's context, and *)
(* never re-arms the timer; an agent may spawn others.  On a signal main   *)
(* cancels the context and calls StopAll, which goes through the chats'    *)
(* pool and then through subPool.                                          *)
(*                                                                         *)
(* Time before the process exits: what its exit leaves is Harness's part.  *)
(***************************************************************************)
EXTENDS Integers

CONSTANTS Agents,        \* the calls of SpawnSubAgent: each has its own UUID
          Main,          \* the agent of the chat
          SpawnedBy,     \* [Agents -> Agents \cup {Main}]: whose file asks for it
          Nil,           \* no container
          Faults         \* what may go wrong: a subset of FaultKinds

\* podman run and podman stop may fail, and a container may die by itself.
FaultKinds == {"run", "stop", "die"}

ASSUME SubAgentsAssumption ==
  /\ SpawnedBy \in [Agents -> Agents \cup {Main}]
  /\ Nil \notin Agents /\ Main \notin Agents
  /\ Faults \subseteq FaultKinds

VARIABLES pc,        \* where the goroutine of each spawn is
          cont,      \* each container: "none", "live", "dead", or "left" to
                     \* run by a podman stop that failed
          timer,     \* whether its TTL timer is armed
          cb,        \* where the timer's callback is
          subPool,   \* the sub-agents whose handle is in the pool
          ctx,       \* the harness's context: "live" or "cancelled"
          watching,  \* the watch loop runs
          all,       \* StopAll: "idle", at the "chats", "ranging", at podman stop
                     \* ("stopping") or subPool.Delete ("deleting"), "done"
          taken,     \* the entry that Range has yielded to StopAll
          began,     \* the entries of the pool when Range began
          visited    \* the entries Range has been through

stopVars == <<all, taken, began, visited>>
vars == <<pc, cont, timer, cb, subPool, ctx, watching, all, taken, began, visited>>

PCs == {"none", "start", "running", "arm", "store", "exec", "executing",
        "done", "failed", "killed"}

Init ==
  /\ pc = [a \in Agents |-> "none"]
  /\ cont = [a \in Agents |-> "none"]
  /\ timer = [a \in Agents |-> FALSE]
  /\ cb = [a \in Agents |-> "idle"]
  /\ subPool = {} /\ ctx = "live" /\ watching = TRUE
  /\ all = "idle" /\ taken = Nil /\ began = {} /\ visited = {}

Up(a) == cont[a] \in {"live", "left"}
Goto(a, l) == pc' = [pc EXCEPT ![a] = l]

-----------------------------------------------------------------------------
(* SpawnSubAgent and its goroutine                                         *)

\* The router hands a file in agents/ to SpawnSubAgent.  Any agent has the tool,
\* a sub-agent too; its file may be routed after its exec has ended.
Spawn(a) ==
  /\ watching /\ pc[a] = "none"
  /\ SpawnedBy[a] \in Agents => pc[SpawnedBy[a]] \in {"executing", "done"}
  /\ Goto(a, "start")
  /\ UNCHANGED <<cont, timer, cb, subPool, ctx, watching, stopVars>>

\* The directories, the env file, and cmd.Start, which looks at the context.
Start(a) ==
  /\ pc[a] = "start"
  /\ \/ ctx = "live" /\ Goto(a, "running")
     \/ (ctx = "cancelled" \/ "run" \in Faults) /\ Goto(a, "failed")
  /\ UNCHANGED <<cont, timer, cb, subPool, ctx, watching, stopVars>>

\* podman run makes the container; its client has not returned yet.
Create(a) ==
  /\ pc[a] = "running" /\ cont[a] = "none"
  /\ cont' = [cont EXCEPT ![a] = "live"]
  /\ UNCHANGED <<pc, timer, cb, subPool, ctx, watching, stopVars>>

RunReturns(a) ==
  /\ pc[a] = "running" /\ cont[a] # "none"
  /\ Goto(a, "arm")
  /\ UNCHANGED <<cont, timer, cb, subPool, ctx, watching, stopVars>>

\* Mutant: the error of podman run is dropped.
RunErrorDropped(a) ==
  /\ pc[a] = "running" /\ cont[a] = "none" /\ "run" \in Faults
  /\ Goto(a, "arm")
  /\ UNCHANGED <<cont, timer, cb, subPool, ctx, watching, stopVars>>

\* podman run fails without a container.
RunFails(a) ==
  /\ pc[a] = "running" /\ cont[a] = "none" /\ "run" \in Faults
  /\ Goto(a, "failed")
  /\ UNCHANGED <<cont, timer, cb, subPool, ctx, watching, stopVars>>

\* The cancelled context kills the podman client, before or after it has made
\* the container, whose ID is then lost.
RunKilled(a) ==
  /\ pc[a] = "running" /\ ctx = "cancelled"
  /\ Goto(a, "killed")
  /\ UNCHANGED <<cont, timer, cb, subPool, ctx, watching, stopVars>>

\* Mutant: no timer.
NotArmed(a) ==
  /\ pc[a] = "arm"
  /\ Goto(a, "store")
  /\ UNCHANGED <<cont, timer, cb, subPool, ctx, watching, stopVars>>

\* RegisterDir, whose error is only logged, and time.AfterFunc.
Arm(a) ==
  /\ pc[a] = "arm"
  /\ timer' = [timer EXCEPT ![a] = TRUE]
  /\ Goto(a, "store")
  /\ UNCHANGED <<cont, cb, subPool, ctx, watching, stopVars>>

\* subPool.Store, after the timer was armed: its callback may have been through.
Store(a) ==
  /\ pc[a] = "store"
  /\ subPool' = subPool \cup {a}
  /\ Goto(a, "exec")
  /\ UNCHANGED <<cont, timer, cb, ctx, watching, stopVars>>

\* podman exec needs a context that is not cancelled and a running container.
Exec(a) ==
  /\ pc[a] = "exec"
  /\ Goto(a, IF ctx = "live" /\ Up(a) THEN "executing" ELSE "failed")
  /\ UNCHANGED <<cont, timer, cb, subPool, ctx, watching, stopVars>>

\* The agent ends, or its container or the context does; an error is only logged.
ExecEnds(a) ==
  /\ pc[a] = "executing"
  /\ Goto(a, "done")
  /\ UNCHANGED <<cont, timer, cb, subPool, ctx, watching, stopVars>>

-----------------------------------------------------------------------------
(* The TTL timer and its callback, stopSubAgentContainer                   *)

Fire(a) ==
  /\ timer[a]
  /\ timer' = [timer EXCEPT ![a] = FALSE]
  /\ cb' = [cb EXCEPT ![a] = "stop"]
  /\ UNCHANGED <<pc, cont, subPool, ctx, watching, stopVars>>

\* The error of podman stop is ignored: the container may run on.
Stopped(a) == {"dead"} \cup (IF "stop" \in Faults /\ Up(a) THEN {"left"} ELSE {})

PodmanStop(a) ==
  /\ cb[a] = "stop"
  /\ \E s \in Stopped(a) : cont' = [cont EXCEPT ![a] = s]
  /\ cb' = [cb EXCEPT ![a] = "delete"]
  /\ UNCHANGED <<pc, timer, subPool, ctx, watching, stopVars>>

Delete(a) ==
  /\ cb[a] = "delete"
  /\ subPool' = subPool \ {a}
  /\ cb' = [cb EXCEPT ![a] = "idle"]
  /\ UNCHANGED <<pc, cont, timer, ctx, watching, stopVars>>

\* A container ends by itself (out of memory, killed by the operator).
Die(a) ==
  /\ "die" \in Faults /\ Up(a)
  /\ cont' = [cont EXCEPT ![a] = "dead"]
  /\ UNCHANGED <<pc, timer, cb, subPool, ctx, watching, stopVars>>

-----------------------------------------------------------------------------
(* The signal: cancel, then StopAll                                        *)

\* cancel(); StopAll begins with the containers of the chats.
Cancel ==
  /\ ctx = "live"
  /\ ctx' = "cancelled" /\ all' = "chats"
  /\ UNCHANGED <<pc, cont, timer, cb, subPool, watching, taken, began, visited>>

\* Until its select takes ctx.Done, the watch loop may route more files.
WatchReturns ==
  /\ watching /\ ctx = "cancelled"
  /\ watching' = FALSE
  /\ UNCHANGED <<pc, cont, timer, cb, subPool, ctx, stopVars>>

\* subPool.Range begins: it will visit what the pool holds now, unless deleted
\* before, and may visit what is stored from now on.
Range ==
  /\ all = "chats"
  /\ all' = "ranging" /\ began' = subPool
  /\ UNCHANGED <<pc, cont, timer, cb, subPool, ctx, watching, taken, visited>>

\* Range yields an entry: its timer is stopped.
Take(a) ==
  /\ all = "ranging" /\ a \in subPool \ visited
  /\ all' = "stopping" /\ taken' = a
  /\ visited' = visited \cup {a}
  /\ timer' = [timer EXCEPT ![a] = FALSE]
  /\ UNCHANGED <<pc, cont, cb, subPool, ctx, watching, began>>

StopTaken ==
  /\ all = "stopping"
  /\ \E s \in Stopped(taken) : cont' = [cont EXCEPT ![taken] = s]
  /\ all' = "deleting"
  /\ UNCHANGED <<pc, timer, cb, subPool, ctx, watching, taken, began, visited>>

DeleteTaken ==
  /\ all = "deleting"
  /\ subPool' = subPool \ {taken}
  /\ all' = "ranging" /\ taken' = Nil
  /\ UNCHANGED <<pc, cont, timer, cb, ctx, watching, began, visited>>

\* Mutant: the callback of Range returns FALSE, which ends it.
FirstOnly == visited # {} \/ began \cap subPool = {}
Through == began \cap subPool \subseteq visited

RangeEnds ==
  /\ all = "ranging" /\ Through
  /\ all' = "done"
  /\ UNCHANGED <<pc, cont, timer, cb, subPool, ctx, watching, taken, began, visited>>

-----------------------------------------------------------------------------
Next ==
  \/ \E a \in Agents :
       \/ Spawn(a) \/ Start(a) \/ Create(a) \/ RunReturns(a) \/ RunFails(a)
       \/ RunKilled(a) \/ Arm(a) \/ Store(a) \/ Exec(a) \/ ExecEnds(a)
       \/ Fire(a) \/ PodmanStop(a) \/ Delete(a) \/ Die(a) \/ Take(a)
  \/ Cancel \/ WatchReturns \/ Range \/ StopTaken \/ DeleteTaken \/ RangeEnds

Spec == Init /\ [][Next]_vars

-----------------------------------------------------------------------------
(* Properties                                                              *)

HasRun == {"arm", "store", "exec", "executing", "done"}

\* Type invariant; a spawn whose podman run made no container does not get as
\* far as its ID (manager.go:210, 214).
TypeOK ==
  /\ pc \in [Agents -> PCs]
  /\ cont \in [Agents -> {"none", "live", "dead", "left"}]
  /\ timer \in [Agents -> BOOLEAN]
  /\ cb \in [Agents -> {"idle", "stop", "delete"}]
  /\ subPool \subseteq Agents /\ visited \subseteq Agents /\ began \subseteq Agents
  /\ ctx \in {"live", "cancelled"} /\ watching \in BOOLEAN
  /\ all \in {"idle", "chats", "ranging", "stopping", "deleting", "done"}
  /\ taken \in Agents \cup {Nil}
  /\ all \in {"stopping", "deleting"} <=> taken # Nil
  /\ ctx = "live" => all = "idle"
  /\ \A a \in Agents : pc[a] \in HasRun => cont[a] # "none"

\* Every live container of a sub-agent has somebody left to stop it, however its
\* timer, its exec and StopAll interleave: only a podman run that the shutdown
\* killed can leave one that the harness knows nothing of.
SubLiveIsGuarded ==
  \A a \in Agents :
    cont[a] = "live" =>
      \/ pc[a] \in {"running", "arm"} \/ timer[a] \/ cb[a] = "stop"
      \/ all = "stopping" /\ taken = a
      \/ pc[a] = "killed" /\ ctx = "cancelled"

\* StopAll (manager.go:277-283) stops what was in subPool when it got there,
\* whatever expires or is stored meanwhile: it misses only what comes behind it.
StopAllReaches == all = "done" => \A a \in began : cont[a] # "live"
=============================================================================
