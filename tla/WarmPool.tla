------------------------------ MODULE WarmPool -------------------------------
(***************************************************************************)
(* internal/container/manager.go: the pool of warm containers.             *)
(*                                                                         *)
(* A call of Dispatch finds the chat's container in the pool or starts one *)
(* under startMu, re-arms the container's TTL timer and runs the agent in  *)
(* it.  The timer's callback stops the container and then removes the      *)
(* chat's entry from the pool.  A signal cancels main's context, which     *)
(* kills the podman clients that run under it, and then StopAll stops and  *)
(* removes every entry.                                                    *)
(* Steps that wait for podman are steps of their own: everything else can  *)
(* happen meanwhile.                                                       *)
(*                                                                         *)
(* A dispatch starts at most one container, so a container is named by the *)
(* dispatch that starts it.  Sub-agent containers are not in this module.  *)
(***************************************************************************)
EXTENDS Integers, FiniteSets

CONSTANTS Chats,         \* the keys of the pool
          Dispatches,    \* the calls of Dispatch
          ChatOf,        \* the chat each call names
          Nil,           \* no container, no dispatch
          OnePerChat,    \* calls for one chat come one after the other, as
                         \* internal/queue makes them
          UnderMain,     \* the calls under main's context, those for messages;
                         \* those for scheduled tasks and sub-agents' messages
                         \* are under the background context
          Shutdown,      \* the harness may get a signal
          Faults         \* what may go wrong: a subset of FaultKinds

\* podman run, the input file, the agent and podman stop may fail, and a
\* container may die by itself.
FaultKinds == {"run", "write", "exec", "stop", "die"}

ASSUME PoolAssumption ==
  /\ ChatOf \in [Dispatches -> Chats]
  /\ Nil \notin Dispatches /\ UnderMain \subseteq Dispatches
  /\ OnePerChat \in BOOLEAN /\ Shutdown \in BOOLEAN
  /\ Faults \subseteq FaultKinds

VARIABLES pc,        \* where each dispatch is
          mu,        \* the dispatch that holds startMu
          handle,    \* the container each dispatch got from ensureContainer
          pool,      \* per chat, the container the pool holds
          cont,      \* each container: "none", "live", "dead", or "left" to
                     \* run by a podman stop that failed
          timer,     \* whether each container's TTL timer is armed
          cb,        \* where each timer's callback is
          session,   \* hasSession of each handle
          ctx,       \* main's context: "live" or "cancelled"
          all,       \* where StopAll is: "idle", "ranging", at podman stop
                     \* ("stopping") or pool.Delete ("deleting"), "done"
          taken,     \* the entry that Range has yielded to StopAll
          visited,   \* the chats StopAll's Range has been through
          owed       \* the chats it still has to visit: their entry has been
                     \* in the pool since it began

poolVars == <<mu, pool, session>>
stopVars == <<ctx, all, taken, visited, owed>>
vars == <<pc, mu, handle, pool, cont, timer, cb, session, stopVars>>

Returned == {"done", "failed", "killed"}
PCs == {"new", "load", "lock", "recheck", "start", "running", "arm", "store", "touch",
        "exec", "executing"} \cup Returned

Init ==
  /\ pc = [d \in Dispatches |-> "new"]
  /\ mu = Nil
  /\ handle = [d \in Dispatches |-> Nil]
  /\ pool = [c \in Chats |-> Nil]
  /\ cont = [d \in Dispatches |-> "none"]
  /\ timer = [d \in Dispatches |-> FALSE]
  /\ cb = [d \in Dispatches |-> "idle"]
  /\ session = [d \in Dispatches |-> FALSE]
  /\ ctx = "live" /\ all = "idle" /\ taken = Nil /\ visited = {} /\ owed = {}

Warm(d) == pool[ChatOf[d]]
Up(i) == cont[i] \in {"live", "left"}
Cancelled(d) == ctx = "cancelled" /\ d \in UnderMain
Goto(d, l) == pc' = [pc EXCEPT ![d] = l]

\* The outcomes of a call that may meet the fault f.
Outcomes(ok, f) == {ok} \cup (IF f \in Faults THEN {"failed"} ELSE {})

-----------------------------------------------------------------------------
(* Dispatch                                                                *)

Begin(d) ==
  /\ pc[d] = "new"
  /\ OnePerChat => \A e \in Dispatches :
                     ChatOf[e] = ChatOf[d] => pc[e] \in {"new"} \cup Returned
  /\ Goto(d, "load")
  /\ UNCHANGED <<handle, cont, timer, cb, poolVars, stopVars>>

\* Mutant: the fast path does not look whether the pool has an entry.
LoadUnchecked(d) ==
  /\ pc[d] = "load"
  /\ handle' = [handle EXCEPT ![d] = Warm(d)]
  /\ Goto(d, "touch")
  /\ UNCHANGED <<cont, timer, cb, poolVars, stopVars>>

\* ensureContainer, fast path: pool.Load without the lock.
Load(d) ==
  /\ pc[d] = "load"
  /\ handle' = [handle EXCEPT ![d] = Warm(d)]
  /\ Goto(d, IF Warm(d) # Nil THEN "touch" ELSE "lock")
  /\ UNCHANGED <<cont, timer, cb, poolVars, stopVars>>

Lock(d) ==
  /\ pc[d] = "lock" /\ mu = Nil
  /\ mu' = d
  /\ Goto(d, "recheck")
  /\ UNCHANGED <<handle, pool, cont, timer, cb, session, stopVars>>

\* Mutant: the slow path does not look at the pool again.
NoRecheck(d) ==
  /\ pc[d] = "recheck"
  /\ Goto(d, "start")
  /\ UNCHANGED <<handle, pool, cont, timer, cb, session, mu, stopVars>>

\* ensureContainer, slow path: the second pool.Load, under the lock.
Recheck(d) ==
  /\ pc[d] = "recheck"
  /\ IF Warm(d) # Nil
     THEN /\ handle' = [handle EXCEPT ![d] = Warm(d)]
          /\ mu' = Nil
          /\ Goto(d, "touch")
     ELSE Goto(d, "start") /\ UNCHANGED <<handle, mu>>
  /\ UNCHANGED <<pool, cont, timer, cb, session, stopVars>>

\* The directories, the env file, and cmd.Start, which looks at the context.
Start(d) ==
  /\ pc[d] = "start"
  /\ \/ ~Cancelled(d) /\ Goto(d, "running") /\ UNCHANGED mu
     \/ (Cancelled(d) \/ "run" \in Faults) /\ Goto(d, "failed") /\ mu' = Nil
  /\ UNCHANGED <<handle, pool, cont, timer, cb, session, stopVars>>

\* podman run makes the container; its client has not returned yet.
Create(d) ==
  /\ pc[d] = "running" /\ cont[d] = "none"
  /\ cont' = [cont EXCEPT ![d] = "live"]
  /\ UNCHANGED <<pc, handle, timer, cb, poolVars, stopVars>>

RunReturns(d) ==
  /\ pc[d] = "running" /\ cont[d] # "none"
  /\ Goto(d, "arm")
  /\ UNCHANGED <<handle, cont, timer, cb, poolVars, stopVars>>

\* Mutant: the error return forgets the lock.
RunFailsLocked(d) ==
  /\ pc[d] = "running" /\ cont[d] = "none" /\ "run" \in Faults
  /\ Goto(d, "failed")
  /\ UNCHANGED <<handle, cont, timer, cb, poolVars, stopVars>>

\* podman run fails by itself, without a container.
RunFails(d) ==
  /\ pc[d] = "running" /\ cont[d] = "none" /\ "run" \in Faults
  /\ mu' = Nil
  /\ Goto(d, "failed")
  /\ UNCHANGED <<handle, pool, cont, timer, cb, session, stopVars>>

\* Mutant: podman run is given a timeout.
RunTimesOut(d) ==
  /\ pc[d] = "running"
  /\ mu' = Nil
  /\ Goto(d, "killed")
  /\ UNCHANGED <<handle, pool, cont, timer, cb, session, stopVars>>

\* The cancelled context kills the podman client, before or after it has made
\* the container, whose ID is then lost.
RunKilled(d) ==
  /\ pc[d] = "running" /\ Cancelled(d)
  /\ mu' = Nil
  /\ Goto(d, "killed")
  /\ UNCHANGED <<handle, pool, cont, timer, cb, session, stopVars>>

\* RegisterDir, whose error is only logged, and time.AfterFunc.
Arm(d) ==
  /\ pc[d] = "arm"
  /\ timer' = [timer EXCEPT ![d] = TRUE]
  /\ Goto(d, "store")
  /\ UNCHANGED <<handle, cont, cb, poolVars, stopVars>>

\* The handle is stored, after its timer was armed, and the lock given back.
Store(d) ==
  /\ pc[d] = "store"
  /\ pool' = [pool EXCEPT ![ChatOf[d]] = d]
  /\ handle' = [handle EXCEPT ![d] = d]
  /\ mu' = Nil
  /\ Goto(d, "touch")
  /\ UNCHANGED <<cont, timer, cb, session, stopVars>>

\* Mutant: the timer is stopped for the exec and not armed again.
TouchDisarms(d) ==
  /\ pc[d] = "touch"
  /\ timer' = [timer EXCEPT ![handle[d]] = FALSE]
  /\ \E l \in Outcomes("exec", "write") : Goto(d, l)
  /\ UNCHANGED <<handle, cont, cb, poolVars, stopVars>>

\* ttlTimer.Reset arms the timer again, fired or stopped as it may be; then
\* WriteInputFile succeeds or fails.
Touch(d) ==
  /\ pc[d] = "touch"
  /\ timer' = [timer EXCEPT ![handle[d]] = TRUE]
  /\ \E l \in Outcomes("exec", "write") : Goto(d, l)
  /\ UNCHANGED <<handle, cont, cb, poolVars, stopVars>>

\* podman exec needs a context that is not cancelled and a running container.
Exec(d) ==
  /\ pc[d] = "exec"
  /\ Goto(d, IF Up(handle[d]) /\ ~Cancelled(d) THEN "executing" ELSE "failed")
  /\ UNCHANGED <<handle, cont, timer, cb, poolVars, stopVars>>

\* podman exec ends: by itself, with the agent's error, with its container or with
\* the context.
ExecEnds(d) ==
  /\ pc[d] = "executing"
  /\ \/ /\ Up(handle[d])
        /\ Goto(d, "done")
        /\ session' = [session EXCEPT ![handle[d]] = TRUE]
     \/ /\ ~Up(handle[d]) \/ Cancelled(d) \/ "exec" \in Faults
        /\ Goto(d, "failed")
        /\ UNCHANGED session
  /\ UNCHANGED <<handle, cont, timer, cb, mu, pool, stopVars>>

-----------------------------------------------------------------------------
(* The TTL timer and its callback, stopContainer                           *)

\* The TTL is minutes and podman stop seconds: a timer that is armed again does
\* not fire while its callback is still at work.
Fire(i) ==
  /\ timer[i] /\ cb[i] = "idle"
  /\ timer' = [timer EXCEPT ![i] = FALSE]
  /\ cb' = [cb EXCEPT ![i] = "stop"]
  /\ UNCHANGED <<pc, handle, cont, poolVars, stopVars>>

\* The error of podman stop is ignored: the container may run on.
Stopped(i) == {"dead"} \cup (IF "stop" \in Faults /\ Up(i) THEN {"left"} ELSE {})

PodmanStop(i) ==
  /\ cb[i] = "stop"
  /\ \E s \in Stopped(i) : cont' = [cont EXCEPT ![i] = s]
  /\ cb' = [cb EXCEPT ![i] = "delete"]
  /\ UNCHANGED <<pc, handle, timer, poolVars, stopVars>>

\* Mutant: the callback stops the container and leaves the entry.
KeepEntry(i) ==
  /\ cb[i] = "delete"
  /\ cb' = [cb EXCEPT ![i] = "idle"]
  /\ UNCHANGED <<pc, mu, handle, pool, cont, timer, session, stopVars>>

\* pool.Delete by chat, whatever container the entry holds by now.
Delete(i) ==
  /\ cb[i] = "delete"
  /\ pool' = [pool EXCEPT ![ChatOf[i]] = Nil]
  /\ owed' = owed \ {ChatOf[i]}
  /\ cb' = [cb EXCEPT ![i] = "idle"]
  /\ UNCHANGED <<pc, mu, handle, cont, timer, session, ctx, all, taken, visited>>

\* A container ends by itself (out of memory, killed by the operator).
Die(i) ==
  /\ "die" \in Faults /\ Up(i)
  /\ cont' = [cont EXCEPT ![i] = "dead"]
  /\ UNCHANGED <<pc, handle, timer, cb, poolVars, stopVars>>

-----------------------------------------------------------------------------
(* The signal: cancel, then StopAll                                        *)

Cancel ==
  /\ Shutdown /\ ctx = "live"
  /\ ctx' = "cancelled"
  /\ UNCHANGED <<pc, handle, cont, timer, cb, poolVars, all, taken, visited, owed>>

Range ==
  /\ ctx = "cancelled" /\ all = "idle"
  /\ all' = "ranging"
  /\ owed' = {c \in Chats : pool[c] # Nil}
  /\ UNCHANGED <<pc, handle, cont, timer, cb, poolVars, ctx, taken, visited>>

\* Range yields an entry: its timer is stopped.
Take(c) ==
  /\ all = "ranging" /\ c \notin visited /\ pool[c] # Nil
  /\ all' = "stopping" /\ taken' = pool[c]
  /\ visited' = visited \cup {c} /\ owed' = owed \ {c}
  /\ timer' = [timer EXCEPT ![pool[c]] = FALSE]
  /\ UNCHANGED <<pc, handle, cont, cb, poolVars, ctx>>

StopTaken ==
  /\ all = "stopping"
  /\ \E s \in Stopped(taken) : cont' = [cont EXCEPT ![taken] = s]
  /\ all' = "deleting"
  /\ UNCHANGED <<pc, handle, timer, cb, poolVars, ctx, taken, visited, owed>>

\* pool.Delete by key, whatever the entry holds by now.
DeleteTaken ==
  /\ all = "deleting"
  /\ pool' = [pool EXCEPT ![ChatOf[taken]] = Nil]
  /\ all' = "ranging" /\ taken' = Nil
  /\ UNCHANGED <<pc, mu, handle, cont, timer, cb, session, ctx, visited, owed>>

\* Range ends; it need not see an entry that was stored while it ran.
RangeEnds ==
  /\ all = "ranging" /\ owed = {}
  /\ all' = "done"
  /\ UNCHANGED <<pc, handle, cont, timer, cb, poolVars, ctx, taken, visited, owed>>

-----------------------------------------------------------------------------
Run(d) == Start(d) \/ Create(d) \/ RunReturns(d) \/ RunFails(d) \/ RunKilled(d)
Dispatch(d) ==
  \/ Load(d) \/ Lock(d) \/ Recheck(d) \/ Run(d) \/ Arm(d) \/ Store(d)
  \/ Touch(d) \/ Exec(d) \/ ExecEnds(d)
Callback(i) == PodmanStop(i) \/ Delete(i)
StopAll == Range \/ (\E c \in Chats : Take(c)) \/ StopTaken \/ DeleteTaken \/ RangeEnds

Next ==
  \/ \E d \in Dispatches : Begin(d) \/ Dispatch(d) \/ Fire(d) \/ Callback(d) \/ Die(d)
  \/ Cancel \/ StopAll

Spec == Init /\ [][Next]_vars

\* Goroutines are scheduled, podman returns, the mutex is granted and the clock
\* runs; nobody is obliged to send a message or a signal, and containers need not die.
FairSpec ==
  /\ Spec
  /\ \A d \in Dispatches : WF_vars(Dispatch(d)) /\ WF_vars(Fire(d)) /\ WF_vars(Callback(d))
  /\ WF_vars(StopAll)

-----------------------------------------------------------------------------
(* Properties                                                              *)

Containers == Dispatches \cup {Nil}

\* Type invariant of the pool: a dispatch that goes on has a handle, and the
\* handles that a dispatch and the pool hold are of their own chat.
TypeOK ==
  /\ pc \in [Dispatches -> PCs]
  /\ mu \in Containers /\ taken \in Containers
  /\ handle \in [Dispatches -> Containers]
  /\ pool \in [Chats -> Containers]
  /\ cont \in [Dispatches -> {"none", "live", "dead", "left"}]
  /\ timer \in [Dispatches -> BOOLEAN]
  /\ cb \in [Dispatches -> {"idle", "stop", "delete"}]
  /\ session \in [Dispatches -> BOOLEAN]
  /\ ctx \in {"live", "cancelled"}
  /\ all \in {"idle", "ranging", "stopping", "deleting", "done"}
  /\ all \in {"stopping", "deleting"} <=> taken # Nil
  /\ visited \subseteq Chats /\ owed \subseteq Chats
  /\ \A d \in Dispatches :
       /\ pc[d] \in {"touch", "exec", "executing"} => handle[d] # Nil
       /\ handle[d] # Nil => ChatOf[handle[d]] = ChatOf[d]
  /\ \A c \in Chats : pool[c] # Nil => ChatOf[pool[c]] = c

\* The double-checked lock (manager.go:91-104): a start goes on only with startMu
\* held and only while the chat has no warm container, however many dispatches
\* missed the fast path together.
Starting == {"start", "running", "arm", "store"}
StartsAlone ==
  \A d \in Dispatches :
    /\ pc[d] \in Starting \cup {"recheck"} <=> mu = d
    /\ pc[d] \in Starting => Warm(d) = Nil

\* No start ever replaces a warm container of the pool, which would leak it
\* (ARCHITECTURE.md, "Double-Checked Locking on Container Start").
NoDuplicateStart ==
  [][\A c \in Chats : pool[c] # Nil /\ pool'[c] # Nil => pool'[c] = pool[c]]_vars

\* The podman run of a message's dispatch was killed by the shutdown.
Lost(i) == pc[i] = "killed" /\ Cancelled(i)

\* Every live container has somebody left to stop it: the dispatch about to arm
\* its timer, the timer, its callback, or StopAll.  Only a podman run that the
\* shutdown killed (manager.go:141, main.go:250) can leave one that nobody knows
\* of, and never one for a scheduled task.  One that podman failed to stop has
\* nobody: it is "left" and no longer live.
LiveIsGuarded ==
  \A i \in Dispatches :
    cont[i] = "live" =>
      \/ pc[i] \in {"running", "arm"} \/ timer[i] \/ cb[i] = "stop"
      \/ all = "stopping" /\ taken = i
      \/ Lost(i)

\* Every Dispatch returns, on every error path with startMu given back.
DispatchReturns ==
  \A d \in Dispatches : pc[d] = "load" ~> pc[d] \in Returned

\* While it lives the harness stops every container in the end (docs/SECURITY.md:33),
\* whichever of the timers, dispatches and StopAll come first, but for one whose
\* podman run the shutdown killed.
ContainersStop == \A i \in Dispatches : cont[i] = "live" ~> cont[i] # "live" \/ Lost(i)

\* The pool does not keep a dead container for ever: once messages pause for a
\* TTL, the next one gets a new container.
DeadHandlesLeave ==
  \A c \in Chats, i \in Dispatches :
    pool[c] = i /\ cont[i] = "dead" ~> pool[c] # i

\* docs/SECURITY.md:33 says that the containers stopped by the timer are those "that
\* have been idle longer than the configured TTL".
OnlyIdleContainersExpire ==
  \A d \in Dispatches : pc[d] = "executing" => cb[handle[d]] # "stop"

\* manager.go:268 says that StopAll "stops all warm containers": it looks for
\* them in the pool, so a container that its dispatch has left running and that
\* nobody is stopping has to be there.
WarmIsPooled ==
  \A i \in Dispatches :
    cont[i] = "live" /\ pc[i] \in {"done", "failed"} /\ cb[i] = "idle" /\ taken # i
      => Warm(i) = i
=============================================================================
