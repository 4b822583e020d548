--------------------------- MODULE SubAgents_proofs ---------------------------
(***************************************************************************)
(* Proofs about SubAgents, for any number of spawns, nested in any way,    *)
(* and any faults.                                                         *)
(***************************************************************************)
EXTENDS SubAgents, TLAPS

-----------------------------------------------------------------------------
(* Type correctness                                                        *)

\* One step keeps TypeOK.
LEMMA TypeStep == TypeOK /\ [Next]_vars => TypeOK'
<1> SUFFICES ASSUME TypeOK, [Next]_vars PROVE TypeOK'
  OBVIOUS
<1> USE SubAgentsAssumption DEF TypeOK, PCs, HasRun
<1>1. ASSUME NEW a \in Agents, Spawn(a) PROVE TypeOK'
  BY <1>1 DEF Spawn, Goto, stopVars
<1>2. ASSUME NEW a \in Agents, Start(a) PROVE TypeOK'
  BY <1>2 DEF Start, Goto, stopVars
<1>3. ASSUME NEW a \in Agents, Create(a) PROVE TypeOK'
  BY <1>3 DEF Create, stopVars
<1>4. ASSUME NEW a \in Agents, RunReturns(a) PROVE TypeOK'
  BY <1>4 DEF RunReturns, Goto, stopVars
<1>5. ASSUME NEW a \in Agents, RunFails(a) PROVE TypeOK'
  BY <1>5 DEF RunFails, Goto, stopVars
<1>6. ASSUME NEW a \in Agents, RunKilled(a) PROVE TypeOK'
  BY <1>6 DEF RunKilled, Goto, stopVars
<1>7. ASSUME NEW a \in Agents, Arm(a) PROVE TypeOK'
  BY <1>7 DEF Arm, Goto, stopVars
<1>8. ASSUME NEW a \in Agents, Store(a) PROVE TypeOK'
  BY <1>8 DEF Store, Goto, stopVars
<1>9. ASSUME NEW a \in Agents, Exec(a) PROVE TypeOK'
  BY <1>9 DEF Exec, Goto, Up, stopVars
<1>10. ASSUME NEW a \in Agents, ExecEnds(a) PROVE TypeOK'
  BY <1>10 DEF ExecEnds, Goto, stopVars
<1>11. ASSUME NEW a \in Agents, Fire(a) PROVE TypeOK'
  BY <1>11 DEF Fire, stopVars
<1>12. ASSUME NEW a \in Agents, PodmanStop(a) PROVE TypeOK'
  BY <1>12 DEF PodmanStop, Stopped, Up, stopVars
<1>13. ASSUME NEW a \in Agents, Delete(a) PROVE TypeOK'
  BY <1>13 DEF Delete, stopVars
<1>14. ASSUME NEW a \in Agents, Die(a) PROVE TypeOK'
  BY <1>14 DEF Die, Up, stopVars
<1>15. ASSUME NEW a \in Agents, Take(a) PROVE TypeOK'
  BY <1>15 DEF Take
<1>16. CASE Cancel
  BY <1>16 DEF Cancel
<1>17. CASE WatchReturns
  BY <1>17 DEF WatchReturns, stopVars
<1>18. CASE Range
  BY <1>18 DEF Range
<1>19. CASE StopTaken
  BY <1>19 DEF StopTaken, Stopped, Up
<1>20. CASE RangeEnds
  BY <1>20 DEF RangeEnds, Through
<1>22. CASE DeleteTaken
  BY <1>22 DEF DeleteTaken
<1>21. CASE UNCHANGED vars
  BY <1>21 DEF vars
<1> QED
  BY <1>1, <1>2, <1>3, <1>4, <1>5, <1>6, <1>7, <1>8, <1>9, <1>10, <1>11,
     <1>12, <1>13, <1>14, <1>15, <1>16, <1>17, <1>18, <1>19, <1>20, <1>21, <1>22
  DEF Next

\* The state of the spawns has its type, and none goes on without a container.
THEOREM TypeCorrect == Spec => []TypeOK
<1>1. Init => TypeOK
  BY SubAgentsAssumption DEF Init, TypeOK, PCs, HasRun
<1> QED
  BY <1>1, TypeStep, PTL DEF Spec

-----------------------------------------------------------------------------
(* What a timer, a callback and an entry of the pool tell of a container   *)

\* Whatever holds a container comes after podman run, and a callback that has
\* come to the pool has stopped its container.
Held ==
  /\ \A a \in Agents :
       /\ timer[a] \/ cb[a] # "idle" \/ a \in subPool \/ a \in began \/ taken = a
            => cont[a] # "none"
       /\ cb[a] = "delete" => cont[a] # "live"
       /\ all = "deleting" /\ taken = a => cont[a] # "live"
  /\ all \in {"idle", "chats"} => began = {} /\ visited = {} /\ taken = Nil

\* The steps of a goroutine that leave every container and its guards alone.
Quiet(a) ==
  \/ Spawn(a) \/ Start(a) \/ RunReturns(a) \/ RunFails(a) \/ RunKilled(a)
  \/ Exec(a) \/ ExecEnds(a)

\* What a quiet step does not change.
LEMMA QuietStep ==
  \A a \in Agents : Quiet(a) => UNCHANGED <<cont, timer, cb, subPool, ctx, all, taken, began, visited>>
BY DEF Quiet, Spawn, Start, RunReturns, RunFails, RunKilled, Exec, ExecEnds, stopVars

\* One step keeps Held.
LEMMA HeldStep == TypeOK /\ Held /\ [Next]_vars => Held'
<1> SUFFICES ASSUME TypeOK, Held, [Next]_vars PROVE Held'
  OBVIOUS
<1> USE SubAgentsAssumption DEF TypeOK, Held, HasRun
<1>1. ASSUME NEW a \in Agents, Quiet(a) PROVE Held'
  BY <1>1, QuietStep
<1>2. ASSUME NEW a \in Agents, Create(a) PROVE Held'
  BY <1>2 DEF Create, stopVars
<1>3. ASSUME NEW a \in Agents, Arm(a) PROVE Held'
  BY <1>3 DEF Arm, Goto, stopVars
<1>4. ASSUME NEW a \in Agents, Store(a) PROVE Held'
  BY <1>4 DEF Store, Goto, stopVars
<1>5. ASSUME NEW a \in Agents, Fire(a) PROVE Held'
  BY <1>5 DEF Fire, stopVars
<1>6. ASSUME NEW a \in Agents, PodmanStop(a) PROVE Held'
  BY <1>6 DEF PodmanStop, Stopped, Up, stopVars
<1>7. ASSUME NEW a \in Agents, Delete(a) PROVE Held'
  BY <1>7 DEF Delete, stopVars
<1>8. ASSUME NEW a \in Agents, Die(a) PROVE Held'
  BY <1>8 DEF Die, Up, stopVars
<1>9. ASSUME NEW a \in Agents, Take(a) PROVE Held'
  BY <1>9 DEF Take
<1>10. CASE Cancel
  BY <1>10 DEF Cancel
<1>11. CASE WatchReturns
  BY <1>11 DEF WatchReturns, stopVars
<1>12. CASE Range
  BY <1>12 DEF Range
<1>13. CASE StopTaken
  BY <1>13 DEF StopTaken, Stopped, Up
<1>14. CASE RangeEnds
  BY <1>14 DEF RangeEnds, Through
<1>16. CASE DeleteTaken
  BY <1>16 DEF DeleteTaken
<1>15. CASE UNCHANGED vars
  BY <1>15 DEF vars
<1> QED
  BY <1>1, <1>2, <1>3, <1>4, <1>5, <1>6, <1>7, <1>8, <1>9, <1>10, <1>11,
     <1>12, <1>13, <1>14, <1>15, <1>16
  DEF Next, Quiet

\* Held is an invariant.
LEMMA HeldCorrect == Spec => []Held
<1>1. Init => Held
  BY SubAgentsAssumption DEF Init, Held
<1> QED
  BY <1>1, HeldStep, TypeCorrect, PTL DEF Spec

-----------------------------------------------------------------------------
(* Every live container is guarded                                         *)

\* One step keeps SubLiveIsGuarded: the guards hand a container on, from podman
\* run to the timer, from the timer to its callback or to StopAll.
LEMMA GuardStep == TypeOK /\ Held /\ SubLiveIsGuarded /\ [Next]_vars => SubLiveIsGuarded'
<1> SUFFICES ASSUME TypeOK, Held, SubLiveIsGuarded, [Next]_vars PROVE SubLiveIsGuarded'
  OBVIOUS
<1> USE SubAgentsAssumption DEF TypeOK, PCs, Held, SubLiveIsGuarded
<1>1. ASSUME NEW a \in Agents, Spawn(a) PROVE SubLiveIsGuarded'
  BY <1>1 DEF Spawn, Goto, stopVars
<1>2. ASSUME NEW a \in Agents, Start(a) PROVE SubLiveIsGuarded'
  BY <1>2 DEF Start, Goto, stopVars
<1>3. ASSUME NEW a \in Agents, Create(a) PROVE SubLiveIsGuarded'
  BY <1>3 DEF Create, stopVars
<1>4. ASSUME NEW a \in Agents, RunReturns(a) PROVE SubLiveIsGuarded'
  BY <1>4 DEF RunReturns, Goto, stopVars
<1>5. ASSUME NEW a \in Agents, RunFails(a) PROVE SubLiveIsGuarded'
  BY <1>5 DEF RunFails, Goto, stopVars
<1>6. ASSUME NEW a \in Agents, RunKilled(a) PROVE SubLiveIsGuarded'
  BY <1>6 DEF RunKilled, Goto, stopVars
<1>7. ASSUME NEW a \in Agents, Arm(a) PROVE SubLiveIsGuarded'
  BY <1>7 DEF Arm, Goto, stopVars
<1>8. ASSUME NEW a \in Agents, Store(a) PROVE SubLiveIsGuarded'
  BY <1>8 DEF Store, Goto, stopVars
<1>9. ASSUME NEW a \in Agents, Exec(a) PROVE SubLiveIsGuarded'
  BY <1>9 DEF Exec, Goto, Up, stopVars
<1>10. ASSUME NEW a \in Agents, ExecEnds(a) PROVE SubLiveIsGuarded'
  BY <1>10 DEF ExecEnds, Goto, stopVars
<1>11. ASSUME NEW a \in Agents, Fire(a) PROVE SubLiveIsGuarded'
  BY <1>11 DEF Fire, stopVars
<1>12. ASSUME NEW a \in Agents, PodmanStop(a) PROVE SubLiveIsGuarded'
  BY <1>12 DEF PodmanStop, Stopped, Up, stopVars
<1>13. ASSUME NEW a \in Agents, Delete(a) PROVE SubLiveIsGuarded'
  BY <1>13 DEF Delete, stopVars
<1>14. ASSUME NEW a \in Agents, Die(a) PROVE SubLiveIsGuarded'
  BY <1>14 DEF Die, Up, stopVars
<1>15. ASSUME NEW a \in Agents, Take(a) PROVE SubLiveIsGuarded'
  BY <1>15 DEF Take
<1>16. CASE Cancel
  BY <1>16 DEF Cancel
<1>17. CASE WatchReturns
  BY <1>17 DEF WatchReturns, stopVars
<1>18. CASE Range
  BY <1>18 DEF Range
<1>19. CASE StopTaken
  BY <1>19 DEF StopTaken, Stopped, Up
<1>20. CASE RangeEnds
  BY <1>20 DEF RangeEnds, Through
<1>22. CASE DeleteTaken
  BY <1>22 DEF DeleteTaken
<1>21. CASE UNCHANGED vars
  BY <1>21 DEF vars
<1> QED
  BY <1>1, <1>2, <1>3, <1>4, <1>5, <1>6, <1>7, <1>8, <1>9, <1>10, <1>11,
     <1>12, <1>13, <1>14, <1>15, <1>16, <1>17, <1>18, <1>19, <1>20, <1>21, <1>22
  DEF Next

\* Only a podman run killed by the shutdown leaves a live container that nothing
\* in the harness will stop.
THEOREM SubLiveIsAlwaysGuarded == Spec => []SubLiveIsGuarded
<1>1. Init => SubLiveIsGuarded
  BY DEF Init, SubLiveIsGuarded
<1> QED
  BY <1>1, GuardStep, TypeCorrect, HeldCorrect, PTL DEF Spec

-----------------------------------------------------------------------------
(* StopAll reaches what was in the pool                                    *)

\* The strengthening of StopAllReaches: what Range has to visit and is still live
\* is ahead of it in the pool, or being stopped.
Reaching ==
  \A a \in began :
    cont[a] = "live" =>
      \/ all = "stopping" /\ taken = a
      \/ all \in {"ranging", "stopping", "deleting"} /\ a \in subPool \ visited

\* One step keeps Reaching.
LEMMA ReachStep == TypeOK /\ Held /\ Reaching /\ [Next]_vars => Reaching'
<1> SUFFICES ASSUME TypeOK, Held, Reaching, [Next]_vars PROVE Reaching'
  OBVIOUS
<1> USE SubAgentsAssumption DEF TypeOK, Held, Reaching
<1>1. ASSUME NEW a \in Agents, Quiet(a) PROVE Reaching'
  BY <1>1, QuietStep
<1>2. ASSUME NEW a \in Agents, Create(a) PROVE Reaching'
  BY <1>2 DEF Create, stopVars
<1>3. ASSUME NEW a \in Agents, Arm(a) PROVE Reaching'
  BY <1>3 DEF Arm, Goto, stopVars
<1>4. ASSUME NEW a \in Agents, Store(a) PROVE Reaching'
  BY <1>4 DEF Store, Goto, stopVars
<1>5. ASSUME NEW a \in Agents, Fire(a) PROVE Reaching'
  BY <1>5 DEF Fire, stopVars
<1>6. ASSUME NEW a \in Agents, PodmanStop(a) PROVE Reaching'
  BY <1>6 DEF PodmanStop, Stopped, Up, stopVars
<1>7. ASSUME NEW a \in Agents, Delete(a) PROVE Reaching'
  BY <1>7 DEF Delete, stopVars
<1>8. ASSUME NEW a \in Agents, Die(a) PROVE Reaching'
  BY <1>8 DEF Die, Up, stopVars
<1>9. ASSUME NEW a \in Agents, Take(a) PROVE Reaching'
  BY <1>9 DEF Take
<1>10. CASE Cancel
  BY <1>10 DEF Cancel
<1>11. CASE WatchReturns
  BY <1>11 DEF WatchReturns, stopVars
<1>12. CASE Range
  BY <1>12 DEF Range
<1>13. CASE StopTaken
  BY <1>13 DEF StopTaken, Stopped, Up
<1>14. CASE RangeEnds
  BY <1>14 DEF RangeEnds, Through
<1>16. CASE DeleteTaken
  BY <1>16 DEF DeleteTaken
<1>15. CASE UNCHANGED vars
  BY <1>15 DEF vars
<1> QED
  BY <1>1, <1>2, <1>3, <1>4, <1>5, <1>6, <1>7, <1>8, <1>9, <1>10, <1>11,
     <1>12, <1>13, <1>14, <1>15, <1>16
  DEF Next, Quiet

\* When StopAll is done, every container that was in subPool when its Range began
\* is stopped, or podman has failed to stop it.
THEOREM StopAllReachesThePool == Spec => []StopAllReaches
<1>1. Init => Reaching
  BY DEF Init, Reaching
<1>2. Reaching => StopAllReaches
  BY DEF Reaching, StopAllReaches
<1> QED
  BY <1>1, <1>2, ReachStep, TypeCorrect, HeldCorrect, PTL DEF Spec
=============================================================================
