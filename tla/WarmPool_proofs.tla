--------------------------- MODULE WarmPool_proofs ---------------------------
(***************************************************************************)
(* Proofs about WarmPool, for every set of chats and of calls, every       *)
(* combination of faults, with and without a shutdown, and whether or not  *)
(* the calls for one chat are made one after the other.                    *)
(***************************************************************************)
EXTENDS WarmPool, TLAPS

-----------------------------------------------------------------------------
(* Type correctness                                                        *)

\* One step of the pool keeps TypeOK.
LEMMA TypeStep == TypeOK /\ [Next]_vars => TypeOK'
<1> SUFFICES ASSUME TypeOK, [Next]_vars PROVE TypeOK'
  OBVIOUS
<1> USE PoolAssumption DEF TypeOK, Containers, PCs, Returned
<1>1. ASSUME NEW d \in Dispatches, Begin(d) PROVE TypeOK'
  BY <1>1 DEF Begin, Goto, poolVars, stopVars
<1>2. ASSUME NEW d \in Dispatches, Load(d) PROVE TypeOK'
  BY <1>2 DEF Load, Goto, Warm, poolVars, stopVars
<1>3. ASSUME NEW d \in Dispatches, Lock(d) PROVE TypeOK'
  BY <1>3 DEF Lock, Goto, Warm, stopVars
<1>4. ASSUME NEW d \in Dispatches, Recheck(d) PROVE TypeOK'
  BY <1>4 DEF Recheck, Goto, Warm, stopVars
<1>5. ASSUME NEW d \in Dispatches, Start(d) PROVE TypeOK'
  BY <1>5 DEF Start, Goto, Warm, stopVars
<1>6. ASSUME NEW d \in Dispatches, Create(d) PROVE TypeOK'
  BY <1>6 DEF Create, poolVars, stopVars
<1>7. ASSUME NEW d \in Dispatches, RunReturns(d) PROVE TypeOK'
  BY <1>7 DEF RunReturns, Goto, poolVars, stopVars
<1>8. ASSUME NEW d \in Dispatches, RunFails(d) PROVE TypeOK'
  BY <1>8 DEF RunFails, Goto, stopVars
<1>9. ASSUME NEW d \in Dispatches, RunKilled(d) PROVE TypeOK'
  BY <1>9 DEF RunKilled, Goto, stopVars
<1>10. ASSUME NEW d \in Dispatches, Arm(d) PROVE TypeOK'
  BY <1>10 DEF Arm, Goto, poolVars, stopVars
<1>11. ASSUME NEW d \in Dispatches, Store(d) PROVE TypeOK'
  BY <1>11 DEF Store, Goto, Warm, stopVars
<1>12. ASSUME NEW d \in Dispatches, Touch(d) PROVE TypeOK'
  BY <1>12 DEF Touch, Goto, Outcomes, poolVars, stopVars
<1>13. ASSUME NEW d \in Dispatches, Exec(d) PROVE TypeOK'
  BY <1>13 DEF Exec, Goto, poolVars, stopVars
<1>14. ASSUME NEW d \in Dispatches, ExecEnds(d) PROVE TypeOK'
  <2>1. CASE pc' = [pc EXCEPT ![d] = "done"] /\ session' = [session EXCEPT ![handle[d]] = TRUE]
    BY <1>14, <2>1 DEF ExecEnds, stopVars
  <2>2. CASE pc' = [pc EXCEPT ![d] = "failed"] /\ UNCHANGED session
    BY <1>14, <2>2 DEF ExecEnds, stopVars
  <2> QED
    BY <1>14, <2>1, <2>2 DEF ExecEnds, Goto
<1>15. ASSUME NEW i \in Dispatches, Fire(i) PROVE TypeOK'
  BY <1>15 DEF Fire, poolVars, stopVars
<1>16. ASSUME NEW i \in Dispatches, PodmanStop(i) PROVE TypeOK'
  BY <1>16 DEF PodmanStop, Stopped, Up, poolVars, stopVars
<1>17. ASSUME NEW i \in Dispatches, Delete(i) PROVE TypeOK'
  BY <1>17 DEF Delete, Warm
<1>18. ASSUME NEW i \in Dispatches, Die(i) PROVE TypeOK'
  BY <1>18 DEF Die, poolVars, stopVars
<1>19. CASE Cancel
  BY <1>19 DEF Cancel, poolVars
<1>20. CASE Range
  BY <1>20 DEF Range, poolVars
<1>21. ASSUME NEW c \in Chats, Take(c) PROVE TypeOK'
  BY <1>21 DEF Take, poolVars
<1>22. CASE StopTaken
  BY <1>22 DEF StopTaken, Stopped, Up, poolVars
<1>23. CASE DeleteTaken
  BY <1>23 DEF DeleteTaken, Warm
<1>24. CASE RangeEnds
  BY <1>24 DEF RangeEnds, poolVars
<1>25. CASE UNCHANGED vars
  BY <1>25 DEF vars, stopVars
<1> QED
  BY <1>1, <1>2, <1>3, <1>4, <1>5, <1>6, <1>7, <1>8, <1>9, <1>10, <1>11, <1>12,
     <1>13, <1>14, <1>15, <1>16, <1>17, <1>18, <1>19, <1>20, <1>21, <1>22, <1>23, <1>24, <1>25
  DEF Next, Dispatch, Run, Callback, StopAll

\* The pool's state has its type, no dispatch goes on without a handle, and a
\* dispatch only ever works in a container of its own chat.
THEOREM TypeCorrect == Spec => []TypeOK
<1>1. Init => TypeOK
  BY PoolAssumption DEF Init, TypeOK, Containers, PCs, Returned
<1> QED
  BY <1>1, TypeStep, PTL DEF Spec

-----------------------------------------------------------------------------
(* The double-checked lock                                                 *)

\* One step keeps StartsAlone: it is inductive beside TypeOK.  The lock is what
\* keeps another start from filling the pool behind a start that has rechecked;
\* the callbacks and StopAll only ever empty it.
LEMMA StartsAloneStep == TypeOK /\ StartsAlone /\ [Next]_vars => StartsAlone'
<1> SUFFICES ASSUME TypeOK, StartsAlone, [Next]_vars PROVE StartsAlone'
  OBVIOUS
<1> USE PoolAssumption DEF TypeOK, StartsAlone, Starting, Warm, Containers, PCs, Returned
<1>1. ASSUME NEW d \in Dispatches, Begin(d) PROVE StartsAlone'
  BY <1>1 DEF Begin, Goto, poolVars, stopVars
<1>2. ASSUME NEW d \in Dispatches, Load(d) PROVE StartsAlone'
  BY <1>2 DEF Load, Goto, Warm, poolVars, stopVars
<1>3. ASSUME NEW d \in Dispatches, Lock(d) PROVE StartsAlone'
  BY <1>3 DEF Lock, Goto, Warm, stopVars
<1>4. ASSUME NEW d \in Dispatches, Recheck(d) PROVE StartsAlone'
  BY <1>4 DEF Recheck, Goto, Warm, stopVars
<1>5. ASSUME NEW d \in Dispatches, Start(d) PROVE StartsAlone'
  BY <1>5 DEF Start, Goto, Warm, stopVars
<1>6. ASSUME NEW d \in Dispatches, Create(d) PROVE StartsAlone'
  BY <1>6 DEF Create, poolVars, stopVars
<1>7. ASSUME NEW d \in Dispatches, RunReturns(d) PROVE StartsAlone'
  BY <1>7 DEF RunReturns, Goto, poolVars, stopVars
<1>8. ASSUME NEW d \in Dispatches, RunFails(d) PROVE StartsAlone'
  BY <1>8 DEF RunFails, Goto, stopVars
<1>9. ASSUME NEW d \in Dispatches, RunKilled(d) PROVE StartsAlone'
  BY <1>9 DEF RunKilled, Goto, stopVars
<1>10. ASSUME NEW d \in Dispatches, Arm(d) PROVE StartsAlone'
  BY <1>10 DEF Arm, Goto, poolVars, stopVars
<1>11. ASSUME NEW d \in Dispatches, Store(d) PROVE StartsAlone'
  BY <1>11 DEF Store, Goto, Warm, stopVars
<1>12. ASSUME NEW d \in Dispatches, Touch(d) PROVE StartsAlone'
  BY <1>12 DEF Touch, Goto, Outcomes, poolVars, stopVars
<1>13. ASSUME NEW d \in Dispatches, Exec(d) PROVE StartsAlone'
  BY <1>13 DEF Exec, Goto, poolVars, stopVars
<1>14. ASSUME NEW d \in Dispatches, ExecEnds(d) PROVE StartsAlone'
  BY <1>14 DEF ExecEnds, Goto, stopVars
<1>15. ASSUME NEW i \in Dispatches, Fire(i) PROVE StartsAlone'
  BY <1>15 DEF Fire, poolVars, stopVars
<1>16. ASSUME NEW i \in Dispatches, PodmanStop(i) PROVE StartsAlone'
  BY <1>16 DEF PodmanStop, Stopped, Up, poolVars, stopVars
<1>17. ASSUME NEW i \in Dispatches, Delete(i) PROVE StartsAlone'
  BY <1>17 DEF Delete, Warm
<1>18. ASSUME NEW i \in Dispatches, Die(i) PROVE StartsAlone'
  BY <1>18 DEF Die, poolVars, stopVars
<1>19. CASE Cancel
  BY <1>19 DEF Cancel, poolVars
<1>20. CASE Range
  BY <1>20 DEF Range, poolVars
<1>21. ASSUME NEW c \in Chats, Take(c) PROVE StartsAlone'
  BY <1>21 DEF Take, poolVars
<1>22. CASE StopTaken
  BY <1>22 DEF StopTaken, Stopped, Up, poolVars
<1>23. CASE DeleteTaken
  BY <1>23 DEF DeleteTaken, Warm
<1>24. CASE RangeEnds
  BY <1>24 DEF RangeEnds, poolVars
<1>25. CASE UNCHANGED vars
  BY <1>25 DEF vars, stopVars
<1> QED
  BY <1>1, <1>2, <1>3, <1>4, <1>5, <1>6, <1>7, <1>8, <1>9, <1>10, <1>11, <1>12,
     <1>13, <1>14, <1>15, <1>16, <1>17, <1>18, <1>19, <1>20, <1>21, <1>22, <1>23, <1>24, <1>25
  DEF Next, Dispatch, Run, Callback, StopAll

\* A container starts only under startMu and only for a chat that has no warm
\* container (manager.go:91-104).
THEOREM StartsAreAlone == Spec => []StartsAlone
<1>1. Init => StartsAlone
  BY PoolAssumption DEF Init, StartsAlone, Starting
<1> QED
  BY <1>1, TypeCorrect, StartsAloneStep, PTL DEF Spec

\* No step stores a container over another: only Store stores one, and then
\* StartsAlone says that the chat's entry is empty.
LEMMA StoreFillsEmptyEntry ==
  TypeOK /\ StartsAlone /\ [Next]_vars =>
    [\A c \in Chats : pool[c] # Nil /\ pool'[c] # Nil => pool'[c] = pool[c]]_vars
<1> DEFINE Kept == \A c \in Chats : pool[c] # Nil /\ pool'[c] # Nil => pool'[c] = pool[c]
<1> SUFFICES ASSUME TypeOK, StartsAlone, [Next]_vars PROVE Kept
  OBVIOUS
<1>1. ASSUME NEW d \in Dispatches, Store(d) PROVE Kept
  BY <1>1, PoolAssumption DEF Store, TypeOK, StartsAlone, Starting, Warm
<1>2. ASSUME NEW i \in Dispatches, Delete(i) PROVE Kept
  BY <1>2, PoolAssumption DEF Delete, TypeOK
<1>3. CASE DeleteTaken
  BY <1>3, PoolAssumption DEF DeleteTaken, TypeOK
<1>4. CASE UNCHANGED pool
  BY <1>4
<1>5. ASSUME NEW d \in Dispatches,
             \/ Begin(d) \/ Load(d) \/ Lock(d) \/ Recheck(d) \/ Run(d) \/ Arm(d)
             \/ Touch(d) \/ Exec(d) \/ ExecEnds(d) \/ Fire(d) \/ PodmanStop(d) \/ Die(d)
      PROVE UNCHANGED pool
  BY <1>5 DEF Begin, Load, Lock, Recheck, Run, Start, Create, RunReturns, RunFails, RunKilled,
              Arm, Touch, Exec, ExecEnds, Fire, PodmanStop, Die, poolVars
<1>6. ASSUME \/ Cancel \/ Range \/ StopTaken \/ RangeEnds \/ UNCHANGED vars
             \/ \E c \in Chats : Take(c)
      PROVE UNCHANGED pool
  BY <1>6 DEF Cancel, Range, StopTaken, RangeEnds, Take, poolVars, vars
<1> QED
  BY <1>1, <1>2, <1>3, <1>4, <1>5, <1>6 DEF Next, Dispatch, Callback, StopAll

\* No start ever replaces a warm container of the pool.
THEOREM NoStartIsDuplicate == Spec => NoDuplicateStart
  BY TypeCorrect, StartsAreAlone, StoreFillsEmptyEntry, PTL DEF Spec, NoDuplicateStart

-----------------------------------------------------------------------------
(* Nobody forgets a live container                                         *)

\* One step keeps LiveIsGuarded: it is inductive beside TypeOK.  The guards hand a
\* container on, from podman run to the timer, from the timer to its callback or to
\* StopAll; only RunKilled, which needs the cancelled context, lets one go.
LEMMA LiveIsGuardedStep == TypeOK /\ LiveIsGuarded /\ [Next]_vars => LiveIsGuarded'
<1> SUFFICES ASSUME TypeOK, LiveIsGuarded, [Next]_vars PROVE LiveIsGuarded'
  OBVIOUS
<1> USE PoolAssumption DEF TypeOK, LiveIsGuarded, Lost, Cancelled, Containers, PCs, Returned
<1>1. ASSUME NEW d \in Dispatches, Begin(d) PROVE LiveIsGuarded'
  BY <1>1 DEF Begin, Goto, poolVars, stopVars
<1>2. ASSUME NEW d \in Dispatches, Load(d) PROVE LiveIsGuarded'
  BY <1>2 DEF Load, Goto, Warm, poolVars, stopVars
<1>3. ASSUME NEW d \in Dispatches, Lock(d) PROVE LiveIsGuarded'
  BY <1>3 DEF Lock, Goto, Warm, stopVars
<1>4. ASSUME NEW d \in Dispatches, Recheck(d) PROVE LiveIsGuarded'
  BY <1>4 DEF Recheck, Goto, Warm, stopVars
<1>5. ASSUME NEW d \in Dispatches, Start(d) PROVE LiveIsGuarded'
  BY <1>5 DEF Start, Goto, Warm, stopVars
<1>6. ASSUME NEW d \in Dispatches, Create(d) PROVE LiveIsGuarded'
  BY <1>6 DEF Create, poolVars, stopVars
<1>7. ASSUME NEW d \in Dispatches, RunReturns(d) PROVE LiveIsGuarded'
  BY <1>7 DEF RunReturns, Goto, poolVars, stopVars
<1>8. ASSUME NEW d \in Dispatches, RunFails(d) PROVE LiveIsGuarded'
  BY <1>8 DEF RunFails, Goto, stopVars
<1>9. ASSUME NEW d \in Dispatches, RunKilled(d) PROVE LiveIsGuarded'
  BY <1>9 DEF RunKilled, Goto, stopVars
<1>10. ASSUME NEW d \in Dispatches, Arm(d) PROVE LiveIsGuarded'
  BY <1>10 DEF Arm, Goto, poolVars, stopVars
<1>11. ASSUME NEW d \in Dispatches, Store(d) PROVE LiveIsGuarded'
  BY <1>11 DEF Store, Goto, Warm, stopVars
<1>12. ASSUME NEW d \in Dispatches, Touch(d) PROVE LiveIsGuarded'
  BY <1>12 DEF Touch, Goto, Outcomes, poolVars, stopVars
<1>13. ASSUME NEW d \in Dispatches, Exec(d) PROVE LiveIsGuarded'
  BY <1>13 DEF Exec, Goto, poolVars, stopVars
<1>14. ASSUME NEW d \in Dispatches, ExecEnds(d) PROVE LiveIsGuarded'
  BY <1>14 DEF ExecEnds, Goto, stopVars
<1>15. ASSUME NEW i \in Dispatches, Fire(i) PROVE LiveIsGuarded'
  BY <1>15 DEF Fire, poolVars, stopVars
<1>16. ASSUME NEW i \in Dispatches, PodmanStop(i) PROVE LiveIsGuarded'
  BY <1>16 DEF PodmanStop, Stopped, Up, poolVars, stopVars
<1>17. ASSUME NEW i \in Dispatches, Delete(i) PROVE LiveIsGuarded'
  BY <1>17 DEF Delete, Warm
<1>18. ASSUME NEW i \in Dispatches, Die(i) PROVE LiveIsGuarded'
  BY <1>18 DEF Die, poolVars, stopVars
<1>19. CASE Cancel
  BY <1>19 DEF Cancel, poolVars
<1>20. CASE Range
  BY <1>20 DEF Range, poolVars
<1>21. ASSUME NEW c \in Chats, Take(c) PROVE LiveIsGuarded'
  BY <1>21 DEF Take, poolVars
<1>22. CASE StopTaken
  BY <1>22 DEF StopTaken, Stopped, Up, poolVars
<1>23. CASE DeleteTaken
  BY <1>23 DEF DeleteTaken, Warm
<1>24. CASE RangeEnds
  BY <1>24 DEF RangeEnds, poolVars
<1>25. CASE UNCHANGED vars
  BY <1>25 DEF vars, stopVars
<1> QED
  BY <1>1, <1>2, <1>3, <1>4, <1>5, <1>6, <1>7, <1>8, <1>9, <1>10, <1>11, <1>12,
     <1>13, <1>14, <1>15, <1>16, <1>17, <1>18, <1>19, <1>20, <1>21, <1>22, <1>23, <1>24, <1>25
  DEF Next, Dispatch, Run, Callback, StopAll

\* Whatever fails, a live container has its dispatch, its timer, its callback or
\* StopAll to stop it, unless the shutdown killed the podman run of a message's
\* dispatch.
THEOREM LiveIsAlwaysGuarded == Spec => []LiveIsGuarded
<1>1. Init => LiveIsGuarded
  BY PoolAssumption DEF Init, LiveIsGuarded
<1> QED
  BY <1>1, TypeCorrect, LiveIsGuardedStep, PTL DEF Spec
=============================================================================
