---------------------------- MODULE WatcherProofs ----------------------------
(***************************************************************************)
(* The watchers on the thread pool wait are safe for any number of threads *)
(* in the pool.  For each of them an invariant is inductive and the safety *)
(* properties follow from it; every step of the registry watcher keeps the *)
(* contract with the client.                                               *)
(***************************************************************************)
EXTENDS RegistryWatcher, MCEventWatcher, FiniteSetTheorems, TLAPS

\* The initial states satisfy the invariant.
LEMMA InitIInv == Init => IInv
<1> SUFFICES ASSUME Init PROVE IInv
  OBVIOUS
<1> USE ThreadsAssumption, NoThreadAssumption DEF Init, Threads
<1>1. TypeOK
  BY DEF TypeOK, OwnerStates, PoolStates, Errors
<1>2. Turn
  BY DEF Turn, HasTurn
<1>3. Lock
  BY DEF Lock
<1>4. Count
  BY DEF Count, ClientRef, CallbackRef, HasRef
<1>5. Life
  BY DEF Life, ClientRef, CallbackRef, HasRef, Deleting
<1>6. Places
  BY DEF Places, CallbackRef, HasRef, ClientRef, HasTurn
<1>7. QED
  BY <1>1, <1>2, <1>3, <1>4, <1>5, <1>6 DEF IInv

\* Every step keeps the invariant: the owner's steps, those of the pool and
\* of the registry, then those of a thread t of the pool.
LEMMA StepIInv == IInv /\ [Next]_vars => IInv'
<1> SUFFICES ASSUME IInv, [Next]_vars PROVE IInv'
  OBVIOUS
<1> USE ThreadsAssumption, NoThreadAssumption
<1> USE DEF Threads, IInv, TypeOK, Turn, Lock, Count, Life, Places, HasTurn,
            HasRef, ClientRef, CallbackRef, Deleting, Go, OwnerStates,
            PoolStates, waitVars, stateVars, keyVars, SetThreadpoolWait
<1>1. CASE create_common
  <2>1. TypeOK'
    <3>1. m_refCount' \in Nat /\ freed' \in {0, 1}
      BY <1>1 DEF create_common
    <3>2. held' \in BOOLEAN
      BY <1>1 DEF create_common
    <3>3. notify' \in BOOLEAN
      BY <1>1 DEF create_common
    <3>4. QED
      BY <1>1, <3>1, <3>2, <3>3 DEF create_common
  <2>2. Turn'
    BY <1>1 DEF create_common
  <2>3. Lock'
    BY <1>1 DEF create_common
  <2>4. Count'
    BY <1>1 DEF create_common
  <2>5. Life'
    BY <1>1 DEF create_common
  <2>6. Places'
    BY <1>1 DEF create_common
  <2>7. QED
    BY <2>1, <2>2, <2>3, <2>4, <2>5, <2>6
<1>2. CASE start
  BY <1>2 DEF start
<1>3. CASE reset
  <2>1. TypeOK'
    BY <1>3 DEF reset
  <2>2. Turn'
    BY <1>3 DEF reset
  <2>3. Lock'
    BY <1>3 DEF reset
  <2>4. Count'
    BY <1>3 DEF reset
  <2>5. Life'
    BY <1>3 DEF reset
  <2>6. Places'
    BY <1>3 DEF reset
  <2>7. QED
    BY <2>1, <2>2, <2>3, <2>4, <2>5, <2>6
<1>4. CASE reset_empty
  BY <1>4 DEF reset_empty
<1>5. CASE Release(Owner)
  BY <1>5 DEF Release
<1>6. CASE leave(Owner)
  BY <1>6 DEF leave, Back
<1>7. CASE leave_delete(Owner)
  BY <1>7 DEF leave_delete
<1>8. CASE destroy_wait(Owner)
  BY <1>8 DEF destroy_wait, Destroy, WaitForCallbacks,
     CloseThreadpoolWait, Running
<1>9. CASE delete(Owner)
  <2>1. TypeOK'
    <3>1. freed = 0
      BY <1>9 DEF delete
    <3>2. freed' \in {0, 1}
      BY <1>9, <3>1 DEF delete
    <3>3. notify' \in BOOLEAN
      BY <1>9 DEF delete
    <3>4. QED
      BY <1>9, <3>2, <3>3 DEF delete, Back
  <2>2. Turn'
    BY <1>9 DEF delete, Back
  <2>3. Lock'
    BY <1>9 DEF delete, Back
  <2>4. Count'
    BY <1>9 DEF delete, Back
  <2>5. Life'
    BY <1>9 DEF delete, Back
  <2>6. Places'
    BY <1>9 DEF delete, Back
  <2>7. QED
    BY <2>1, <2>2, <2>3, <2>4, <2>5, <2>6
<1>10. CASE PoolFires
  <2>1. TypeOK'
    BY <1>10 DEF PoolFires, Fire
  <2>2. Turn'
    BY <1>10 DEF PoolFires, Fire
  <2>3. Lock'
    BY <1>10 DEF PoolFires, Fire
  <2>4. Count'
    BY <1>10 DEF PoolFires, Fire
  <2>5. Life'
    BY <1>10 DEF PoolFires, Fire
  <2>6. Places'
    <3>1. pc[Owner] # "start" /\ pc[Owner] # "create"
      BY <1>10 DEF PoolFires, Fire
    <3>2. QED
      BY <1>10, <3>1 DEF PoolFires, Fire
  <2>7. QED
    BY <2>1, <2>2, <2>3, <2>4, <2>5, <2>6
<1>11. CASE KeyChanges
  <2>1. TypeOK'
    BY <1>11 DEF KeyChanges
  <2>2. Turn'
    BY <1>11 DEF KeyChanges
  <2>3. Lock'
    BY <1>11 DEF KeyChanges
  <2>4. Count'
    BY <1>11 DEF KeyChanges
  <2>5. Life'
    BY <1>11 DEF KeyChanges
  <2>6. Places'
    BY <1>11 DEF KeyChanges
  <2>7. QED
    BY <2>1, <2>2, <2>3, <2>4, <2>5, <2>6
<1>12. CASE UNCHANGED vars
  BY <1>12 DEF vars
<1>13. ASSUME NEW t \in Pool, PoolStarts(t) PROVE IInv'
  BY <1>13 DEF PoolStarts, StartCallback
<1>14. ASSUME NEW t \in Pool, TryAddRef(t) PROVE IInv'
  BY <1>14 DEF TryAddRef
<1>15. ASSUME NEW t \in Pool, RegNotify(t) PROVE IInv'
  BY <1>15 DEF RegNotify
<1>16. ASSUME NEW t \in Pool, RegNotify_FailFast(t) PROVE IInv'
  BY <1>16 DEF RegNotify_FailFast
<1>17. ASSUME NEW t \in Pool, m_callback(t) PROVE IInv'
  <2>1. TypeOK'
    BY <1>17 DEF m_callback
  <2>2. Turn'
    BY <1>17 DEF m_callback
  <2>3. Lock'
    BY <1>17 DEF m_callback
  <2>4. Count'
    BY <1>17 DEF m_callback
  <2>5. Life'
    BY <1>17 DEF m_callback
  <2>6. Places'
    BY <1>17 DEF m_callback
  <2>7. QED
    BY <2>1, <2>2, <2>3, <2>4, <2>5, <2>6
<1>18. ASSUME NEW t \in Pool, reset_in_callback(t) PROVE IInv'
  <2>1. TypeOK'
    BY <1>18 DEF reset_in_callback
  <2>2. Turn'
    BY <1>18 DEF reset_in_callback
  <2>3. Lock'
    BY <1>18 DEF reset_in_callback
  <2>4. Count'
    BY <1>18 DEF reset_in_callback
  <2>5. Life'
    BY <1>18 DEF reset_in_callback
  <2>6. Places'
    BY <1>18 DEF reset_in_callback
  <2>7. QED
    BY <2>1, <2>2, <2>3, <2>4, <2>5, <2>6
<1>19. ASSUME NEW t \in Pool, return(t) PROVE IInv'
  BY <1>19 DEF return
<1>20. ASSUME NEW t \in Pool, ReleaseFromCallback(t) PROVE IInv'
  BY <1>20 DEF ReleaseFromCallback
<1>21. ASSUME NEW t \in Pool, cb_close(t) PROVE IInv'
  BY <1>21 DEF cb_close
<1>22. ASSUME NEW t \in Pool, cb_leave_delete(t) PROVE IInv'
  BY <1>22 DEF cb_leave_delete
<1>23. ASSUME NEW t \in Pool, cb_delete(t) PROVE IInv'
  <2>1. TypeOK'
    <3>1. freed = 0
      BY <1>23 DEF cb_delete
    <3>2. freed' \in {0, 1}
      BY <1>23, <3>1 DEF cb_delete
    <3>3. notify' \in BOOLEAN
      BY <1>23 DEF cb_delete
    <3>4. QED
      BY <1>23, <3>2, <3>3 DEF cb_delete
  <2>2. Turn'
    BY <1>23 DEF cb_delete
  <2>3. Lock'
    BY <1>23 DEF cb_delete
  <2>4. Count'
    BY <1>23 DEF cb_delete
  <2>5. Life'
    BY <1>23 DEF cb_delete
  <2>6. Places'
    BY <1>23 DEF cb_delete
  <2>7. QED
    BY <2>1, <2>2, <2>3, <2>4, <2>5, <2>6
<1>24. ASSUME NEW t \in Pool, rearm(t) PROVE IInv'
  BY <1>24 DEF rearm
<1>25. ASSUME NEW t \in Pool, cb_leave(t) PROVE IInv'
  BY <1>25 DEF cb_leave
<1>26. ASSUME NEW t \in Pool, ReleaseSteps(t) PROVE IInv'
  BY <1>26 DEF ReleaseSteps, Release, leave, leave_delete,
     destroy_wait, delete, Destroy, WaitForCallbacks, CloseThreadpoolWait, Back
<1>27. QED
  BY <1>1, <1>2, <1>3, <1>4, <1>5, <1>6, <1>7, <1>8, <1>9, <1>10, <1>11,
     <1>12, <1>13, <1>14, <1>15, <1>16, <1>17, <1>18, <1>19, <1>20, <1>21,
     <1>22, <1>23, <1>24, <1>25, <1>26
  DEF Next, CallbackSteps, ReleaseSteps, Terminated

\* The invariant holds in every reachable state.
THEOREM Invariance == Spec => []IInv
<1>1. QED
  BY InitIInv, StepIInv, PTL DEF Spec

\* Every variable stays in its domain: the state is deleted at most once, and
\* no callback ever comes to the end of Release.
THEOREM TypeCorrect == Spec => []TypeOK
<1>1. IInv => TypeOK
  BY DEF IInv
<1>2. QED
  BY <1>1, Invariance, PTL

\* No thread touches the state, or the client function in it, once deleted.
THEOREM StateSafety == Spec => []NoUseAfterFree
<1>1. IInv => NoUseAfterFree
  <2>1. SUFFICES ASSUME IInv, NEW t \in Threads,
                        pc[t] \notin {"create", "idle", "hold", "done"}
                 PROVE  freed = 0
    BY DEF NoUseAfterFree
  <2>2. CASE t \in Pool
    BY <2>1, <2>2 DEF IInv, TypeOK, Life
  <2>3. CASE t = Owner
    BY <2>1, <2>3, ThreadsAssumption
    DEF IInv, TypeOK, OwnerStates, Life, Places, ClientRef, Deleting, Threads
  <2>4. QED
    BY <2>2, <2>3 DEF Threads
<1>2. QED
  BY <1>1, Invariance, PTL

\* Two callbacks are never between their reference and their re-arming.
THEOREM CallSafety == Spec => []OneCallAtATime
<1>1. IInv => OneCallAtATime
  BY DEF IInv, Turn, HasTurn, OneCallAtATime
<1>2. QED
  BY <1>1, Invariance, PTL

\* When all threads are through, the state has been deleted.
THEOREM StateNotLeaked == Spec => []NoLeak
<1>1. IInv => NoLeak
  BY ThreadsAssumption
  DEF IInv, TypeOK, Life, Places, ClientRef, CallbackRef, HasRef, Deleting,
      NoLeak, Threads
<1>2. QED
  BY <1>1, Invariance, PTL

\* No callback waits for the callbacks to end.
THEOREM NoSelfDeadlock == Spec => []NoSelfWait
<1>1. IInv => NoSelfWait
  BY DEF IInv, TypeOK, PoolStates, NoSelfWait
<1>2. QED
  BY <1>1, Invariance, PTL

\* At first nobody is called and nothing has ended.
LEMMA InitContract == Init => Contract!Init
<1> SUFFICES ASSUME Init PROVE Contract!Init
  OBVIOUS
<1>1. {t \in Pool : Calling(t)} = {}
  BY ThreadsAssumption DEF Init, Calling, Threads
<1>2. (freed > 0) = FALSE
  BY DEF Init
<1>3. QED
  BY <1>1, <1>2 DEF Contract!Init

\* Every step is a step of the contract or leaves it alone.
LEMMA StepContract ==
  IInv /\ [Next]_vars
    => [Contract!Next]_<<{t \in Pool : Calling(t)}, freed > 0>>
<1> DEFINE calling == {t \in Pool : Calling(t)}
<1> SUFFICES ASSUME IInv, [Next]_vars
             PROVE  Contract!Next \/ (calling' = calling /\ (freed > 0)' = (freed > 0))
  OBVIOUS
<1> USE ThreadsAssumption DEF IInv, TypeOK, Threads, Calling, Go
<1>1. CASE create_common
  <2>1. calling = {} /\ calling' = calling
    BY <1>1 DEF create_common, Places
  <2>2. freed = 0 /\ freed' \in {0, 1}
    BY <1>1 DEF create_common, Places
  <2>3. QED
    BY <2>1, <2>2 DEF Contract!Next, Contract!End
<1>2. CASE delete(Owner)
  <2>1. calling = {} /\ calling' = calling
    BY <1>2 DEF delete, Life, Back
  <2>2. freed = 0 /\ freed' = 1
    BY <1>2 DEF delete, Life, Deleting
  <2>3. QED
    BY <2>1, <2>2 DEF Contract!Next, Contract!End
<1>3. ASSUME NEW t \in Pool, cb_delete(t) PROVE Contract!Next
  <2>1. calling = {} /\ calling' = calling
    BY <1>3 DEF cb_delete, Turn, HasTurn
  <2>2. freed = 0 /\ freed' = 1
    BY <1>3 DEF cb_delete, Life, Deleting
  <2>3. QED
    BY <2>1, <2>2 DEF Contract!Next, Contract!End
<1>4. ASSUME NEW t \in Pool, m_callback(t) PROVE Contract!Next
  <2>1. calling = {} /\ calling' = {t}
    BY <1>4 DEF m_callback, Turn, HasTurn
  <2>2. freed = 0 /\ freed' = freed
    BY <1>4 DEF m_callback, stateVars, Life, CallbackRef, HasRef
  <2>3. QED
    BY <2>1, <2>2 DEF Contract!Next, Contract!Call
<1>5. ASSUME NEW t \in Pool, return(t) PROVE Contract!Next
  <2>1. calling = {t} /\ calling' = {}
    BY <1>5 DEF return, Turn, HasTurn
  <2>2. freed' = freed
    BY <1>5 DEF return, stateVars
  <2>3. QED
    BY <2>1, <2>2 DEF Contract!Next, Contract!Return
<1>6. ASSUME freed' = freed, \A t \in Pool : Calling(t)' <=> Calling(t)
      PROVE  calling' = calling /\ (freed > 0)' = (freed > 0)
  BY <1>6
<1> HIDE DEF calling
<1> USE DEF waitVars, stateVars, Back, PoolStates, OwnerStates
<1>7. CASE \/ start \/ reset \/ reset_empty \/ PoolFires \/ KeyChanges
           \/ UNCHANGED vars
  BY <1>6, <1>7
  DEF start, reset, reset_empty, PoolFires, Fire, KeyChanges, vars, Calling
<1>8. CASE Release(Owner) \/ leave(Owner) \/ leave_delete(Owner)
           \/ destroy_wait(Owner)
  BY <1>6, <1>8
  DEF Release, leave, leave_delete, destroy_wait, Destroy, WaitForCallbacks,
      CloseThreadpoolWait
<1>9. ASSUME NEW t \in Pool,
             \/ PoolStarts(t) \/ TryAddRef(t) \/ RegNotify(t)
             \/ RegNotify_FailFast(t) \/ reset_in_callback(t)
             \/ ReleaseFromCallback(t) \/ cb_close(t) \/ cb_leave_delete(t)
             \/ rearm(t) \/ cb_leave(t)
      PROVE  freed' = freed /\ \A u \in Pool : Calling(u)' <=> Calling(u)
  BY <1>9
  DEF PoolStarts, StartCallback, TryAddRef, RegNotify, RegNotify_FailFast,
      reset_in_callback, ReleaseFromCallback, cb_close, cb_leave_delete,
      rearm, cb_leave
<1>10. ASSUME NEW t \in Pool, ReleaseSteps(t)
      PROVE  freed' = freed /\ \A u \in Pool : Calling(u)' <=> Calling(u)
  BY <1>10
  DEF ReleaseSteps, Release, leave, leave_delete, destroy_wait, delete,
      Destroy, WaitForCallbacks, CloseThreadpoolWait
<1>11. QED
  BY <1>1, <1>2, <1>3, <1>4, <1>5, <1>6, <1>7, <1>8, <1>9, <1>10
  DEF Next, CallbackSteps, ReleaseSteps, Terminated

\* The watcher keeps its contract with the client, whatever the number of
\* threads in the pool.
THEOREM Implements == Spec => KeepsContract
<1>1. QED
  BY InitContract, StepContract, Invariance, PTL
  DEF Spec, KeepsContract, Contract!Spec

---------------------------------------------------------------------------
(* The event and the folder watcher.                                       *)

\* The instance counts as this module does.
LEMMA EventCardinality == \A S : Event!Cardinality(S) = Cardinality(S)
<1> QED BY DEF Event!Cardinality, Cardinality

\* The initial states of an event or folder watcher.
LEMMA EventInitIInv == Event!Init => Event!IInv
<1> USE ThreadsAssumption
<1> SUFFICES ASSUME Event!Init PROVE Event!IInv
  OBVIOUS
<1> USE DEF Event!Init, Event!Threads
<1>0. pc[Owner] = "create" /\ \A t \in Pool : pc[t] = "idle"
  OBVIOUS
<1>1. tpWait = "none" /\ queued = 0 /\ eventFreed = FALSE
  OBVIOUS
<1>2. Event!Running = {}
  BY <1>0 DEF Event!Running
<1>3. Event!TypeOK
  <2>1. pc \in [Event!Threads -> Event!OwnerStates \cup Event!PoolStates]
    BY DEF Event!OwnerStates, Event!PoolStates
  <2>2. event \in BOOLEAN /\ recorded \in BOOLEAN /\ eventDirty \in BOOLEAN
    OBVIOUS
  <2>3. /\ kind \in {"event", "folder"} /\ m_flags \in Event!Flags
        /\ autoReset \in BOOLEAN
    OBVIOUS
  <2>4. queued \in Nat /\ tpWait \in {"none", "idle", "armed", "closed"}
    BY <1>1
  <2>5. pc[Owner] \in Event!OwnerStates /\ \A t \in Pool : pc[t] \in Event!PoolStates
    BY <1>0 DEF Event!OwnerStates, Event!PoolStates
  <2>6. eventFreed \in BOOLEAN /\ starts \in Nat /\ lateArm \in BOOLEAN
    BY <1>1
  <2> HIDE DEF Event!Init, Event!Threads
  <2> QED BY Zenon, <2>1, <2>2, <2>3, <2>4, <2>5, <2>6 DEF Event!TypeOK
<1>4. Event!Turns
  BY <1>1, <1>2, FS_EmptySet, EventCardinality DEF Event!Turns
<1>5. Event!Waited
  BY <1>1, <1>2 DEF Event!Waited, Event!Quiet
<1> QED BY <1>1, <1>3, <1>4, <1>5 DEF Event!IInv

\* How many threads of the pool are in a callback, and how a step changes it.
LEMMA EventRunningCount ==
  ASSUME Event!TypeOK
  PROVE  /\ IsFiniteSet(Event!Running) /\ Cardinality(Event!Running) \in Nat
         /\ Event!Running' = Event!Running =>
              Cardinality(Event!Running)' = Cardinality(Event!Running)
         /\ \A t : t \notin Event!Running /\ Event!Running' = Event!Running \cup {t} =>
              Cardinality(Event!Running)' = Cardinality(Event!Running) + 1
         /\ \A t \in Event!Running : Event!Running' = Event!Running \ {t} =>
              Cardinality(Event!Running)' = Cardinality(Event!Running) - 1
<1>1. IsFiniteSet(Event!Running)
  BY PoolAssumption, FS_Subset DEF Event!Running
<1>2. Cardinality(Event!Running) \in Nat
  BY <1>1, FS_CardinalityType
<1>3. ASSUME NEW t, t \notin Event!Running, Event!Running' = Event!Running \cup {t}
      PROVE  Cardinality(Event!Running)' = Cardinality(Event!Running) + 1
  BY <1>1, <1>3, FS_AddElement
<1>4. ASSUME NEW t \in Event!Running, Event!Running' = Event!Running \ {t}
      PROVE  Cardinality(Event!Running)' = Cardinality(Event!Running) - 1
  BY <1>1, <1>4, FS_RemoveElement
<1> QED BY <1>1, <1>2, <1>3, <1>4

\* Every step: the owner's, the pool's and the event's, then those of a thread t.
LEMMA EventStepTypes == Event!TypeOK /\ [Event!Next]_(Event!vars) => Event!TypeOK'
<1> SUFFICES ASSUME Event!TypeOK, [Event!Next]_(Event!vars) PROVE Event!TypeOK'
  OBVIOUS
<1> USE ThreadsAssumption
<1> USE DEF Event!Threads, Event!TypeOK, Event!Go, Event!OwnerStates, Event!PoolStates,
            Event!waitVars, Event!options, Event!history, Event!SetThreadpoolWait,
            Event!Arm, Event!Disarmed, Event!Start
<1>1. CASE Event!create_take_hevent_ownership
  BY <1>1 DEF Event!create_take_hevent_ownership
<1>2. CASE Event!create_common BY <1>2 DEF Event!create_common
<1>3. CASE Event!create_start BY <1>3 DEF Event!create_start
<1>4. CASE Event!start BY <1>4 DEF Event!start
<1>5. CASE Event!reset BY <1>5 DEF Event!reset
<1>6. CASE Event!destroy_wait
  BY <1>6 DEF Event!destroy_wait, Event!Destroy, Event!WaitForCallbacks,
              Event!CloseThreadpoolWait
<1>7. CASE Event!delete BY <1>7 DEF Event!delete
<1>8. CASE Event!PoolFires BY <1>8 DEF Event!PoolFires, Event!Fire
<1>9. CASE Event!SetEvent BY <1>9 DEF Event!SetEvent
<1>10. ASSUME NEW t \in Pool, Event!PoolStarts(t) PROVE Event!TypeOK'
  BY <1>10 DEF Event!PoolStarts, Event!StartCallback
<1>11. ASSUME NEW t \in Pool, Event!wait_callback(t) PROVE Event!TypeOK'
  BY <1>11 DEF Event!wait_callback, Event!ResetsEvent
<1>12. ASSUME NEW t \in Pool, Event!m_callback(t) PROVE Event!TypeOK'
  BY <1>12 DEF Event!m_callback
<1>13. ASSUME NEW t \in Pool, Event!return(t) PROVE Event!TypeOK'
  BY <1>13 DEF Event!return
<1>14. ASSUME NEW t \in Pool, Event!FindNext(t) PROVE Event!TypeOK'
  BY <1>14 DEF Event!FindNext
<1>15. ASSUME NEW t \in Pool, Event!rearm(t) PROVE Event!TypeOK'
  BY <1>15 DEF Event!rearm
<1>16. ASSUME NEW t \in Pool, Event!start_in_callback(t) PROVE Event!TypeOK'
  BY <1>16 DEF Event!start_in_callback
<1>17. CASE UNCHANGED Event!vars BY <1>17 DEF Event!vars
<1> QED
  BY <1>1, <1>2, <1>3, <1>4, <1>5, <1>6, <1>7, <1>8, <1>9, <1>10, <1>11, <1>12,
     <1>13, <1>14, <1>15, <1>16, <1>17
  DEF Event!Next, Event!CallbackSteps

\* The same steps, and what each does to the number of running callbacks: entering
\* one takes it from the queue, leaving one may arm the wait, starting adds a start.
LEMMA EventStepTurns ==
  Event!TypeOK /\ Event!Turns /\ [Event!Next]_(Event!vars) => Event!Turns'
<1> SUFFICES ASSUME Event!TypeOK, Event!Turns, [Event!Next]_(Event!vars)
             PROVE  Event!Turns'
  OBVIOUS
<1> USE ThreadsAssumption, EventCardinality, EventRunningCount
<1> USE DEF Event!Threads, Event!TypeOK, Event!Go, Event!OwnerStates, Event!PoolStates,
            Event!waitVars, Event!options, Event!history, Event!SetThreadpoolWait,
            Event!Arm, Event!Start
<1>1. ASSUME NEW to, Event!Go(Owner, pc[Owner], to)
      PROVE  Event!Running' = Event!Running
  BY <1>1 DEF Event!Running
<1>2. ASSUME NEW t \in Pool, pc[t] # "idle", NEW to \in Event!PoolStates \ {"idle"},
             Event!Go(t, pc[t], to)
      PROVE  Event!Running' = Event!Running
  BY <1>2 DEF Event!Running
<1>3. ASSUME UNCHANGED pc PROVE Event!Running' = Event!Running
  BY <1>3 DEF Event!Running
<1>4. CASE \/ Event!create_take_hevent_ownership \/ Event!create_common
           \/ Event!reset \/ Event!delete
  <2>1. Event!Running' = Event!Running /\ starts' = starts /\ queued' = queued
    BY <1>1, <1>4 DEF Event!create_take_hevent_ownership, Event!create_common,
                      Event!reset, Event!delete
  <2>2. tpWait' \in {tpWait, "idle"}
    BY <1>4 DEF Event!create_take_hevent_ownership, Event!create_common,
                Event!reset, Event!delete
  <2> QED BY <2>1, <2>2 DEF Event!Turns
<1>5. CASE Event!create_start \/ Event!start
  <2>1. Event!Running' = Event!Running /\ starts' = starts + 1 /\ queued' = queued
    BY <1>1, <1>5 DEF Event!create_start, Event!start
  <2> QED BY <2>1 DEF Event!Turns
<1>6. CASE Event!destroy_wait
  <2>1. Event!Running' = Event!Running /\ starts' = starts /\ queued' \in {queued, 0}
    BY <1>1, <1>6 DEF Event!destroy_wait, Event!Destroy, Event!WaitForCallbacks,
                      Event!CloseThreadpoolWait
  <2>2. tpWait' \in {tpWait, "idle", "closed"}
    BY <1>6 DEF Event!destroy_wait, Event!Destroy, Event!WaitForCallbacks,
                Event!CloseThreadpoolWait
  <2> QED BY <2>1, <2>2 DEF Event!Turns
<1>7. CASE Event!PoolFires
  BY <1>3, <1>7 DEF Event!PoolFires, Event!Fire, Event!Turns
<1>8. CASE Event!SetEvent \/ UNCHANGED Event!vars
  BY <1>3, <1>8 DEF Event!SetEvent, Event!vars, Event!Turns
<1>9. ASSUME NEW t \in Pool, Event!PoolStarts(t) PROVE Event!Turns'
  <2>1. t \notin Event!Running /\ Event!Running' = Event!Running \cup {t}
    BY <1>9 DEF Event!PoolStarts, Event!StartCallback, Event!Running
  <2>2. Cardinality(Event!Running)' = Cardinality(Event!Running) + 1
    BY <2>1, EventRunningCount
  <2>3. /\ queued > 0 /\ queued' = queued - 1
        /\ tpWait' = tpWait /\ starts' = starts
    BY <1>9 DEF Event!PoolStarts, Event!StartCallback
  <2> QED BY <2>2, <2>3 DEF Event!Turns
<1>10. ASSUME NEW t \in Pool, Event!rearm(t) PROVE Event!Turns'
  <2>1. t \in Event!Running /\ Event!Running' = Event!Running \ {t}
    BY <1>10 DEF Event!rearm, Event!Running
  <2> QED BY <1>10, <2>1 DEF Event!rearm, Event!Turns
<1>11. ASSUME NEW t \in Pool, Event!start_in_callback(t) PROVE Event!Turns'
  <2>1. Event!Running' = Event!Running
    BY <1>2, <1>11 DEF Event!start_in_callback
  <2> QED BY <1>11, <2>1 DEF Event!start_in_callback, Event!Turns
<1>12. ASSUME NEW t \in Pool,
              \/ Event!wait_callback(t) \/ Event!m_callback(t)
              \/ Event!return(t) \/ Event!FindNext(t)
       PROVE  Event!Turns'
  <2>1. Event!Running' = Event!Running
    BY <1>2, <1>12 DEF Event!wait_callback, Event!m_callback, Event!return,
                       Event!FindNext
  <2>2. tpWait' = tpWait /\ queued' = queued /\ starts' = starts
    BY <1>12 DEF Event!wait_callback, Event!m_callback, Event!return, Event!FindNext
  <2> QED BY <2>1, <2>2 DEF Event!Turns
<1> QED
  BY <1>4, <1>5, <1>6, <1>7, <1>8, <1>9, <1>10, <1>11, <1>12
  DEF Event!Next, Event!CallbackSteps

\* As long as nobody arms the wait behind the destructor's back, disarming, waiting
\* and closing leave nothing that could queue or run another callback.
LEMMA EventStepWaited == Event!IInv /\ [Event!Next]_(Event!vars) => Event!Waited'
<1> SUFFICES ASSUME Event!IInv, [Event!Next]_(Event!vars) PROVE Event!Waited'
  OBVIOUS
<1> USE ThreadsAssumption
<1> USE DEF Event!Threads, Event!IInv, Event!TypeOK, Event!Waited, Event!Quiet,
            Event!Running, Event!Go, Event!OwnerStates, Event!PoolStates,
            Event!waitVars, Event!options, Event!history, Event!SetThreadpoolWait,
            Event!Arm, Event!Disarmed, Event!Start
<1>1. CASE Event!create_take_hevent_ownership
  BY <1>1 DEF Event!create_take_hevent_ownership
<1>2. CASE Event!create_common BY <1>2 DEF Event!create_common
<1>3. CASE Event!create_start BY <1>3 DEF Event!create_start
<1>4. CASE Event!start BY <1>4 DEF Event!start
<1>5. CASE Event!reset BY <1>5 DEF Event!reset
<1>6. CASE Event!destroy_wait
  BY <1>6 DEF Event!destroy_wait, Event!Destroy, Event!WaitForCallbacks,
              Event!CloseThreadpoolWait
<1>7. CASE Event!delete BY <1>7 DEF Event!delete
<1>8. CASE Event!PoolFires BY <1>8 DEF Event!PoolFires, Event!Fire
<1>9. CASE Event!SetEvent BY <1>9 DEF Event!SetEvent
<1>10. ASSUME NEW t \in Pool, Event!PoolStarts(t) PROVE Event!Waited'
  BY <1>10 DEF Event!PoolStarts, Event!StartCallback
<1>11. ASSUME NEW t \in Pool, Event!wait_callback(t) PROVE Event!Waited'
  BY <1>11 DEF Event!wait_callback, Event!ResetsEvent
<1>12. ASSUME NEW t \in Pool, Event!m_callback(t) PROVE Event!Waited'
  BY <1>12 DEF Event!m_callback
<1>13. ASSUME NEW t \in Pool, Event!return(t) PROVE Event!Waited'
  BY <1>13 DEF Event!return
<1>14. ASSUME NEW t \in Pool, Event!FindNext(t) PROVE Event!Waited'
  BY <1>14 DEF Event!FindNext
<1>15. ASSUME NEW t \in Pool, Event!rearm(t) PROVE Event!Waited'
  BY <1>15 DEF Event!rearm
<1>16. ASSUME NEW t \in Pool, Event!start_in_callback(t) PROVE Event!Waited'
  BY <1>16 DEF Event!start_in_callback
<1>17. CASE UNCHANGED Event!vars BY <1>17 DEF Event!vars
<1> QED
  BY <1>1, <1>2, <1>3, <1>4, <1>5, <1>6, <1>7, <1>8, <1>9, <1>10, <1>11, <1>12,
     <1>13, <1>14, <1>15, <1>16, <1>17
  DEF Event!Next, Event!CallbackSteps

\* The state is freed by the owner's last step, and by no other.
LEMMA EventStepFreed ==
  Event!IInv /\ [Event!Next]_(Event!vars) => (eventFreed => pc[Owner] = "done")'
<1> SUFFICES ASSUME Event!IInv, [Event!Next]_(Event!vars)
             PROVE  (eventFreed => pc[Owner] = "done")'
  OBVIOUS
<1> USE ThreadsAssumption
<1> USE DEF Event!Threads, Event!IInv, Event!TypeOK, Event!Go, Event!waitVars,
            Event!options, Event!history
<1>1. CASE Event!delete BY <1>1 DEF Event!delete
<1>2. CASE \/ Event!create_take_hevent_ownership \/ Event!create_common
           \/ Event!create_start \/ Event!start \/ Event!reset \/ Event!destroy_wait
  BY <1>2 DEF Event!create_take_hevent_ownership, Event!create_common,
              Event!create_start, Event!start, Event!Start, Event!reset,
              Event!destroy_wait, Event!Destroy, Event!WaitForCallbacks,
              Event!CloseThreadpoolWait
<1>3. CASE Event!PoolFires \/ Event!SetEvent \/ UNCHANGED Event!vars
  BY <1>3 DEF Event!PoolFires, Event!Fire, Event!SetEvent, Event!vars
<1>4. ASSUME NEW t \in Pool,
             \/ Event!PoolStarts(t) \/ Event!CallbackSteps(t)
             \/ Event!start_in_callback(t)
      PROVE  eventFreed' = eventFreed /\ pc'[Owner] = pc[Owner]
  BY <1>4 DEF Event!PoolStarts, Event!StartCallback, Event!CallbackSteps,
              Event!wait_callback, Event!m_callback, Event!return, Event!FindNext,
              Event!rearm, Event!start_in_callback, Event!Start
<1> QED BY <1>1, <1>2, <1>3, <1>4 DEF Event!Next

\* One of each start at a time is armed, queued or running; a wait that nobody arms
\* after the destructor has disarmed it is waited out.
THEOREM EventInvariance == EventSpec => []Event!IInv
<1>1. Event!IInv /\ [Event!Next]_(Event!vars) => Event!IInv'
  BY EventStepTypes, EventStepTurns, EventStepWaited, EventStepFreed DEF Event!IInv
<1> QED BY EventInitIInv, <1>1, PTL DEF EventSpec, Event!Spec

\* Every variable keeps its type.
THEOREM EventTypeCorrect == EventSpec => []Event!TypeOK
<1>1. Event!IInv => Event!TypeOK BY DEF Event!IInv
<1> QED BY EventInvariance, <1>1, PTL

\* event_watcher_state::wait_callback and folder_watcher_state::callback call the
\* client before arming the wait again: however often start() is called, no more
\* threads are in the client function than it was called; a watcher that is started
\* once calls it once at a time.
THEOREM EventCallsWithinStarts == EventSpec => []EventOneCallPerStart
<1>1. ASSUME Event!IInv PROVE EventOneCallPerStart
  <2> DEFINE Calls == {t \in Pool : pc[t] \in {"m_callback", "in_callback"}}
  <2>1. Event!TypeOK /\ Event!Turns
    BY <1>1 DEF Event!IInv
  <2>2. IsFiniteSet(Event!Running) /\ Cardinality(Event!Running) \in Nat
    BY <2>1, EventRunningCount
  <2>3. Calls \in SUBSET Event!Running
    BY DEF Event!Running
  <2>4. IsFiniteSet(Calls) /\ Cardinality(Calls) <= Cardinality(Event!Running)
    BY <2>2, <2>3, FS_Subset
  <2>5. Cardinality(Calls) \in Nat
    BY <2>4, FS_CardinalityType
  <2>6. Cardinality(Event!Running) <= starts
    BY <2>1, <2>2, EventCardinality DEF Event!Turns, Event!TypeOK
  <2>7. starts \in Nat
    BY <2>1 DEF Event!TypeOK
  <2>8. Cardinality(Calls) <= starts
    <3> HIDE DEF Calls
    <3> QED BY <2>2, <2>4, <2>5, <2>6, <2>7
  <2> QED BY <2>8, EventCardinality DEF EventOneCallPerStart, Event!OneCallPerStart
<1> QED BY EventInvariance, <1>1, PTL

\* DestroyThreadPoolWait::Destroy leaves no callback that could find the state
\* deleted, however many were queued or running, if none arms the wait again.
THEOREM NothingLeftToRun == EventSpec => []EventQuietUnlessArmedLate
<1>1. Event!IInv => EventQuietUnlessArmedLate
  BY DEF Event!IInv, Event!Waited, Event!Quiet, EventQuietUnlessArmedLate,
         Event!QuietUnlessArmedLate
<1> QED BY EventInvariance, <1>1, PTL
=============================================================================
