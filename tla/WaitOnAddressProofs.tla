------------------------- MODULE WaitOnAddressProofs -------------------------
(***************************************************************************)
(* What sleeps with WaitOnAddress.  The hand-over of a coroutine's result  *)
(* is safe in every interleaving and for every set of apartments: IInv is  *)
(* inductive, the safety properties follow from it, and every step         *)
(* implements the one-shot result.  No wakeup of a slim event is lost, and *)
(* an auto-reset event lets one wait through per signal, for any number of *)
(* threads: every step that puts a thread to sleep sees no signal, and     *)
(* every step that writes the signal leaves a thread behind that will wake *)
(* a sleeper.                                                              *)
(***************************************************************************)
EXTENDS Task, MCSlimEvent, TLAPS

---------------------------------------------------------------------------
(* The tasks.                                                              *)

\* The initial states satisfy the invariant.
LEMMA InitIInv == Init => IInv
<1> SUFFICES ASSUME Init PROVE IInv
  OBVIOUS
<1> USE DEF Init, CoLive, CoCalls, ClEarly, ClWaits
<1>1. TypeOK
  BY DEF TypeOK, CoStates, ClStates, Kinds, Modes
<1>2. Handover
  BY DEF Handover
<1>3. Locals
  BY DEF Locals
<1>4. Places
  BY DEF Places
<1>5. QED
  BY <1>1, <1>2, <1>3, <1>4 DEF IInv

\* Every step keeps the invariant: one case per step of the two threads.
LEMMA StepIInv == IInv /\ [Next]_vars => IInv'
<1> SUFFICES ASSUME IInv, [Next]_vars PROVE IInv'
  OBVIOUS
<1> USE ApartmentsAssumption
<1> USE DEF IInv, TypeOK, Handover, Locals, Places, CoStates, ClStates, Kinds,
            Modes, CoLive, CoCalls, ClEarly, ClWaits, promiseVars, awaiterVars,
            placeVars
<1>1. CASE return_value
  BY <1>1 DEF return_value
<1>2. CASE unhandled_exception
  BY <1>2 DEF unhandled_exception
<1>3. CASE final_suspend
  BY <1>3 DEF final_suspend
<1>4. CASE co_destroy
  BY <1>4 DEF co_destroy, Destroy
<1>5. CASE resume_waiting_coroutine
  BY <1>5 DEF resume_waiting_coroutine, Resume
<1>6. CASE wake_by_address
  BY <1>6 DEF wake_by_address
<1>7. CASE WakeByAddressSingle
  BY <1>7 DEF WakeByAddressSingle
<1>8. CASE resume_in_context
  BY <1>8 DEF resume_in_context, Resume
<1>9. CASE resume_context
  BY <1>9 DEF resume_context
<1>10. CASE resume_context_sync
  BY <1>10 DEF resume_context_sync, Resume
<1>11. CASE client_await_ready
  BY <1>11 DEF client_await_ready
<1>12. CASE capture_context
  BY <1>12 DEF capture_context
<1>13. CASE SetResumer
  BY <1>13 DEF SetResumer
<1>14. CASE client_await_suspend
  BY <1>14 DEF client_await_suspend
<1>15. CASE get_loop
  BY <1>15 DEF get_loop
<1>16. CASE WaitOnAddress
  BY <1>16 DEF WaitOnAddress
<1>17. CASE SpuriousWake
  BY <1>17 DEF SpuriousWake
<1>18. CASE await_resume
  BY <1>18 DEF await_resume
<1>19. CASE discard
  BY <1>19 DEF discard
<1>20. CASE abandon
  BY <1>20 DEF abandon
<1>21. CASE cl_destroy
  BY <1>21 DEF cl_destroy, Destroy
<1>22. CASE UNCHANGED vars
  BY <1>22 DEF vars
<1>23. QED
  BY <1>1, <1>2, <1>3, <1>4, <1>5, <1>6, <1>7, <1>8, <1>9, <1>10, <1>11,
     <1>12, <1>13, <1>14, <1>15, <1>16, <1>17, <1>18, <1>19, <1>20, <1>21,
     <1>22
  DEF Next, CoroutineThread, CoroutineBody, Client, Terminated

\* The invariant holds in every reachable state.
THEOREM Invariance == Spec => []IInv
<1>1. QED
  BY InitIInv, StepIInv, PTL DEF Spec

\* Every variable stays in its domain; in particular the frame is never
\* freed twice.
THEOREM TypeCorrect == Spec => []TypeOK
<1>1. IInv => TypeOK
  BY DEF IInv
<1>2. QED
  BY <1>1, Invariance, PTL

\* Neither thread touches the coroutine frame after it was destroyed.
THEOREM FrameSafety == Spec => []NoUseAfterFree
<1>1. IInv => NoUseAfterFree
  BY DEF IInv, TypeOK, Handover, NoUseAfterFree, CoUsesFrame, ClUsesFrame,
         CoLive, CoCalls, ClEarly, ClWaits
<1>2. QED
  BY <1>1, Invariance, PTL

\* When both threads are through, the frame and what it owned are gone.
THEOREM FrameNotLeaked == Spec => []NoLeak
<1>1. IInv => NoLeak
  BY DEF IInv, TypeOK, Handover, NoLeak, CoLive
<1>2. QED
  BY <1>1, Invariance, PTL

\* The completing thread never follows a pointer into a client that has
\* gone on.
THEOREM AwaiterSafety == Spec => []AwaiterOutlivesResumer
<1>1. IInv => AwaiterOutlivesResumer
  BY DEF IInv, Handover, Locals, AwaiterOutlivesResumer, CoCalls, ClWaits
<1>2. QED
  BY <1>1, Invariance, PTL

\* com_task: a suspended client that gets the result is back in its
\* apartment.
THEOREM ApartmentSafety == Spec => []BackInApartment
<1>1. IInv => BackInApartment
  BY ApartmentsAssumption DEF IInv, Places, BackInApartment
<1>2. QED
  BY <1>1, Invariance, PTL

\* Every step of the two threads is a step of the one-shot result, or
\* invisible to it.
LEMMA StepRefines == IInv /\ [Next]_vars => [Result!Next]_(Result!vars)
<1> SUFFICES ASSUME IInv, [Next]_vars PROVE [Result!Next]_(Result!vars)
  OBVIOUS
<1> USE ApartmentsAssumption
<1> USE DEF IInv, TypeOK, Handover, Locals, Places, CoStates, ClStates, Kinds,
            Modes, CoLive, CoCalls, ClEarly, ClWaits, promiseVars, awaiterVars,
            placeVars, Result!Next, Result!vars, Result!Produce, Result!Take,
            Result!Discard, Result!Free
<1>1. CASE return_value
  BY <1>1 DEF return_value
<1>2. CASE unhandled_exception
  BY <1>2 DEF unhandled_exception
<1>3. CASE final_suspend
  BY <1>3 DEF final_suspend
<1>4. CASE co_destroy
  BY <1>4 DEF co_destroy, Destroy
<1>5. CASE resume_waiting_coroutine
  BY <1>5 DEF resume_waiting_coroutine, Resume
<1>6. CASE wake_by_address
  BY <1>6 DEF wake_by_address
<1>7. CASE WakeByAddressSingle
  BY <1>7 DEF WakeByAddressSingle
<1>8. CASE resume_in_context
  BY <1>8 DEF resume_in_context, Resume
<1>9. CASE resume_context
  BY <1>9 DEF resume_context
<1>10. CASE resume_context_sync
  BY <1>10 DEF resume_context_sync, Resume
<1>11. CASE client_await_ready
  BY <1>11 DEF client_await_ready
<1>12. CASE capture_context
  BY <1>12 DEF capture_context
<1>13. CASE SetResumer
  BY <1>13 DEF SetResumer
<1>14. CASE client_await_suspend
  BY <1>14 DEF client_await_suspend
<1>15. CASE get_loop
  BY <1>15 DEF get_loop
<1>16. CASE WaitOnAddress
  BY <1>16 DEF WaitOnAddress
<1>17. CASE SpuriousWake
  BY <1>17 DEF SpuriousWake
<1>18. CASE await_resume
  BY <1>18 DEF await_resume
<1>19. CASE discard
  BY <1>19 DEF discard
<1>20. CASE abandon
  BY <1>20 DEF abandon
<1>21. CASE cl_destroy
  BY <1>21 DEF cl_destroy, Destroy
<1>22. CASE UNCHANGED vars
  BY <1>22 DEF vars
<1>23. QED
  BY <1>1, <1>2, <1>3, <1>4, <1>5, <1>6, <1>7, <1>8, <1>9, <1>10, <1>11,
     <1>12, <1>13, <1>14, <1>15, <1>16, <1>17, <1>18, <1>19, <1>20, <1>21,
     <1>22
  DEF Next, CoroutineThread, CoroutineBody, Client, Terminated

\* The two threads together implement the one-shot result.
THEOREM Implements == Spec => IsOneShotResult
<1>1. Init => Result!Init
  BY DEF Init, Result!Init
<1>2. QED
  BY <1>1, StepRefines, Invariance, PTL DEF Spec, IsOneShotResult, Result!Spec

---------------------------------------------------------------------------
(* The slim event.                                                         *)

\* Waking leaves nobody asleep, or one thread that was asleep awake.
LEMMA WokenOrNoneAsleep ==
  ASSUME NEW t \in Threads, Slim!TypeOK, Slim!Wake(t)
  PROVE  /\ \A u \in Threads : pc'[u] = "asleep" => pc[u] = "asleep"
         /\ \/ \A u \in Threads : pc'[u] # "asleep"
            \/ Slim!AutoReset /\ \E u \in Threads : pc'[u] = "try"
<1> USE DEF Slim!TypeOK
<1>1. pc[t] = "wake" BY DEF Slim!Wake
<1>2. PICK sleepers \in Slim!WakeByAddress : Slim!Awake(sleepers, t, "idle")
  BY DEF Slim!Wake
<1>3. \A u \in Threads :
        pc'[u] = IF u = t THEN "idle" ELSE IF u \in sleepers THEN "try" ELSE pc[u]
  BY <1>2 DEF Slim!Awake
<1>4. CASE Slim!AutoReset /\ Slim!Asleep # {}
  <2>1. PICK u \in Slim!Asleep : sleepers = {u} BY <1>2, <1>4 DEF Slim!WakeByAddress
  <2>2. u \in Threads /\ u # t BY <1>1, <2>1 DEF Slim!Asleep
  <2> QED BY <1>3, <1>4, <2>1, <2>2
<1>5. CASE ~(Slim!AutoReset /\ Slim!Asleep # {})
  <2>1. sleepers = Slim!Asleep BY <1>2, <1>5 DEF Slim!WakeByAddress
  <2> QED BY <1>3, <2>1 DEF Slim!Asleep
<1> QED BY <1>4, <1>5

LEMMA SlimInitially == Slim!Init => Slim!IInv
BY DEF Slim!Init, Slim!IInv, Slim!TypeOK, Slim!NoLostWakeup, Slim!OneWaitPerSignal,
       Slim!Asleep, Slim!Places, Slim!Times

LEMMA KeepsTypes ==
  ASSUME Slim!TypeOK, [Slim!Next]_(Slim!vars)
  PROVE  Slim!TypeOK'
<1>0. Type' = Type BY DEF Slim!Next, Slim!vars
<1> USE <1>0 DEF Slim!TypeOK, Slim!Places, Slim!Times
<1>1. ASSUME NEW t \in Threads, Slim!SetEvent(t) PROVE Slim!TypeOK'
  BY <1>1 DEF Slim!SetEvent, Slim!Goto
<1>2. ASSUME NEW t \in Threads, Slim!ResetEvent(t) PROVE Slim!TypeOK'
  BY <1>2 DEF Slim!ResetEvent
<1>3. ASSUME NEW t \in Threads, Slim!wait(t) PROVE Slim!TypeOK'
  BY <1>3 DEF Slim!wait, Slim!Goto
<1>4. ASSUME NEW t \in Threads, Slim!Wake(t) PROVE Slim!TypeOK'
  BY <1>4 DEF Slim!Wake, Slim!Awake
<1>5. ASSUME NEW t \in Threads, Slim!TryAcquireEvent(t) PROVE Slim!TypeOK'
  BY <1>5 DEF Slim!TryAcquireEvent, Slim!Goto, Slim!Count
<1>6. ASSUME NEW t \in Threads,
             Slim!TimeIsUp(t) \/ Slim!TimeIsLeft(t) \/ Slim!WaitForSignal(t)
               \/ Slim!SpuriousWake(t) \/ Slim!WaitTimesOut(t)
      PROVE Slim!TypeOK'
  BY <1>6 DEF Slim!TimeIsUp, Slim!TimeIsLeft, Slim!WaitForSignal, Slim!SpuriousWake,
              Slim!WaitTimesOut, Slim!Goto
<1>7. ASSUME UNCHANGED Slim!vars PROVE Slim!TypeOK' BY <1>7 DEF Slim!vars
<1> QED BY <1>1, <1>2, <1>3, <1>4, <1>5, <1>6, <1>7 DEF Slim!Next, Slim!Step

LEMMA KeepsWakeups ==
  ASSUME Slim!TypeOK, Slim!NoLostWakeup, [Slim!Next]_(Slim!vars)
  PROVE  Slim!NoLostWakeup'
<1>0. Slim!AutoReset' <=> Slim!AutoReset BY DEF Slim!Next, Slim!vars, Slim!AutoReset
<1> USE <1>0 DEF Slim!TypeOK, Slim!NoLostWakeup, Slim!Asleep
<1>1. ASSUME NEW t \in Threads, Slim!SetEvent(t) PROVE Slim!NoLostWakeup'
  BY <1>1 DEF Slim!SetEvent, Slim!Goto
<1>2. ASSUME NEW t \in Threads, Slim!ResetEvent(t) PROVE Slim!NoLostWakeup'
  BY <1>2 DEF Slim!ResetEvent
<1>3. ASSUME NEW t \in Threads, Slim!wait(t) PROVE Slim!NoLostWakeup'
  BY <1>3 DEF Slim!wait, Slim!Goto
<1>4. ASSUME NEW t \in Threads, Slim!Wake(t) PROVE Slim!NoLostWakeup'
  BY <1>4, WokenOrNoneAsleep DEF Slim!Wake
<1>5. ASSUME NEW t \in Threads, Slim!TryAcquireEvent(t) PROVE Slim!NoLostWakeup'
  BY <1>5 DEF Slim!TryAcquireEvent, Slim!Goto
<1>6. ASSUME NEW t \in Threads, Slim!TimeIsUp(t) \/ Slim!TimeIsLeft(t)
      PROVE Slim!NoLostWakeup'
  BY <1>6 DEF Slim!TimeIsUp, Slim!TimeIsLeft, Slim!Goto
<1>7. ASSUME NEW t \in Threads, Slim!WaitForSignal(t) PROVE Slim!NoLostWakeup'
  BY <1>7 DEF Slim!WaitForSignal, Slim!Goto
<1>8. ASSUME NEW t \in Threads, Slim!SpuriousWake(t) \/ Slim!WaitTimesOut(t)
      PROVE Slim!NoLostWakeup'
  BY <1>8 DEF Slim!SpuriousWake, Slim!WaitTimesOut, Slim!Goto
<1>9. ASSUME UNCHANGED Slim!vars PROVE Slim!NoLostWakeup' BY <1>9 DEF Slim!vars
<1> QED BY <1>1, <1>2, <1>3, <1>4, <1>5, <1>6, <1>7, <1>8, <1>9 DEF Slim!Next, Slim!Step

LEMMA KeepsCount ==
  ASSUME Slim!TypeOK, Slim!OneWaitPerSignal, [Slim!Next]_(Slim!vars)
  PROVE  Slim!OneWaitPerSignal'
<1>0. Slim!AutoReset' <=> Slim!AutoReset BY DEF Slim!Next, Slim!vars, Slim!AutoReset
<1> USE <1>0 DEF Slim!TypeOK, Slim!OneWaitPerSignal
<1>1. ASSUME NEW t \in Threads, Slim!TryAcquireEvent(t) PROVE Slim!OneWaitPerSignal'
  <2>1. Slim!AutoReset => ~m_isSignaled' BY <1>1 DEF Slim!TryAcquireEvent
  <2>2. CASE m_isSignaled
    <3>1. acquired' = IF Slim!AutoReset THEN acquired + 1 ELSE acquired
      BY <1>1, <2>2 DEF Slim!TryAcquireEvent, Slim!Count
    <3>2. Slim!AutoReset => acquired = 0 BY <2>2
    <3> QED BY <2>1, <3>1, <3>2
  <2>3. CASE ~m_isSignaled
    <3>1. acquired' = acquired BY <1>1, <2>3 DEF Slim!TryAcquireEvent
    <3> QED BY <2>1, <3>1
  <2> QED BY <2>2, <2>3
<1>2. ASSUME NEW t \in Threads, Slim!SetEvent(t) \/ Slim!ResetEvent(t)
      PROVE Slim!OneWaitPerSignal'
  BY <1>2 DEF Slim!SetEvent, Slim!ResetEvent
<1>3. ASSUME UNCHANGED <<m_isSignaled, acquired>> PROVE Slim!OneWaitPerSignal'
  BY <1>3
<1> QED BY <1>1, <1>2, <1>3
  DEF Slim!Next, Slim!Step, Slim!Wake, Slim!wait, Slim!TimeIsUp, Slim!TimeIsLeft,
      Slim!WaitForSignal, Slim!SpuriousWake,
      Slim!WaitTimesOut, Slim!vars

\* The types, the wakeup that belongs to each signal and the one wait it lets
\* through are kept by every step.
THEOREM SlimInvariance == SlimSpec => []Slim!IInv
<1>1. Slim!IInv /\ [Slim!Next]_(Slim!vars) => Slim!IInv'
  BY KeepsTypes, KeepsWakeups, KeepsCount DEF Slim!IInv
<1> QED BY SlimInitially, <1>1, PTL DEF SlimSpec, Slim!Spec

\* Every variable keeps its type.
THEOREM SlimTypeCorrect == SlimSpec => []Slim!TypeOK
<1>1. Slim!IInv => Slim!TypeOK BY DEF Slim!IInv
<1> QED BY SlimInvariance, <1>1, PTL

\* slim_event_t::SetEvent: while the event is signaled and a thread sleeps, some
\* other thread is about to wake a sleeper or to take the signal.
THEOREM WakeupsAreKept == SlimSpec => []NoLostWakeup
<1>1. Slim!IInv => NoLostWakeup BY DEF Slim!IInv, NoLostWakeup
<1> QED BY SlimInvariance, <1>1, PTL

\* slim_event_t::TryAcquireEvent: one SetEvent of an auto-reset event lets at
\* most one wait through.
THEOREM SignalsAreTakenOnce == SlimSpec => []OneWaitPerSignal
<1>1. Slim!IInv => OneWaitPerSignal BY DEF Slim!IInv, OneWaitPerSignal
<1> QED BY SlimInvariance, <1>1, PTL
=============================================================================
