------------------------------ MODULE SlimEvent ------------------------------
(***************************************************************************)
(* wil::slim_event_t (include/wil/resource.h): an event in one variable.   *)
(* wait() takes the signal or sleeps with WaitOnAddress while there is     *)
(* none; SetEvent writes first and wakes afterwards, one sleeper of an     *)
(* auto-reset event, all of a manual-reset one.  Threads set, reset and    *)
(* wait as they like, with no, some or infinite time.                      *)
(*                                                                         *)
(* WaitOnAddress compares and goes to sleep in one step, and may wake up   *)
(* for no reason.  Time is not measured: a wait with some time may end     *)
(* whenever the code looks at the clock or sleeps.                         *)
(***************************************************************************)
EXTENDS Integers

CONSTANT Threads

VARIABLES
  Type,       \* the SlimEventType, fixed when the event is declared
  m_isSignaled,
  pc,
  time,       \* of each thread's wait: "none", "some" or "infinite"
  acquired    \* waits that took the signal of an auto-reset event since it
              \* was last set (history)

vars == <<Type, m_isSignaled, pc, time, acquired>>

Places == {"idle", "wake", "try", "late", "wait", "asleep"}
Times == {"none", "some", "infinite"}

AutoReset == Type = "AutoReset"

Init ==
  /\ Type \in {"AutoReset", "ManualReset"}
  /\ m_isSignaled \in BOOLEAN
  /\ pc = [t \in Threads |-> "idle"]
  /\ time = [t \in Threads |-> "none"]
  /\ acquired = 0

Goto(t, from, to) == pc[t] = from /\ pc' = [pc EXCEPT ![t] = to]

Asleep == {t \in Threads : pc[t] = "asleep"}

---------------------------------------------------------------------------
\* The type is not looked at: one sleeper is woken.
WakeByAddress_Single == IF Asleep = {} THEN {Asleep} ELSE {{u} : u \in Asleep}

\* Whom WakeByAddressSingle or WakeByAddressAll may wake up.
WakeByAddress ==
  IF AutoReset /\ Asleep # {} THEN {{u} : u \in Asleep} ELSE {Asleep}

Awake(sleepers, t, place) ==
  pc' = [u \in Threads |-> IF u = t THEN place
                           ELSE IF u \in sleepers THEN "try" ELSE pc[u]]

\* Written here, and on to the waking.
SetEvent(t) ==
  /\ Goto(t, "idle", "wake")
  /\ m_isSignaled' = TRUE
  /\ acquired' = 0
  /\ UNCHANGED time

Wake(t) ==
  /\ pc[t] = "wake"
  /\ \E sleepers \in WakeByAddress : Awake(sleepers, t, "idle")
  /\ UNCHANGED <<m_isSignaled, time, acquired>>

ResetEvent(t) ==
  /\ pc[t] = "idle"
  /\ m_isSignaled' = FALSE
  /\ UNCHANGED <<pc, time, acquired>>

---------------------------------------------------------------------------
wait(t) ==
  /\ Goto(t, "idle", "try")
  /\ \E timeout \in Times : time' = [time EXCEPT ![t] = timeout]
  /\ UNCHANGED <<m_isSignaled, acquired>>

Count == acquired' = IF AutoReset THEN acquired + 1 ELSE acquired

\* The type is not looked at: no wait resets the event.
TryAcquireEvent_Keeps(t) ==
  /\ \/ m_isSignaled /\ Goto(t, "try", "idle") /\ Count
     \/ ~m_isSignaled /\ Goto(t, "try", "late") /\ UNCHANGED acquired
  /\ UNCHANGED <<m_isSignaled, time>>

\* TRUE: the wait is over; an auto-reset event is reset by the same exchange.
TryAcquireEvent(t) ==
  /\ \/ m_isSignaled /\ Goto(t, "try", "idle") /\ Count
     \/ ~m_isSignaled /\ Goto(t, "try", "late") /\ UNCHANGED acquired
  /\ m_isSignaled' = (m_isSignaled /\ ~AutoReset)
  /\ UNCHANGED time

\* No time was given, or it is over.
TimeIsUp(t) ==
  /\ time[t] \in {"none", "some"}
  /\ Goto(t, "late", "idle")
  /\ UNCHANGED <<m_isSignaled, time, acquired>>

TimeIsLeft(t) ==
  /\ time[t] \in {"some", "infinite"}
  /\ Goto(t, "late", "wait")
  /\ UNCHANGED <<m_isSignaled, time, acquired>>

\* The value is compared before the call, not by it.
WaitForSignal_Blind(t) ==
  /\ Goto(t, "wait", "asleep")
  /\ UNCHANGED <<m_isSignaled, time, acquired>>

WaitForSignal(t) ==
  /\ Goto(t, "wait", IF m_isSignaled THEN "try" ELSE "asleep")
  /\ UNCHANGED <<m_isSignaled, time, acquired>>

SpuriousWake(t) ==
  /\ Goto(t, "asleep", "try")
  /\ UNCHANGED <<m_isSignaled, time, acquired>>

WaitTimesOut(t) ==
  /\ time[t] = "some"
  /\ Goto(t, "asleep", "idle")
  /\ UNCHANGED <<m_isSignaled, time, acquired>>

---------------------------------------------------------------------------
Step(t) ==
  Wake(t) \/ TryAcquireEvent(t) \/ TimeIsUp(t) \/ TimeIsLeft(t) \/ WaitForSignal(t)

Next ==
  /\ \E t \in Threads :
       \/ SetEvent(t) \/ ResetEvent(t) \/ wait(t)
       \/ Step(t) \/ SpuriousWake(t) \/ WaitTimesOut(t)
  /\ UNCHANGED Type

\* Threads run on; nobody need set the event, wake up for no reason or time out.
Fairness == \A t \in Threads : WF_vars(Step(t) /\ UNCHANGED Type)

Spec == Init /\ [][Next]_vars /\ Fairness

---------------------------------------------------------------------------
TypeOK ==
  /\ Type \in {"AutoReset", "ManualReset"}
  /\ m_isSignaled \in BOOLEAN
  /\ pc \in [Threads -> Places]
  /\ time \in [Threads -> Times]
  /\ acquired \in Nat

\* While the event is signaled and somebody sleeps, somebody else is on the way
\* to wake a sleeper, or, when one signal is for one waiter, to take the signal
\* away: the wakeup that belongs to a signal is never lost, whatever SetEvent,
\* ResetEvent, timeouts and waits came between writing and waking.
NoLostWakeup ==
  m_isSignaled /\ Asleep # {} =>
    \E t \in Threads :
      \/ pc[t] = "wake"
      \/ AutoReset /\ pc[t] \in {"try", "wait"}

\* An auto-reset event lets one wait through for each SetEvent, however many
\* threads are awake when it comes.
OneWaitPerSignal ==
  AutoReset => acquired <= 1 /\ (m_isSignaled => acquired = 0)

\* Nobody sleeps for ever while the event stays signaled.
NobodySleepsOn ==
  \A t \in Threads :
    (pc[t] = "asleep" /\ m_isSignaled) ~> (pc[t] # "asleep" \/ ~m_isSignaled)

IInv == TypeOK /\ NoLostWakeup /\ OneWaitPerSignal
=============================================================================
