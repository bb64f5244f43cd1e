----------------------------- MODULE MCSlimEvent -----------------------------
(***************************************************************************)
(* Three threads with an event of either type.  The event is an instance,  *)
(* and not extended, for the sake of module WaitOnAddressProofs, which has *)
(* the definitions of the coroutine tasks as well.                         *)
(***************************************************************************)
CONSTANT Threads

VARIABLES Type, m_isSignaled, pc, time, acquired

Slim == INSTANCE SlimEvent

SlimSpec == Slim!Spec

\* No wakeup that belongs to a signal is lost, ...
NoLostWakeup == Slim!NoLostWakeup

\* ... a SetEvent of an auto-reset event lets one wait through, ...
OneWaitPerSignal == Slim!OneWaitPerSignal

\* ... and nobody sleeps for ever while the event stays signaled.
NobodySleepsOn == Slim!NobodySleepsOn
=============================================================================
