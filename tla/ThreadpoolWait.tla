--------------------------- MODULE ThreadpoolWait ---------------------------
(***************************************************************************)
(* A thread pool wait object of the operating system, the threads that run *)
(* its callbacks, and the way wil::unique_threadpool_wait destroys it      *)
(* (include/wil/resource.h, DestroyThreadPoolWait).                        *)
(*                                                                         *)
(* An armed wait whose event is signalled disarms itself and queues one    *)
(* callback; any idle thread of the pool may run it, also while another    *)
(* one is still in an earlier callback.  The watchers of this library      *)
(* extend this module with what their callbacks do.                        *)
(***************************************************************************)
EXTENDS Naturals, FiniteSets

CONSTANTS
  Owner,  \* the thread that creates the watcher and holds it
  Pool    \* the threads of the pool

ASSUME ThreadsAssumption == Owner \notin Pool
ASSUME PoolAssumption == IsFiniteSet(Pool)

Threads == Pool \cup {Owner}

VARIABLES
  tpWait,  \* "none", "idle", "armed" or "closed"
  event,   \* the event the wait is for is signalled
  queued,  \* callbacks queued that no thread runs yet
  pc       \* the next step of every thread; "idle" in the pool

waitVars == <<tpWait, event, queued>>

Go(t, from, to) == pc[t] = from /\ pc' = [pc EXCEPT ![t] = to]

Running == {t \in Pool : pc[t] # "idle"}

\* SetThreadpoolWait with the event, or with no handle.
SetThreadpoolWait(armed) == tpWait' = IF armed THEN "armed" ELSE "idle"

\* The pool sees the event; an auto-reset event is consumed by it.
Fire(autoReset) ==
  /\ tpWait = "armed"
  /\ event
  /\ tpWait' = "idle"
  /\ event' = ~autoReset
  /\ queued' = queued + 1
  /\ UNCHANGED pc

\* A thread of the pool enters the callback.
StartCallback(t) ==
  /\ queued > 0
  /\ Go(t, "idle", "callback")
  /\ queued' = queued - 1
  /\ UNCHANGED <<tpWait, event>>

\* DestroyThreadPoolWait::Destroy, called by thread t: no more callbacks are
\* to be queued ...
Destroy(t) ==
  /\ Go(t, "Destroy", "WaitForCallbacks")
  /\ SetThreadpoolWait(FALSE)
  /\ UNCHANGED <<event, queued>>

\* ... those not started are cancelled, those running are waited for ...
WaitForCallbacks(t) ==
  /\ Go(t, "WaitForCallbacks", "CloseThreadpoolWait")
  /\ Running = {}
  /\ queued' = 0
  /\ UNCHANGED <<tpWait, event>>

\* ... and the wait object is closed.
CloseThreadpoolWait(t) ==
  /\ Go(t, "CloseThreadpoolWait", "delete")
  /\ tpWait' = "closed"
  /\ UNCHANGED <<event, queued>>
=============================================================================
