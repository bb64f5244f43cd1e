--------------------------- MODULE RegistryWatcher ---------------------------
(***************************************************************************)
(* wil::unique_registry_watcher (include/wil/registry.h,                   *)
(* registry_watcher_state and registry_watcher_t): a registry key is       *)
(* watched through an event and a thread pool wait.  The state is shared   *)
(* by the owner's smart pointer and by the callback that runs; both hold a *)
(* reference, and either may drop the last one, from inside the callback   *)
(* as well as from outside.                                                *)
(*                                                                         *)
(* One step is taken per access to what other threads see.  Taking m_lock  *)
(* and the InterlockedDecrement after it are one step: nothing another     *)
(* thread does between the two can tell them apart.                        *)
(***************************************************************************)
EXTENDS ThreadpoolWait

CONSTANT NoThread
ASSUME NoThreadAssumption == NoThread \notin Threads

Errors == {"SUCCESS", "ACCESS_DENIED", "KEY_DELETED", "HANDLE_REVOKED", "OTHER"}

VARIABLES
  m_refCount,
  m_lock,    \* the thread that holds it, or NoThread
  freed,     \* how often the state has been deleted
  held,      \* the client's unique_registry_watcher is not empty
  error,     \* what RegNotifyChangeKeyValue gave each callback
  key,       \* what RegNotifyChangeKeyValue gives from now on
  notify,    \* a change notification is registered for the event
  dirty,     \* a change the client function has not been called for
  process    \* "down" after a fail fast

stateVars == <<m_refCount, m_lock, freed, held>>
keyVars   == <<key, notify, dirty>>
vars == <<tpWait, event, queued, pc, m_refCount, m_lock, freed, held, error,
          key, notify, dirty, process>>

Init ==
  /\ tpWait = "none"
  /\ event = FALSE
  /\ queued = 0
  /\ pc = [t \in Threads |-> IF t = Owner THEN "create" ELSE "idle"]
  /\ m_refCount = 0
  /\ m_lock = NoThread
  /\ freed = 0
  /\ held = FALSE
  /\ error = [t \in Pool |-> "SUCCESS"]
  /\ key = "SUCCESS"
  /\ notify = FALSE
  /\ dirty = FALSE
  /\ process = "up"

\* Only Modify callbacks arm the wait again.
Rearms(t) == error[t] \in {"SUCCESS", "ACCESS_DENIED"}

---------------------------------------------------------------------------
(* Faulty variants of the steps below, to show what notices them.          *)

TryAddRef_FromZero(t) ==
  /\ Go(t, "callback", "RegNotify")
  /\ m_refCount' = m_refCount + 1
  /\ UNCHANGED <<waitVars, m_lock, freed, held, error, keyVars, process>>

TryAddRef_NoRef(t) ==
  /\ Go(t, "callback", IF m_refCount > 0 THEN "RegNotify" ELSE "idle")
  /\ UNCHANGED <<waitVars, stateVars, error, keyVars, process>>

RegNotify_RearmsFirst(t) ==
  /\ key \in {"SUCCESS", "ACCESS_DENIED"}
  /\ Go(t, "RegNotify", "m_callback")
  /\ error' = [error EXCEPT ![t] = key]
  /\ notify' = (notify \/ key = "SUCCESS")
  /\ SetThreadpoolWait(TRUE)
  /\ UNCHANGED <<event, queued, stateVars, key, dirty, process>>

RegNotify_Late(t) ==
  /\ key \in {"SUCCESS", "ACCESS_DENIED"}
  /\ Go(t, "RegNotify", "m_callback")
  /\ error' = [error EXCEPT ![t] = key]
  /\ UNCHANGED <<waitVars, stateVars, keyVars, process>>

---------------------------------------------------------------------------
(* Creating the watcher, and holding it.                                   *)

\* create_common: allocate the state, create the event, register for
\* notifications and create the wait; any of them may fail, and what was
\* made until then goes.
create_common ==
  /\ \/ /\ Go(Owner, "create", "start")
        /\ m_refCount' = 1
        /\ held' = TRUE
        /\ notify' = TRUE
        /\ tpWait' = "idle"
        /\ UNCHANGED freed
     \/ /\ Go(Owner, "create", "done")
        /\ freed' = 1
        /\ UNCHANGED <<m_refCount, held, notify, tpWait>>
  /\ UNCHANGED <<event, queued, m_lock, error, key, dirty, process>>

\* The last line of create_common.
start ==
  /\ Go(Owner, "start", "hold")
  /\ SetThreadpoolWait(TRUE)
  /\ UNCHANGED <<event, queued, stateVars, error, keyVars, process>>

\* The owner resets or destroys its unique_registry_watcher ...
reset ==
  /\ held
  /\ held' = FALSE
  /\ Go(Owner, "hold", "Release")
  /\ UNCHANGED <<waitVars, m_refCount, m_lock, freed, error, keyVars, process>>

\* ... which does nothing when the client function has done so before.
reset_empty ==
  /\ ~held
  /\ Go(Owner, "hold", "done")
  /\ UNCHANGED <<waitVars, stateVars, error, keyVars, process>>

---------------------------------------------------------------------------
(* registry_watcher_state::Release, by the owner or by the client function *)

Back(t) == IF t = Owner THEN "done" ELSE "in_callback"

Release(t) ==
  /\ m_lock = NoThread
  /\ m_lock' = t
  /\ m_refCount' = m_refCount - 1
  /\ Go(t, "Release", IF m_refCount = 1 THEN "leave_delete" ELSE "leave")
  /\ UNCHANGED <<waitVars, freed, held, error, keyVars, process>>

leave(t) ==
  /\ Go(t, "leave", Back(t))
  /\ m_lock' = NoThread
  /\ UNCHANGED <<waitVars, m_refCount, freed, held, error, keyVars, process>>

\* leave the lock before deleting it
leave_delete(t) ==
  /\ Go(t, "leave_delete", "Destroy")
  /\ m_lock' = NoThread
  /\ UNCHANGED <<waitVars, m_refCount, freed, held, error, keyVars, process>>

\* delete this: ~unique_threadpool_wait first, then the rest.
destroy_wait(t) ==
  /\ Destroy(t) \/ WaitForCallbacks(t) \/ CloseThreadpoolWait(t)
  /\ UNCHANGED <<stateVars, error, keyVars, process>>

delete(t) ==
  /\ Go(t, "delete", Back(t))
  /\ freed' = freed + 1
  /\ notify' = FALSE
  /\ UNCHANGED <<waitVars, m_refCount, m_lock, held, error, key, dirty, process>>

---------------------------------------------------------------------------
(* registry_watcher_t::callback, on a thread of the pool.                  *)

\* A reference, unless the state is on its way to the destructor.
TryAddRef(t) ==
  /\ Go(t, "callback", IF m_refCount + 1 > 1 THEN "RegNotify" ELSE "idle")
  /\ m_refCount' = m_refCount + 1
  /\ UNCHANGED <<waitVars, m_lock, freed, held, error, keyVars, process>>

\* Registering again comes before the client function is called.
RegNotify(t) ==
  /\ key # "OTHER"
  /\ Go(t, "RegNotify",
        IF key = "HANDLE_REVOKED" THEN "ReleaseFromCallback" ELSE "m_callback")
  /\ error' = [error EXCEPT ![t] = key]
  /\ notify' = (notify \/ key = "SUCCESS")
  /\ UNCHANGED <<waitVars, stateVars, key, dirty, process>>

\* default: FAIL_FAST_HR
RegNotify_FailFast(t) ==
  /\ key = "OTHER"
  /\ Go(t, "RegNotify", "RegNotify")
  /\ process' = "down"
  /\ UNCHANGED <<waitVars, stateVars, error, keyVars>>

\* m_callback is entered: it sees every change made until now.
m_callback(t) ==
  /\ Go(t, "m_callback", "in_callback")
  /\ dirty' = FALSE
  /\ UNCHANGED <<waitVars, stateVars, error, key, notify, process>>

\* The client function resets the watcher that called it ...
reset_in_callback(t) ==
  /\ held
  /\ held' = FALSE
  /\ Go(t, "in_callback", "Release")
  /\ UNCHANGED <<waitVars, m_refCount, m_lock, freed, error, keyVars, process>>

\* ... or just returns.
return(t) ==
  /\ Go(t, "in_callback", "ReleaseFromCallback")
  /\ UNCHANGED <<waitVars, stateVars, error, keyVars, process>>

ReleaseFromCallback(t) ==
  /\ m_lock = NoThread
  /\ m_lock' = t
  /\ m_refCount' = m_refCount - 1
  /\ Go(t, "ReleaseFromCallback",
        IF m_refCount = 1 THEN "cb_close"
        ELSE IF Rearms(t) THEN "rearm"
        ELSE "cb_leave")
  /\ UNCHANGED <<waitVars, freed, held, error, keyVars, process>>

\* Close the wait without waiting for the callback this is.
cb_close(t) ==
  /\ Go(t, "cb_close", "cb_leave_delete")
  /\ tpWait' = "closed"
  /\ UNCHANGED <<event, queued, stateVars, error, keyVars, process>>

cb_leave_delete(t) ==
  /\ Go(t, "cb_leave_delete", "cb_delete")
  /\ m_lock' = NoThread
  /\ UNCHANGED <<waitVars, m_refCount, freed, held, error, keyVars, process>>

cb_delete(t) ==
  /\ Go(t, "cb_delete", "idle")
  /\ freed' = freed + 1
  /\ notify' = FALSE
  /\ UNCHANGED <<waitVars, m_refCount, m_lock, held, error, key, dirty, process>>

rearm(t) ==
  /\ Go(t, "rearm", "cb_leave")
  /\ SetThreadpoolWait(TRUE)
  /\ UNCHANGED <<event, queued, stateVars, error, keyVars, process>>

cb_leave(t) ==
  /\ Go(t, "cb_leave", "idle")
  /\ m_lock' = NoThread
  /\ UNCHANGED <<waitVars, m_refCount, freed, held, error, keyVars, process>>

---------------------------------------------------------------------------
(* The registry, and the thread pool.                                      *)

\* A value changes, or what the key is good for does; a registered
\* notification is used up by it.
KeyChanges ==
  /\ \/ key' = key /\ dirty' = held
     \/ key = "SUCCESS" /\ key' \in Errors \ {"SUCCESS"} /\ dirty' = dirty
  /\ event' = (event \/ notify)
  /\ notify' = FALSE
  /\ UNCHANGED <<tpWait, queued, pc, stateVars, error, process>>

PoolFires ==
  /\ Fire(TRUE)
  /\ UNCHANGED <<stateVars, error, keyVars, process>>

PoolStarts(t) ==
  /\ StartCallback(t)
  /\ UNCHANGED <<stateVars, error, keyVars, process>>

ReleaseSteps(t) ==
  Release(t) \/ leave(t) \/ leave_delete(t) \/ destroy_wait(t) \/ delete(t)

CallbackSteps(t) ==
  \/ TryAddRef(t)
  \/ RegNotify(t)
  \/ RegNotify_FailFast(t)
  \/ m_callback(t)
  \/ reset_in_callback(t)
  \/ return(t)
  \/ ReleaseFromCallback(t)
  \/ cb_close(t)
  \/ cb_leave_delete(t)
  \/ cb_delete(t)
  \/ rearm(t)
  \/ cb_leave(t)
  \/ ReleaseSteps(t)

Terminated == process = "down" /\ UNCHANGED vars

Next ==
  \/ /\ process = "up"
     /\ \/ create_common \/ start \/ reset \/ reset_empty
        \/ ReleaseSteps(Owner)
        \/ \E t \in Pool : CallbackSteps(t) \/ PoolStarts(t)
        \/ PoolFires
        \/ KeyChanges
  \/ Terminated

\* The operating system runs its threads and its pool; the client function
\* returns.  Nobody has to reset the watcher, nothing has to change.  A slim
\* lock promises no order, but between two callbacks that take m_lock the
\* pool is left and entered again: a waiting Release is let in some time.
Fairness ==
  /\ SF_vars(process = "up" /\ Release(Owner))
  /\ WF_vars(process = "up" /\ (start \/ ReleaseSteps(Owner)))
  /\ \A t \in Pool : WF_vars(process = "up" /\ CallbackSteps(t))
  /\ WF_vars(process = "up" /\ PoolFires)
  /\ WF_vars(process = "up" /\ \E t \in Pool : PoolStarts(t))

Spec == Init /\ [][Next]_vars
FairSpec == Spec /\ Fairness

---------------------------------------------------------------------------
(* Properties.                                                             *)

OwnerStates == {"create", "start", "hold", "Release", "leave", "leave_delete",
                "Destroy", "WaitForCallbacks", "CloseThreadpoolWait", "delete",
                "done"}
PoolStates == {"idle", "callback", "RegNotify", "m_callback", "in_callback",
               "Release", "leave", "ReleaseFromCallback", "cb_close",
               "cb_leave_delete", "cb_delete", "rearm", "cb_leave"}

\* Also: a thread of the pool never gets to deleting the state through
\* Release, where it would wait for itself.
TypeOK ==
  /\ tpWait \in {"none", "idle", "armed", "closed"}
  /\ event \in BOOLEAN
  /\ queued \in Nat
  /\ pc \in [Threads -> OwnerStates \cup PoolStates]
  /\ pc[Owner] \in OwnerStates
  /\ \A t \in Pool : pc[t] \in PoolStates
  /\ m_refCount \in Nat
  /\ m_lock \in Threads \cup {NoThread}
  /\ freed \in {0, 1}
  /\ held \in BOOLEAN
  /\ error \in [Pool -> Errors]
  /\ key \in Errors
  /\ notify \in BOOLEAN
  /\ dirty \in BOOLEAN
  /\ process \in {"up", "down"}

\* No thread whose next step reads or writes the state, the client function
\* it holds included, finds it deleted, and it is deleted once
\* (registry.h:3213, "Enable for testing to find use after free bugs").
NoUseAfterFree ==
  \A t \in Threads :
    pc[t] \notin {"create", "idle", "hold", "done"} => freed = 0

\* "Call the client before re-arming to ensure that multiple callbacks don't
\* run concurrently" (registry.h:3293).
OneCallAtATime ==
  \A t, u \in Pool :
    pc[t] \in {"RegNotify", "m_callback", "in_callback"}
      /\ pc[u] \in {"RegNotify", "m_callback", "in_callback"} => t = u

\* When everybody is through, nothing is left behind.
NoLeak ==
  (pc[Owner] = "done" /\ \A t \in Pool : pc[t] = "idle") => freed = 1

\* "That wait would cause a deadlock since we are doing this from the
\* callback" (registry.h:3207): no callback waits for the callbacks.
NoSelfWait == \A t \in Pool : pc[t] # "WaitForCallbacks"

\* Whoever resets the watcher gets back from it.
ReleaseReturns ==
  \A t \in Threads :
    pc[t] = "Release" ~> pc[t] \in {"done", "in_callback"} \/ process = "down"

\* A change of a key that can still be watched leads to a call of the client
\* function that begins after it, unless the watcher is reset.
EveryChangeReported ==
  dirty /\ held /\ key = "SUCCESS"
    ~> ~dirty \/ ~held \/ key # "SUCCESS" \/ process = "down"

---------------------------------------------------------------------------
(* The inductive invariant.                                                *)

\* The callback that has the turn: it was started and has not armed the wait
\* again, nor decided not to.
HasTurn(t) == t \in Pool /\ pc[t] \notin {"idle", "cb_leave"}

\* The callback's reference is counted.
HasRef(t) ==
  t \in Pool /\ pc[t] \in {"RegNotify", "m_callback", "in_callback", "Release",
                           "leave", "ReleaseFromCallback"}

\* The client's reference is counted.
ClientRef == held \/ \E t \in Threads : pc[t] = "Release"

CallbackRef == \E t \in Pool : HasRef(t)

Deleting(t) == \/ t = Owner /\ pc[t] \in {"leave_delete", "Destroy",
                   "WaitForCallbacks", "CloseThreadpoolWait", "delete"}
               \/ t \in Pool /\ pc[t] \in {"cb_close", "cb_leave_delete",
                   "cb_delete"}

\* One callback at a time is armed, queued or has the turn.
Turn ==
  /\ \A t, u \in Pool : HasTurn(t) /\ HasTurn(u) => t = u
  /\ (\E t \in Pool : HasTurn(t)) => tpWait # "armed" /\ queued = 0
  /\ tpWait = "armed" => queued = 0
  /\ queued <= 1

Lock ==
  \A t \in Threads :
    m_lock = t <=> pc[t] \in {"leave", "leave_delete", "rearm", "cb_close",
                              "cb_leave_delete", "cb_leave"}

\* m_refCount counts the two references; after it has been zero it counts
\* the one callback that came too late.
Count ==
  /\ ClientRef => m_refCount = IF CallbackRef THEN 2 ELSE 1
  /\ ~ClientRef /\ CallbackRef => m_refCount = 1
  /\ ~ClientRef /\ ~CallbackRef =>
       \/ m_refCount = 0
       \/ /\ m_refCount = 1
          /\ tpWait # "armed"
          /\ queued = 0
          /\ \A t \in Pool : ~HasTurn(t)

\* Who holds a reference has a state; the last one to drop it deletes it.
Life ==
  /\ ClientRef \/ CallbackRef =>
       freed = 0 /\ tpWait # "closed" /\ \A t \in Threads : ~Deleting(t)
  /\ \A t, u \in Threads : Deleting(t) /\ Deleting(u) => t = u
  /\ (\E t \in Threads : Deleting(t)) => freed = 0
  /\ \A t \in Threads : Deleting(t) /\ t \in Pool => m_refCount = 0
  /\ freed = 1 \/ pc[Owner] \in {"CloseThreadpoolWait", "delete"} =>
       tpWait # "armed" /\ queued = 0 /\ \A t \in Pool : pc[t] = "idle"
  /\ pc[Owner] = "WaitForCallbacks" => tpWait # "armed"
  /\ pc[Owner] # "create" /\ ~ClientRef /\ ~CallbackRef =>
       freed = 1 \/ \E t \in Threads : Deleting(t)

\* Where the other thread must be, seen from one.
Places ==
  /\ \A t \in Pool : held /\ HasTurn(t) => pc[t] \notin {"Release", "leave"}
  /\ \A t, u \in Threads : pc[t] = "Release" => ~held /\ (pc[u] = "Release" => t = u)
  /\ \A t \in Threads : pc[t] = "leave" => CallbackRef /\ ~ClientRef
  /\ \A t \in Pool : pc[t] \in {"rearm", "cb_leave"} => ClientRef
  /\ pc[Owner] = "start" =>
       /\ held
       /\ tpWait = "idle"
       /\ queued = 0
       /\ \A t \in Pool : pc[t] = "idle"
  /\ pc[Owner] = "create" =>
       /\ tpWait = "none"
       /\ queued = 0
       /\ m_refCount = 0
       /\ ~held
       /\ freed = 0
       /\ \A t \in Pool : pc[t] = "idle"
  /\ pc[Owner] \in {"Release", "leave", "leave_delete", "Destroy", "done",
                    "WaitForCallbacks", "CloseThreadpoolWait", "delete"} => ~held

IInv == TypeOK /\ Turn /\ Lock /\ Count /\ Life /\ Places

---------------------------------------------------------------------------
(* The contract the watcher keeps with its client.                         *)

Calling(t) == pc[t] \in {"in_callback", "Release", "leave", "leave_delete",
  "Destroy", "WaitForCallbacks", "CloseThreadpoolWait", "delete"}

Contract == INSTANCE WatchContract WITH
  Callers <- Pool,
  calling <- {t \in Pool : Calling(t)},
  ended   <- freed > 0

\* The watcher keeps the contract: no second call while one is running, none
\* after the state is gone, and the state outlives the call.
KeepsContract == Contract!Spec
==============================================================================
