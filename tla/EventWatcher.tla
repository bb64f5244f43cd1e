---------------------------- MODULE EventWatcher ----------------------------
(***************************************************************************)
(* wil::unique_event_watcher (include/wil/resource.h, event_watcher_state  *)
(* and event_watcher_t) and wil::unique_folder_watcher                     *)
(* (include/wil/filesystem.h, folder_watcher_state and folder_watcher_t):  *)
(* a client function is called whenever an event, or the handle of a       *)
(* change notification, is signalled.  Unlike the registry watcher the     *)
(* state has one owner: the callback relies on the owner's destructor to   *)
(* wait for it.  The two differ in when the signal is taken back: an event *)
(* is reset before the client function is called, and the next change of a *)
(* folder is asked for after it; changes in between are recorded.          *)
(*                                                                         *)
(* start() arms the wait of any event watcher, whoever calls it and also   *)
(* when it is armed, queued or in its callback already.  The client        *)
(* function may call it, even while the owner is on the way to delete the  *)
(* state, of which it cannot know; it does not destroy the watcher that    *)
(* calls it.                                                               *)
(***************************************************************************)
EXTENDS ThreadpoolWait

CONSTANTS
  MaxQueued,  \* bound: callbacks queued at a time
  MaxStarts   \* bound: how often the wait is started

Flags == SUBSET {"manual_reset", "manual_start"}

VARIABLES
  kind,       \* "event" or "folder"
  m_flags,
  autoReset,  \* which kind of event it is
  recorded,   \* changes of the folder since the handle was signalled
  freed,      \* the state has been deleted
  dirty,      \* a SetEvent the client function has not been called for
  \* For the properties:
  starts,     \* how often the wait was started, by creation or start()
  lateArm     \* it was armed after the destructor had disarmed it

vars == <<tpWait, event, queued, pc, kind, m_flags, autoReset, recorded,
          freed, dirty, starts, lateArm>>
options == <<kind, m_flags, autoReset>>
history == <<starts, lateArm>>

Init ==
  /\ tpWait = "none"
  /\ event = FALSE
  /\ queued = 0
  /\ pc = [t \in Threads |-> IF t = Owner THEN "create" ELSE "idle"]
  /\ kind \in {"event", "folder"}
  /\ m_flags \in Flags
  /\ autoReset \in BOOLEAN
  /\ kind = "folder" => m_flags = {} /\ ~autoReset
  /\ recorded = FALSE
  /\ freed = FALSE
  /\ dirty = FALSE
  /\ starts = 0
  /\ lateArm = FALSE

---------------------------------------------------------------------------
\* The destructor has taken the wait out of use.
Disarmed == pc[Owner] \in {"WaitForCallbacks", "CloseThreadpoolWait", "delete", "done"}

\* Arming a wait that is closed is not defined: it is taken to be armed again.
Arm ==
  /\ SetThreadpoolWait(TRUE)
  /\ lateArm' = (lateArm \/ Disarmed)

\* Of a watched event that is not the client's to reset, and of no folder.
ResetsEvent ==
  event' = (event /\ (kind = "folder" \/ "manual_reset" \in m_flags))

(* Faulty variants of the steps below, to show what notices them.          *)

wait_callback_ArmsFirst(t) ==
  /\ Go(t, "callback", "m_callback")
  /\ ResetsEvent
  /\ IF "manual_start" \in m_flags THEN UNCHANGED tpWait ELSE SetThreadpoolWait(TRUE)
  /\ UNCHANGED <<queued, options, recorded, freed, dirty, history>>

return_ResetsLate(t) ==
  /\ Go(t, "in_callback", IF kind = "event" THEN "rearm" ELSE "FindNext")
  /\ event' = FALSE
  /\ UNCHANGED <<tpWait, queued, options, recorded, freed, dirty, history>>

destroy_wait_NoWait ==
  /\ Go(Owner, "Destroy", "delete")
  /\ tpWait' = "closed"
  /\ UNCHANGED <<event, queued, options, recorded, freed, dirty, history>>

---------------------------------------------------------------------------
(* The owner.                                                              *)

\* create_take_hevent_ownership: allocate the state, create the wait; start,
\* unless the client is to do so.
create_take_hevent_ownership ==
  /\ kind = "event"
  /\ \/ /\ Go(Owner, "create",
              IF "manual_start" \in m_flags THEN "hold" ELSE "start")
        /\ tpWait' = "idle"
     \/ /\ Go(Owner, "create", "done")
        /\ UNCHANGED tpWait
  /\ UNCHANGED <<event, queued, options, recorded, freed, dirty, history>>

\* create_common: the same for a folder, which is always started.
create_common ==
  /\ kind = "folder"
  /\ \/ /\ Go(Owner, "create", "start")
        /\ tpWait' = "idle"
     \/ /\ Go(Owner, "create", "done")
        /\ UNCHANGED tpWait
  /\ UNCHANGED <<event, queued, options, recorded, freed, dirty, history>>

Start ==
  /\ Arm
  /\ starts' = starts + 1
  /\ UNCHANGED <<event, queued, options, recorded, freed, dirty>>

create_start == Go(Owner, "start", "hold") /\ Start

\* start(), which only an event watcher has; called by the owner, ...
start ==
  /\ kind = "event" /\ starts < MaxStarts
  /\ Go(Owner, "hold", "hold")
  /\ Start

\* ... or by the client function, as long as there is a state to be got.
start_in_callback(t) ==
  /\ kind = "event" /\ starts < MaxStarts
  /\ ~freed
  /\ Go(t, "in_callback", "in_callback")
  /\ Start

\* delete_event_watcher_state or delete_folder_watcher_state, ...
reset ==
  /\ Go(Owner, "hold", "Destroy")
  /\ UNCHANGED <<waitVars, options, recorded, freed, dirty, history>>

\* ... the wait goes first ...
destroy_wait ==
  /\ Destroy(Owner) \/ WaitForCallbacks(Owner) \/ CloseThreadpoolWait(Owner)
  /\ UNCHANGED <<options, recorded, freed, dirty, history>>

\* ... then the event or the change handle, and the client function.
delete ==
  /\ Go(Owner, "delete", "done")
  /\ freed' = TRUE
  /\ UNCHANGED <<waitVars, options, recorded, dirty, history>>

---------------------------------------------------------------------------
(* wait_callback, or callback, on a thread of the pool.                    *)

\* "Manual events must be re-set to avoid missing the last notification."
wait_callback(t) ==
  /\ Go(t, "callback", "m_callback")
  /\ ResetsEvent
  /\ UNCHANGED <<tpWait, queued, options, recorded, freed, dirty, history>>

\* The client function is entered: it sees every change announced so far.
m_callback(t) ==
  /\ Go(t, "m_callback", "in_callback")
  /\ dirty' = FALSE
  /\ UNCHANGED <<waitVars, options, recorded, freed, history>>

return(t) ==
  /\ Go(t, "in_callback", IF kind = "event" THEN "rearm" ELSE "FindNext")
  /\ UNCHANGED <<waitVars, options, recorded, freed, dirty, history>>

\* FindNextChangeNotification: what was recorded signals the handle at once.
FindNext(t) ==
  /\ Go(t, "FindNext", "rearm")
  /\ event' = recorded
  /\ recorded' = FALSE
  /\ UNCHANGED <<tpWait, queued, options, freed, dirty, history>>

\* Re-arm the wait only if not manual start.
rearm(t) ==
  /\ Go(t, "rearm", "idle")
  /\ IF "manual_start" \in m_flags THEN UNCHANGED <<tpWait, lateArm>> ELSE Arm
  /\ UNCHANGED <<event, queued, options, recorded, freed, dirty, starts>>

---------------------------------------------------------------------------
\* Through the watcher, or through another handle to the event; or the folder
\* changes.
SetEvent ==
  /\ event' = TRUE
  /\ recorded' = (recorded \/ (kind = "folder" /\ event))
  /\ dirty' = TRUE
  /\ UNCHANGED <<tpWait, queued, pc, options, freed, history>>

PoolFires ==
  /\ queued < MaxQueued
  /\ Fire(autoReset)
  /\ UNCHANGED <<options, recorded, freed, dirty, history>>

PoolStarts(t) ==
  /\ StartCallback(t)
  /\ UNCHANGED <<options, recorded, freed, dirty, history>>

CallbackSteps(t) ==
  wait_callback(t) \/ m_callback(t) \/ return(t) \/ FindNext(t) \/ rearm(t)

Next ==
  \/ create_take_hevent_ownership \/ create_common \/ create_start \/ start
  \/ reset \/ destroy_wait \/ delete
  \/ \E t \in Pool : PoolStarts(t) \/ CallbackSteps(t) \/ start_in_callback(t)
  \/ PoolFires
  \/ SetEvent

\* The operating system runs its threads and its pool; the client function
\* returns.  Nobody has to signal, start or destroy.
Fairness ==
  /\ WF_vars(create_start \/ destroy_wait \/ delete)
  /\ \A t \in Pool : WF_vars(CallbackSteps(t))
  /\ WF_vars(PoolFires)
  /\ WF_vars(\E t \in Pool : PoolStarts(t))

Spec == Init /\ [][Next]_vars
FairSpec == Spec /\ Fairness

---------------------------------------------------------------------------
(* Properties.                                                             *)

OwnerStates == {"create", "start", "hold", "Destroy", "WaitForCallbacks",
                "CloseThreadpoolWait", "delete", "done"}
PoolStates == {"idle", "callback", "m_callback", "in_callback", "FindNext", "rearm"}

TypeOK ==
  /\ tpWait \in {"none", "idle", "armed", "closed"}
  /\ event \in BOOLEAN
  /\ queued \in Nat
  /\ pc \in [Threads -> OwnerStates \cup PoolStates]
  /\ pc[Owner] \in OwnerStates
  /\ \A t \in Pool : pc[t] \in PoolStates
  /\ kind \in {"event", "folder"}
  /\ recorded \in BOOLEAN
  /\ m_flags \in Flags
  /\ autoReset \in BOOLEAN
  /\ freed \in BOOLEAN
  /\ dirty \in BOOLEAN
  /\ starts \in Nat
  /\ lateArm \in BOOLEAN

\* "Call the client before re-arming to ensure that multiple callbacks don't
\* run concurrently" (resource.h:4447): one start means one call at a time.
\* Each further start() may add one, as it arms a wait whose callback runs.
OneCallPerStart ==
  Cardinality({t \in Pool : pc[t] \in {"m_callback", "in_callback"}}) <= starts

Quiet == queued = 0 /\ Running = {}

\* The destructor's wait leaves no callback that could touch the deleted state,
\* whatever was queued or running when it began, unless a callback arms the wait
\* behind its back, as the client function may with start() and wait_callback does.
QuietUnlessArmedLate == freed /\ ~lateArm => Quiet

\* The last change announced with SetEvent is seen by a call that begins
\* after it, unless the watcher goes.
LastChangeObserved ==
  dirty /\ pc[Owner] = "hold" /\ "manual_start" \notin m_flags
    ~> ~dirty \/ pc[Owner] # "hold"

\* "The thread pool must be last to ensure that the other members are valid
\* when it is destructed as it will reference them" (resource.h:4303): the
\* callback never finds the state deleted.
StateValidInCallback == freed => Quiet

---------------------------------------------------------------------------
(* The inductive invariant.                                                *)

\* A start is good for one of these at a time: the wait armed, a callback
\* queued, a thread that runs one.
Turns == (IF tpWait = "armed" THEN 1 ELSE 0) + queued + Cardinality(Running) <= starts

\* Nobody arms the wait once the destructor has disarmed it, so that waiting for
\* the callbacks leaves none.
Waited ==
  ~lateArm =>
    /\ Disarmed \/ pc[Owner] = "create" => tpWait # "armed"
    /\ pc[Owner] \in {"create", "CloseThreadpoolWait", "delete", "done"} => Quiet

IInv ==
  /\ TypeOK
  /\ Turns
  /\ Waited
  /\ freed => pc[Owner] = "done"
=============================================================================
