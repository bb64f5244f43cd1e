---------------------------- MODULE WatchContract ----------------------------
(***************************************************************************)
(* What a watcher of this library promises its client: the client function *)
(* is never called while another call of it is running, and the state of   *)
(* the watcher, which holds the function, goes only when no call of it is  *)
(* running and before no later one.                                        *)
(***************************************************************************)
CONSTANT Callers  \* the threads that may call the client function

VARIABLES
  calling,  \* those that are in a call of it
  ended     \* the watcher's state is gone

Init == calling = {} /\ ended = FALSE

Call(t)   == calling = {} /\ ~ended /\ calling' = {t} /\ UNCHANGED ended
Return(t) == calling = {t} /\ calling' = {} /\ UNCHANGED ended
End       == calling = {} /\ ~ended /\ ended' = TRUE /\ UNCHANGED calling

Next == End \/ \E t \in Callers : Call(t) \/ Return(t)

Spec == Init /\ [][Next]_<<calling, ended>>
==============================================================================
