---------------------------- MODULE OneShotResult ----------------------------
(***************************************************************************)
(* What a wil::task promises the two sides that share it: the coroutine    *)
(* produces one result; the owner of the task gives the task up once,      *)
(* either with that result in hand or without having looked; the storage   *)
(* they share is freed exactly when both are through, and only once.       *)
(***************************************************************************)

VARIABLES
  result,   \* "pending", then "value" or "error" for good
  taken,    \* "no", then how the owner let go
  freed     \* whether the shared storage is gone

vars == <<result, taken, freed>>

Init == result = "pending" /\ taken = "no" /\ freed = FALSE

Produce ==
  /\ result = "pending"
  /\ result' \in {"value", "error"}
  /\ UNCHANGED <<taken, freed>>

\* The owner gets the result itself, or learns that it could not be resumed
\* where it asked to be; never before there is a result.
Take ==
  /\ result # "pending"
  /\ taken = "no"
  /\ taken' \in {result, "hop_failed"}
  /\ UNCHANGED <<result, freed>>

Discard ==
  /\ taken = "no"
  /\ taken' = "discarded"
  /\ UNCHANGED <<result, freed>>

Free ==
  /\ result # "pending"
  /\ taken # "no"
  /\ ~freed
  /\ freed' = TRUE
  /\ UNCHANGED <<result, taken>>

Next == Produce \/ Take \/ Discard \/ Free

Spec == Init /\ [][Next]_vars
=============================================================================
