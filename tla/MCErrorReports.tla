--------------------------- MODULE MCErrorReports ---------------------------
(***************************************************************************)
(* The two halves of wil::SetLastError, each on its own instance: a        *)
(* behaviour is one of the thread errors or one of the guard before them.  *)
(* For the errors: a ring of two, so that it wraps, and two codes, so that *)
(* one returns.  For the guard: three threads and a limit of three, so     *)
(* that reports are turned away.                                           *)
(***************************************************************************)
EXTENDS ThreadErrors

CONSTANTS Reporters, NoThread, DepthLimit

ASSUME GuardAssumption == NoThread \notin Reporters /\ DepthLimit \in Nat \ {0}

VARIABLES half, lastThread, depth, calls

Guard == INSTANCE ErrorReportGuard WITH Threads <- Reporters

MCInit ==
  /\ half \in {"errors", "guard"}
  /\ Init
  /\ Guard!Init

MCNext ==
  \/ half = "errors" /\ Next /\ UNCHANGED <<half, lastThread, depth, calls>>
  \/ half = "guard" /\ Guard!Next /\ UNCHANGED half /\ UNCHANGED vars

MCSpec == MCInit /\ [][MCNext]_<<vars, half, lastThread, depth, calls>>

RecursionIsBounded == Guard!RecursionIsBounded
GuardRecovers == Guard!GuardRecovers
=============================================================================
