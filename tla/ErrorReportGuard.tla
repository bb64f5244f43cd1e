-------------------------- MODULE ErrorReportGuard --------------------------
(***************************************************************************)
(* wil::SetLastError (include/wil/result.h): what it calls may itself fail *)
(* and report that.  One variable of the module, lastThread, is meant to   *)
(* stop a thread from reporting within a report, without thread-local      *)
(* storage; threads that report together overwrite it, so a counter limits *)
(* how far a recursion can get that slips through.                         *)
(*                                                                         *)
(* A thread has a stack of calls, the current one last; each is the place  *)
(* the call has reached.                                                   *)
(***************************************************************************)
EXTENDS Integers, Sequences, FiniteSets

CONSTANTS
  Threads, NoThread,   \* NoThread is the 0 in lastThread
  DepthLimit           \* 4 in the code

VARIABLES
  lastThread, depth,
  calls       \* each thread's calls of SetLastError

vars == <<lastThread, depth, calls>>

Init ==
  /\ lastThread = NoThread
  /\ depth = 0
  /\ calls = [t \in Threads |-> <<>>]

Top(t) == IF calls[t] = <<>> THEN "none" ELSE calls[t][Len(calls[t])]
Goto(t, place) == calls' = [calls EXCEPT ![t][Len(calls[t])] = place]
Return(t) == calls' = [calls EXCEPT ![t] = SubSeq(@, 1, Len(@) - 1)]

---------------------------------------------------------------------------
SetLastError(t) ==
  /\ calls[t] = <<>>
  /\ calls' = [calls EXCEPT ![t] = <<"check">>]
  /\ UNCHANGED <<lastThread, depth>>

Check(t) ==
  /\ Top(t) = "check"
  /\ IF lastThread # t THEN Goto(t, "enter") ELSE Return(t)
  /\ UNCHANGED <<lastThread, depth>>

\* A call that goes too far is not counted out again.
Enter_LeavesCounted(t) ==
  /\ Top(t) = "enter"
  /\ depth' = depth + 1
  /\ IF depth' < DepthLimit THEN Goto(t, "mark") ELSE Return(t)
  /\ UNCHANGED lastThread

Enter_OneMore(t) ==
  /\ Top(t) = "enter"
  /\ depth' = depth + 1
  /\ IF depth < DepthLimit THEN Goto(t, "mark") ELSE Goto(t, "leave")
  /\ UNCHANGED lastThread

Enter(t) ==
  /\ Top(t) = "enter"
  /\ depth' = depth + 1
  /\ IF depth' < DepthLimit THEN Goto(t, "mark") ELSE Goto(t, "leave")
  /\ UNCHANGED lastThread

Mark(t) ==
  /\ Top(t) = "mark"
  /\ lastThread' = t
  /\ Goto(t, "lookup")
  /\ UNCHANGED depth

\* GetThreadLocalData finds the data, or there is none, and the error is stored.
Store(t) ==
  /\ Top(t) = "lookup"
  /\ Goto(t, "clear")
  /\ UNCHANGED <<lastThread, depth>>

\* GetThreadLocalData fails on the way and reports that first.
LookupFails(t) ==
  /\ Top(t) = "lookup"
  /\ calls' = [calls EXCEPT ![t] = Append([@ EXCEPT ![Len(@)] = "clear"], "check")]
  /\ UNCHANGED <<lastThread, depth>>

Clear(t) ==
  /\ Top(t) = "clear"
  /\ lastThread' = NoThread
  /\ Goto(t, "leave")
  /\ UNCHANGED depth

Leave(t) ==
  /\ Top(t) = "leave"
  /\ depth' = depth - 1
  /\ Return(t)
  /\ UNCHANGED lastThread

Next ==
  \E t \in Threads :
    \/ SetLastError(t) \/ Check(t) \/ Enter(t) \/ Mark(t) \/ Store(t)
    \/ LookupFails(t) \/ Clear(t) \/ Leave(t)

Spec == Init /\ [][Next]_vars

---------------------------------------------------------------------------
Places == {"check", "enter", "mark", "lookup", "clear", "leave"}
Entered == {"mark", "lookup", "clear", "leave"}

\* The calls of a thread that reached one of the places.
At(t, places) == {i \in DOMAIN calls[t] : calls[t][i] \in places}

\* The counter is never negative, and calls are at known places.
TypeOK ==
  /\ lastThread \in Threads \cup {NoThread}
  /\ depth \in Nat
  /\ calls \in [Threads -> Seq(Places)]

\* However many threads report, and fail in doing so, at once: a thread never
\* has more calls than the limit allows, so that its stack is bounded.
RecursionIsBounded ==
  \A t \in Threads : Cardinality(At(t, {"mark", "lookup", "clear"})) < DepthLimit

\* Whatever the threads overwrote, the guard is as new when nobody reports: no
\* thread stays muted, and no later report finds the counter used up.
GuardRecovers ==
  (\A t \in Threads : calls[t] = <<>>) => lastThread = NoThread /\ depth = 0

---------------------------------------------------------------------------
(* The inductive invariant.                                                *)

\* Calls of all threads that were counted in and not yet out.
Counted ==
  {c \in Threads \X Nat :
     c[2] \in DOMAIN calls[c[1]] /\ calls[c[1]][c[2]] \in Entered}

\* The counter is exact, however the threads interleave, and a thread is marked
\* only while a call of its own will still clear the mark.
IInv ==
  /\ TypeOK
  /\ IsFiniteSet(Counted) /\ depth = Cardinality(Counted)
  /\ lastThread # NoThread => At(lastThread, {"lookup", "clear"}) # {}
  /\ RecursionIsBounded
=============================================================================
