------------------------------- MODULE Task -------------------------------
(***************************************************************************)
(* wil::task / wil::com_task (include/wil/coroutine.h): the hand-over of   *)
(* one coroutine's result to the one client that owns the task.            *)
(*                                                                         *)
(* Two threads meet in the promise: the one that runs the coroutine to its *)
(* final suspension, and the client that awaits it (in any thread or in    *)
(* its own apartment), blocks in get(), or throws the task away.  Which of *)
(* them frees the frame, and who resumes whom, is decided by exchanges on  *)
(* the one atomic m_waiting.  Every read-modify-write of m_waiting is a    *)
(* step, and so is every plain access of another field that the other      *)
(* thread may race with.                                                   *)
(***************************************************************************)
EXTENDS Naturals

CONSTANTS
  Apartments,   \* the COM apartments (contexts) threads may run in
  STA,          \* those that are single threaded
  NoContext     \* CoGetObjectContext gave nothing: COM is not initialised

ASSUME ApartmentsAssumption ==
  /\ STA \subseteq Apartments
  /\ NoContext \notin Apartments

Kinds == {"agile", "context", "wake"}   \* resumers; "agile" is the null one
Modes == {"discard"} \cup Kinds

VARIABLES
  m_waiting,     \* "running", "completed", "abandoned" or "awaiter"
  m_resumer,     \* uninitialised until an awaiter suspends
  status,        \* result_holder::status
  restricted,    \* references held on the restricted error object
  frees,         \* how often destroy() has run on the coroutine frame
  co,            \* where the coroutine's thread is
  coApt,         \* the apartment that thread runs in
  cl,            \* where the client is
  mode,          \* how the client uses the task
  home,          \* the apartment (or NoContext) the client starts in
  at,            \* where the client's continuation runs
  context,       \* apartment_resumer::context
  resume_result, \* apartment_resumer::resume_result
  completed,     \* the bool on the stack of get()
  outcome,       \* what the client's await or get gave it
  process        \* "up", or "down" after terminate / a breakpoint

promiseVars == <<m_waiting, m_resumer, status, restricted, frees>>
awaiterVars == <<context, resume_result, completed>>
placeVars   == <<coApt, home, mode>>
vars == <<m_waiting, m_resumer, status, restricted, frees, co, coApt, cl,
          mode, home, at, context, resume_result, completed, outcome, process>>

Init ==
  /\ m_waiting = "running"
  /\ m_resumer = "unset"
  /\ status = "empty"
  /\ restricted = 0
  /\ frees = 0
  /\ co = "body"
  /\ coApt \in Apartments
  /\ cl = "owner"
  /\ mode \in Modes
  /\ home \in Apartments \cup {NoContext}
  /\ at = home
  /\ context = NoContext
  /\ resume_result = "S_OK"
  /\ completed = FALSE
  /\ outcome = "none"
  /\ process = "up"

\* ~result_holder and the frame go; the captured error object is released.
Destroy ==
  /\ frees' = frees + 1
  /\ restricted' = 0
  /\ UNCHANGED <<m_waiting, m_resumer, status>>

\* waiter(): the suspended client goes on, in apartment a.
Resume(a) ==
  /\ cl = "suspended"
  /\ cl' = "await_resume"
  /\ at' = a

---------------------------------------------------------------------------
(* Faulty variants of the steps below: each is a slip the protocol would   *)
(* not survive, kept to show which property notices it.                    *)

final_suspend_FreesUnclaimed ==
  /\ co = "final_suspend"
  /\ m_waiting' = "completed"
  /\ co' = IF m_waiting = "awaiter" THEN "resume_waiting" ELSE "destroy"
  /\ UNCHANGED <<m_resumer, status, restricted, frees, cl, at, outcome,
                 process, placeVars, awaiterVars>>

resume_in_context_Inline ==
  /\ co = "resume_in_context"
  /\ context' = NoContext
  /\ Resume(coApt)
  /\ co' = "returned"
  /\ UNCHANGED <<resume_result, completed, outcome, process, promiseVars,
                 placeVars>>

client_await_ready_Inverted ==
  /\ cl = "owner"
  /\ mode \in Kinds
  /\ cl' = IF m_waiting = "running" THEN "await_resume" ELSE "capture"
  /\ UNCHANGED <<co, at, outcome, process, promiseVars, placeVars, awaiterVars>>

client_await_suspend_AlwaysWaits ==
  /\ cl = "exchange"
  /\ m_waiting' = "awaiter"
  /\ cl' = IF mode = "wake" THEN "get_loop" ELSE "suspended"
  /\ UNCHANGED <<m_resumer, status, restricted, frees, co, at, outcome,
                 process, placeVars, awaiterVars>>

SpuriousWake_NoLoop ==
  /\ cl = "sleeping"
  /\ cl' = "await_resume"
  /\ UNCHANGED <<co, at, outcome, process, promiseVars, placeVars, awaiterVars>>

---------------------------------------------------------------------------
(* The coroutine's thread.                                                 *)

\* co_return: emplace_value, then on to final_suspend.
return_value ==
  /\ co = "body"
  /\ status' = "value"
  /\ co' = "final_suspend"
  /\ UNCHANGED <<m_waiting, m_resumer, restricted, frees, cl, at, outcome,
                 process, placeVars, awaiterVars>>

\* An exception leaves the body.  With the COM hooks installed, the
\* thread's restricted error object (if there is one) is captured too.
unhandled_exception ==
  /\ co = "body"
  /\ status' = "error"
  /\ restricted' \in {0, 1}
  /\ co' = "final_suspend"
  /\ UNCHANGED <<m_waiting, m_resumer, frees, cl, at, outcome, process,
                 placeVars, awaiterVars>>

\* final_suspend's await_suspend: publish the completion and see who waits.
final_suspend ==
  /\ co = "final_suspend"
  /\ m_waiting' = "completed"
  /\ co' = IF m_waiting = "abandoned" THEN "destroy"
           ELSE IF m_waiting = "running" THEN "returned"
           ELSE "resume_waiting"
  /\ UNCHANGED <<m_resumer, status, restricted, frees, cl, at, outcome,
                 process, placeVars, awaiterVars>>

co_destroy ==
  /\ co = "destroy"
  /\ Destroy
  /\ co' = "returned"
  /\ UNCHANGED <<cl, at, outcome, process, placeVars, awaiterVars>>

\* resume_waiting_coroutine: read m_resumer, the last access of this thread
\* to the promise, and call it.
resume_waiting_coroutine ==
  /\ co = "resume_waiting"
  /\ \/ /\ m_resumer = "agile"
        /\ Resume(coApt)
        /\ co' = "returned"
     \/ /\ m_resumer \in {"context", "wake"}
        /\ co' = IF m_resumer = "wake" THEN "wake_by_address"
                                       ELSE "resume_in_context"
        /\ UNCHANGED <<cl, at>>
  /\ UNCHANGED <<outcome, process, promiseVars, placeVars, awaiterVars>>

\* wake_by_address: *completed = true ...
wake_by_address ==
  /\ co = "wake_by_address"
  /\ completed' = TRUE
  /\ co' = "WakeByAddressSingle"
  /\ UNCHANGED <<cl, at, context, resume_result, outcome, process,
                 promiseVars, placeVars>>

\* ... and wake whoever sleeps on the address; get() may be gone by now.
WakeByAddressSingle ==
  /\ co = "WakeByAddressSingle"
  /\ cl' = IF cl = "sleeping" THEN "get_loop" ELSE cl
  /\ co' = "returned"
  /\ UNCHANGED <<at, outcome, process, promiseVars, placeVars, awaiterVars>>

\* resume_in_context: go on at once when there is no context or it is this
\* one; hop to the thread pool when this thread is an STA's, which must not
\* be blocked; otherwise make the call from here.
resume_in_context ==
  /\ co = "resume_in_context"
  /\ \/ /\ context \in {NoContext, coApt}
        /\ context' = NoContext
        /\ Resume(coApt)
        /\ co' = "returned"
        /\ UNCHANGED process
     \/ /\ context \notin {NoContext, coApt}
        /\ \/ /\ coApt \in STA
              /\ \/ co' = "pool" /\ UNCHANGED process
                 \* TrySubmitThreadpoolCallback failed: the throw leaves a
                 \* noexcept await_suspend.
                 \/ process' = "down" /\ UNCHANGED co
           \/ /\ coApt \notin STA
              /\ co' = "ContextCallback"
              /\ UNCHANGED process
        /\ UNCHANGED <<cl, at, context>>
  /\ UNCHANGED <<resume_result, completed, outcome, promiseVars, placeVars>>

\* The threadpool callback resume_context runs resume_context_sync.
resume_context ==
  /\ co = "pool"
  /\ co' = "ContextCallback"
  /\ UNCHANGED <<cl, at, outcome, process, promiseVars, placeVars, awaiterVars>>

\* resume_context_sync: the context is moved to a local first, because the
\* resumed client destroys the resumer.  When the apartment cannot be
\* entered the client goes on where it must not be, and is told why.
resume_context_sync ==
  /\ co = "ContextCallback"
  /\ context' = NoContext
  /\ \/ /\ Resume(context)
        /\ UNCHANGED resume_result
     \/ /\ resume_result' = "FAILED"
        /\ \E a \in Apartments \ {context} : Resume(a)
  /\ co' = "returned"
  /\ UNCHANGED <<completed, outcome, process, promiseVars, placeVars>>

---------------------------------------------------------------------------
(* The client.                                                             *)

\* client_await_ready: nothing to wait for when the coroutine has finished.
client_await_ready ==
  /\ cl = "owner"
  /\ mode \in Kinds
  /\ cl' = IF m_waiting # "running" THEN "await_resume" ELSE "capture"
  /\ UNCHANGED <<co, at, outcome, process, promiseVars, placeVars, awaiterVars>>

\* com_awaiter::await_suspend captures the client's context before anything
\* else.  With none to be had it executes a breakpoint, which ends the
\* process unless a debugger steps over it.
capture_context ==
  /\ cl = "capture"
  /\ IF mode = "context"
       THEN /\ context' = home
            /\ \/ cl' = "await_suspend" /\ UNCHANGED process
               \/ home = NoContext /\ process' = "down" /\ UNCHANGED cl
       ELSE cl' = "await_suspend" /\ UNCHANGED <<context, process>>
  /\ UNCHANGED <<co, at, resume_result, completed, outcome, promiseVars,
                 placeVars>>

\* client_await_suspend: say how to resume, ...
SetResumer ==
  /\ cl = "await_suspend"
  /\ m_resumer' = mode
  /\ cl' = "exchange"
  /\ UNCHANGED <<m_waiting, status, restricted, frees, co, at, outcome,
                 process, placeVars, awaiterVars>>

\* ... then publish the awaiter.  A coroutine that finished in between will
\* not resume anybody: the client goes on by itself.
client_await_suspend ==
  /\ cl = "exchange"
  /\ m_waiting' = "awaiter"
  /\ cl' = IF m_waiting # "running" THEN "await_resume"
           ELSE IF mode = "wake" THEN "get_loop"
           ELSE "suspended"
  /\ UNCHANGED <<m_resumer, status, restricted, frees, co, at, outcome,
                 process, placeVars, awaiterVars>>

\* while (!completed) WaitOnAddress(...): the test of the loop ...
get_loop ==
  /\ cl = "get_loop"
  /\ cl' = IF completed THEN "await_resume" ELSE "WaitOnAddress"
  /\ UNCHANGED <<co, at, outcome, process, promiseVars, placeVars, awaiterVars>>

\* ... and the wait, which compares once more before it sleeps.
WaitOnAddress ==
  /\ cl = "WaitOnAddress"
  /\ cl' = IF completed THEN "get_loop" ELSE "sleeping"
  /\ UNCHANGED <<co, at, outcome, process, promiseVars, placeVars, awaiterVars>>

\* WaitOnAddress may also return for no reason.
SpuriousWake ==
  /\ cl = "sleeping"
  /\ cl' = "get_loop"
  /\ UNCHANGED <<co, at, outcome, process, promiseVars, placeVars, awaiterVars>>

\* await_resume: check() rethrows a failed hop; else take the value or
\* rethrow the coroutine's exception.
await_resume ==
  /\ cl = "await_resume"
  /\ outcome' = IF resume_result = "FAILED" THEN "hop_failed" ELSE status
  /\ cl' = "abandon"
  /\ UNCHANGED <<co, at, process, promiseVars, placeVars, awaiterVars>>

\* A task destroyed (or assigned over) without an await.
discard ==
  /\ cl = "owner"
  /\ mode = "discard"
  /\ cl' = "abandon"
  /\ UNCHANGED <<co, at, outcome, process, promiseVars, placeVars, awaiterVars>>

\* abandon: the promise_ptr goes, in the awaiter, in get() or in the task.
abandon ==
  /\ cl = "abandon"
  /\ m_waiting' = "abandoned"
  /\ cl' = IF m_waiting # "running" THEN "destroy" ELSE "done"
  /\ UNCHANGED <<m_resumer, status, restricted, frees, co, at, outcome,
                 process, placeVars, awaiterVars>>

cl_destroy ==
  /\ cl = "destroy"
  /\ Destroy
  /\ cl' = "done"
  /\ UNCHANGED <<co, at, outcome, process, placeVars, awaiterVars>>

---------------------------------------------------------------------------
CoroutineBody == return_value \/ unhandled_exception

CoroutineThread ==
  \/ CoroutineBody
  \/ final_suspend
  \/ co_destroy
  \/ resume_waiting_coroutine
  \/ wake_by_address
  \/ WakeByAddressSingle
  \/ resume_in_context
  \/ resume_context
  \/ resume_context_sync

Client ==
  \/ client_await_ready
  \/ capture_context
  \/ SetResumer
  \/ client_await_suspend
  \/ get_loop
  \/ WaitOnAddress
  \/ await_resume
  \/ discard
  \/ abandon
  \/ cl_destroy

Finished == process = "down" \/ (co = "returned" /\ cl = "done")

Terminated == Finished /\ UNCHANGED vars

Next ==
  \/ process = "up" /\ (CoroutineThread \/ Client \/ SpuriousWake)
  \/ Terminated

\* Each thread is scheduled by the operating system; the body is assumed to
\* finish.  Nothing makes a spurious wake-up happen.
Fairness ==
  /\ WF_vars(process = "up" /\ CoroutineThread)
  /\ WF_vars(process = "up" /\ Client)

Spec == Init /\ [][Next]_vars
FairSpec == Spec /\ Fairness

---------------------------------------------------------------------------
(* Properties.                                                             *)

CoStates == {"body", "final_suspend", "destroy", "resume_waiting",
             "wake_by_address", "WakeByAddressSingle", "resume_in_context",
             "pool", "ContextCallback", "returned"}

ClStates == {"owner", "capture", "await_suspend", "exchange", "suspended",
             "get_loop", "WaitOnAddress", "sleeping", "await_resume",
             "abandon", "destroy", "done"}

TypeOK ==
  /\ m_waiting \in {"running", "completed", "abandoned", "awaiter"}
  /\ m_resumer \in {"unset"} \cup Kinds
  /\ status \in {"empty", "value", "error"}
  /\ restricted \in {0, 1}
  /\ frees \in {0, 1}
  /\ co \in CoStates
  /\ cl \in ClStates
  /\ coApt \in Apartments
  /\ mode \in Modes
  /\ home \in Apartments \cup {NoContext}
  /\ at \in Apartments \cup {NoContext}
  /\ context \in Apartments \cup {NoContext}
  /\ resume_result \in {"S_OK", "FAILED"}
  /\ completed \in BOOLEAN
  /\ outcome \in {"none", "hop_failed", "value", "error"}
  /\ process \in {"up", "down"}

\* The threads whose next step reads or writes the coroutine frame.
CoUsesFrame == co \in {"body", "final_suspend", "destroy", "resume_waiting"}
ClUsesFrame == cl \in {"owner", "await_suspend", "exchange", "await_resume",
                       "abandon", "destroy"}

\* No thread that is about to touch the frame finds it destroyed, and the
\* two threads never both set out to destroy it (coroutine.h:363, the
\* frame lives until both sides are through with it).
NoUseAfterFree ==
  /\ CoUsesFrame \/ ClUsesFrame => frees = 0
  /\ ~(co = "destroy" /\ cl = "destroy")

\* When both sides are through, the frame is gone: nothing is leaked, and
\* the captured error object has been released with it.
NoLeak ==
  co = "returned" /\ cl = "done" => frees = 1 /\ restricted = 0

\* The resumer object and the bool of get() live in the client's frame.
\* While the completing thread still has to read or write through its
\* pointer, the client has not gone on (coroutine.h:847 warns that the
\* resumed coroutine destroys the context in use).
AwaiterOutlivesResumer ==
  /\ co \in {"resume_in_context", "pool", "ContextCallback"}
       => cl = "suspended"
  /\ co = "wake_by_address" => cl \in {"get_loop", "WaitOnAddress", "sleeping"}

\* com_task's promise: a value or the coroutine's own exception reaches a
\* client that suspended only in the apartment it awaited from; anywhere
\* else it gets the failure of the hop instead.
BackInApartment ==
  outcome \in {"value", "error"} /\ mode = "context" /\ home \in Apartments
    => at = home

\* A client that suspended or blocked is let go, unless the process died.
ClientGoesOn ==
  cl \in {"suspended", "sleeping"} ~> cl = "done" \/ process = "down"

---------------------------------------------------------------------------
(* The inductive invariant behind the safety properties.                   *)

CoLive  == co \in {"body", "final_suspend"}
CoCalls == co \in {"resume_waiting", "wake_by_address", "resume_in_context",
                   "pool", "ContextCallback"}
ClEarly == \/ cl \in {"owner", "capture", "await_suspend", "exchange"}
           \/ cl = "abandon" /\ mode = "discard"
ClWaits == cl \in {"suspended", "get_loop", "WaitOnAddress", "sleeping"}

\* While the coroutine runs, m_waiting tells exactly how far the client is;
\* after its final exchange, the thread that is still to act has the frame.
Handover ==
  /\ CoLive => \/ m_waiting = "running"   /\ ClEarly
               \/ m_waiting = "awaiter"   /\ ClWaits
               \/ m_waiting = "abandoned" /\ cl = "done"
  /\ ~CoLive => m_waiting # "running"
  /\ ~CoLive /\ ClEarly => m_waiting = "completed"
  /\ co = "destroy" => cl = "done"
  /\ CoCalls => ClWaits
  /\ co = "returned" /\ ClWaits => completed /\ cl # "sleeping"
  /\ frees = 1 <=> cl = "done" /\ ~CoLive /\ co # "destroy"
  /\ frees = 1 => restricted = 0

\* What each thread knows from where it is.
Locals ==
  /\ status = "empty" <=> co = "body"
  /\ restricted = 1 => status = "error"
  /\ cl \in {"exchange"} \/ ClWaits => m_resumer = mode
  /\ cl = "suspended" => mode \in {"agile", "context"}
  /\ cl \in {"get_loop", "WaitOnAddress", "sleeping"} => mode = "wake"
  /\ cl \in {"capture", "await_suspend", "exchange", "await_resume"}
       => mode # "discard"
  /\ co \in {"wake_by_address", "WakeByAddressSingle"} => mode = "wake"
  /\ co \in {"resume_in_context", "pool", "ContextCallback"}
       => mode = "context"
  /\ completed => co \in {"WakeByAddressSingle", "returned"}
  /\ co = "WakeByAddressSingle" => completed
  /\ outcome = "none" <=>
       ClEarly \/ ClWaits \/ cl = "await_resume" \/ mode = "discard"
  /\ outcome \in {"value", "error"} => outcome = status

\* Where the client is, and what the resumer carries there.
Places ==
  /\ ClEarly \/ ClWaits => at = home /\ resume_result = "S_OK"
  /\ mode = "context" /\ cl \in {"await_suspend", "exchange", "suspended"}
       => context = home
  /\ co \in {"pool", "ContextCallback"} => context \in Apartments
  /\ resume_result = "S_OK" /\ mode = "context"
       => at = home \/ home = NoContext
  /\ outcome \in {"value", "error"} => resume_result = "S_OK"

IInv == TypeOK /\ Handover /\ Locals /\ Places

---------------------------------------------------------------------------
(* The abstract specification the hand-over implements.                    *)

Result == INSTANCE OneShotResult WITH
  result <- IF status = "empty" THEN "pending" ELSE status,
  taken  <- IF outcome # "none" THEN outcome
            ELSE IF mode = "discard" /\ cl \in {"destroy", "done"}
            THEN "discarded" ELSE "no",
  freed  <- frees = 1

\* The hand-over implements the one-shot result: it is taken once, complete,
\* and the storage is freed once, after both sides are through.
IsOneShotResult == Result!Spec

===========================================================================
