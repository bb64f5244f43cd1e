---------------------------- MODULE ThreadErrors ----------------------------
(***************************************************************************)
(* The errors that wil remembers for each thread (include/wil/result.h):   *)
(* ThreadLocalData keeps the last few in a ring, each with the next number *)
(* of a counter of the whole process; ThreadErrorContext and tokens from   *)
(* GetCurrentErrorSequenceId mark a point after which errors are asked     *)
(* for, by code or without.  While a context is open, an error with a code *)
(* that was seen in it already is taken for the same error on its way up   *)
(* the call stack, so that what is kept is where it originated.            *)
(*                                                                         *)
(* A thread's data is found by its id and used by that thread only, or by  *)
(* a later thread that is given the same id.  SetLastError stands for a    *)
(* report that passes the guard of module ErrorReportGuard.                *)
(***************************************************************************)
EXTENDS Integers, Sequences, FiniteSets

CONSTANTS
  Threads,
  Codes,          \* failure codes
  Any,            \* S_OK as a filter: any code
  ErrorCount,     \* size of the ring, 5 in the code
  MaxContexts,    \* how deep contexts nest   (bounds of the model)
  MaxReports,     \* reports per thread
  MaxSequenceId   \* errors recorded

ASSUME CodesAssumption == Any \notin Codes

ASSUME ErrorCountAssumption == ErrorCount \in Nat \ {0}

VARIABLES
  failureSequenceId,  \* of the process
  known,      \* threads that have a ThreadLocalData
  allocated,  \* of these, the ones whose ring is allocated
  errors,     \* each thread's ring; sequenceId 0 in a slot never used
  errorCurrentIndex,
  latestSubscribedFailureSequenceId,
  contexts,   \* each thread's open contexts, innermost last
  token,      \* each thread's last token; like a context, it says what came before
  reports     \* what each thread reported, and the number it was recorded with

vars == <<failureSequenceId, known, allocated, errors, errorCurrentIndex,
          latestSubscribedFailureSequenceId, contexts, token, reports>>

Slots == 0 .. ErrorCount - 1
Unused == [sequenceId |-> 0, hr |-> Any]
NoToken == [start |-> 0, from |-> 0]

Init ==
  /\ failureSequenceId = 1
  /\ known = {} /\ allocated = {}
  /\ errors = [t \in Threads |-> [i \in Slots |-> Unused]]
  /\ errorCurrentIndex = [t \in Threads |-> 0]
  /\ latestSubscribedFailureSequenceId = [t \in Threads |-> 0]
  /\ contexts = [t \in Threads |-> <<>>]
  /\ token = [t \in Threads |-> NoToken]
  /\ reports = [t \in Threads |-> <<>>]

---------------------------------------------------------------------------
GetCurrentErrorSequenceId(t) ==
  /\ known' = known \cup {t}
  /\ allocated' = allocated \cup {t}
  /\ token' = [token EXCEPT ![t] = [start |-> failureSequenceId, from |-> Len(reports[t])]]
  /\ UNCHANGED <<failureSequenceId, errors, errorCurrentIndex,
                 latestSubscribedFailureSequenceId, contexts, reports>>

\* ThreadErrorContext::ThreadErrorContext
Open(t) ==
  /\ Len(contexts[t]) < MaxContexts
  /\ known' = known \cup {t}
  /\ contexts' = [contexts EXCEPT ![t] =
       Append(@, [start |-> failureSequenceId,
                  last  |-> latestSubscribedFailureSequenceId[t],
                  from  |-> Len(reports[t])])]
  /\ latestSubscribedFailureSequenceId' =
       [latestSubscribedFailureSequenceId EXCEPT ![t] = failureSequenceId]
  /\ UNCHANGED <<failureSequenceId, allocated, errors, errorCurrentIndex, token, reports>>

\* ThreadErrorContext::~ThreadErrorContext
Close_Unsubscribes(t) ==
  /\ contexts[t] # <<>>
  /\ contexts' = [contexts EXCEPT ![t] = SubSeq(@, 1, Len(@) - 1)]
  /\ latestSubscribedFailureSequenceId' =
       [latestSubscribedFailureSequenceId EXCEPT ![t] = 0]
  /\ UNCHANGED <<failureSequenceId, known, allocated, errors, errorCurrentIndex, token, reports>>

Close(t) ==
  /\ contexts[t] # <<>>
  /\ contexts' = [contexts EXCEPT ![t] = SubSeq(@, 1, Len(@) - 1)]
  /\ latestSubscribedFailureSequenceId' =
       [latestSubscribedFailureSequenceId EXCEPT ![t] = contexts[t][Len(contexts[t])].last]
  /\ UNCHANGED <<failureSequenceId, known, allocated, errors, errorCurrentIndex, token, reports>>

---------------------------------------------------------------------------
(* ThreadLocalData::SetLastError.                                          *)

Listening(t) == latestSubscribedFailureSequenceId[t] > 0

\* Seen at any time, not only in the innermost context.
Seen_Ever(t, hr) ==
  /\ Listening(t)
  /\ \E i \in Slots : errors[t][i].sequenceId > 0 /\ errors[t][i].hr = hr

Seen(t, hr) ==
  /\ Listening(t)
  /\ \E i \in Slots :
       /\ errors[t][i].sequenceId > latestSubscribedFailureSequenceId[t]
       /\ errors[t][i].hr = hr

\* The index is advanced after the slot is written.
Record_AdvancesLate(t, hr) ==
  /\ failureSequenceId' = failureSequenceId + 1
  /\ errors' = [errors EXCEPT ![t][errorCurrentIndex[t]] =
                 [sequenceId |-> failureSequenceId', hr |-> hr]]
  /\ errorCurrentIndex' = [errorCurrentIndex EXCEPT ![t] = (@ + 1) % ErrorCount]

Record(t, hr) ==
  LET next == (errorCurrentIndex[t] + 1) % ErrorCount IN
  /\ failureSequenceId' = failureSequenceId + 1
  /\ errors' = [errors EXCEPT ![t][next] =
                 [sequenceId |-> failureSequenceId', hr |-> hr]]
  /\ errorCurrentIndex' = [errorCurrentIndex EXCEPT ![t] = next]

Report(t, hr) ==
  LET recorded == t \in allocated' /\ ~Seen(t, hr) IN
  /\ Len(reports[t]) < MaxReports /\ failureSequenceId < MaxSequenceId
  /\ allocated' = IF t \in known /\ Listening(t) THEN allocated \cup {t} ELSE allocated
  /\ IF recorded
     THEN Record(t, hr)
     ELSE UNCHANGED <<failureSequenceId, errors, errorCurrentIndex>>
  /\ reports' = [reports EXCEPT ![t] =
       Append(@, [hr |-> hr, id |-> IF recorded THEN failureSequenceId' ELSE 0])]
  /\ UNCHANGED <<latestSubscribedFailureSequenceId, contexts, token>>

SetLastError(t, hr) == Report(t, hr) /\ UNCHANGED known

---------------------------------------------------------------------------
(* ThreadLocalData::GetLastError: the error found, Unused when none is.    *)

Newest(t) == errors[t][errorCurrentIndex[t]]

GetLastError(t, minSequenceId, matchRequirement) ==
  LET matching == {i \in Slots : /\ errors[t][i].hr = matchRequirement
                                 /\ errors[t][i].sequenceId > minSequenceId}
  IN IF t \notin allocated \/ minSequenceId >= Newest(t).sequenceId THEN Unused
     ELSE IF matchRequirement = Any THEN Newest(t)
     ELSE IF matching = {} THEN Unused
     ELSE errors[t][CHOOSE i \in matching :
            \A j \in matching : errors[t][i].sequenceId <= errors[t][j].sequenceId]

Found(t, minSequenceId, matchRequirement) ==
  GetLastError(t, minSequenceId, matchRequirement) # Unused

\* In the catch block of an exception with code hr: unless that error is the one
\* found, it is reported now.  Points are the ones that can be asked from.
Points(t) == {token[t], NoToken} \cup {contexts[t][k] : k \in DOMAIN contexts[t]}

GetCaughtExceptionError(t, point, matchRequirement, hr) ==
  /\ GetLastError(t, point.start, matchRequirement).hr # hr
  /\ known' = known \cup {t}
  /\ Report(t, hr)

\* A thread ends, with its contexts closed, and another one gets its id.
ThreadIdReused(t) ==
  /\ contexts[t] = <<>>
  /\ reports' = [reports EXCEPT ![t] = <<>>]
  /\ token' = [token EXCEPT ![t] = NoToken]
  /\ UNCHANGED <<failureSequenceId, known, allocated, errors, errorCurrentIndex,
                 latestSubscribedFailureSequenceId, contexts>>

---------------------------------------------------------------------------
Next ==
  \E t \in Threads :
    \/ GetCurrentErrorSequenceId(t)
    \/ Open(t)
    \/ Close(t)
    \/ \E hr \in Codes :
         \/ SetLastError(t, hr)
         \/ \E point \in Points(t), match \in Codes \cup {Any} :
              GetCaughtExceptionError(t, point, match, hr)
    \/ ThreadIdReused(t)

Spec == Init /\ [][Next]_vars

---------------------------------------------------------------------------
Contexts == [start : Nat, last : Nat, from : Nat]
Reports == [hr : Codes, id : Nat]

\* The ring has its slots, the index is one of them, and no number is ahead of
\* the counter.
TypeOK ==
  /\ failureSequenceId \in Nat \ {0}
  /\ allocated \subseteq known /\ known \subseteq Threads
  /\ errors \in [Threads -> [Slots -> [sequenceId : 0 .. failureSequenceId,
                                      hr : Codes \cup {Any}]]]
  /\ errorCurrentIndex \in [Threads -> Slots]
  /\ latestSubscribedFailureSequenceId \in [Threads -> 0 .. failureSequenceId]
  /\ contexts \in [Threads -> Seq(Contexts)]
  /\ reports \in [Threads -> Seq(Reports)]

\* Reports of a thread since its k-th context was opened.
Since(t, k) == {i \in DOMAIN reports[t] : i > contexts[t][k].from}
Recorded(t, k) == {i \in Since(t, k) : reports[t][i].id # 0}

\* The error under the current index is the newest of the thread: a ring is not
\* searched when that one is too old.
NewestIsCurrent ==
  \A t \in Threads : \A i \in Slots :
    errors[t][i].sequenceId <= Newest(t).sequenceId

\* A context in which an error was reported finds one, whatever contexts were
\* opened, and closed, within it, and whatever was reported before it.
ContextFindsError ==
  \A t \in Threads : \A k \in DOMAIN contexts[t] :
    Since(t, k) # {} => Found(t, contexts[t][k].start, Any)

\* Asked for a code, a context finds where an error with that code originated:
\* its first report since the context was opened, not what a caller made of it
\* on the way up, as long as the ring holds all errors since then.
OriginationFound ==
  \A t \in Threads : \A k \in DOMAIN contexts[t] : \A hr \in Codes :
    LET context == contexts[t][k]
        same == {i \in Since(t, k) : reports[t][i].hr = hr}
    IN Cardinality(Recorded(t, k)) <= ErrorCount /\ same # {} =>
         \E i \in same :
           /\ \A j \in same : i <= j
           /\ GetLastError(t, context.start, hr)
                = [sequenceId |-> reports[t][i].id, hr |-> hr]

---------------------------------------------------------------------------
(* The inductive invariant, of each thread's data.                         *)

\* Contexts are ordered, and what is subscribed to is the innermost.
Nested(t) ==
  /\ contexts[t] # <<>> => t \in known
  /\ latestSubscribedFailureSequenceId[t] =
       IF contexts[t] = <<>> THEN 0 ELSE contexts[t][Len(contexts[t])].start
  /\ \A k \in DOMAIN contexts[t] :
       /\ contexts[t][k].start \in 1 .. failureSequenceId
       /\ contexts[t][k].from <= Len(reports[t])
       /\ contexts[t][k].last = IF k = 1 THEN 0 ELSE contexts[t][k - 1].start
       /\ \A j \in 1 .. k : contexts[t][j].start <= contexts[t][k].start

Later(t, i) == {j \in DOMAIN reports[t] : j > i /\ reports[t][j].id # 0}

\* The slot so many places before the current one.
Behind(t, n) ==
  IF n <= errorCurrentIndex[t] THEN errorCurrentIndex[t] - n
  ELSE errorCurrentIndex[t] - n + ErrorCount

Kept(t, slot, i) ==
  errors[t][slot] = [sequenceId |-> reports[t][i].id, hr |-> reports[t][i].hr]

\* The ring holds the errors recorded last, in order.
RingInOrder(t) ==
  /\ \A slot \in Slots : errors[t][slot].sequenceId <= Newest(t).sequenceId
  /\ \A i \in DOMAIN reports[t] : reports[t][i].id <= failureSequenceId
  /\ \A i, j \in DOMAIN reports[t] :
       i < j /\ reports[t][j].id # 0 => reports[t][i].id < reports[t][j].id
  /\ \A i \in DOMAIN reports[t] :
       reports[t][i].id # 0 /\ Cardinality(Later(t, i)) < ErrorCount
         => Kept(t, Behind(t, Cardinality(Later(t, i))), i)

\* What a context has heard: an error that was not recorded is one that was
\* before, and what the ring holds from after the opening was reported since.
Heard(t, k) ==
  LET context == contexts[t][k] IN
  /\ Since(t, k) # {}
       => t \in allocated /\ context.start < Newest(t).sequenceId
  /\ \A i \in Since(t, k) :
       IF reports[t][i].id # 0 THEN context.start < reports[t][i].id
       ELSE \E j \in Recorded(t, k) : j < i /\ reports[t][j].hr = reports[t][i].hr
  /\ \A slot \in Slots : errors[t][slot].sequenceId > context.start
       => \E i \in Since(t, k) : Kept(t, slot, i)

InOrder(t) ==
  /\ Nested(t) /\ RingInOrder(t)
  /\ \A k \in DOMAIN contexts[t] : Heard(t, k)

IInv == TypeOK /\ \A t \in Threads : InOrder(t)
=============================================================================
