------------------------------ MODULE Activity ------------------------------
(***************************************************************************)
(* Telemetry activities (include/wil/Tracelogging.h) and the lists of      *)
(* failure callbacks they stand on (ThreadFailureCallbackHolder in         *)
(* include/wil/result.h).  One activity is started, split, moved, copied,  *)
(* watched for failures and stopped, by objects on several threads.        *)
(*                                                                         *)
(* An object keeps its activity's data in itself until it is first copied; *)
(* from then on the data are in a counted cell that all copies point to.   *)
(* Sections of code under the cell's lock are single steps.                *)
(***************************************************************************)
EXTENDS Integers, SequencesExt

CONSTANTS
  Threads, NoThread,
  Objects,           \* places for activity objects
  Watchers,          \* places for ActivityThreadWatcher objects
  Cell,              \* the shared_object<ActivityData>
  Codes, OK, Unhandled,
  Failures           \* codes of the errors reported on threads

Holders == Objects \cup Watchers
None == "none"

ASSUME ActivityAssumption ==
  /\ NoThread \notin Threads /\ Cell \notin Objects /\ None \notin Objects \cup {Cell}
  /\ OK \notin Codes /\ Unhandled \notin Codes /\ OK # Unhandled
  /\ Objects \cap Watchers = {} /\ Failures \subseteq Codes
  /\ IsFiniteSet(Objects)

VARIABLES
  mem,       \* ActivityData by place: an object or the cell
  ptr,       \* m_pActivityData of each live object, None for no object
  shared,    \* m_sharedActivityData points to the cell
  refs,      \* m_refCount of the cell
  holder,    \* m_threadId of each callback holder
  list,      \* each thread's list of holders
  target,    \* m_pCallback of each watcher, None for no watcher
  owner,     \* the thread that uses an object
  share,     \* the client still owes a Stop through this object
  at,        \* what each thread is doing
  reported,  \* results of the stop events written
  votes, shares   \* history: results given to Stop; 1 + number of splits

vars == <<mem, ptr, shared, refs, holder, list, target, owner, share, at,
          reported, votes, shares>>
memory == <<mem, ptr, shared, refs>>
watching == <<holder, list, target>>
history == <<reported, votes, shares>>

Idle == [op |-> "idle"]
NewData == [status |-> "new", result |-> OK, failure |-> OK, stops |-> 1]

Init ==
  /\ mem = [m \in Objects \cup {Cell} |-> NewData]
  /\ ptr = [o \in Objects |-> None]
  /\ shared = [o \in Objects |-> FALSE]
  /\ refs = 0
  /\ holder = [h \in Holders |-> NoThread]
  /\ list = [t \in Threads |-> <<>>]
  /\ target = [w \in Watchers |-> None]
  /\ owner = [o \in Objects |-> NoThread]
  /\ share = [o \in Objects |-> FALSE]
  /\ at = [t \in Threads |-> Idle]
  /\ reported = <<>> /\ votes = <<>> /\ shares = 0

Live(o) == ptr[o] # None
IsRunning(o) == mem[ptr[o]].status = "started"
Uses(t, o) == at[t] = Idle /\ Live(o) /\ owner[o] = t
Watched(o) == \E w \in Watchers : target[w] = o

---------------------------------------------------------------------------
(* Holders of callbacks, and the thread lists after they start and stop.   *)

Watching == [holder |-> holder, list |-> list]
BecomesWatching(w) == holder' = w.holder /\ list' = w.list

StartWatching(w, t, h) ==
  [holder |-> [w.holder EXCEPT ![h] = t],
   list   |-> [w.list EXCEPT ![t] = <<h>> \o @]]

\* A holder that stopped is left in the list.
StopWatching_Forgets(w, h) ==
  [w EXCEPT !.holder = [@ EXCEPT ![h] = NoThread]]

\* A holder leaves the list of the thread it is on.
StopWatching(w, h) ==
  IF w.holder[h] = NoThread THEN w
  ELSE [holder |-> [w.holder EXCEPT ![h] = NoThread],
        list   |-> [w.list EXCEPT ![w.holder[h]] = RemoveFirst(@, h)]]

\* The holder of h2 watches as h did.
HolderMoved(w, t, h, h2) ==
  IF w.holder[h] = NoThread THEN w
  ELSE StartWatching(StopWatching(w, h), t, h2)

---------------------------------------------------------------------------
(* ActivityData *)

\* The last result given, rather than the first failure.
SetStopResult_KeepsLast(d, r) ==
  [d EXCEPT !.result = r, !.stops = @ - 1]

SetStopResult(d, r) ==
  [d EXCEPT !.result = IF @ = OK THEN r ELSE @, !.stops = @ - 1]

IncrementExpectedStopCount(d) == [d EXCEPT !.stops = @ + 1]

SetUnhandledException(d) == SetStopResult(d, IF d.failure # OK THEN d.failure ELSE Unhandled)

DataNotifyFailure(d, f) ==
  IF f # d.failure /\ (f # d.result \/ d.result = OK) THEN [d EXCEPT !.failure = f] ELSE d

---------------------------------------------------------------------------
(* Making objects *)

\* Start: a new object, whose start event is written and which watches.
Start(t, o) ==
  /\ at[t] = Idle /\ shares = 0
  /\ mem' = [mem EXCEPT ![o] = [NewData EXCEPT !.status = "started"]]
  /\ ptr' = [ptr EXCEPT ![o] = o]
  /\ owner' = [owner EXCEPT ![o] = t]
  /\ share' = [share EXCEPT ![o] = TRUE]
  /\ BecomesWatching(StartWatching(Watching, t, o))
  /\ shares' = 1
  /\ UNCHANGED <<shared, refs, target, at, reported, votes>>

\* The object that is copied keeps pointing into itself.
CopyTo_OriginalStays(o, p) ==
  /\ mem' = IF shared[o] THEN mem ELSE [mem EXCEPT ![Cell] = mem[o], ![o] = NewData]
  /\ refs' = IF shared[o] THEN refs + 1 ELSE 2
  /\ shared' = [shared EXCEPT ![o] = TRUE, ![p] = TRUE]
  /\ ptr' = [ptr EXCEPT ![p] = Cell]

\* What a copy of o to p does, by constructor or by assignment: the first copy
\* moves the data to the cell.
CopyTo(o, p) ==
  /\ mem' = IF shared[o] THEN mem
            ELSE [mem EXCEPT ![Cell] = mem[o], ![o] = NewData]
  /\ refs' = IF shared[o] THEN refs + 1 ELSE 2
  /\ shared' = [shared EXCEPT ![o] = TRUE, ![p] = TRUE]
  /\ ptr' = [ptr EXCEPT ![o] = Cell, ![p] = Cell]

\* Split first counts one more Stop, under the lock, and then copies.
Split(t, o) ==
  /\ Uses(t, o) /\ share[o] /\ IsRunning(o)
  /\ shares < Cardinality(Objects)
  /\ mem' = [mem EXCEPT ![ptr[o]] = IncrementExpectedStopCount(@)]
  /\ shares' = shares + 1
  /\ at' = [at EXCEPT ![t] = [op |-> "copy", o |-> o]]
  /\ UNCHANGED <<ptr, shared, refs, holder, list, target, owner, share, reported, votes>>

SplitCopies(t, p) ==
  /\ at[t].op = "copy" /\ ~Live(p)
  /\ CopyTo(at[t].o, p)
  /\ owner' = [owner EXCEPT ![p] = t]
  /\ share' = [share EXCEPT ![p] = TRUE]
  /\ at' = [at EXCEPT ![t] = Idle]
  /\ UNCHANGED <<watching, history>>

\* Copying over an object that has no activity.  The copy owes no Stop.
CopyAssign(t, o, p) ==
  /\ Uses(t, o) /\ Uses(t, p) /\ o # p /\ IsRunning(o) /\ ~shared[p] /\ ~IsRunning(p)
  /\ CopyTo(o, p)
  /\ BecomesWatching(StopWatching(Watching, p))
  /\ UNCHANGED <<target, owner, share, at, history>>

\* Objects after o was moved to p.  Of what is left of o only the status is read.
Moved(m, p, o) ==
  [mem |-> [m.mem EXCEPT ![p] = m.mem[o], ![o] = NewData],
   shared |-> [m.shared EXCEPT ![p] = m.shared[o], ![o] = FALSE],
   ptr |-> [m.ptr EXCEPT ![p] = IF m.shared[o] THEN Cell ELSE p, ![o] = o],
   share |-> [m.share EXCEPT ![p] = m.share[o], ![o] = FALSE]]

Objs == [mem |-> mem, shared |-> shared, ptr |-> ptr, share |-> share]
BecomesObjs(m) == mem' = m.mem /\ shared' = m.shared /\ ptr' = m.ptr /\ share' = m.share

\* The move constructor: TransferToCurrentThread watches when the activity runs,
\* TransferToMember does not, an ordinary move as the source did.
MoveConstruct(t, o, p) ==
  /\ Uses(t, o) /\ ~Live(p) /\ ~Watched(o)
  /\ \E watch \in {IsRunning(o), FALSE, holder[o] # NoThread} :
       LET left == StopWatching(Watching, o)
       IN BecomesWatching(IF watch THEN StartWatching(left, t, p) ELSE left)
  /\ BecomesObjs(Moved(Objs, p, o))
  /\ owner' = [owner EXCEPT ![p] = t]
  /\ UNCHANGED <<refs, target, at, history>>

\* Move assignment: the old activity of p moves to a local object, which dies.
MoveAssign(t, o, p, l) ==
  /\ Uses(t, o) /\ Uses(t, p) /\ o # p /\ ~Live(l) /\ ~Watched(o) /\ ~Watched(p)
  /\ BecomesObjs(Moved(Moved(Objs, l, p), p, o))
  /\ BecomesWatching(HolderMoved(HolderMoved(Watching, t, p, l), t, o, p))
  /\ owner' = [owner EXCEPT ![l] = t]
  /\ at' = [at EXCEPT ![t] = [op |-> "destroy", o |-> l]]
  /\ UNCHANGED <<refs, target, history>>

\* An object that does not watch may go to another thread.
Handover(t, u, o) ==
  /\ Uses(t, o) /\ holder[o] = NoThread /\ ~Watched(o) /\ u # t
  /\ owner' = [owner EXCEPT ![o] = u]
  /\ UNCHANGED <<memory, watching, share, at, history>>

---------------------------------------------------------------------------
(* Stopping *)

\* Stop, or StopWithResult.  Without the last one it writes an intermediate event.
Stop(t, o, r) ==
  /\ Uses(t, o) /\ share[o]
  /\ LET d == SetStopResult(mem[ptr[o]], r) IN
       /\ mem' = [mem EXCEPT ![ptr[o]] = d]
       /\ IF d.stops = 0
          THEN /\ at' = [at EXCEPT ![t] = [op |-> "report", o |-> o, next |-> "ignore"]]
               /\ UNCHANGED <<holder, list>>
          ELSE /\ BecomesWatching(StopWatching(Watching, o))
               /\ UNCHANGED at
  /\ share' = [share EXCEPT ![o] = FALSE]
  /\ votes' = Append(votes, r)
  /\ UNCHANGED <<ptr, shared, refs, target, owner, reported, shares>>

\* ReportStopActivity: zInternalStop, the stop event, IgnoreCurrentThread.
ReportStopActivity(t) ==
  /\ at[t].op = "report"
  /\ LET o == at[t].o IN
       /\ reported' = Append(reported, mem[ptr[o]].result)
       /\ mem' = [mem EXCEPT ![ptr[o]].status = "stopped"]
       /\ BecomesWatching(StopWatching(Watching, o))
       /\ at' = [at EXCEPT ![t] = IF at[t].next = "ignore" THEN Idle ELSE [op |-> "release", o |-> o]]
  /\ UNCHANGED <<ptr, shared, refs, target, owner, share, votes, shares>>

\* The destructor of an object begins.
BeginDestroy(t, o) ==
  /\ Uses(t, o) /\ ~Watched(o)
  /\ at' = [at EXCEPT ![t] = [op |-> "destroy", o |-> o]]
  /\ UNCHANGED <<memory, watching, owner, share, history>>

\* The last holder lets go like the others.
Destroy_LetsGo(t) ==
  /\ at[t].op = "destroy"
  /\ LET o == at[t].o IN
       IF shared[o]
       THEN /\ shared' = [shared EXCEPT ![o] = FALSE]
            /\ refs' = refs - 1
            /\ at' = [at EXCEPT ![t].op = "release"]
       ELSE /\ at' = [at EXCEPT ![t].op = "last"]
            /\ UNCHANGED <<shared, refs>>
  /\ UNCHANGED <<mem, ptr, watching, owner, share, history>>

\* Under the lock: all but the last holder of the cell just let go of it.
Destroy(t) ==
  /\ at[t].op = "destroy"
  /\ LET o == at[t].o IN
       IF shared[o] /\ refs # 1
       THEN /\ shared' = [shared EXCEPT ![o] = FALSE]
            /\ refs' = refs - 1
            /\ at' = [at EXCEPT ![t].op = "release"]
       ELSE /\ at' = [at EXCEPT ![t].op = "last"]
            /\ UNCHANGED <<shared, refs>>
  /\ UNCHANGED <<mem, ptr, watching, owner, share, history>>

\* The data are this object's alone: an activity that runs is stopped now.
DestroyLast(t) ==
  /\ at[t].op = "last"
  /\ LET o == at[t].o IN
       IF IsRunning(o)
       THEN /\ mem' = [mem EXCEPT ![ptr[o]] = SetUnhandledException(@)]
            /\ at' = [at EXCEPT ![t] = [op |-> "report", o |-> o, next |-> "release"]]
       ELSE /\ at' = [at EXCEPT ![t].op = "release"]
            /\ UNCHANGED mem
  /\ UNCHANGED <<ptr, shared, refs, watching, owner, share, history>>

\* The members' destructors: the callback holder, then the shared data.
Release(t) ==
  /\ at[t].op = "release"
  /\ LET o == at[t].o IN
       /\ BecomesWatching(StopWatching(Watching, o))
       /\ refs' = IF shared[o] THEN refs - 1 ELSE refs
       /\ shared' = [shared EXCEPT ![o] = FALSE]
       /\ ptr' = [ptr EXCEPT ![o] = None]
       /\ mem' = [mem EXCEPT ![o] = NewData]
       /\ share' = [share EXCEPT ![o] = FALSE]
       /\ owner' = [owner EXCEPT ![o] = NoThread]
  /\ at' = [at EXCEPT ![t] = Idle]
  /\ UNCHANGED <<target, history>>

---------------------------------------------------------------------------
(* Failures *)

\* ContinueOnCurrentThread: a watcher on the stack of t, and its end.
Watch(t, w, o) ==
  /\ Uses(t, o) /\ IsRunning(o) /\ target[w] = None
  /\ target' = [target EXCEPT ![w] = o]
  /\ BecomesWatching(StartWatching(Watching, t, w))
  /\ UNCHANGED <<memory, owner, share, at, history>>

EndWatch(t, w) ==
  /\ at[t] = Idle /\ target[w] # None /\ holder[w] = t
  /\ target' = [target EXCEPT ![w] = None]
  /\ BecomesWatching(StopWatching(Watching, w))
  /\ UNCHANGED <<memory, owner, share, at, history>>

\* An error is reported on t: GetContextAndNotifyFailure calls one holder after
\* the other.  A holder's call takes the lock of its activity for itself.
Fail(t, f) ==
  /\ at[t] = Idle /\ list[t] # <<>>
  /\ at' = [at EXCEPT ![t] = [op |-> "notify", code |-> f, rest |-> list[t]]]
  /\ UNCHANGED <<memory, watching, owner, share, history>>

NotifyFailure(t) ==
  /\ at[t].op = "notify"
  /\ LET h == Head(at[t].rest)
         o == IF h \in Watchers THEN target[h] ELSE h
     IN mem' = [mem EXCEPT ![ptr[o]] = DataNotifyFailure(@, at[t].code)]
  /\ at' = [at EXCEPT ![t] =
                IF Len(at[t].rest) = 1 THEN Idle
                ELSE [op |-> "notify", code |-> at[t].code, rest |-> Tail(at[t].rest)]]
  /\ UNCHANGED <<ptr, shared, refs, watching, owner, share, history>>

---------------------------------------------------------------------------
Next ==
  \E t \in Threads :
    \/ \E o \in Objects :
         \/ Start(t, o) \/ Split(t, o) \/ SplitCopies(t, o) \/ BeginDestroy(t, o)
         \/ \E p \in Objects :
              \/ CopyAssign(t, o, p) \/ MoveConstruct(t, o, p)
              \/ \E l \in Objects : MoveAssign(t, o, p, l)
         \/ \E u \in Threads : Handover(t, u, o)
         \/ \E r \in Codes \cup {OK} : Stop(t, o, r)
         \/ \E w \in Watchers : Watch(t, w, o)
    \/ \E w \in Watchers : EndWatch(t, w)
    \/ \E f \in Failures : Fail(t, f)
    \/ ReportStopActivity(t) \/ Destroy(t) \/ DestroyLast(t) \/ Release(t)
    \/ NotifyFailure(t)

Spec == Init /\ [][Next]_vars

---------------------------------------------------------------------------
\* The failures given to Stop.
Failed == {k \in DOMAIN votes : votes[k] # OK}
IsFirstFailure(r) == \E k \in Failed : votes[k] = r /\ \A j \in Failed : k <= j

\* One stop event for the activity, however it was split, moved and abandoned:
\* none while some object still leads to the running activity, exactly one from
\* then on (Destroy: "positively identify the final release").
StopIsReportedOnce ==
  shares > 0 =>
    IF \E o \in Objects : Live(o) /\ IsRunning(o) THEN reported = <<>> ELSE Len(reported) = 1

\* The stop event says success only if every share of the activity was stopped
\* with success; otherwise the first failure given to a Stop; with none, and a
\* share abandoned, it does not say success, whatever failure it names.
ReportedResultIsRight ==
  \A r \in Range(reported) : IF Failed = {} THEN r = OK <=> Len(votes) = shares
                             ELSE IsFirstFailure(r)

\* A thread's list of callbacks holds exactly the holders that watch it, each
\* once, and each leads to a live activity object of this thread: a failure
\* reported on the thread never calls what has gone or is another thread's.
ListsAreExact ==
  \A t \in Threads :
    /\ IsInjective(list[t])
    /\ Range(list[t]) = {h \in Holders : holder[h] = t}
    /\ \A h \in Range(list[t]) :
         LET o == IF h \in Watchers THEN target[h] ELSE h
         IN o # None /\ Live(o) /\ owner[o] = t

\* Objects find their data: in the cell if they share it, which is then counted,
\* else in themselves.  (An object that just let go is only to be released.)
PointersLeadToData ==
  /\ refs = Cardinality({o \in Objects : shared[o]})
  /\ \A o \in Objects :
       Live(o) /\ ~(\E t \in Threads : at[t].op = "release" /\ at[t].o = o)
         => ptr[o] = IF shared[o] THEN Cell ELSE o
=============================================================================
