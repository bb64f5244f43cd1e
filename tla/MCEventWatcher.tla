--------------------------- MODULE MCEventWatcher ---------------------------
(***************************************************************************)
(* The owner's thread and three threads of the pool.  The watcher is an    *)
(* instance, and not extended, for the sake of module WatcherProofs, which *)
(* has the registry watcher's definitions as well.                         *)
(***************************************************************************)
EXTENDS ThreadpoolWait

CONSTANTS MaxQueued, MaxStarts, p1, p2, p3

VARIABLES kind, m_flags, autoReset, recorded, eventFreed, eventDirty, starts, lateArm

Event == INSTANCE EventWatcher WITH freed <- eventFreed, dirty <- eventDirty

MCPool == {p1, p2, p3}

EventSpec == Event!Spec
EventFairSpec == Event!FairSpec

\* Event and folder watchers call their function once at a time for each start, ...
EventOneCallPerStart == Event!OneCallPerStart

\* ... nothing is left to run of one that was deleted, unless it was armed late, ...
EventQuietUnlessArmedLate == Event!QuietUnlessArmedLate

\* ... the last change is seen, ...
EventLastChangeObserved == Event!LastChangeObserved

\* ... and the callback finds its state, as a comment has it.
EventStateValidInCallback == Event!StateValidInCallback
=============================================================================
