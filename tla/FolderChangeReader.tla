------------------------- MODULE FolderChangeReader -------------------------
(***************************************************************************)
(* wil::unique_folder_change_reader (include/wil/filesystem.h): one read   *)
(* of the folder's changes is pending at a time; its completion runs a     *)
(* callback in the pool, which tells the client function of each change    *)
(* and starts the next read.  m_cancelLock and the cleared m_tpIo keep the *)
(* next read out while the destructor cancels the last one.                *)
(*                                                                         *)
(* The file system writes the state, too: the buffer and the OVERLAPPED of *)
(* a pending read.  While no read is pending it records changes, until     *)
(* there are too many.  The client destroys the reader from outside the    *)
(* callback only, as the destructor demands.                               *)
(***************************************************************************)
EXTENDS Naturals, Sequences

CONSTANTS
  Owner,    \* the thread that creates and destroys the reader
  Pool,     \* the threads of the pool
  Changes   \* each happens once (bound of the model)

ASSUME OwnerAssumption == Owner \notin Pool

Threads == Pool \cup {Owner}

\* What a read ends with; "ERROR" is every failure, being cancelled included.
Results == {"SUCCESS", "ENUM_DIR", "ERROR"}

VARIABLES
  pc,
  m_tpIo,       \* it is not nullptr
  m_readBuffer, \* the changes the last read stands for and nobody told yet
  overlapped,   \* its status: "done" or "pending"
  read,         \* of the file system: "none", "active" or "cancelled"
  recorded,     \* changes that no read has returned
  packets,      \* completions that no thread of the pool has taken
  started,      \* the reads the pool expects a completion of
  result,       \* what each callback was called with
  reported,     \* changes the client function has been told
  freed, broken \* the state is deleted; a read failed

ioVars == <<m_readBuffer, overlapped, read, recorded, packets, started>>
ends == <<reported, freed, broken>>
vars == <<pc, m_tpIo, ioVars, result, ends>>

Init ==
  /\ pc = [t \in Threads |-> IF t = Owner THEN "create" ELSE "idle"]
  /\ m_tpIo = FALSE
  /\ m_readBuffer = {} /\ overlapped = "done"
  /\ read = "none" /\ recorded = {}
  /\ packets = <<>> /\ started = 0
  /\ result = [t \in Pool |-> "SUCCESS"]
  /\ reported = {} /\ freed = FALSE /\ broken = FALSE

Go(t, from, to) == pc[t] = from /\ pc' = [pc EXCEPT ![t] = to]

Running == {t \in Pool : pc[t] # "idle"}

\* m_cancelLock, held by the destructor or by callbacks.
StartIo == {"StartThreadpoolIo", "ReadDirectoryChangesW", "CancelThreadpoolIo"}
Exclusive == pc[Owner] = "unlock"
Shared == {t \in Pool : pc[t] \in StartIo \cup {"unlock"}}

---------------------------------------------------------------------------
(* Faulty variants of the steps below, to show what notices them.          *)

\* The next read is started before the client function is called.
callback_ReadsFirst(t) ==
  /\ IF result[t] = "ERROR" \/ ~m_tpIo
     THEN Go(t, "callback", "idle") /\ UNCHANGED <<read, overlapped, started>>
     ELSE /\ Go(t, "callback", "m_callback")
          /\ started' = started + 1
          /\ read' = "active" /\ overlapped' = "pending"
  /\ UNCHANGED <<m_tpIo, m_readBuffer, recorded, packets, result, ends>>

\* Changes that were lost are the end.
return_EndsWhenLost(t) ==
  /\ Go(t, "in_callback", IF result[t] = "ENUM_DIR" THEN "idle"
                          ELSE IF m_readBuffer # {} THEN "m_callback" ELSE "try_lock")
  /\ UNCHANGED <<m_tpIo, ioVars, result, ends>>

CancelIoEx_AlwaysWaits ==
  /\ Go(Owner, "CancelIoEx", "GetOverlappedResult")
  /\ read' = IF read = "none" THEN "none" ELSE "cancelled"
  /\ UNCHANGED <<m_tpIo, m_readBuffer, overlapped, recorded, packets, started,
                 result, ends>>

WaitForCallbacks_NoWait ==
  /\ Go(Owner, "WaitForCallbacks", "delete")
  /\ packets' = <<>> /\ started' = 0
  /\ UNCHANGED <<m_tpIo, m_readBuffer, overlapped, read, recorded, result, ends>>

---------------------------------------------------------------------------
(* StartIo, by the creating thread or by a callback.                       *)

\* The pool is told to expect a completion.
StartThreadpoolIo(t) ==
  /\ Go(t, "StartThreadpoolIo", "ReadDirectoryChangesW")
  /\ started' = started + 1
  /\ UNCHANGED <<m_tpIo, m_readBuffer, overlapped, read, recorded, packets,
                 result, ends>>

ReadDirectoryChangesW(t) ==
  /\ Go(t, "ReadDirectoryChangesW", IF t = Owner THEN "hold" ELSE "unlock")
  /\ read' = "active" /\ overlapped' = "pending"
  /\ UNCHANGED <<m_tpIo, m_readBuffer, recorded, packets, started, result, ends>>

\* A read that is refused may leave its OVERLAPPED pending for good.
ReadIsRefused(t) ==
  /\ Go(t, "ReadDirectoryChangesW", "CancelThreadpoolIo")
  /\ overlapped' \in {overlapped, "pending"}
  /\ broken' = TRUE
  /\ UNCHANGED <<m_tpIo, m_readBuffer, read, recorded, packets, started, result,
                 reported, freed>>

\* There will be no completion; create fails, a callback goes on regardless.
CancelThreadpoolIo(t) ==
  /\ Go(t, "CancelThreadpoolIo", IF t = Owner THEN "lock_exclusive" ELSE "unlock")
  /\ started' = started - 1
  /\ UNCHANGED <<m_tpIo, m_readBuffer, overlapped, read, recorded, packets,
                 result, ends>>

---------------------------------------------------------------------------
(* The owner.                                                              *)

create_common ==
  /\ \/ Go(Owner, "create", "StartThreadpoolIo") /\ m_tpIo' = TRUE
     \/ Go(Owner, "create", "delete") /\ UNCHANGED m_tpIo
  /\ UNCHANGED <<ioVars, result, ends>>

\* ~folder_change_reader_state: tell the callback, ...
reset ==
  /\ Go(Owner, "hold", "lock_exclusive")
  /\ UNCHANGED <<m_tpIo, ioVars, result, ends>>

lock_exclusive ==
  /\ Shared = {}
  /\ Go(Owner, "lock_exclusive", "unlock")
  /\ m_tpIo' = FALSE
  /\ UNCHANGED <<ioVars, result, ends>>

unlock ==
  /\ Go(Owner, "unlock", "CancelIoEx")
  /\ UNCHANGED <<m_tpIo, ioVars, result, ends>>

\* ... cancel the read, unless there is none (ERROR_NOT_FOUND), ...
CancelIoEx ==
  /\ Go(Owner, "CancelIoEx",
        IF read = "none" THEN "WaitForCallbacks" ELSE "GetOverlappedResult")
  /\ read' = IF read = "none" THEN "none" ELSE "cancelled"
  /\ UNCHANGED <<m_tpIo, m_readBuffer, overlapped, recorded, packets, started,
                 result, ends>>

\* ... wait for it to end, ...
GetOverlappedResult ==
  /\ overlapped = "done"
  /\ Go(Owner, "GetOverlappedResult", "WaitForCallbacks")
  /\ UNCHANGED <<m_tpIo, ioVars, result, ends>>

\* ... drop the completions nobody took, wait for the callbacks that run and
\* for the reads still expected; the TP_IO is closed, ...
WaitForCallbacks ==
  /\ Running = {}
  /\ started = Len(packets)
  /\ Go(Owner, "WaitForCallbacks", "delete")
  /\ packets' = <<>> /\ started' = 0
  /\ UNCHANGED <<m_tpIo, m_readBuffer, overlapped, read, recorded, result, ends>>

\* ... then the folder and the client function.
delete ==
  /\ Go(Owner, "delete", "done")
  /\ freed' = TRUE
  /\ UNCHANGED <<m_tpIo, ioVars, result, reported, broken>>

---------------------------------------------------------------------------
(* folder_change_reader_t::callback, on a thread of the pool.              *)

StartCallback(t) ==
  /\ packets # <<>>
  /\ Go(t, "idle", "callback")
  /\ result' = [result EXCEPT ![t] = Head(packets)]
  /\ packets' = Tail(packets)
  /\ started' = started - 1
  /\ UNCHANGED <<m_tpIo, m_readBuffer, overlapped, read, recorded, ends>>

callback(t) ==
  /\ Go(t, "callback", IF result[t] = "ERROR" THEN "idle" ELSE "m_callback")
  /\ UNCHANGED <<m_tpIo, ioVars, result, ends>>

\* The client function is told of the next change, or that all are lost.
m_callback(t) ==
  /\ Go(t, "m_callback", "in_callback")
  /\ IF result[t] = "ENUM_DIR"
     THEN reported' = reported \cup m_readBuffer /\ m_readBuffer' = {}
     ELSE \E c \in m_readBuffer :
            reported' = reported \cup {c} /\ m_readBuffer' = m_readBuffer \ {c}
  /\ UNCHANGED <<m_tpIo, overlapped, read, recorded, packets, started, result,
                 freed, broken>>

return(t) ==
  /\ Go(t, "in_callback", IF m_readBuffer # {} THEN "m_callback" ELSE "try_lock")
  /\ UNCHANGED <<m_tpIo, ioVars, result, ends>>

\* Fails when the lock is taken, and may fail when the destructor awaits it.
try_lock_shared(t) ==
  /\ \/ ~Exclusive /\ Go(t, "try_lock", IF m_tpIo THEN "StartThreadpoolIo" ELSE "unlock")
     \/ pc[Owner] \in {"lock_exclusive", "unlock"} /\ Go(t, "try_lock", "idle")
  /\ UNCHANGED <<m_tpIo, ioVars, result, ends>>

unlock_shared(t) ==
  /\ Go(t, "unlock", "idle")
  /\ UNCHANGED <<m_tpIo, ioVars, result, ends>>

---------------------------------------------------------------------------
(* The file system.                                                        *)

Change(c) ==
  /\ pc[Owner] \notin {"create", "done"} \cup StartIo
  /\ c \notin recorded \cup m_readBuffer \cup reported
  /\ recorded' = recorded \cup {c}
  /\ UNCHANGED <<pc, m_tpIo, m_readBuffer, overlapped, read, packets, started,
                 result, ends>>

\* The read ends and the pool is told so.
Complete(r) ==
  /\ read # "none"
  /\ read' = "none" /\ overlapped' = "done"
  /\ packets' = Append(packets, r)
  /\ UNCHANGED <<pc, m_tpIo, started, result, reported, freed>>

\* With all changes recorded, by name or as too many.
ReadReturns ==
  /\ recorded # {}
  /\ m_readBuffer' = recorded /\ recorded' = {}
  /\ \E r \in {"SUCCESS", "ENUM_DIR"} : Complete(r)
  /\ UNCHANGED broken

ReadIsCancelled ==
  /\ read = "cancelled"
  /\ Complete("ERROR")
  /\ UNCHANGED <<m_readBuffer, recorded, broken>>

\* The folder is deleted, or its drive is gone.
ReadFails ==
  /\ Complete("ERROR")
  /\ broken' = TRUE
  /\ UNCHANGED <<m_readBuffer, recorded>>

---------------------------------------------------------------------------
StartIoSteps(t) ==
  \/ StartThreadpoolIo(t) \/ ReadDirectoryChangesW(t) \/ ReadIsRefused(t)
  \/ CancelThreadpoolIo(t)

OwnerSteps ==
  \/ create_common \/ StartIoSteps(Owner) \/ lock_exclusive \/ unlock
  \/ CancelIoEx \/ GetOverlappedResult \/ WaitForCallbacks \/ delete

CallbackSteps(t) ==
  \/ callback(t) \/ m_callback(t) \/ return(t) \/ try_lock_shared(t)
  \/ StartIoSteps(t) \/ unlock_shared(t)

Next ==
  \/ OwnerSteps \/ reset
  \/ \E t \in Pool : StartCallback(t) \/ CallbackSteps(t)
  \/ \E c \in Changes : Change(c)
  \/ ReadReturns \/ ReadIsCancelled \/ ReadFails

\* Threads run on, the pool starts callbacks, the client function returns, and
\* a read ends when it has something to return or is cancelled.  Nobody has to
\* destroy the reader, and nothing has to fail or to change.
Fairness ==
  /\ WF_vars(OwnerSteps)
  /\ \A t \in Pool : WF_vars(CallbackSteps(t))
  /\ WF_vars(\E t \in Pool : StartCallback(t))
  /\ WF_vars(ReadReturns)
  /\ WF_vars(ReadIsCancelled)

Spec == Init /\ [][Next]_vars
FairSpec == Spec /\ Fairness

---------------------------------------------------------------------------
(* Properties.                                                             *)

OwnerPlaces == {"create", "hold", "lock_exclusive", "unlock", "CancelIoEx",
                "GetOverlappedResult", "WaitForCallbacks", "delete", "done"} \cup StartIo
PoolPlaces == {"idle", "callback", "m_callback", "in_callback", "try_lock",
               "unlock"} \cup StartIo

TypeOK ==
  /\ pc \in [Threads -> OwnerPlaces \cup PoolPlaces]
  /\ pc[Owner] \in OwnerPlaces
  /\ \A t \in Pool : pc[t] \in PoolPlaces
  /\ m_tpIo \in BOOLEAN
  /\ m_readBuffer \subseteq Changes /\ recorded \subseteq Changes
  /\ overlapped \in {"done", "pending"}
  /\ read \in {"none", "active", "cancelled"}
  /\ packets \in Seq(Results)
  /\ started \in Nat
  /\ result \in [Pool -> Results]
  /\ reported \subseteq Changes
  /\ freed \in BOOLEAN /\ broken \in BOOLEAN

\* When the state is deleted nothing can touch it any more: no callback runs or
\* will run, the one that waits for the lock or still has to release it included,
\* and the file system has no read to complete into its buffer.
NoUseAfterFree == freed => Running = {} /\ packets = <<>> /\ read = "none"

\* The file system never writes the buffer while a callback goes through it, or
\* before the callback that is to do so has begun.
BufferIsStable ==
  read # "none" =>
    packets = <<>> /\ \A t \in Pool : pc[t] \notin {"callback", "m_callback", "in_callback"}

\* "folder_change_reader destructor does not hang" (FileSystemTests.cpp:751):
\* whatever read was pending, refused or had failed, and whatever callback ran.
ResetReturns == pc[Owner] = "lock_exclusive" ~> pc[Owner] = "done"

\* The client is told of every change, by name or as lost, while it keeps the
\* reader and no read fails.
EveryChangeReported ==
  \A c \in Changes :
    c \in recorded ~> c \in reported \/ broken \/ pc[Owner] # "hold"

\* What it promises the client, as all watchers do: one call at a time, and the
\* function outlives its calls.
Contract == INSTANCE WatchContract WITH
  Callers <- Pool,
  calling <- {t \in Pool : pc[t] = "in_callback"},
  ended   <- freed

KeepsContract == Contract!Spec

---------------------------------------------------------------------------
(* The inductive invariant.                                                *)

\* The thread whose turn it is to start the next read, or to give up.
HasTurn(t) ==
  pc[t] \in {"callback", "m_callback", "in_callback", "try_lock"} \cup StartIo

\* One read at a time is pending, ended but not taken, or has its turn.
Turn ==
  /\ \A t, u \in Threads : HasTurn(t) /\ HasTurn(u) => t = u
  /\ (\E t \in Threads : HasTurn(t)) => read = "none" /\ packets = <<>>
  /\ read # "none" => packets = <<>>
  /\ Len(packets) <= 1

\* The pool expects a completion exactly when there is, or may still be, one:
\* "ensure the TP ref counts are accurate" (filesystem.h:776).
IOsCounted ==
  started = IF \/ read # "none"
               \/ packets # <<>>
               \/ \E t \in Threads :
                    pc[t] \in {"ReadDirectoryChangesW", "CancelThreadpoolIo"}
            THEN 1 ELSE 0

\* m_tpIo is cleared before the read is cancelled; whoever starts a read has
\* seen it, and keeps the lock until the read is there.
Lock ==
  /\ m_tpIo <=> pc[Owner] \in StartIo \cup {"hold", "lock_exclusive"}
  /\ \A t \in Pool : pc[t] \in StartIo => m_tpIo

\* What is settled at each place of the owner.
Teardown ==
  /\ pc[Owner] \in {"create"} \cup StartIo =>
       read = "none" /\ packets = <<>> /\ Running = {}
  /\ read # "none" => overlapped = "pending"
  /\ pc[Owner] \in {"WaitForCallbacks", "delete", "done"} => read = "none"
  /\ pc[Owner] \in {"delete", "done"} => Running = {} /\ packets = <<>>
  /\ freed => pc[Owner] = "done"

IInv == TypeOK /\ Turn /\ IOsCounted /\ Lock /\ Teardown
=============================================================================
