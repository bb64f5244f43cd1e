------------------------- MODULE ProcessLocalStorage -------------------------
(***************************************************************************)
(* wil::details_abi::ProcessLocalStorage (include/wil/result.h): every     *)
(* module of a process has its own copy of the library, yet all of them    *)
(* share one instance of T.  The first module that asks for it allocates   *)
(* it and publishes its address in a SemaphoreValue; the others find it    *)
(* there and count themselves in; the last one to be unloaded takes the    *)
(* value down and frees the instance.  A named mutex of the process guards *)
(* all of this; whoever holds or awaits it has a handle, so that its name  *)
(* means the same mutex to everybody.                                      *)
(*                                                                         *)
(* The modules' threads call GetShared at any time while the module is     *)
(* loaded; a module is unloaded by one thread, when no thread runs in it.  *)
(* When the process ends, the threads are gone wherever they are, and the  *)
(* modules that remain release the instance without the mutex.             *)
(***************************************************************************)
EXTENDS SemaphoreValue, FiniteSets

CONSTANTS
  Modules, Threads, NoThread, NoModule,
  Addresses,   \* where the heap may put an instance
  MaxLoads     \* how often modules are loaded again (bound of the model)

ASSUME ActorsAssumption ==
  /\ IsFiniteSet(Modules) /\ IsFiniteSet(Threads)
  /\ NoThread \notin Threads /\ NoModule \notin Modules

ASSUME AddressesAssumption ==
  \A a \in Addresses : StorablePointer(a) /\ a > 0

VARIABLES
  m_data,    \* of each module's ProcessLocalStorage; 0 is nullptr
  loaded,    \* the modules that are
  heap,      \* m_refCount at each address, Freed when nothing is there
  names,     \* the named semaphores
  mutex,     \* who holds it
  pc, module, data,   \* of each thread: place, module it runs in, local pointer
  lost,      \* references at each address that nobody will give back
  loads,
  shutdown,  \* ProcessShutdownInProgress
  ended      \* how often ProcessShutdown was called on the instance at an address

vars == <<m_data, loaded, heap, names, mutex, pc, module, data, lost, loads,
          shutdown, ended>>

Freed == -1

Init ==
  /\ m_data = [m \in Modules |-> 0]
  /\ loaded = Modules
  /\ heap = [a \in Addresses |-> Freed]
  /\ names = NoNames
  /\ mutex = NoThread
  /\ pc = [t \in Threads |-> "idle"]
  /\ module = [t \in Threads |-> NoModule]
  /\ data = [t \in Threads |-> 0]
  /\ lost = [a \in Addresses |-> 0]
  /\ loads = 0
  /\ shutdown = FALSE
  /\ ended = [a \in Addresses |-> 0]

Busy(m) == \E t \in Threads : module[t] = m

Goto(t, from, to) ==
  /\ ~shutdown
  /\ pc[t] = from
  /\ pc' = [pc EXCEPT ![t] = to]

Return(t, from) ==
  /\ Goto(t, from, "idle")
  /\ module' = [module EXCEPT ![t] = NoModule]
  /\ data' = [data EXCEPT ![t] = 0]

Lock(t) == mutex = NoThread /\ mutex' = t

Unlock(t) == mutex = t /\ mutex' = NoThread

---------------------------------------------------------------------------
(* GetShared; a call that finds m_data set changes nothing.                *)

GetShared(t, m) ==
  /\ m \in loaded /\ m_data[m] = 0
  /\ Goto(t, "idle", "acquire")
  /\ module' = [module EXCEPT ![t] = m]
  /\ UNCHANGED <<m_data, loaded, heap, names, mutex, data, lost, loads, shutdown, ended>>

\* CreateMutexEx fails: there is nothing to share.
AcquireFails(t) ==
  /\ Return(t, "acquire")
  /\ UNCHANGED <<m_data, loaded, heap, names, mutex, lost, loads, shutdown, ended>>

Acquire(t) ==
  /\ Goto(t, "acquire", "lookup")
  /\ Lock(t)
  /\ UNCHANGED <<m_data, loaded, heap, names, module, data, lost, loads, shutdown, ended>>

Lookup(t) ==
  LET r == TryGetPointer(names) IN
  /\ \/ Goto(t, "lookup", "addref") /\ r.pointer # 0
     \/ Goto(t, "lookup", "make") /\ r.pointer = 0
  /\ r.hr = "S_OK"
  /\ data' = [data EXCEPT ![t] = r.pointer]
  /\ names' = r.names
  /\ UNCHANGED <<m_data, loaded, heap, mutex, module, lost, loads, shutdown, ended>>

\* A semaphore cannot be opened or read.
LookupFails(t) ==
  /\ Goto(t, "lookup", "unlock")
  /\ UNCHANGED <<m_data, loaded, heap, names, mutex, module, data, lost, loads, shutdown, ended>>

AddRef_Uncounted(t) ==
  /\ Goto(t, "addref", "unlock")
  /\ UNCHANGED <<m_data, loaded, heap, names, mutex, module, data, lost, loads, shutdown, ended>>

AddRef(t) ==
  /\ Goto(t, "addref", "unlock")
  /\ heap' = [heap EXCEPT ![data[t]] = @ + 1]
  /\ UNCHANGED <<m_data, loaded, names, mutex, module, data, lost, loads, shutdown, ended>>

\* The heap zeroes the memory.
Make(t) ==
  /\ Goto(t, "make", "construct")
  /\ \E a \in Addresses :
       /\ heap[a] = Freed
       /\ heap' = [heap EXCEPT ![a] = 0]
       /\ names' = CreateFromPointer(a)
       /\ data' = [data EXCEPT ![t] = a]
  /\ UNCHANGED <<m_data, loaded, mutex, module, lost, loads, shutdown, ended>>

\* There is no memory.
MakeFails(t) ==
  /\ Goto(t, "make", "unlock")
  /\ UNCHANGED <<m_data, loaded, heap, names, mutex, module, data, lost, loads, shutdown, ended>>

\* There is, but one of the two semaphores cannot be created.
CreateFails(t) ==
  /\ Goto(t, "make", "unwind")
  /\ \E a \in Addresses :
       /\ heap[a] = Freed
       /\ heap' = [heap EXCEPT ![a] = 0]
       /\ names' \in {NoNames, CreateFirst(a)}
       /\ data' = [data EXCEPT ![t] = a]
  /\ UNCHANGED <<m_data, loaded, mutex, module, lost, loads, shutdown, ended>>

\* The semaphore's handle is forgotten.
Unwind_KeepsFirst(t) ==
  /\ Goto(t, "unwind", "unlock")
  /\ heap' = [heap EXCEPT ![data[t]] = Freed]
  /\ data' = [data EXCEPT ![t] = 0]
  /\ UNCHANGED <<m_data, loaded, names, mutex, module, lost, loads, shutdown, ended>>

\* The destructors of semaphoreValue and of dataAlloc, still inside the mutex.
Unwind(t) ==
  /\ Goto(t, "unwind", "unlock")
  /\ names' = NoNames
  /\ heap' = [heap EXCEPT ![data[t]] = Freed]
  /\ data' = [data EXCEPT ![t] = 0]
  /\ UNCHANGED <<m_data, loaded, mutex, module, lost, loads, shutdown, ended>>

Initialize(t) ==
  /\ Goto(t, "construct", "unlock")
  /\ heap' = [heap EXCEPT ![data[t]] = 1]
  /\ UNCHANGED <<m_data, loaded, names, mutex, module, data, lost, loads, shutdown, ended>>

AcquireReturns(t) ==
  /\ \/ data[t] = 0 /\ Return(t, "unlock")
     \/ data[t] # 0 /\ Goto(t, "unlock", "check") /\ UNCHANGED <<module, data>>
  /\ Unlock(t)
  /\ UNCHANGED <<m_data, loaded, heap, names, lost, loads, shutdown, ended>>

\* Another thread of the module was faster: nobody gives this reference back.
Lose(a) == lost' = [lost EXCEPT ![a] = @ + 1]

Check(t) ==
  /\ \/ /\ Goto(t, "check", "assign")
        /\ m_data[module[t]] = 0
        /\ UNCHANGED <<module, data, lost>>
     \/ /\ Return(t, "check")
        /\ m_data[module[t]] # 0
        /\ Lose(data[t])
  /\ UNCHANGED <<m_data, loaded, heap, names, mutex, loads, shutdown, ended>>

Assign(t) ==
  /\ Return(t, "assign")
  /\ m_data' = [m_data EXCEPT ![module[t]] = data[t]]
  /\ IF m_data[module[t]] # 0 THEN Lose(m_data[module[t]]) ELSE UNCHANGED lost
  /\ UNCHANGED <<loaded, heap, names, mutex, loads, shutdown, ended>>

---------------------------------------------------------------------------
(* ~ProcessLocalStorage, ProcessLocalStorageData::Release.                 *)

Unload(t, m) ==
  /\ m \in loaded /\ ~Busy(m)
  /\ loaded' = loaded \ {m}
  /\ \/ /\ m_data[m] = 0
        /\ ~shutdown /\ pc[t] = "idle"
        /\ UNCHANGED <<pc, module, data>>
     \/ /\ m_data[m] # 0
        /\ Goto(t, "idle", "enter")
        /\ module' = [module EXCEPT ![t] = m]
        /\ data' = [data EXCEPT ![t] = m_data[m]]
  /\ UNCHANGED <<m_data, heap, names, mutex, lost, loads, shutdown, ended>>

Enter_Unlocked(t) ==
  /\ Goto(t, "enter", "decrement")
  /\ mutex' = IF mutex = NoThread THEN t ELSE mutex
  /\ UNCHANGED <<m_data, loaded, heap, names, module, data, lost, loads, shutdown, ended>>

Enter(t) ==
  /\ Goto(t, "enter", "decrement")
  /\ Lock(t)
  /\ UNCHANGED <<m_data, loaded, heap, names, module, data, lost, loads, shutdown, ended>>

\* The module's own variable goes with the module.
Decrement(t) ==
  LET count == heap[data[t]] - 1 IN
  /\ \/ Goto(t, "decrement", "destroy") /\ count = 0
     \/ Goto(t, "decrement", "leave") /\ count # 0
  /\ heap' = [heap EXCEPT ![data[t]] = count]
  /\ m_data' = [m_data EXCEPT ![module[t]] = 0]
  /\ UNCHANGED <<loaded, names, mutex, module, data, lost, loads, shutdown, ended>>

Destroy(t) ==
  /\ Goto(t, "destroy", "reset")
  /\ names' = NoNames
  /\ UNCHANGED <<m_data, loaded, heap, mutex, module, data, lost, loads, shutdown, ended>>

Leave(t) ==
  /\ Return(t, "leave")
  /\ Unlock(t)
  /\ UNCHANGED <<m_data, loaded, heap, names, lost, loads, shutdown, ended>>

\* lock.reset() comes before the mutex handle goes with the instance.
Reset(t) ==
  /\ Goto(t, "reset", "free")
  /\ Unlock(t)
  /\ UNCHANGED <<m_data, loaded, heap, names, module, data, lost, loads, shutdown, ended>>

Free_Forgotten(t) ==
  /\ Return(t, "free")
  /\ UNCHANGED <<m_data, loaded, heap, names, mutex, lost, loads, shutdown, ended>>

Free(t) ==
  /\ Return(t, "free")
  /\ heap' = [heap EXCEPT ![data[t]] = Freed]
  /\ UNCHANGED <<m_data, loaded, names, mutex, lost, loads, shutdown, ended>>

---------------------------------------------------------------------------
(* The loader, and the end of the process.                                 *)

Load(m) ==
  /\ m \notin loaded /\ ~Busy(m) /\ ~shutdown
  /\ loads < MaxLoads
  /\ loads' = loads + 1
  /\ loaded' = loaded \cup {m}
  /\ UNCHANGED <<m_data, heap, names, mutex, pc, module, data, lost, shutdown, ended>>

ExitProcess ==
  /\ ~shutdown
  /\ shutdown' = TRUE
  /\ UNCHANGED <<m_data, loaded, heap, names, mutex, pc, module, data, lost, loads, ended>>

ShutdownRelease(m) ==
  /\ shutdown /\ m \in loaded
  /\ loaded' = loaded \ {m}
  /\ m_data' = [m_data EXCEPT ![m] = 0]
  /\ IF m_data[m] = 0
     THEN UNCHANGED <<heap, ended>>
     ELSE LET count == heap[m_data[m]] - 1 IN
          /\ heap' = [heap EXCEPT ![m_data[m]] = count]
          /\ ended' = [ended EXCEPT ![m_data[m]] = IF count = 0 THEN @ + 1 ELSE @]
  /\ UNCHANGED <<names, mutex, pc, module, data, lost, loads, shutdown>>

---------------------------------------------------------------------------
Step(t) ==
  \/ Lookup(t) \/ LookupFails(t) \/ AddRef(t) \/ Make(t)
  \/ MakeFails(t) \/ CreateFails(t) \/ Unwind(t) \/ Initialize(t)
  \/ AcquireReturns(t) \/ Check(t) \/ Assign(t)
  \/ Decrement(t) \/ Destroy(t) \/ Leave(t) \/ Reset(t) \/ Free(t)

Next ==
  \/ \E t \in Threads :
       \/ Acquire(t) \/ AcquireFails(t) \/ Enter(t) \/ Step(t)
       \/ \E m \in Modules : GetShared(t, m) \/ Unload(t, m)
  \/ \E m \in Modules : Load(m) \/ ShutdownRelease(m)
  \/ ExitProcess

Spec == Init /\ [][Next]_vars

---------------------------------------------------------------------------
Places == {"idle", "acquire", "lookup", "addref", "make", "unwind", "construct",
           "unlock", "check", "assign", "enter", "decrement", "destroy", "leave", "reset",
           "free"}

\* Places where the mutex is held.
Section == {"lookup", "addref", "make", "unwind", "construct", "unlock",
            "decrement", "destroy", "leave", "reset"}

Pointers == Addresses \cup {0}

\* Addresses hold a count or nothing; the other variables have their sets.
TypeOK ==
  /\ m_data \in [Modules -> Pointers]
  /\ loaded \subseteq Modules
  /\ heap \in [Addresses -> Nat \cup {Freed}]
  /\ \/ names = NoNames
     \/ \E a \in Addresses : names \in {CreateFirst(a), CreateFromPointer(a)}
  /\ mutex \in Threads \cup {NoThread}
  /\ pc \in [Threads -> Places]
  /\ module \in [Threads -> Modules \cup {NoModule}]
  /\ data \in [Threads -> Pointers]
  /\ lost \in [Addresses -> Nat]
  /\ loads \in Nat
  /\ shutdown \in BOOLEAN
  /\ ended \in [Addresses -> Nat]

\* The modules that use an instance, and the threads with a reference to it that
\* no module has yet.
Users(a) == {m \in Modules : m_data[m] = a}
Takers(a) == {t \in Threads : pc[t] \in {"unlock", "check", "assign"} /\ data[t] = a}

Refs(a) == Cardinality(Users(a)) + Cardinality(Takers(a)) + lost[a]

\* Every pointer a module or a thread may follow leads to an instance that is
\* there: no module finds the instance freed by the last module's Release, and
\* no Release or Acquire touches one that is gone.
NoUseAfterFree ==
  /\ \A m \in Modules : m_data[m] # 0 => heap[m_data[m]] > 0
  /\ \A t \in Threads : data[t] # 0 /\ pc[t] # "idle" => heap[data[t]] # Freed

\* All modules share one instance, also while it is looked up, created or
\* released by others: two modules never see two values of T.
OneInstance ==
  \A a, b \in Addresses :
    Users(a) \cup Takers(a) # {} /\ Users(b) \cup Takers(b) # {} => a = b

\* m_refCount is what it is meant to count, plus the references lost by threads
\* of one module that call GetShared for the first time together.
RefsCounted ==
  \A a \in Addresses :
    /\ heap[a] # Freed => heap[a] = Refs(a)
    /\ heap[a] = Freed => Refs(a) = 0

\* Outside the mutex the semaphores name the instance exactly while it is
\* referenced: a module that looks always finds the one that is in use, and
\* never one that is about to be freed.  Nothing else is named, and nothing of
\* an instance that could be made only in part.
PublishedIsLive ==
  mutex = NoThread /\ ~shutdown =>
    /\ \A a \in Addresses : heap[a] > 0 <=> names = CreateFromPointer(a)
    /\ names = NoNames \/ \E a \in Addresses : names = CreateFromPointer(a)

\* When every module is unloaded, an instance that no reference was lost to is
\* freed and its name is gone.  One with lost references is there for good,
\* still named, and counts exactly these.
NothingLeft ==
  ~shutdown /\ loaded = {} /\ (\A t \in Threads : pc[t] = "idle") =>
    /\ \A a \in Addresses : heap[a] = IF lost[a] = 0 THEN Freed ELSE lost[a]
    /\ \A a \in Addresses : lost[a] # 0 => names = CreateFromPointer(a)
    /\ (\A a \in Addresses : lost[a] = 0) => names = NoNames

\* At the end of the process the instance is told so once, and only when no
\* module uses it any more.
EndedOnce ==
  \A a \in Addresses :
    /\ ended[a] <= 1
    /\ ended[a] = 1 => Users(a) = {} /\ heap[a] = 0

---------------------------------------------------------------------------
(* What makes them inductive.                                              *)

MutexIsHeld == \A t \in Threads : pc[t] \in Section <=> mutex = t

\* Instances that are not referenced yet, or not any more, are one thread's own.
Dying == {"unwind", "construct", "destroy", "reset", "free"}

Unloading == {"enter", "decrement"}

Getting == {"acquire", "lookup", "addref", "make", "unwind", "construct",
            "unlock", "check", "assign"}

Owned ==
  \A t, u \in Threads : t # u =>
    /\ pc[t] \in Dying /\ pc[u] \in Dying => data[t] # data[u]
    /\ pc[t] \in Unloading => module[t] # module[u]

PlaceInv ==
  \A t \in Threads :
    /\ module[t] = NoModule <=> pc[t] = "idle"
    /\ pc[t] \in {"idle", "acquire", "lookup", "make"} => data[t] = 0
    /\ pc[t] \in Dying \cup Unloading \cup {"addref", "check", "assign", "leave"} =>
         data[t] # 0
    /\ pc[t] = "make" => names = NoNames
    /\ pc[t] \in {"addref", "leave"} => shutdown \/ heap[data[t]] > 0
    /\ pc[t] \in {"addref", "leave"} => heap[data[t]] # Freed
    /\ pc[t] \in Dying => heap[data[t]] = 0
    /\ pc[t] \in {"construct", "destroy"} => names = CreateFromPointer(data[t])
    /\ pc[t] = "unwind" => names \in {NoNames, CreateFirst(data[t])}
    /\ pc[t] \in {"reset", "free"} => names # CreateFromPointer(data[t])
    /\ pc[t] \in Unloading => m_data[module[t]] = data[t] /\ module[t] \notin loaded
    /\ pc[t] \in Getting => shutdown \/ module[t] \in loaded

\* The semaphores name what is referenced, or what is being made or destroyed.
Published ==
  \A a \in Addresses :
    /\ heap[a] > 0 => names = CreateFromPointer(a)
    /\ names = CreateFromPointer(a) =>
         \/ shutdown \/ heap[a] > 0
         \/ \E t \in Threads : pc[t] \in {"construct", "destroy"} /\ data[t] = a

\* Half a name is there only while its maker takes it down again.
Halves ==
  \/ names = NoNames
  \/ \E a \in Addresses : names = CreateFromPointer(a)
  \/ shutdown
  \/ \E t \in Threads : pc[t] = "unwind"

\* Who gives back what a module uses, and who frees what nobody uses.
Cleanup ==
  /\ \A m \in Modules : m_data[m] # 0 =>
       \/ m \in loaded
       \/ \E t \in Threads : pc[t] \in Unloading /\ module[t] = m
  /\ \A a \in Addresses : heap[a] = 0 =>
       shutdown \/ \E t \in Threads : pc[t] \in Dying /\ data[t] = a

EndInv ==
  \A a \in Addresses :
    /\ ended[a] <= 1
    /\ ended[a] # 0 => shutdown /\ heap[a] = 0

Core ==
  /\ TypeOK /\ MutexIsHeld /\ Owned /\ PlaceInv /\ Published
  /\ RefsCounted /\ Cleanup /\ EndInv

IInv == Core /\ Halves
=============================================================================
