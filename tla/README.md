# A verification project for the Windows Implementation Libraries

WIL is a header-only C++ library (`include/wil/*.h`): ownership types for
Windows resources, error-handling macros, wrappers of COM, of the registry and
of files, watchers that call a function when something changes, and a few
services that all modules of a process share. Most of it is sequential, and the
repository's unit tests reach it well. This project is about the rest: the parts
in which several threads, the thread pool, apartments, modules or the end of the
process meet, and where one order of steps among thousands decides.

The specifications are TLA+. Each was read off the source, line by line; the
comments name the functions, and the definitions keep their names. TLC checks
every specification on small instances, and TLAPS proves every invariant and
every action property that the passing runs check, for every value of the constants.

To check a module: `tlc -config Task.cfg MCTask.tla`, and `tlapm ActivityProofs.tla`.

## 1. Inventory

### Components with a model

| Component | Source | State it keeps | Operations | Who else acts |
|---|---|---|---|---|
| coroutine tasks, `wil::task` and `wil::com_task` | `coroutine.h` | in the frame: `m_waiting`, `m_resumer`, the result holder; in the awaiter: context, hop result; in `get()`: `completed` | await on any thread, await back into the apartment, blocking `get()`, discard | the coroutine's thread; the pool; COM's `ContextCallback` |
| registry watcher | `registry.h` | `m_refCount`, `m_lock`, the key, the event, the wait, the client function | create, `reset` from outside or inside the callback, the callback, re-registration | pool threads; whoever changes or deletes the key |
| event watcher | `resource.h` | the event, the wait, the flags, the client function | create, `start`, `SetEvent`, the callback, reset | pool threads; whoever signals the event |
| folder watcher | `filesystem.h` | the change handle, the wait, the client function | create, the callback, reset | pool threads; the file system |
| folder change reader | `filesystem.h` | `m_tpIo`, `m_cancelLock`, the buffer and the `OVERLAPPED`, the folder, the client function | create, the callback, `StartIo`, reset | pool threads; the file system, which writes the buffer |
| thread pool wait | `resource.h` | armed or not, queued callbacks | arm, disarm, wait for callbacks, close | both kinds of watcher |
| semaphore value | `result.h` | one or two named semaphores | create, read by name, destroy | other modules of the process |
| process-local storage | `result.h` | `m_data` per module, `m_refCount` per instance, the semaphore value, a named mutex | `GetShared`, `Acquire`, `Release`, load, unload | threads of all modules; the loader; process shutdown |
| thread errors | `result.h` | per thread: ring of errors, index, latest subscription; per process: a sequence number | open and close a context, take a token, report, look up, look up in a catch block | later threads with the same id |
| error report guard | `result.h` | `lastThread`, `depth` (static per module) | report, report within a report | all threads of the module |
| failure reporting | `result_macros.h`, `nt_result_macros.h`, `win32_result_macros.h`, `cppwinrt.h` | none of its own but the counter of failures: the failure on its way up, as a code or an exception; hooks and settings of the process | `RETURN_*`, `NT_RETURN_*`, `WIN32_RETURN_*`, `THROW_*`, `LOG_*`, `FAIL_FAST_*`, `CATCH_*`, the exception guards | the functions of the stack; hooks; the exceptions of other libraries |
| telemetry activity | `Tracelogging.h` | the data, in the object or in a counted cell; `m_pActivityData`; the callback holder of each object | start, split, copy, move, hand over, watch, stop, destroy | threads that have a share; whoever reports a failure |
| failure callbacks | `result.h` | a list of holders per thread | start, stop, move, notify | activities, thread watchers |
| apartment variable | `com_apartment_variable.h` | a map of storages by apartment, in each a map of values; a shutdown observer per apartment | `get_or_create`, `get_if`, `clear`, `clear_all_apartments_async` | threads of an apartment; creators that use variables; apartments that end |
| slim event | `resource.h` | `m_isSignaled` | `SetEvent`, `ResetEvent`, `wait` with or without a timeout | `WaitOnAddress`, `WakeByAddress...` |

How they interact. The registry, event and folder watchers stand on the thread
pool wait: they arm it, it calls them back on a pool thread, and their
destructors rely on its cancelling destructor. The folder change reader has an
I/O object of the pool instead, which it cancels and awaits itself. Process-local storage stands on the semaphore value: all
its reads and writes happen under its mutex. A failure reported through the error macros
reaches `wil::SetLastError`, which passes the report guard, finds the thread's
data through process-local storage and a hash, and records the error; error
contexts and tokens read the same data. Before that, the report calls the thread's
failure callbacks, and activities listen there. The coroutine tasks, the
apartment variables and the slim event stand alone, on `WaitOnAddress`,
`SRWLOCK` and COM of the operating system.

Hard behaviours, and what makes each component correct:

- *Tasks.* Completion races with awaiting, blocking and discarding. The client
  is resumed exactly once, in the apartment it awaited from or with an error that
  says otherwise; the frame is destroyed once, by whoever is last; nobody touches
  a frame, an awaiter or a stack variable that has gone.
- *Watchers.* A callback races with the destruction of the watcher, perhaps by
  that callback. The client function is never called twice at once nor after the
  end, unless an event watcher's client starts it more than once; the destructor
  neither deadlocks on its own callback nor leaves a callback behind; no change is
  lost between two registrations.
- *Storage.* Modules race to create, join and leave one shared instance, any
  step may fail, and the process may end in the middle. All modules see one
  instance; it lives as long as anybody uses it; the published address never
  leads to a dead one.
- *Thread errors.* The same code is an old error being passed up, or a new one.
  What a context finds is the origination, however contexts nest and the ring wraps.
- *Report guard.* One shared variable stands in for thread-local storage and is
  overwritten by races. It always recovers, and recursion stays bounded.
- *Failure reporting.* Every function of a stack may use another macro, another
  kind of code and another way up, and the last error may be gone when it is asked
  for. A failure is never taken for success further up, its code comes through, and a
  guard passes only what it was asked to.
- *Activity.* Shares of one activity are stopped, moved and abandoned on several
  threads while failures of those threads look for the object. One stop event is
  written, with the right result; lists and pointers lead to live objects.
- *Apartment variable.* The creator runs without the lock, and may use variables
  itself; clearing visits apartments later, from the background, while they end. A
  value handed out stays; no apartment is forgotten.
- *Slim event.* Writing and waking are two steps. No wake-up is lost, and an
  auto-reset signal is taken by one wait.

### Components without a model

`PROJECT.json` lists all of them with the reason. In short:

- *Add only:* the hash behind thread data (`ThreadLocalStorage`): nodes are pushed
  by one interlocked exchange and never removed, so that nothing can go
  wrong but the push itself.
- *Decided elsewhere:* `resume_foreground` (`cppwinrt_helpers.h`): whether a
  dispatcher that took a handler may still report failure is the dispatcher's promise.
- *Sequential ownership:* `unique_any` and its relatives, `shared_any`, `com_ptr`,
  `scope_exit`. Their operations are a few assignments on one object; the unit
  tests cover them, and a model would repeat the assignment.
- *Single system calls:* locks, events, mutexes, semaphores, `init_once`, strings,
  tokens, processes, registry and file access, networks, windows.
- *Compile time and formatting:* the text of errors, the declaration and the
  content of telemetry events, `safe_cast`, traits.
- *Not part of the library:* `wistd` (libc++), tests, packaging.

## 2. Plan

The order put the component first whose failure is the worst and whose
interleavings are the most: the task; then the watchers; then storage; then what
builds on it.

| Step | Module | Builds on | Abstract specification | State |
|---|---|---|---|---|
| 1 | `Task` and proofs | | `OneShotResult` | done, proved |
| 2 | `ThreadpoolWait`, `RegistryWatcher` and proofs | the wait | `WatchContract` | done, proved |
| 3 | `EventWatcher` (event and folder) and proofs | the wait | | done, proved |
| 4 | `SemaphoreValue` and proofs | | | done, proved |
| 5 | `ProcessLocalStorage` and proofs | `SemaphoreValue` | | done, proved |
| 6 | `ThreadErrors`, `ErrorReportGuard` and proofs | | | done, proved |
| 7 | `SlimEvent` and proofs | | | done, safety proved |
| 8 | `FolderChangeReader` and proofs | | `WatchContract` | done, proved |
| 9 | `ApartmentVariable` and proofs | | | done, proved |
| 10 | `Activity` (with the lists of failure callbacks) and proofs | | | done, proved |
| 11 | `ErrorCodes`, `FailureReporting` and proofs | the conversions | | done, proved |
| 12 | providers and call contexts of `Tracelogging.h`; an abstract map from apartments to values that `ApartmentVariable` implements | | | open |
| 13 | the condition under which `EventStateValidInCallback` of the event watcher does hold (nobody arms the wait once the destructor has disarmed it), as a theorem beside finding 1: `NothingLeftToRun` | | | done, proved |

`PROJECT.json` lists the hazards of the code by line, with the properties that
look for each, and the four that no property covers with the reason.

Where the parts are put together: `WatcherProofs` is about both kinds of watcher,
`WaitOnAddressProofs` about the tasks and the slim event, `ProcessLocalStorageProofs`
about the semaphore value and the storage on it, `ErrorReportsProofs` about
the thread errors and their guard.

## 3. The modules

Every module has its variables named after the members they stand for, one
action per atomic step of the code, and a `pc` per thread where a function is
more than one such step. A step ends where another thread can see a difference:
at an interlocked operation, at taking or releasing a lock, at a call into the
operating system or to the client. Local computations are folded into the step
they follow. A definition whose name is that of another with a suffix (`Record` and
`Record_AdvancesLate`, `wait_callback` and `wait_callback_ArmsFirst`) is a faulty
variant. It is in no `Next`; it is there to show that some property would notice
that mistake.

### `Task` and `OneShotResult`

The coroutine thread's place is `co`, the owner's is `cl`. `final_suspend`
exchanges `m_waiting` for "completed" and branches on what it finds, as
`client_await_suspend` and `abandon` do on the other side. The three kinds of
resumer are the three ways to complete: resume on the spot, `wake_by_address`
for `get()`, and `resume_in_context` for `com_task`, which resumes on the spot
when the apartment fits, hops from a single-threaded apartment over the pool, and
may fail to enter the target apartment; then the client is resumed where it
failed, with the error. Spurious wake-ups of `WaitOnAddress` are actions of the
environment. `OneShotResult` says what is promised: a result is produced once,
taken once and never before, and the storage is freed once, after both sides
are through. `IsOneShotResult` is that `Task` implements it, under the mapping
given at the end of `Task`.

### `ThreadpoolWait`, `RegistryWatcher`, `WatchContract`

`ThreadpoolWait` has the wait of the operating system (external: it disarms
itself when it fires, and any idle thread may run the callback, also beside an
earlier one) and the cancelling destructor `DestroyThreadPoolWait::Destroy`,
three steps. `RegistryWatcher` adds the state with its reference count and lock:
the callback counts itself in (`TryAddRef`; the count is raised even when it
was zero), registers again, calls the client, and takes the lock to drop its
reference or to arm the wait again; `Release` takes the lock too, and only the
last reference deletes: outside the lock, and without waiting for the callbacks when it
is the callback's. The client may reset the watcher in the callback. Keys can be
deleted and handles revoked; a failed registration is fail-fast unless the key
is gone. `WatchContract` is what a client may rely on: one call at a time, none
after the end, and the end never during a call of the same function.

### `EventWatcher`

Event watcher and folder watcher in one module, as `kind`: they differ in how
the signal is taken back (an event is reset before the client function; the next
folder change is asked for after it, and changes recorded in between signal at
once). The state has one owner and no count; the callback relies on the
owner's destructor to wait for it. `m_flags` and `autoReset` are chosen at the
start. Several callbacks may be queued, up to `MaxQueued`. `start()` arms the wait
of any event watcher, as in the code: not only of one with `manual_start`, and also
when the wait is armed, queued or in its callback already. The owner calls it while
he holds the watcher; the client function calls it whenever there is a state to be
got, also when the owner is on the way to delete it, of which it cannot know. Two
history variables serve the properties: `starts` counts the times the wait was
started (bounded by `MaxStarts`), and `lateArm` tells that somebody armed it after
the destructor had disarmed it.

### `FolderChangeReader`

One read at a time: pending with the file system (`read`), completed and queued
(`packets`), or in the hands of the callback that starts the next. `StartIo` is
three steps, as the pool is told of a read before it is issued and of a refusal
after. The destructor takes `m_cancelLock`, clears `m_tpIo`, cancels, waits for
the read unless there is none, and waits for the callbacks. `m_readBuffer` is
the set of changes that the completed read stands for, named or, after an
overflow, lost. The file system is external: it records changes between reads,
completes a read with them, with an overflow or with an error, and may leave
the `OVERLAPPED` of a refused read pending, which is why the destructor must
not wait for that. It implements `WatchContract`, as the registry watcher does.

### `SemaphoreValue`

Operators only: a value becomes the count (and the limit) of one semaphore, a
pointer the counts of two; reading takes one and posts it back; `CreateFirst` is
what a creation leaves that fails at the second. Widths are kept: the code's 2^31 is `Half`.
`ProcessLocalStorage` is their client.

### `ProcessLocalStorage`

Each module has `m_data`; instances live in `heap` at an address that the heap
chooses, possibly one used before. A thread asks (`GetShared`), takes the mutex,
looks the address up through the operators of `SemaphoreValue`, counts itself in
or makes a new instance, leaves the mutex and stores the pointer. Making it may
fail for want of memory, or at either of the two semaphores (`CreateFails`); then
the destructors of what is there run in a step of their own, still inside the mutex
(`Unwind`), and the end of the process may come before them. Two first
calls of one module leave one reference that nobody gives back; the history variable
`lost` counts them, so that what is right otherwise can be stated. Unloading a
module releases; the last release takes the value down and frees. At any moment
the process may end: threads are gone wherever they are, also inside the mutex,
and modules release without it.

### `ThreadErrors`, `ErrorReportGuard`

`ThreadErrors` is a thread's ring of errors with contexts and tokens.
`SetLastError` drops a report as seen when the innermost context has its code; the
catch-block lookup reports the exception when it is not the error found. `reports` is a history
of what the thread reported. `ErrorReportGuard` is the function around it with
the static `lastThread` and `depth`: each thread has a stack of calls, since a
lookup of the thread's data may fail and report that in turn.

### `ErrorCodes`, `FailureReporting`

`ErrorCodes` has the three kinds of codes as 32-bit integers and the conversions
between them, bit by bit as arithmetic: the table of statuses, the NT bit, the
facilities. `Dos`, what Windows knows of the errors of statuses, is a constant.
`FailureReporting` is one thread with a failure on its way up `Depth` functions,
as a code in the hands of a function (`fault`) or as an exception (`exc`). An
action is a family of macros: what `RETURN_HR`, `RETURN_IF_FAILED`,
`RETURN_LAST_ERROR_MSG` and the rest do with the failure they found is the same
but for the text. `Logged` is `LogFailure` with the hooks, which may end the
process or clear the failure; `ResultFromCaughtExceptionInternal` has the
recognisers of plain C++, C++/WinRT and C++/CX, with the standard exceptions they
tell apart (`std::out_of_range`, `std::invalid_argument` and the rest, whose codes
differ from mode to mode); `Refused` and `Catches` are
the guards of release and debug builds. `origin`, `as` and `guard` are history: what
failed, which types it was handed on as, what a catch was asked to accept.

### `Activity`

An object of an activity class has its data in itself until it is copied; then
they move to the cell that all copies count. Each function of the code that runs
under the cell's lock is a step, and the end of an object is four: the
look at whether it is the last, the last one's decision, the stop event, the members'
destructors. `list` has each thread's failure callbacks, of objects and of
thread watchers; `StartWatching`, `StopWatching` and `HolderMoved` say what becomes of
holders and lists, so that an action that does two of these composes them. A
reported failure calls one after the other. The applications
hand an object to another thread only while it does not watch.

### `ApartmentVariable`

`get_or_create` looks, makes the storage and calls the creator
(`BeginCreate`); other steps happen until the creator returns (`Insert`) or
throws. Creators may use the variables, so that each thread has a stack of
calls. `clear_all_apartments_async` collects and visits apartments later, or
passes over those that ended; any other `hresult_error` is thrown on, and the action
completes with it, the rest unvisited (`Rethrow`). The end of an apartment has the moment in
which nobody can enter any more and the observer has not been called yet.
`ClearsWhileCreating` says whether clients clear while a creator runs in the
same apartment; `strayed` is history.

### `SlimEvent`

`SetEvent` writes, then wakes (two steps); `wait` tries, looks at the time and
sleeps, in three. `Type` is chosen at the start. `acquired` is a history of
how many waits a signal let through.

## 4. The runs

| Run | What it checks | Bounds |
|---|---|---|
| `task` | no use after free, the awaiter outlives its resumer, back in the apartment; a waiting client goes on; implements `OneShotResult` | two single-threaded apartments and the multithreaded one |
| `registry_watcher` | no use after free; `Release` returns, every change is reported; implements `WatchContract` | owner and two pool threads |
| `event_watcher` | one call at a time for each start, nothing left to run after the destructor unless the wait was armed behind its back; the last change is observed | owner, three pool threads, `MaxQueued` = 2, `MaxStarts` = 3 |
| `event_watcher_rearm` | *violated:* the callback finds the state valid | the same |
| `folder_change_reader` | no use after free; reset returns, every change is reported; implements `WatchContract` | owner, two pool threads, three changes |
| `process_local_storage` | no use after free, one instance, exact counts, what is published is live and nothing else is, nothing left but lost references | two modules, three threads, two addresses, `Half` = 2, `MaxLoads` = 1 |
| `error_reports` | the newest error is the current one, contexts find errors and originations; or: bounded recursion, the guard recovers | one id, two codes, ring of two, three contexts, four reports, five sequence ids; or: three threads, limit three |
| `slim_event` | no lost wake-up, one wait per signal; nobody sleeps on | three threads, both types |
| `activity` | one stop event, with the right result; exact lists; pointers lead to data | two threads, three objects, one watcher, two codes |
| `apartment_variable` | values handed out stay, observers match storage, clearing is complete or says it is not | two threads in the multithreaded apartment, one in another, two variables, `MaxDepth` = 2, `MaxIds` = 5 |
| `apartment_variable_clear` | *violated:* values are inserted into storage that exists | the same, with clients that clear at any time |
| `failure_reporting` | failures stay failures, codes survive, guards are honoured, exceptions are thrown again as they are | three HRESULTs, three last errors, four statuses, `Depth` = 2 |

`error_reports` has the two halves of `wil::SetLastError`, the ring behind the
guard and the guard itself; a behaviour is one of either, as they share no state.

Why these bounds are enough to meet the interesting cases:

- *Task.* There is one frame, one completing thread and one client; nothing else
  is counted. With two single-threaded apartments the client and the coroutine
  can be in different ones, which takes the detour over the pool.
- *Watchers.* With two pool threads a callback can start while another is still
  in its last steps, the only overlap the wait's re-arming admits. For the event watcher,
  whose calls overlap when `start()` is called more than once, there are three, and as many starts:
  creation and two more, by the owner or by the client function. The registry
  watcher needs no bound on the queue: its invariant says that it never exceeds
  one. The event watcher's does: nothing in the code limits how many callbacks
  `start()` and a signalled event can queue; two behind those that run are enough for
  one to start on each thread that becomes idle.
- *Folder change reader.* The turn of the next read passes from one callback to
  another, so that two threads are enough for one to start while the other still
  holds the lock. Three changes: one being reported, one with it in the same
  buffer or behind it, and one during the destruction.
- *Storage.* Three threads: two to race within one module and one to unload or
  join from another. Two addresses: an instance can be freed while a new one is
  made elsewhere, or at the same place. The operators of the semaphores compare
  a count with zero and with its limit only, and with `Half` = 2 either half of an
  address may be zero; what is proved of them is for every `Half`; one more load is enough for a module to
  come back after all left.
- *Thread errors.* A ring of two wraps at the third error; two codes make one
  come back after another; three contexts nest around a reported error on both
  sides. Threads share nothing but the sequence number, whose gaps do not
  matter, so one thread id is enough. The code's ring has five.
- *Report guard.* Two threads overwrite each other's mark, a third finds the
  counter used up.
- *Failure reporting.* The HRESULTs are one that has an NTSTATUS of its own, one
  that has none, and 0x80070000, whose Win32 error is none; the statuses are
  the one with a special case, one that Windows has an error for, one it has not,
  and a warning; the last error may be missing. Two functions below the
  outermost are enough to convert a code, throw, catch and convert it back;
  the proofs are for all codes and depths.
- *Activity.* Three objects: two shares and the local object of a move. Two
  threads can be each the last to let go; one watcher on top of an object's own
  callback gives lists of all the shapes that stopping out of order can damage.
- *Apartment variable.* Two threads in one apartment create the same value, or
  one creates while the other clears; the other apartment is the one that ends
  while it is to be visited. A creator within a creator is depth two.
- *Slim event.* Two sleepers and one that sets, or one sleeper, one late waiter and one that
  sets.

Deadlock is checked except where a system comes to rest by itself:
`process_local_storage` (the process has ended), `folder_change_reader` (the
reader is gone; that it never stops before is `ResetReturns`), `error_reports`
and the runs of the apartment variable (the bounds are used up),
`activity` (all objects are gone) and `failure_reporting` (the failure has been
dealt with). `Task` and `RegistryWatcher` have an explicit `Terminated` step
for their own proper end, so that any other stop is an error.

For every property of the passing runs there is a mutated definition under
which the property fails (`PROJECT.json`, "mutants"): a dropped guard, a step in
the wrong order, a missing reset.

### Fairness

- *Task.* Weak fairness of each of the two threads while the process is up: the
  operating system schedules them, and the body of the coroutine is assumed to finish.
  Spurious wake-ups are not fair.
- *Registry watcher.* Weak fairness of the owner inside a call, of each pool
  thread inside a callback, of the pool's dispatch. `Release` takes the lock with
  strong fairness: a slim lock promises no order, but between two callbacks that
  take it the pool is left and entered again, so a waiting `Release` has a chance
  again and again. Nobody has to reset the watcher, and no key has to change.
- *Event watcher.* Weak fairness of the owner inside create and destroy, of each callback
  and of the pool. Nobody has to signal, start or reset. A watcher that is being destroyed while
  its callback keeps re-arming on a signalled event has no liveness property:
  whether `WaitForThreadpoolWaitCallbacks` then ever finds a quiet moment is the
  operating system's to answer.
- *Folder change reader.* Weak fairness of the owner inside create and destroy, of
  each callback, of the pool, and of a read that has something to return or is
  cancelled. A read that fails or is refused is never needed for progress.
- *Slim event.* Weak fairness of a thread that is inside `SetEvent` or `wait` and awake.
  No timeout and no spurious wake-up is relied on.
- The others state safety only and assume none.

### Findings

1. `event_watcher_rearm`, `resource.h:4453` (and `filesystem.h:644`). The
   callback arms the wait at its end whether or not the destructor, which waits
   for it, disarmed the wait before. A signal after that and before
   `CloseThreadpoolWait` starts a callback on a state that is being deleted. The
   registry watcher arms under a lock and a count and does not have this. The
   model takes two things of the operating system for granted: an armed wait
   whose event is signalled queues a callback at any time until it is closed, and
   closing it does not take back a callback that is already queued.
2. `apartment_variable_clear`, `com_apartment_variable.h:323`. `get_or_create`
   keeps a reference into the storage of the apartment while the creator runs
   without the lock. Storage without values goes when any variable is cleared
   in that apartment, by another thread, by the creator, or from the background,
   and the value is then inserted into memory that is gone. That clients who do not clear
   while a creator runs are safe is a theorem (`CarefulClientsAreSafe`).

Where the code and its words differ without a run of their own:

- `resource.h:4447-4448` has the client called before the wait is armed again, "to
  ensure that multiple callbacks don't run concurrently"; `start()`
  (`resource.h:4432`) arms it at any time. A watcher that goes on by itself and is
  started again while its callback runs has two calls at once from then on.
  `OneCallPerStart` is the promise that is kept: as many as it was started.
- `coroutine.h:345` drops an exception in an abandoned task with the frame, and
  says so; lines 21, 60 and 426 call it fatal.
- `result.h:611`: within a context, a token taken after a first report of some
  code finds nothing when that code is reported again, as the report is dropped as
  seen; lines 746-747 say that it finds what came after it.
- `cppwinrt.h:141` and `:182`, with `result_macros.h:3980`: with C++/WinRT a thrown NTSTATUS comes
  back as the status of its HRESULT, which may be another; `tests/NtResultTests.cpp:104`
  expects the one that was thrown. `CodeSurvives` is stated for the plain mode in
  this point.
- `result_macros.h:4728`: the guard of a release build refuses nothing
  for `ThrownOrAlloc`, which line 1643 limits to exceptions thrown by the library and `std::bad_alloc`. `GuardsAreHonoured` says nothing of it.
- `win32_result_macros.h:180`: `Win32ErrorFromCaughtException` is annotated to
  return more than zero; an HRESULT that is no Win32 error comes back as the negative
  number that it is, and 0x80070000 as zero.

## 5. The proofs

The proof modules extend the module they are about; each has the shape initial
state, one case or lemma per action with a step per conjunct the action can
disturb, and a temporal theorem. Two of them are about two components; as these
have names in common, one is there by a named instance (`Event` in
`MCEventWatcher`, `Slim` in `MCSlimEvent`, `Guard` in `MCErrorReports`), and the
theorems speak of the specification that the run checks. All assume only the
`ASSUME`s of the modules: that owner and
pool, or threads and "no thread", are distinct; that sets of actors or objects are finite
where they are counted; that `Half` is at least two; that addresses can be stored;
that codes do not include the one that means success.

- *Tasks (`WaitOnAddressProofs`).* `IInv` is `TypeOK`, `Handover`, `Locals` and `Places`. None of
  the safety properties is inductive by itself: that nobody uses a freed frame
  depends on what `m_waiting` says of the other side at each point (`Handover`),
  on what each thread remembers (`Locals`), and on where it is (`Places`).
  Proved for every set of apartments: `NoUseAfterFree`, that the frame is not leaked,
  `AwaiterOutlivesResumer`, `BackInApartment`, and that `Task` implements
  `OneShotResult` (`Implements`).
- *Registry watcher (`WatcherProofs`).* `IInv` adds to `TypeOK` the single *turn* (armed,
  queued or one callback), who holds the *lock*, what the *count* counts, whose
  reference keeps the state in *life*, and the *places* that exclude one
  another. The count alone does not protect the state, since a late callback
  raises it from zero; that such a callback holds no reference is part of
  `Count`. Proved for every number of pool threads: `NoUseAfterFree`,
  that calls do not overlap, that the state is not leaked, that no callback waits
  for itself, and the refinement of `WatchContract`.
- *Event and folder watcher (`WatcherProofs`).* A call is one of several things a start
  can have become: the wait is armed, a callback is queued, or a thread of the pool runs
  one. No step makes two of these out of one (firing turns the first into the second,
  the pool the second into the third, re-arming the third into the first), so there are
  at most as many as there were starts (`Turns`); the third kind is a
  cardinality, which is why the pool has to be finite (`PoolAssumption`). The
  destructor is the other half (`Waited`): unless somebody arms the wait after it was
  disarmed, it stays disarmed, waiting for the callbacks leaves none queued or
  running, and none can come. Proved for every finite number of pool
  threads and any bounds: `EventCallsWithinStarts` and `NothingLeftToRun`, which also says under which
  condition finding 1 does no harm.
- *`FolderChangeReaderProofs`.* `IInv` is `TypeOK`, the single *turn* of the next
  read, the exact count of reads the pool expects (`IOsCounted`), that whoever
  starts a read has seen `m_tpIo` (`Lock`), and what is settled at each place of
  the destructor (`Teardown`). The lock matters in one step only: without it
  `m_tpIo` could be cleared, and the read looked for and not found, between the
  check and the read. Proved for every pool and every set of changes:
  `NoUseAfterFree`, that the buffer is stable, `IOsCounted` and the refinement.
- *Semaphore value (`ProcessLocalStorageProofs`).* Lemmas that a read of a created value gives the
  value and restores the semaphores, for every `Half`. The storage's proofs rest on them.
- *Storage (`ProcessLocalStorageProofs`).* `IInv` has the exact count of references
  (modules that use, threads that hold, those lost), the mutex with its section,
  what each place knows, that an unreferenced instance is one thread's own, and
  what is published. That one semaphore without the other is there only while its maker
  takes it down (`Halves`) is proved last, from the rest (`Core`) of the state before. For any finite sets of modules and threads and any
  addresses: all properties of the run follow, and that the end of the process is told
  once. The count is a cardinality, so each action that moves a reference cites a lemma on adding or removing one
  member.
- *Slim event (`WaitOnAddressProofs`).* `NoLostWakeup` and `OneWaitPerSignal` with types are
  inductive as they stand, for any set of threads.
- *Thread errors (`ErrorReportsProofs`).* `IInv` says of each thread: contexts
  nest (`Nested`); the ring holds the errors recorded last, in order
  (`RingInOrder`); and each context has *heard* of what was reported in it
  (`Heard`): a report that was dropped as seen has an earlier, recorded one with
  its code, and what the ring holds from after the opening was reported since.
  `NewestIsCurrent` and `ContextFindsError` follow at once. For `OriginationFound` the
  search is taken to the entry with the least sequence number among
  those with the code, and the ring's order makes that the first report, unless as many
  errors as the ring has places came after it. For any ring, nesting and number of reports.
- *Report guard (`ErrorReportsProofs`).* The counter is exactly the number of calls
  that were let in and are not out yet (a cardinality, over all
  threads' stacks), and a marked thread has a call that will clear the mark. So
  the guard is as new when nobody reports (`GuardRecovers`), and as every call that
  passed the check is counted, a thread has fewer of them than the limit
  (`RecursionIsBounded`). For any threads and limit.
- *`ActivityProofs`.* The invariant has five layers, and each needs those before it.
  *Owners:* an object in the middle of something belongs to the thread that works on it, and
  nobody else uses it. *Lists:* a list is exact, an object watches only its owner,
  and an object that is going is not watched; this rests on lemmas about
  taking the first occurrence out of a sequence. *Pointers, Homes:* the activity's data
  are in one place, the cell once there are copies and before that the one
  object that has it; the cell counts its holders. *Ends, Counts:* shares not given back, plus
  copies that `Split` has counted but not made, plus votes, are never more than the
  shares, and `stops` is the shares without a vote. Hence the stop that finds
  the count at zero is the last, nobody else is left to find himself the last holder
  meanwhile, and a last holder of data that run is alone with them
  (`ReportsAlone`). *ResultsHeld:* the data hold the first failure given so far,
  or, once found abandoned, that or another failure.
  All four properties follow, for any finite set of objects and any threads,
  watchers and codes. `PointersLeadToData` and `ListsAreExact` are not inductive
  without the owners, `StopIsReportedOnce` not without the count: two threads that
  each find themselves the last are excluded only because what each has seen adds up.
- *`ApartmentVariableProofs`.* The three properties of the run need each other
  and two facts more: which numbers are used up, so that a new value is none that a
  clearing has collected, and that an apartment that ends has no call in it. That
  clearing reaches everything is proved of actions that complete without an error, as the
  code has it. For
  any threads, apartments and variables, whatever clients clear.
  `CarefulClientsAreSafe` rests on a third: the storage a call remembers is the
  apartment's, if clients do not clear while a creator runs.
- *`FailureReportingProofs`.* First the conversions, for every code of 32 bits and
  every table of Windows: a failed status becomes a failed HRESULT
  (`StatusToHrFails`), a failed HRESULT a failed status unless its Win32 error is
  none (`HrToStatusFails`), an unmapped status comes back (`StatusComesBack`),
  a Win32 error comes back. Then the invariant: whatever stands for the failure, a
  fault in hand or an exception of the library's own, *tells* of the origin (`Tells`):
  both its codes fail unless the origin has no Win32 error, and they are
  the origin's as far as the types it went through can hold them. Each way up is
  one of a few things (handing on as one of three types, throwing, dealing with
  it, dying), each with a lemma that it keeps the invariant if what it is given tells of
  the origin; what catch blocks make of an exception tells of it by the lemmas on
  the recognisers. All four properties follow for any codes, settings and depth.

Only model-checked: liveness (`ClientGoesOn`, `ReleaseReturns`,
`EveryChangeReported`, `EventLastChangeObserved`, `ResetReturns`, `NobodySleepsOn`), which the prover
does not handle under fairness.

## 6. What is left out

- *Task.* The body of the coroutine is one step; moving a task around before it
  is awaited changes no shared state.
- *Registry watcher.* `EveryChangeReported` is about keys that can be watched. When
  access to the key is denied, the code calls the client and arms the wait without a
  registration behind it; when the handle is revoked it stops silently. Nothing is
  promised of later changes then. Memory and
  handle exhaustion at creation end it before there is anything to watch.
- *Event watcher.* Arming a wait that is closed or whose watcher is gone is undefined; the
  model takes it to be armed again as long as the state is there, and the client
  function does not start a watcher it can no longer reach. Destroying the watcher from its own callback waits for itself;
  the library documents no support for it and the client is assumed not to do it.
- *Folder change reader.* It is destroyed from outside its callback, as its
  destructor demands; nobody closes the folder through `folder_handle()`
  meanwhile. A refused read leaves it silent, and the client is not told: after
  that nothing is promised.
- *Storage.* That two first calls of one module lose a reference (`result.h:363`) is
  in the model and in the code: no property forbids it, and what it
  leaves behind is stated exactly. All modules are assumed to agree on the mutex's name; asking for
  the instance during shutdown is not modelled, nor is a module that is half unloaded when the
  process ends.
- *Thread errors.* The strings kept with an error and running out of memory are
  left out. A thread's data is keyed by its id and outlives it, so that a later
  thread with that id starts with the ring of its predecessor; this is in the
  model (`ThreadIdReused`), and what a context finds is right in spite of it.
  Contexts are closed in reverse order, as stack objects are; the
  wrap of the 32-bit sequence number is not reached. A thread finds its own data:
  the hash behind it is not modelled.
- *Failure reporting.* The text of failures, telemetry, the macros that only
  return a Boolean, the origination of COM errors (`result_originate.h`) and the filter
  of `FailFastException` are left out. Depth counts functions that take part; what
  they do between is free. An application's own table of exceptions
  (`g_pfnResultFromCaughtException`) is represented by one foreign type that it
  knows or does not know. `g_fResultSupportStdException`, which the guard of a
  debug build asks, has its default, true.
- *Activity.* Providers, call contexts, what events contain, and an allocation that
  fails when an activity is first copied are left out. Three things are assumed of
  clients that the code enforces in part or not at all: `Split` is called, and `Stop` given a
  result, through an object whose share is still owed (`share`), so that a
  moved-from object is not stopped and none is stopped twice; and
  `operator=` copies onto an object that has no activity running and no copies. The code
  asserts that an activity runs when it is split (`Tracelogging.h:1468`) and that
  no more stops come than were counted (line 1242), for all shares together; that a share is
  given back twice while another is still out, or that a running activity is
  assigned over, it does not notice.
- *Apartment variable.* `set` replaces the content of a value that exists, which
  the model does not tell apart. The fail-fast of a global variable at unload is
  left out, and so are an exception of another type while all apartments are cleared, which ends the process, and a new variable at the address of a destroyed one that
  the background is still clearing.
  An action that completes with an error leaves values where they are
  (`com_apartment_variable.h:423`); the destructor of a variable starts one and looks
  at no result, so that nobody learns of it there.
- *Slim event.* Time is not measured; the address is valid as long as it is used.
- *Memory order.* Interlocked operations are taken as sequentially consistent.
  Plain fields that are published by one are steps of their own, before it.
