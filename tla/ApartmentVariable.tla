-------------------------- MODULE ApartmentVariable --------------------------
(***************************************************************************)
(* wil::apartment_variable (include/wil/com_apartment_variable.h): values  *)
(* kept per COM apartment.  The storage of an apartment is made with its   *)
(* first variable and goes with its last one, or when the apartment runs   *)
(* down.  get_or_create holds the lock, s_lock, to find the storage and to *)
(* insert the value, but not while the client's creator runs; creators may *)
(* use the variables, this one too.  Sections under the lock are steps.    *)
(***************************************************************************)
EXTENDS Integers, Sequences

CONSTANTS
  Threads, Apartments, Vars,
  Home,                  \* the apartment of each thread
  Mta,                   \* the multithreaded apartment
  MaxDepth,              \* bound: creators within creators
  MaxIds,                \* bound: storages and values made
  ClearsWhileCreating    \* may a variable be cleared while a creator runs?

ASSUME ApartmentAssumption ==
  /\ Home \in [Threads -> Apartments]
  /\ MaxDepth \in Nat /\ MaxIds \in Nat

VARIABLES
  state,       \* of each apartment: "up", "ending" (observers are called) or "down"
  storage,     \* s_apartmentStorage: the number of the apartment's storage, 0 for none
  values,      \* and in it each variable's value by number, 0 for none
  registered,  \* the apartments for which the system holds a shutdown observer
  creating,    \* the calls of get_or_create on each thread that run a creator
  job,         \* clear_all_apartments_async of each variable: the apartments still to
               \* be visited, the values there were, and whether it ended with an error
  nextId,
  handed,      \* history: the value handed out and not cleared since, 0 for none
  strayed      \* history: how many insertions went to storage that was gone

vars == <<state, storage, values, registered, creating, job, nextId, handed, strayed>>

NoValues == [v \in Vars |-> 0]
NoJob == [todo |-> {}, old |-> {}, failed |-> FALSE]

Init ==
  /\ state = [a \in Apartments |-> "up"]
  /\ storage = [a \in Apartments |-> 0]
  /\ values = [a \in Apartments |-> NoValues]
  /\ registered = {}
  /\ creating = [t \in Threads |-> <<>>]
  /\ job = [v \in Vars |-> NoJob]
  /\ nextId = 1
  /\ handed = [a \in Apartments |-> NoValues]
  /\ strayed = 0

\* Client code runs on t: outside of all calls, or in a creator.
Runs(t) == state[Home[t]] = "up"
Quiet(a) == \A t \in Threads : Home[t] = a => Len(creating[t]) = 0
Frame(t) == creating[t][Len(creating[t])]
Pop(t) == creating' = [creating EXCEPT ![t] = SubSeq(@, 1, Len(@) - 1)]

---------------------------------------------------------------------------
(* get_or_create *)

\* The value is there and is returned, as get_if and get_existing do.
Find(t, v) ==
  /\ Runs(t) /\ values[Home[t]][v] # 0
  /\ handed' = [handed EXCEPT ![Home[t]][v] = values[Home[t]][v]]
  /\ UNCHANGED <<state, storage, values, registered, creating, job, nextId, strayed>>

\* ensure_current_apartment_variables makes the storage if there is none, and
\* the creator is called.  (If registering the observer throws, nothing changes.)
BeginCreate(t, v) ==
  LET a == Home[t]
      s == IF storage[a] # 0 THEN storage[a] ELSE nextId
  IN
  /\ Runs(t) /\ values[a][v] = 0 /\ Len(creating[t]) < MaxDepth
  /\ s <= MaxIds
  /\ storage' = [storage EXCEPT ![a] = s]
  /\ registered' = registered \cup {a}
  /\ nextId' = IF storage[a] = 0 THEN nextId + 1 ELSE nextId
  /\ creating' = [creating EXCEPT ![t] = Append(@, [var |-> v, at |-> s])]
  /\ UNCHANGED <<state, values, job, handed, strayed>>

CreatorThrows(t) ==
  /\ Len(creating[t]) > 0
  /\ Pop(t)
  /\ UNCHANGED <<state, storage, values, registered, job, nextId, handed, strayed>>

\* The value made last replaces one that a creator or another thread has inserted.
Inserted_Replaces(old, new) == new

\* What insert leaves in the map: a value that is there already stays.
Inserted(old, new) ==
  IF old # 0 THEN old ELSE new

\* The creator has returned; its value goes into the storage found before.
Insert(t) ==
  LET a == Home[t]
      v == Frame(t).var
      kept == Inserted(values[a][v], nextId)
  IN
  /\ Len(creating[t]) > 0 /\ nextId <= MaxIds
  /\ Pop(t)
  /\ nextId' = nextId + 1
  /\ IF Frame(t).at = storage[a]
     THEN /\ values' = [values EXCEPT ![a][v] = kept]
          /\ handed' = [handed EXCEPT ![a][v] = IF @ # 0 THEN @ ELSE kept]
          /\ UNCHANGED strayed
     ELSE /\ strayed' = strayed + 1
          /\ UNCHANGED <<values, handed>>
  /\ UNCHANGED <<state, storage, registered, job>>

---------------------------------------------------------------------------
(* clear, and clear_all_apartments_async *)

\* The registration is forgotten rather than given back.
ClearIn_KeepsObserver(a, v) ==
  /\ values' = [values EXCEPT ![a][v] = 0]
  /\ storage' = IF \A w \in Vars \ {v} : values[a][w] = 0 THEN [storage EXCEPT ![a] = 0] ELSE storage
  /\ UNCHANGED registered
  /\ handed' = [handed EXCEPT ![a][v] = 0]

\* clear in apartment a.  Storage without variables goes, and its registration.
ClearIn(a, v) ==
  /\ values' = [values EXCEPT ![a][v] = 0]
  /\ IF \A w \in Vars \ {v} : values[a][w] = 0
     THEN storage' = [storage EXCEPT ![a] = 0] /\ registered' = registered \ {a}
     ELSE UNCHANGED <<storage, registered>>
  /\ handed' = [handed EXCEPT ![a][v] = 0]

MayClear(a) == ClearsWhileCreating \/ Quiet(a)

Clear(t, v) ==
  /\ Runs(t) /\ MayClear(Home[t])
  /\ ClearIn(Home[t], v)
  /\ UNCHANGED <<state, creating, job, nextId, strayed>>

\* Only the current apartment is taken along.
ClearAll_One(v) ==
  LET holding == {a \in Apartments : values[a][v] # 0} IN
  /\ job[v].todo = {} /\ holding # {}
  /\ \E b \in holding :
       job' = [job EXCEPT ![v] = [todo |-> {b}, old |-> {values[a][v] : a \in holding},
                                  failed |-> FALSE]]
  /\ UNCHANGED <<state, storage, values, registered, creating, nextId, handed, strayed>>

\* It collects the apartments with a value, under the lock, and goes to the
\* background; the multithreaded apartment is kept up until it is done.
ClearAll(v) ==
  LET holding == {a \in Apartments : values[a][v] # 0} IN
  /\ job[v].todo = {} /\ holding # {}
  /\ job' = [job EXCEPT ![v] = [todo |-> holding, old |-> {values[a][v] : a \in holding},
                                failed |-> FALSE]]
  /\ UNCHANGED <<state, storage, values, registered, creating, nextId, handed, strayed>>

\* It enters the next apartment and clears there: its value, or a newer one.
Visit(v, a) ==
  /\ a \in job[v].todo /\ state[a] = "up" /\ MayClear(a)
  /\ job' = [job EXCEPT ![v].todo = @ \ {a}]
  /\ ClearIn(a, v)
  /\ UNCHANGED <<state, creating, nextId, strayed>>

\* The apartment cannot be entered any more (RPC_E_DISCONNECTED or
\* RPC_E_SERVER_DIED_DNE): it is passed over.
PassOver(v, a) ==
  /\ a \in job[v].todo /\ state[a] # "up"
  /\ job' = [job EXCEPT ![v].todo = @ \ {a}]
  /\ UNCHANGED <<state, storage, values, registered, creating, nextId, handed, strayed>>

\* Entering it, or clearing there, throws any other hresult_error.  It is thrown on,
\* the action completes with it, and the apartments still to come are not visited.
Rethrow(v, a) ==
  /\ a \in job[v].todo
  /\ job' = [job EXCEPT ![v].todo = {}, ![v].failed = TRUE]
  /\ UNCHANGED <<state, storage, values, registered, creating, nextId, handed, strayed>>

---------------------------------------------------------------------------
(* The end of an apartment *)

\* The last thread leaves; nothing of the client runs in the apartment.
BeginRundown(a) ==
  /\ state[a] = "up" /\ Quiet(a)
  /\ a = Mta => \A v \in Vars : job[v].todo = {}
  /\ state' = [state EXCEPT ![a] = "ending"]
  /\ UNCHANGED <<storage, values, registered, creating, job, nextId, handed, strayed>>

\* The observer takes the storage out, and the values die outside of the lock.
OnUninitialize(a) ==
  /\ state[a] = "ending" /\ a \in registered
  /\ storage' = [storage EXCEPT ![a] = 0]
  /\ values' = [values EXCEPT ![a] = NoValues]
  /\ registered' = registered \ {a}
  /\ handed' = [handed EXCEPT ![a] = NoValues]
  /\ UNCHANGED <<state, creating, job, nextId, strayed>>

EndRundown(a) ==
  /\ state[a] = "ending" /\ a \notin registered
  /\ state' = [state EXCEPT ![a] = "down"]
  /\ UNCHANGED <<storage, values, registered, creating, job, nextId, handed, strayed>>

---------------------------------------------------------------------------
Next ==
  \/ \E t \in Threads :
       \/ \E v \in Vars : Find(t, v) \/ BeginCreate(t, v) \/ Clear(t, v)
       \/ CreatorThrows(t) \/ Insert(t)
  \/ \E v \in Vars :
       \/ ClearAll(v)
       \/ \E a \in Apartments : Visit(v, a) \/ PassOver(v, a) \/ Rethrow(v, a)
  \/ \E a \in Apartments : BeginRundown(a) \/ OnUninitialize(a) \/ EndRundown(a)

Spec == Init /\ [][Next]_vars

---------------------------------------------------------------------------
Calls == [var : Vars, at : Nat]
Jobs == [todo : SUBSET Apartments, old : SUBSET Nat, failed : BOOLEAN]

TypeOK ==
  /\ state \in [Apartments -> {"up", "ending", "down"}]
  /\ storage \in [Apartments -> Nat]
  /\ values \in [Apartments -> [Vars -> Nat]]
  /\ registered \subseteq Apartments
  /\ creating \in [Threads -> Seq(Calls)]
  /\ job \in [Vars -> Jobs]
  /\ nextId \in Nat \ {0}
  /\ handed \in [Apartments -> [Vars -> Nat]]
  /\ strayed \in Nat

\* get_or_create never inserts into storage that has gone while the creator ran.
NoUseAfterFree == strayed = 0

\* A value handed out by reference stays until this variable is cleared in this
\* apartment or the apartment ends, whatever other threads, other variables and
\* creators that lost against another do meanwhile.
HandedOutValuesLive ==
  \A a \in Apartments, v \in Vars : handed[a][v] # 0 => values[a][v] = handed[a][v]

\* The system calls an observer exactly for the apartments that have storage:
\* none finds its storage missing, and no value outlives its apartment.
ObserversMatchStorage ==
  \A a \in Apartments :
    /\ a \in registered <=> storage[a] # 0
    /\ state[a] = "down" => storage[a] = 0
    /\ storage[a] = 0 => \A v \in Vars : values[a][v] = 0

\* clear_all_apartments_async forgets no value unless it says so: one that existed
\* when it began is gone, or its apartment is still to be visited, or ends and takes
\* it along, or the action has completed with an error.  (The variable's destructor
\* starts it as well, and looks at no result.)
ClearAllReachesAll ==
  \A v \in Vars, a \in Apartments :
    values[a][v] \in job[v].old =>
      a \in job[v].todo \/ state[a] = "ending" \/ job[v].failed
=============================================================================
