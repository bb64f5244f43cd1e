---------------------- MODULE ProcessLocalStorageProofs ----------------------
(***************************************************************************)
(* What is created from a value is read back as that value, for every      *)
(* value, every width of a semaphore, and without leaving a trace; hence   *)
(* one instance for all modules, counted and freed exactly, for any number *)
(* of modules, threads and addresses.                                      *)
(***************************************************************************)
EXTENDS ProcessLocalStorage, TLAPS, FiniteSetTheorems

---------------------------------------------------------------------------
(* Semaphore values.                                                       *)

\* Reading one semaphore gives its count and leaves it as it was.
LEMMA SemaphoreReadBack ==
  ASSUME NEW v \in 0 .. Half - 1
  PROVE  GetValueFromSemaphore(CreateSemaphore(v))
           = [hr |-> "S_OK", value |-> v, sem |-> CreateSemaphore(v)]
<1> USE HalfAssumption
<1>1. CASE v = 0
  <2>1. CreateSemaphore(v) = [count |-> 0, max |-> 1]
    BY <1>1 DEF CreateSemaphore
  <2>2. WaitForSingleObject(CreateSemaphore(v))
          = [result |-> "TIMEOUT", sem |-> [count |-> 0, max |-> 1]]
    BY <2>1 DEF WaitForSingleObject
  <2>3. ReleaseSemaphore([count |-> 0, max |-> 1])
          = [ok |-> TRUE, previous |-> 0, sem |-> [count |-> 1, max |-> 1]]
    BY DEF ReleaseSemaphore
  <2>4. ReleaseSemaphore([count |-> 1, max |-> 1])
          = [ok |-> FALSE, previous |-> 0, sem |-> [count |-> 1, max |-> 1]]
    BY DEF ReleaseSemaphore
  <2>5. WaitForSingleObject([count |-> 1, max |-> 1])
          = [result |-> "OBJECT_0", sem |-> [count |-> 0, max |-> 1]]
    BY DEF WaitForSingleObject
  <2>6. QED
    BY <1>1, <2>1, <2>2, <2>3, <2>4, <2>5 DEF GetValueFromSemaphore
<1>2. CASE v > 0
  <2>1. CreateSemaphore(v) = [count |-> v, max |-> v]
    BY <1>2 DEF CreateSemaphore
  <2>2. WaitForSingleObject(CreateSemaphore(v))
          = [result |-> "OBJECT_0", sem |-> [count |-> v - 1, max |-> v]]
    BY <1>2, <2>1 DEF WaitForSingleObject
  <2>3. ReleaseSemaphore([count |-> v - 1, max |-> v])
          = [ok |-> TRUE, previous |-> v - 1, sem |-> [count |-> v, max |-> v]]
    BY <1>2 DEF ReleaseSemaphore
  <2>4. ReleaseSemaphore([count |-> v, max |-> v])
          = [ok |-> FALSE, previous |-> 0, sem |-> [count |-> v, max |-> v]]
    BY <1>2 DEF ReleaseSemaphore
  <2>5. QED
    BY <1>2, <2>1, <2>2, <2>3, <2>4 DEF GetValueFromSemaphore
<1>3. QED
  BY <1>1, <1>2

\* A semaphore that was created is a semaphore.
LEMMA CreatedIsCounted ==
  ASSUME NEW v \in 0 .. Half - 1
  PROVE  CreateSemaphore(v) \in Counted
  BY HalfAssumption DEF CreateSemaphore, Counted

\* Division with remainder.
LEMMA Division ==
  ASSUME NEW a \in Int, NEW b \in Int, b > 0
  PROVE  /\ a \div b \in Int
         /\ a % b \in 0 .. b - 1
         /\ a = b * (a \div b) + (a % b)
  OBVIOUS

\* The two parts of a value fit into a semaphore each, and make it up again.
LEMMA Parts ==
  ASSUME NEW v \in 0 .. Half * Half - 1
  PROVE  /\ v % Half \in 0 .. Half - 1
         /\ v \div Half \in 0 .. Half - 1
         /\ (v \div Half) * Half + (v % Half) = v
<1>1. v \in Int /\ Half \in Int /\ Half > 0
  BY HalfAssumption
<1>2. v % Half \in 0 .. Half - 1
  BY <1>1, Division
<1>3. v = Half * (v \div Half) + (v % Half)
  BY <1>1, Division
<1>4. v \div Half \in Int
  BY <1>1, Division
<1>5. v \div Half < Half
  BY <1>1, <1>2, <1>3, <1>4
<1>6. v \div Half >= 0
  BY <1>1, <1>2, <1>3, <1>4
<1>7. QED
  BY <1>1, <1>2, <1>3, <1>4, <1>5, <1>6

\* What a reader makes of two semaphores that can be read, of the first alone,
\* and of the first when the second is missing.
LEMMA ReadOne ==
  ASSUME NEW pair, NEW v, NEW low,
         pair.low # NoSemaphore,
         GetValueFromSemaphore(pair.low) = [hr |-> "S_OK", value |-> v, sem |-> low]
  PROVE  /\ TryGetValue(4, pair)
              = [hr |-> "S_OK", value |-> v, retrieved |-> TRUE,
                 names |-> [low |-> low, high |-> pair.high]]
         /\ pair.high = NoSemaphore =>
              TryGetValue(8, pair)
                = [hr |-> "ERROR_FILE_NOT_FOUND", value |-> 0, retrieved |-> FALSE,
                   names |-> [low |-> low, high |-> pair.high]]
  BY DEF TryGetValue, Is64Bit

LEMMA ReadBoth ==
  ASSUME NEW pair, NEW v, NEW w, NEW low, NEW high,
         pair.low # NoSemaphore, pair.high # NoSemaphore,
         GetValueFromSemaphore(pair.low) = [hr |-> "S_OK", value |-> v, sem |-> low],
         GetValueFromSemaphore(pair.high) = [hr |-> "S_OK", value |-> w, sem |-> high]
  PROVE  TryGetValue(8, pair)
           = [hr |-> "S_OK", value |-> w * Half + v, retrieved |-> TRUE,
              names |-> [low |-> low, high |-> high]]
  BY DEF TryGetValue, Is64Bit

\* What is created from a value is read back as that value, and is left as it
\* was for the next reader.
LEMMA ReadBack ==
  ASSUME NEW size \in Sizes, NEW v \in Storable(size)
  PROVE  TryGetValue(size, CreateFromValue(size, v))
           = [hr |-> "S_OK", value |-> v, retrieved |-> TRUE,
              names |-> CreateFromValue(size, v)]
<1>1. CASE size = 8
  <2> DEFINE x == v % Half
             y == v \div Half
             l == CreateSemaphore(x)
             h == CreateSemaphore(y)
             pair == CreateFromValue(size, v)
  <2>1. v \in 0 .. Half * Half - 1
    BY <1>1 DEF Storable, Is64Bit
  <2>2. l # NoSemaphore /\ h # NoSemaphore
    BY <2>1, Parts, CreatedIsCounted, NoSemaphoreAssumption
  <2>3. GetValueFromSemaphore(l) = [hr |-> "S_OK", value |-> x, sem |-> l]
    BY <2>1, Parts, SemaphoreReadBack
  <2>4. GetValueFromSemaphore(h) = [hr |-> "S_OK", value |-> y, sem |-> h]
    BY <2>1, Parts, SemaphoreReadBack
  <2>5. pair = [low |-> l, high |-> h] /\ pair.low = l /\ pair.high = h
    BY <1>1 DEF CreateFromValue, Is64Bit
  <2> HIDE DEF x, y, l, h, pair
  <2>6. TryGetValue(8, pair)
          = [hr |-> "S_OK", value |-> y * Half + x,
             retrieved |-> TRUE, names |-> pair]
    <3>1. pair.low # NoSemaphore /\ pair.high # NoSemaphore
      BY <2>2, <2>5
    <3>2. GetValueFromSemaphore(pair.low) = [hr |-> "S_OK", value |-> x, sem |-> l]
      BY <2>3, <2>5
    <3>3. GetValueFromSemaphore(pair.high) = [hr |-> "S_OK", value |-> y, sem |-> h]
      BY <2>4, <2>5
    <3>4. TryGetValue(8, pair)
            = [hr |-> "S_OK", value |-> y * Half + x, retrieved |-> TRUE,
               names |-> [low |-> l, high |-> h]]
      BY <3>1, <3>2, <3>3, ReadBoth
    <3>5. QED
      BY <2>5, <3>4
  <2>7. QED
    BY <1>1, <2>1, <2>6, Parts DEF pair, x, y
<1>2. CASE size = 4
  <2> DEFINE l == CreateSemaphore(v)
             pair == CreateFromValue(size, v)
  <2>1. v \in 0 .. Half - 1
    BY <1>2 DEF Storable, Is64Bit
  <2>2. v % Half = v
    BY <2>1, HalfAssumption
  <2>3. l # NoSemaphore
    BY <2>1, CreatedIsCounted, NoSemaphoreAssumption
  <2>4. GetValueFromSemaphore(l) = [hr |-> "S_OK", value |-> v, sem |-> l]
    BY <2>1, SemaphoreReadBack
  <2>5. /\ pair = [low |-> l, high |-> NoSemaphore]
        /\ pair.low = l /\ pair.high = NoSemaphore
    BY <1>2, <2>2 DEF CreateFromValue, Is64Bit
  <2> HIDE DEF l, pair
  <2>6. TryGetValue(4, pair)
          = [hr |-> "S_OK", value |-> v, retrieved |-> TRUE, names |-> pair]
    BY <2>3, <2>4, <2>5, ReadOne
  <2>7. QED
    BY <1>2, <2>6 DEF pair
<1>3. QED
  BY <1>1, <1>2 DEF Sizes

\* A pointer with two zero bits is read back as it is.
THEOREM PointerReadBack ==
  ASSUME NEW p, StorablePointer(p)
  PROVE  /\ TryGetPointer(CreateFromPointer(p)).hr = "S_OK"
         /\ TryGetPointer(CreateFromPointer(p)).pointer = p
         /\ TryGetPointer(CreateFromPointer(p)).names = CreateFromPointer(p)
<1> DEFINE q == p \div 4
<1>1. q \in Storable(8) /\ q * 4 = p
  <2>1. p \in Int /\ p >= 0 /\ p % 4 = 0 /\ q < Half * Half
    BY DEF StorablePointer
  <2>2. q \in Int /\ p = 4 * q + (p % 4)
    BY <2>1, Division
  <2>3. q >= 0 /\ q * 4 = p
    BY <2>1, <2>2
  <2>4. Half * Half \in Int
    BY HalfAssumption
  <2>5. QED
    BY <2>1, <2>2, <2>3, <2>4 DEF Storable, Is64Bit
<1>2. TryGetValue(8, CreateFromPointer(p))
        = [hr |-> "S_OK", value |-> p \div 4, retrieved |-> TRUE,
           names |-> CreateFromPointer(p)]
  BY <1>1, ReadBack DEF CreateFromPointer, Sizes
<1>3. TryGetPointer(CreateFromPointer(p))
      = [hr |-> "S_OK", pointer |-> q * 4, names |-> CreateFromPointer(p)]
  BY <1>2 DEF TryGetPointer
<1>4. QED
  BY <1>1, <1>3

\* Without names there is nothing to read, and a pointer leaves names.
LEMMA NothingToRead ==
  TryGetPointer(NoNames) = [hr |-> "S_OK", pointer |-> 0, names |-> NoNames]
<1>1. TryGetValue(8, NoNames)
      = [hr |-> "S_OK", value |-> 0, retrieved |-> FALSE, names |-> NoNames]
  BY DEF TryGetValue, NoNames
<1>2. QED
  BY <1>1 DEF TryGetPointer

LEMMA PointerIsNamed ==
  ASSUME NEW p, StorablePointer(p), p # 0
  PROVE  CreateFromPointer(p) # NoNames
<1>1. TryGetPointer(CreateFromPointer(p)).pointer = p
  BY PointerReadBack
<1>2. TryGetPointer(NoNames).pointer = 0
  BY NothingToRead
<1>3. QED
  BY <1>1, <1>2

---------------------------------------------------------------------------
(* The instance.                                                           *)

\* An address that is published is found, and no other.
LEMMA AddressIsFound ==
  ASSUME NEW a \in Addresses
  PROVE  /\ a \in Nat /\ a # 0
         /\ CreateFromPointer(a) # NoNames
         /\ TryGetPointer(CreateFromPointer(a)).pointer = a
         /\ TryGetPointer(CreateFromPointer(a)).names = CreateFromPointer(a)
         /\ \A b \in Addresses : CreateFromPointer(a) = CreateFromPointer(b) => a = b
<1>1. \A b \in Addresses : StorablePointer(b) /\ b \in Nat /\ b # 0
  BY AddressesAssumption DEF StorablePointer
<1>2. \A b \in Addresses : TryGetPointer(CreateFromPointer(b)).pointer = b
  BY <1>1, PointerReadBack
<1>3. QED
  BY <1>1, <1>2, PointerReadBack, PointerIsNamed

\* One semaphore alone is the name of no address.
LEMMA FirstIsNoAddress ==
  ASSUME NEW a \in Addresses, NEW b \in Addresses
  PROVE  CreateFirst(a) # CreateFromPointer(b)
<1>1. b \div 4 \in 0 .. Half * Half - 1
  <2>1. b \in Int /\ b >= 0 /\ b \div 4 < Half * Half
    BY AddressesAssumption DEF StorablePointer
  <2>2. Half * Half \in Int
    BY HalfAssumption
  <2>3. QED
    BY <2>1, <2>2
<1>2. CreateFromPointer(b).high \in Counted
  BY <1>1, Parts, CreatedIsCounted DEF CreateFromPointer, CreateFromValue, Is64Bit
<1>3. CreateFirst(a).high = NoSemaphore
  BY DEF CreateFirst
<1>4. QED
  BY <1>2, <1>3, NoSemaphoreAssumption

\* Counting one more and one less.
LEMMA CountAdd ==
  ASSUME NEW S, IsFiniteSet(S), NEW x, x \notin S
  PROVE  Cardinality(S \cup {x}) = Cardinality(S) + 1
  BY FS_AddElement

LEMMA CountRemove ==
  ASSUME NEW S, IsFiniteSet(S), NEW x \in S
  PROVE  Cardinality(S \ {x}) = Cardinality(S) - 1
  BY FS_RemoveElement

LEMMA Counts ==
  ASSUME NEW a
  PROVE  /\ IsFiniteSet(Users(a)) /\ Cardinality(Users(a)) \in Nat
         /\ IsFiniteSet(Takers(a)) /\ Cardinality(Takers(a)) \in Nat
<1>1. IsFiniteSet(Users(a)) /\ IsFiniteSet(Takers(a))
  BY ActorsAssumption, FS_Subset DEF Users, Takers
<1>2. QED
  BY <1>1, FS_CardinalityType

\* A set that is counted as nothing is empty.
LEMMA NotCounted ==
  ASSUME TypeOK, NEW a \in Addresses, Refs(a) = 0
  PROVE  Users(a) = {} /\ Takers(a) = {} /\ lost[a] = 0
<1>1. lost[a] \in Nat
  BY DEF TypeOK
<1>2. Cardinality(Users(a)) = 0 /\ Cardinality(Takers(a)) = 0 /\ lost[a] = 0
  BY <1>1, Counts DEF Refs
<1>3. QED
  BY <1>2, Counts, FS_EmptySet

\* A pointer that a module or a thread has a reference for is counted.
LEMMA ReferencedIsThere ==
  ASSUME TypeOK, RefsCounted, NEW a \in Addresses,
         Users(a) # {} \/ Takers(a) # {} \/ lost[a] # 0
  PROVE  heap[a] \in Nat /\ heap[a] > 0
<1>1. lost[a] \in Nat /\ heap[a] \in Nat \cup {Freed}
  BY DEF TypeOK
<1>2. Refs(a) \in Nat
  BY <1>1, Counts DEF Refs
<1>3. Refs(a) # 0
  BY NotCounted
<1>4. QED
  BY <1>1, <1>2, <1>3 DEF RefsCounted

---------------------------------------------------------------------------
LEMMA InitIInv == Init => IInv
<1> SUFFICES ASSUME Init PROVE IInv
  OBVIOUS
<1>1. TypeOK
  BY DEF Init, TypeOK, Pointers, Places, Freed
<1>2. MutexIsHeld /\ Owned /\ PlaceInv /\ EndInv
  BY ActorsAssumption
  DEF Init, MutexIsHeld, Owned, PlaceInv, EndInv, Section, Dying, Unloading, Getting
<1>3. Published /\ Cleanup
  BY AddressIsFound DEF Init, Published, Cleanup, Freed
<1>4. ASSUME NEW a \in Addresses PROVE Refs(a) = 0
  <2>1. a # 0
    BY AddressIsFound
  <2>2. Users(a) = {} /\ Takers(a) = {}
    BY <2>1 DEF Init, Users, Takers
  <2>3. QED
    BY <2>2, FS_EmptySet DEF Init, Refs
<1>5. RefsCounted
  BY <1>4 DEF Init, RefsCounted
<1>6. QED
  BY <1>1, <1>2, <1>3, <1>5 DEF IInv, Core, Halves, Init

\* A module asks for the instance.
LEMMA GetSharedStep ==
  ASSUME IInv, NEW t \in Threads, NEW m \in Modules, GetShared(t, m)
  PROVE  Core'
<1> USE DEF IInv, Core, GetShared, Goto, Return, Lock, Unlock
<1>1. TypeOK'
  BY DEF TypeOK, Pointers, Places, Freed
<1>2. MutexIsHeld'
  BY ActorsAssumption DEF TypeOK, MutexIsHeld, Section
<1>3. Owned'
  BY ActorsAssumption DEF TypeOK, Owned, Dying, Unloading, PlaceInv
<1>4. PlaceInv'
  BY ActorsAssumption DEF TypeOK, PlaceInv, Dying, Unloading, Getting, Freed
<1>5. Published'
  BY DEF TypeOK, Published, Freed
<1>6. Cleanup'
  BY DEF TypeOK, Cleanup, Dying, Unloading, Freed
<1>7. EndInv'
  BY DEF TypeOK, EndInv, Freed
<1>8. RefsCounted'
  <2> SUFFICES ASSUME NEW a \in Addresses
               PROVE  (heap[a] # Freed => heap[a] = Refs(a))' /\ (heap[a] = Freed => Refs(a) = 0)'
    BY DEF RefsCounted
  <2>1. Users(a)' = Users(a)
    BY DEF Users
  <2>2. Takers(a)' = Takers(a)
    BY DEF Takers, TypeOK
  <2>3. QED
    BY <2>1, <2>2 DEF RefsCounted, Refs
<1>9. QED
  BY <1>1, <1>2, <1>3, <1>4, <1>5, <1>6, <1>7, <1>8 DEF Core

\* The mutex is taken by one thread.
LEMMA AcquireStep ==
  ASSUME IInv, NEW t \in Threads, Acquire(t)
  PROVE  Core'
<1> USE DEF IInv, Core, Acquire, Goto, Return, Lock, Unlock
<1>1. TypeOK'
  BY DEF TypeOK, Pointers, Places, Freed
<1>2. MutexIsHeld'
  BY ActorsAssumption DEF TypeOK, MutexIsHeld, Section
<1>3. Owned'
  BY ActorsAssumption DEF TypeOK, Owned, Dying, Unloading, PlaceInv
<1>4. PlaceInv'
  BY ActorsAssumption DEF TypeOK, PlaceInv, Dying, Unloading, Getting, Freed
<1>5. Published'
  BY DEF TypeOK, Published, Freed
<1>6. Cleanup'
  BY DEF TypeOK, Cleanup, Dying, Unloading, Freed
<1>7. EndInv'
  BY DEF TypeOK, EndInv, Freed
<1>8. RefsCounted'
  <2> SUFFICES ASSUME NEW a \in Addresses
               PROVE  (heap[a] # Freed => heap[a] = Refs(a))' /\ (heap[a] = Freed => Refs(a) = 0)'
    BY DEF RefsCounted
  <2>1. Users(a)' = Users(a)
    BY DEF Users
  <2>2. Takers(a)' = Takers(a)
    BY DEF Takers, TypeOK
  <2>3. QED
    BY <2>1, <2>2 DEF RefsCounted, Refs
<1>9. QED
  BY <1>1, <1>2, <1>3, <1>4, <1>5, <1>6, <1>7, <1>8 DEF Core

\* Without a mutex nothing happens.
LEMMA AcquireFailsStep ==
  ASSUME IInv, NEW t \in Threads, AcquireFails(t)
  PROVE  Core'
<1> USE DEF IInv, Core, AcquireFails, Goto, Return, Lock, Unlock
<1>1. TypeOK'
  BY DEF TypeOK, Pointers, Places, Freed
<1>2. MutexIsHeld'
  BY ActorsAssumption DEF TypeOK, MutexIsHeld, Section
<1>3. Owned'
  BY ActorsAssumption DEF TypeOK, Owned, Dying, Unloading, PlaceInv
<1>4. PlaceInv'
  BY ActorsAssumption DEF TypeOK, PlaceInv, Dying, Unloading, Getting, Freed
<1>5. Published'
  BY DEF TypeOK, Published, Freed
<1>6. Cleanup'
  BY DEF TypeOK, Cleanup, Dying, Unloading, Freed
<1>7. EndInv'
  BY DEF TypeOK, EndInv, Freed
<1>8. RefsCounted'
  <2> SUFFICES ASSUME NEW a \in Addresses
               PROVE  (heap[a] # Freed => heap[a] = Refs(a))' /\ (heap[a] = Freed => Refs(a) = 0)'
    BY DEF RefsCounted
  <2>1. Users(a)' = Users(a)
    BY DEF Users
  <2>2. Takers(a)' = Takers(a)
    BY DEF Takers, TypeOK
  <2>3. QED
    BY <2>1, <2>2 DEF RefsCounted, Refs
<1>9. QED
  BY <1>1, <1>2, <1>3, <1>4, <1>5, <1>6, <1>7, <1>8 DEF Core

\* What is found under the mutex is referenced; what is not is not there.
LEMMA LookupStep ==
  ASSUME IInv, NEW t \in Threads, Lookup(t)
  PROVE  Core'
<1> USE DEF IInv, Core, Lookup, Goto, Return, Lock, Unlock
<1>1. \A u \in Threads : u # t => pc[u] \notin Section
  BY DEF MutexIsHeld, Section
<1>0. names = NoNames \/ \E a \in Addresses : names = CreateFromPointer(a)
  BY <1>1 DEF Halves, Section
<1>2. names' = names
  BY <1>0, NothingToRead, AddressIsFound
<1>3. \/ names = NoNames /\ TryGetPointer(names).pointer = 0
      \/ \E a \in Addresses : /\ TryGetPointer(names).pointer = a /\ a # 0
                             /\ names = CreateFromPointer(a) /\ heap[a] > 0
  <2>1. CASE names = NoNames
    BY <2>1, NothingToRead
  <2>2. ASSUME NEW a \in Addresses, names = CreateFromPointer(a)
        PROVE  TryGetPointer(names).pointer = a /\ a # 0 /\ heap[a] > 0
    <3>1. TryGetPointer(names).pointer = a /\ a # 0
      BY <2>2, AddressIsFound
    <3>2. heap[a] > 0
      BY <1>1, <2>2 DEF Published, Section
    <3>3. QED
      BY <3>1, <3>2
  <2>3. QED
    BY <1>0, <2>1, <2>2
<1>4. TypeOK'
  BY <1>2, <1>3 DEF TypeOK, Pointers, Places
<1>5. MutexIsHeld'
  BY ActorsAssumption DEF TypeOK, MutexIsHeld, Section
<1>6. Owned'
  BY ActorsAssumption DEF TypeOK, Owned, Dying, Unloading, PlaceInv
<1>7. PlaceInv'
  BY <1>2, <1>3, ActorsAssumption DEF TypeOK, PlaceInv, Dying, Unloading, Getting, Freed
<1>8. Published'
  BY <1>2 DEF TypeOK, Published
<1>9. Cleanup'
  BY DEF TypeOK, Cleanup, Dying, Unloading, Freed
<1>10. EndInv'
  BY DEF TypeOK, EndInv, Freed
<1>11. RefsCounted'
  <2> SUFFICES ASSUME NEW a \in Addresses
               PROVE  (heap[a] # Freed => heap[a] = Refs(a))' /\ (heap[a] = Freed => Refs(a) = 0)'
    BY DEF RefsCounted
  <2>1. Users(a)' = Users(a)
    BY DEF Users
  <2>2. Takers(a)' = Takers(a)
    BY DEF Takers, TypeOK
  <2>3. QED
    BY <2>1, <2>2 DEF RefsCounted, Refs
<1>12. QED
  BY <1>4, <1>5, <1>6, <1>7, <1>8, <1>9, <1>10, <1>11 DEF Core

\* Nothing is referenced.
LEMMA LookupFailsStep ==
  ASSUME IInv, NEW t \in Threads, LookupFails(t)
  PROVE  Core'
<1> USE DEF IInv, Core, LookupFails, Goto, Return, Lock, Unlock
<1>1. TypeOK'
  BY DEF TypeOK, Pointers, Places, Freed
<1>2. MutexIsHeld'
  BY ActorsAssumption DEF TypeOK, MutexIsHeld, Section
<1>3. Owned'
  BY ActorsAssumption DEF TypeOK, Owned, Dying, Unloading, PlaceInv
<1>4. PlaceInv'
  BY ActorsAssumption DEF TypeOK, PlaceInv, Dying, Unloading, Getting, Freed
<1>5. Published'
  BY DEF TypeOK, Published, Freed
<1>6. Cleanup'
  BY DEF TypeOK, Cleanup, Dying, Unloading, Freed
<1>7. EndInv'
  BY DEF TypeOK, EndInv, Freed
<1>8. RefsCounted'
  <2> SUFFICES ASSUME NEW a \in Addresses
               PROVE  (heap[a] # Freed => heap[a] = Refs(a))' /\ (heap[a] = Freed => Refs(a) = 0)'
    BY DEF RefsCounted
  <2>1. Users(a)' = Users(a)
    BY DEF Users
  <2>2. data[t] = 0 /\ a # 0
    BY AddressIsFound DEF PlaceInv
  <2>3. Takers(a)' = Takers(a)
    BY <2>2 DEF Takers, TypeOK
  <2>4. QED
    BY <2>1, <2>3 DEF RefsCounted, Refs
<1>9. QED
  BY <1>1, <1>2, <1>3, <1>4, <1>5, <1>6, <1>7, <1>8 DEF Core

\* A thread has a reference, which is counted.
LEMMA AddRefStep ==
  ASSUME IInv, NEW t \in Threads, AddRef(t)
  PROVE  Core'
<1> USE DEF IInv, Core, AddRef, Goto, Return, Lock, Unlock
<1>1. data[t] \in Addresses /\ heap[data[t]] \in Nat /\ heap[data[t]] > 0
  BY DEF TypeOK, PlaceInv, Pointers, Freed
<1>2. TypeOK'
  BY <1>1 DEF TypeOK, Pointers, Places
<1>3. MutexIsHeld'
  BY ActorsAssumption DEF TypeOK, MutexIsHeld, Section
<1>4. Owned'
  BY ActorsAssumption DEF TypeOK, Owned, Dying, Unloading, PlaceInv
<1>5. PlaceInv'
  BY ActorsAssumption DEF TypeOK, PlaceInv, Dying, Unloading, Getting, Freed
<1>6. Published'
  BY <1>1 DEF TypeOK, Published, Freed
<1>7. Cleanup'
  BY <1>1 DEF TypeOK, Cleanup, Dying, Unloading, Freed
<1>8. EndInv'
  BY DEF TypeOK, EndInv, Freed
<1>9. RefsCounted'
  <2> SUFFICES ASSUME NEW a \in Addresses
               PROVE  (heap[a] # Freed => heap[a] = Refs(a))' /\ (heap[a] = Freed => Refs(a) = 0)'
    BY DEF RefsCounted
  <2>1. Users(a)' = Users(a) /\ lost'[a] = lost[a]
    BY DEF Users
  <2>2. CASE a # data[t]
    <3>1. Takers(a)' = Takers(a) /\ heap'[a] = heap[a]
      BY <2>2 DEF Takers, TypeOK
    <3>2. QED
      BY <2>1, <3>1 DEF RefsCounted, Refs
  <2>3. CASE a = data[t]
    <3>1. Takers(a)' = Takers(a) \cup {t} /\ t \notin Takers(a)
      BY <2>3 DEF Takers, TypeOK
    <3>2. heap'[a] = heap[a] + 1 /\ heap[a] \in Nat /\ heap[a] > 0
      BY <1>1, <2>3 DEF TypeOK
    <3>3. Cardinality(Takers(a)') = Cardinality(Takers(a)) + 1
      BY <3>1, Counts, CountAdd
    <3>4. lost[a] \in Nat /\ heap[a] = Refs(a)
      BY <3>2 DEF RefsCounted, Freed, TypeOK
    <3>5. QED
      BY <2>1, <3>2, <3>3, <3>4, Counts DEF Refs, Freed
  <2>4. QED
    BY <2>2, <2>3
<1>10. QED
  BY <1>2, <1>3, <1>4, <1>5, <1>6, <1>7, <1>8, <1>9 DEF Core

\* A free address is published, for the one that holds the mutex only.
LEMMA MakeStep ==
  ASSUME IInv, NEW t \in Threads, Make(t)
  PROVE  Core'
<1> USE DEF IInv, Core, Make, Goto, Return, Lock, Unlock
<1>1. PICK b \in Addresses :
        /\ heap[b] = Freed
        /\ heap' = [heap EXCEPT ![b] = 0]
        /\ names' = CreateFromPointer(b)
        /\ data' = [data EXCEPT ![t] = b]
  OBVIOUS
<1>2. \A u \in Threads : u # t => pc[u] \notin Section
  BY DEF MutexIsHeld, Section
<1>3. names = NoNames /\ b # 0
  BY AddressIsFound DEF PlaceInv
<1>4. \A u \in Threads : pc[u] \in Dying => data[u] # b
  BY <1>1 DEF PlaceInv, Freed
<1>5. TypeOK'
  BY DEF TypeOK, Pointers, Places, Freed
<1>6. MutexIsHeld'
  BY ActorsAssumption DEF TypeOK, MutexIsHeld, Section
<1>7. Owned'
  BY <1>1, <1>4 DEF TypeOK, Owned, Dying, Unloading
<1>8. PlaceInv'
  <2>1. \A u \in Threads : data[u] \in Addresses =>
          (names' = CreateFromPointer(data[u]) => data[u] = b)
    BY <1>1, AddressIsFound
  <2>2. \A u \in Threads : u # t /\ pc[u] \in Dying =>
          names' # CreateFromPointer(data[u]) /\ heap'[data[u]] = 0 /\ pc[u] = "free"
    BY <1>1, <1>2, <1>4, <2>1 DEF PlaceInv, Dying, Section, TypeOK, Pointers
  <2>3. heap'[b] = 0
    BY <1>1 DEF TypeOK
  <2>4. QED
    BY <1>1, <1>2, <1>3, <2>2, <2>3, ActorsAssumption
    DEF TypeOK, PlaceInv, Dying, Unloading, Getting, Section
<1>9. Published'
  <2>1. \A a \in Addresses : heap[a] > 0 => FALSE
    BY <1>3, AddressIsFound DEF Published
  <2>2. \A a \in Addresses : names' = CreateFromPointer(a) => a = b
    BY <1>1, AddressIsFound
  <2>3. \A a \in Addresses : ~(heap'[a] > 0)
    BY <1>1, <2>1 DEF TypeOK
  <2>4. pc'[t] = "construct" /\ data'[t] = b
    BY <1>1 DEF TypeOK
  <2>5. QED
    BY <2>2, <2>3, <2>4 DEF Published
<1>10. Cleanup'
  BY <1>1 DEF TypeOK, Cleanup, Dying, Unloading, Freed
<1>11. EndInv'
  BY <1>1 DEF TypeOK, EndInv, Freed
<1>12. RefsCounted'
  <2> SUFFICES ASSUME NEW a \in Addresses
               PROVE  (heap[a] # Freed => heap[a] = Refs(a))' /\ (heap[a] = Freed => Refs(a) = 0)'
    BY DEF RefsCounted
  <2>1. Users(a)' = Users(a)
    BY DEF Users
  <2>2. Takers(a)' = Takers(a)
    BY <1>1 DEF Takers, TypeOK
  <2>3. QED
    BY <1>1, <2>1, <2>2 DEF RefsCounted, Refs, TypeOK, Freed
<1>13. QED
  BY <1>5, <1>6, <1>7, <1>8, <1>9, <1>10, <1>11, <1>12 DEF Core

\* Nothing is published.
LEMMA MakeFailsStep ==
  ASSUME IInv, NEW t \in Threads, MakeFails(t)
  PROVE  Core'
<1> USE DEF IInv, Core, MakeFails, Goto, Return, Lock, Unlock
<1>1. TypeOK'
  BY DEF TypeOK, Pointers, Places, Freed
<1>2. MutexIsHeld'
  BY ActorsAssumption DEF TypeOK, MutexIsHeld, Section
<1>3. Owned'
  BY ActorsAssumption DEF TypeOK, Owned, Dying, Unloading, PlaceInv
<1>4. PlaceInv'
  BY ActorsAssumption DEF TypeOK, PlaceInv, Dying, Unloading, Getting, Freed
<1>5. Published'
  BY DEF TypeOK, Published, Freed
<1>6. Cleanup'
  BY DEF TypeOK, Cleanup, Dying, Unloading, Freed
<1>7. EndInv'
  BY DEF TypeOK, EndInv, Freed
<1>8. RefsCounted'
  <2> SUFFICES ASSUME NEW a \in Addresses
               PROVE  (heap[a] # Freed => heap[a] = Refs(a))' /\ (heap[a] = Freed => Refs(a) = 0)'
    BY DEF RefsCounted
  <2>1. Users(a)' = Users(a)
    BY DEF Users
  <2>2. data[t] = 0 /\ a # 0
    BY AddressIsFound DEF PlaceInv
  <2>3. Takers(a)' = Takers(a)
    BY <2>2 DEF Takers, TypeOK
  <2>4. QED
    BY <2>1, <2>3 DEF RefsCounted, Refs
<1>9. QED
  BY <1>1, <1>2, <1>3, <1>4, <1>5, <1>6, <1>7, <1>8 DEF Core

\* What could not be published belongs to its maker, who takes it down.
LEMMA CreateFailsStep ==
  ASSUME IInv, NEW t \in Threads, CreateFails(t)
  PROVE  Core'
<1> USE DEF IInv, Core, CreateFails, Goto, Return, Lock, Unlock
<1>1. PICK b \in Addresses :
        /\ heap[b] = Freed
        /\ heap' = [heap EXCEPT ![b] = 0]
        /\ names' \in {NoNames, CreateFirst(b)}
        /\ data' = [data EXCEPT ![t] = b]
  OBVIOUS
<1>2. \A u \in Threads : u # t => pc[u] \notin Section
  BY DEF MutexIsHeld, Section
<1>3. names = NoNames /\ b # 0
  BY AddressIsFound DEF PlaceInv
<1>4. \A u \in Threads : pc[u] \in Dying => data[u] # b
  BY <1>1 DEF PlaceInv, Freed
<1>5. TypeOK'
  <2>1. names' = NoNames \/ names' = CreateFirst(b)
    BY <1>1
  <2>2. QED
    BY <1>1, <2>1 DEF TypeOK, Pointers, Places, Freed
<1>6. MutexIsHeld'
  BY ActorsAssumption DEF TypeOK, MutexIsHeld, Section
<1>7. Owned'
  BY <1>1, <1>4 DEF TypeOK, Owned, Dying, Unloading
<1>8. \A a \in Addresses : names' # CreateFromPointer(a)
  BY <1>1, AddressIsFound, FirstIsNoAddress
<1>9. PlaceInv'
  <2>1. \A u \in Threads : u # t /\ pc[u] \in Dying =>
          data[u] \in Addresses /\ heap'[data[u]] = 0 /\ pc[u] = "free"
    BY <1>1, <1>2, <1>4 DEF PlaceInv, Dying, Section, TypeOK, Pointers
  <2>2. heap'[b] = 0
    BY <1>1 DEF TypeOK
  <2>3. QED
    BY <1>1, <1>2, <1>3, <1>8, <2>1, <2>2, ActorsAssumption
    DEF TypeOK, PlaceInv, Dying, Unloading, Getting, Section
<1>10. Published'
  <2>1. \A a \in Addresses : ~(heap[a] > 0)
    BY <1>3, AddressIsFound DEF Published
  <2>2. \A a \in Addresses : ~(heap'[a] > 0)
    BY <1>1, <2>1 DEF TypeOK
  <2>3. QED
    BY <1>8, <2>2 DEF Published
<1>11. Cleanup'
  BY <1>1 DEF TypeOK, Cleanup, Dying, Unloading, Freed
<1>12. EndInv'
  BY <1>1 DEF TypeOK, EndInv, Freed
<1>13. RefsCounted'
  <2> SUFFICES ASSUME NEW a \in Addresses
               PROVE  (heap[a] # Freed => heap[a] = Refs(a))' /\ (heap[a] = Freed => Refs(a) = 0)'
    BY DEF RefsCounted
  <2>1. Users(a)' = Users(a)
    BY DEF Users
  <2>2. Takers(a)' = Takers(a)
    BY <1>1 DEF Takers, TypeOK
  <2>3. QED
    BY <1>1, <2>1, <2>2 DEF RefsCounted, Refs, TypeOK, Freed
<1>14. QED
  BY <1>5, <1>6, <1>7, <1>9, <1>10, <1>11, <1>12, <1>13 DEF Core

\* The maker leaves neither the memory nor a name.
LEMMA UnwindStep ==
  ASSUME IInv, NEW t \in Threads, Unwind(t)
  PROVE  Core'
<1> USE DEF IInv, Core, Unwind, Goto, Return, Lock, Unlock
<1>1. /\ data[t] \in Addresses /\ heap[data[t]] = 0
      /\ names \in {NoNames, CreateFirst(data[t])}
  BY DEF TypeOK, PlaceInv, Pointers, Dying
<1>2. \A u \in Threads : u # t /\ pc[u] \in Dying => data[u] # data[t]
  BY DEF Owned, Dying
<1>3. /\ heap' = [heap EXCEPT ![data[t]] = Freed]
      /\ names' = NoNames
      /\ data' = [data EXCEPT ![t] = 0]
  OBVIOUS
<1>4. \A u \in Threads : u # t => pc[u] \notin Section
  BY DEF MutexIsHeld, Section
<1>5. \A a \in Addresses : names' # CreateFromPointer(a) /\ a # 0
  BY <1>3, AddressIsFound
<1>6. \A a \in Addresses : ~(heap[a] > 0)
  <2> SUFFICES ASSUME NEW a \in Addresses, heap[a] > 0 PROVE FALSE
    OBVIOUS
  <2>1. names = CreateFromPointer(a)
    BY DEF Published
  <2>2. QED
    BY <1>1, <2>1, AddressIsFound, FirstIsNoAddress
<1>7. TypeOK'
  BY <1>3 DEF TypeOK, Pointers, Places, Freed
<1>8. MutexIsHeld'
  BY ActorsAssumption DEF TypeOK, MutexIsHeld, Section
<1>9. Owned'
  BY <1>3 DEF TypeOK, Owned, Dying, Unloading
<1>10. PlaceInv'
  <2>1. \A u \in Threads : u # t /\ pc[u] \in Dying => pc[u] = "free" /\ heap'[data[u]] = heap[data[u]]
    BY <1>1, <1>2, <1>3, <1>4 DEF TypeOK, PlaceInv, Dying, Pointers, Section, Unloading
  <2>2. QED
    BY <1>1, <1>3, <1>4, <1>5, <2>1, ActorsAssumption
    DEF TypeOK, PlaceInv, Dying, Unloading, Getting, Section, Pointers
<1>11. Published'
  <2>1. \A a \in Addresses : ~(heap'[a] > 0)
    BY <1>1, <1>3, <1>6 DEF TypeOK, Freed
  <2>2. QED
    BY <1>5, <2>1 DEF Published
<1>12. Cleanup'
  BY <1>3 DEF TypeOK, Cleanup, Dying, Unloading, Freed
<1>13. EndInv'
  BY <1>3 DEF TypeOK, EndInv, Freed
<1>14. RefsCounted'
  <2> SUFFICES ASSUME NEW a \in Addresses
               PROVE  (heap[a] # Freed => heap[a] = Refs(a))' /\ (heap[a] = Freed => Refs(a) = 0)'
    BY DEF RefsCounted
  <2>1. Users(a)' = Users(a)
    BY DEF Users
  <2>2. Takers(a)' = Takers(a)
    BY <1>3, <1>5 DEF Takers, TypeOK
  <2>3. CASE a = data[t]
    BY <1>1, <1>3, <2>1, <2>2, <2>3 DEF RefsCounted, Refs, TypeOK, Freed
  <2>4. CASE a # data[t]
    BY <1>3, <2>1, <2>2, <2>4 DEF RefsCounted, Refs, TypeOK
  <2>5. QED
    BY <2>3, <2>4
<1>15. QED
  BY <1>7, <1>8, <1>9, <1>10, <1>11, <1>12, <1>13, <1>14 DEF Core

\* The maker has the first reference.
LEMMA InitializeStep ==
  ASSUME IInv, NEW t \in Threads, Initialize(t)
  PROVE  Core'
<1> USE DEF IInv, Core, Initialize, Goto, Return, Lock, Unlock
<1>1. data[t] \in Addresses /\ heap[data[t]] = 0 /\ names = CreateFromPointer(data[t])
  BY DEF TypeOK, PlaceInv, Pointers, Dying
<1>2. \A u \in Threads : u # t /\ pc[u] \in Dying => data[u] # data[t]
  BY DEF Owned, Dying
<1>3. heap' = [heap EXCEPT ![data[t]] = 1]
  OBVIOUS
<1>4. TypeOK'
  BY DEF TypeOK, Pointers, Places, Freed
<1>5. MutexIsHeld'
  BY ActorsAssumption DEF TypeOK, MutexIsHeld, Section
<1>6. Owned'
  BY ActorsAssumption DEF TypeOK, Owned, Dying, Unloading, PlaceInv
<1>7. PlaceInv'
  BY <1>1, <1>2, <1>3, ActorsAssumption
  DEF TypeOK, PlaceInv, Dying, Unloading, Getting, Freed, Pointers
<1>8. Published'
  BY <1>1, <1>3 DEF TypeOK, Published
<1>9. Cleanup'
  BY <1>1, <1>2, <1>3 DEF TypeOK, Cleanup, Dying, Unloading, Freed
<1>10. EndInv'
  BY DEF TypeOK, EndInv, Freed
<1>11. RefsCounted'
  <2> SUFFICES ASSUME NEW a \in Addresses
               PROVE  (heap[a] # Freed => heap[a] = Refs(a))' /\ (heap[a] = Freed => Refs(a) = 0)'
    BY DEF RefsCounted
  <2>1. Users(a)' = Users(a) /\ lost'[a] = lost[a]
    BY DEF Users
  <2>2. CASE a # data[t]
    <3>1. Takers(a)' = Takers(a) /\ heap'[a] = heap[a]
      BY <2>2 DEF Takers, TypeOK
    <3>2. QED
      BY <2>1, <3>1 DEF RefsCounted, Refs
  <2>3. CASE a = data[t]
    <3>1. Refs(a) = 0
      BY <1>1, <2>3 DEF RefsCounted, Freed
    <3>2. Users(a) = {} /\ Takers(a) = {} /\ lost[a] = 0
      BY <3>1, NotCounted
    <3>3. Takers(a)' = Takers(a) \cup {t}
      BY <2>3 DEF Takers, TypeOK
    <3>4. Cardinality({}) = 0 /\ IsFiniteSet({})
      BY FS_EmptySet
    <3>5. Cardinality(Takers(a)') = 1 /\ Cardinality(Users(a)') = 0
      <4>1. Cardinality({} \cup {t}) = 1
        BY <3>4, CountAdd
      <4>2. QED
        BY <2>1, <3>2, <3>3, <3>4, <4>1
    <3>6. heap'[a] = 1
      BY <1>3, <2>3 DEF TypeOK
    <3>7. QED
      BY <2>1, <3>2, <3>5, <3>6 DEF Refs, Freed
  <2>4. QED
    BY <2>2, <2>3
<1>12. QED
  BY <1>4, <1>5, <1>6, <1>7, <1>8, <1>9, <1>10, <1>11 DEF Core

\* The mutex is free, and what is published is referenced.
LEMMA AcquireReturnsStep ==
  ASSUME IInv, NEW t \in Threads, AcquireReturns(t)
  PROVE  Core'
<1> USE DEF IInv, Core, AcquireReturns, Goto, Return, Lock, Unlock
<1>1. TypeOK'
  BY DEF TypeOK, Pointers, Places, Freed
<1>2. MutexIsHeld'
  BY ActorsAssumption DEF TypeOK, MutexIsHeld, Section
<1>3. Owned'
  BY ActorsAssumption DEF TypeOK, Owned, Dying, Unloading, PlaceInv
<1>4. PlaceInv'
  BY ActorsAssumption DEF TypeOK, PlaceInv, Dying, Unloading, Getting, Freed
<1>5. Published'
  BY DEF TypeOK, Published, Freed
<1>6. Cleanup'
  BY DEF TypeOK, Cleanup, Dying, Unloading, Freed
<1>7. EndInv'
  BY DEF TypeOK, EndInv, Freed
<1>8. RefsCounted'
  <2> SUFFICES ASSUME NEW a \in Addresses
               PROVE  (heap[a] # Freed => heap[a] = Refs(a))' /\ (heap[a] = Freed => Refs(a) = 0)'
    BY DEF RefsCounted
  <2>1. Users(a)' = Users(a)
    BY DEF Users
  <2>2. data[t] = a => data[t] # 0
    BY AddressIsFound
  <2>3. Takers(a)' = Takers(a)
    BY <2>2 DEF Takers, TypeOK
  <2>4. QED
    BY <2>1, <2>3 DEF RefsCounted, Refs
<1>9. QED
  BY <1>1, <1>2, <1>3, <1>4, <1>5, <1>6, <1>7, <1>8 DEF Core

\* A reference is kept, or lost to a faster thread.
LEMMA CheckStep ==
  ASSUME IInv, NEW t \in Threads, Check(t)
  PROVE  Core'
<1> USE DEF IInv, Core, Check, Goto, Return, Lock, Unlock
<1> USE DEF Lose
<1>1. data[t] \in Addresses /\ module[t] \in Modules
  BY DEF TypeOK, PlaceInv, Pointers
<1>2. lost[data[t]] \in Nat /\ heap[data[t]] \in Nat /\ heap[data[t]] > 0
  <2>1. t \in Takers(data[t])
    BY DEF Takers
  <2>2. QED
    BY <1>1, <2>1, ReferencedIsThere DEF TypeOK
<1>3. TypeOK'
  BY <1>1, <1>2 DEF TypeOK, Pointers, Places
<1>4. MutexIsHeld'
  BY ActorsAssumption DEF TypeOK, MutexIsHeld, Section
<1>5. Owned'
  BY ActorsAssumption DEF TypeOK, Owned, Dying, Unloading, PlaceInv
<1>6. PlaceInv'
  BY ActorsAssumption DEF TypeOK, PlaceInv, Dying, Unloading, Getting, Freed
<1>7. Published'
  BY DEF TypeOK, Published, Freed
<1>8. Cleanup'
  BY DEF TypeOK, Cleanup, Dying, Unloading, Freed
<1>9. EndInv'
  BY DEF TypeOK, EndInv, Freed
<1>10. RefsCounted'
  <2> SUFFICES ASSUME NEW a \in Addresses
               PROVE  (heap[a] # Freed => heap[a] = Refs(a))' /\ (heap[a] = Freed => Refs(a) = 0)'
    BY DEF RefsCounted
  <2>1. Users(a)' = Users(a) /\ heap'[a] = heap[a]
    BY DEF Users
  <2>2. CASE a # data[t] \/ m_data[module[t]] = 0
    <3>1. Takers(a)' = Takers(a) /\ lost'[a] = lost[a]
      BY <2>2, <1>1, AddressIsFound DEF Takers, TypeOK
    <3>2. QED
      BY <2>1, <3>1 DEF RefsCounted, Refs
  <2>3. CASE a = data[t] /\ m_data[module[t]] # 0
    <3>1. Takers(a)' = Takers(a) \ {t} /\ t \in Takers(a)
      BY <2>3 DEF Takers, TypeOK
    <3>2. Cardinality(Takers(a)') = Cardinality(Takers(a)) - 1
      BY <3>1, Counts, CountRemove
    <3>3. lost'[a] = lost[a] + 1 /\ lost[a] \in Nat
      BY <1>2, <2>3 DEF TypeOK
    <3>4. heap[a] = Refs(a) /\ heap[a] # Freed
      BY <1>2, <2>3 DEF RefsCounted, Freed
    <3>5. QED
      BY <2>1, <3>2, <3>3, <3>4, Counts DEF Refs
  <2>4. QED
    BY <2>2, <2>3
<1>11. QED
  BY <1>3, <1>4, <1>5, <1>6, <1>7, <1>8, <1>9, <1>10 DEF Core

\* The module has the thread's reference, or already has one to the same instance.
LEMMA AssignStep ==
  ASSUME IInv, NEW t \in Threads, Assign(t)
  PROVE  Core'
<1> USE DEF IInv, Core, Assign, Goto, Return, Lock, Unlock
<1> USE DEF Lose
<1>1. data[t] \in Addresses /\ module[t] \in Modules
  BY DEF TypeOK, PlaceInv, Pointers
<1>2. lost[data[t]] \in Nat /\ heap[data[t]] \in Nat /\ heap[data[t]] > 0
  <2>1. t \in Takers(data[t])
    BY DEF Takers
  <2>2. QED
    BY <1>1, <2>1, ReferencedIsThere DEF TypeOK
<1>3. names = CreateFromPointer(data[t])
  BY <1>1, <1>2 DEF Published
<1>4. m_data[module[t]] # 0 => m_data[module[t]] = data[t]
  <2> SUFFICES ASSUME m_data[module[t]] # 0 PROVE m_data[module[t]] = data[t]
    OBVIOUS
  <2> DEFINE b == m_data[module[t]]
  <2>1. b \in Addresses /\ module[t] \in Users(b)
    BY <1>1 DEF TypeOK, Pointers, Users
  <2>2. heap[b] > 0
    BY <2>1, ReferencedIsThere
  <2>3. names = CreateFromPointer(b)
    BY <2>1, <2>2 DEF Published
  <2>4. QED
    BY <1>1, <1>3, <2>1, <2>3, AddressIsFound
<1>5. data[t] # 0 /\ module[t] \in loaded
  BY DEF PlaceInv, Getting
<1>6. TypeOK'
  <2>1. lost' \in [Addresses -> Nat]
    BY <1>1, <1>2, <1>4 DEF TypeOK
  <2>2. QED
    BY <1>1, <2>1 DEF TypeOK, Pointers, Places
<1>7. MutexIsHeld'
  BY ActorsAssumption DEF TypeOK, MutexIsHeld, Section
<1>8. Owned'
  BY ActorsAssumption DEF TypeOK, Owned, Dying, Unloading, PlaceInv
<1>9. PlaceInv'
  <2>1. \A u \in Threads : pc[u] \in Unloading => module[u] # module[t]
    BY DEF Owned, Unloading
  <2>2. QED
    BY <1>1, <2>1, ActorsAssumption
    DEF TypeOK, PlaceInv, Dying, Unloading, Getting, Freed
<1>10. Published'
  BY DEF TypeOK, Published, Freed
<1>11. Cleanup'
  <2>1. \A m \in Modules : m_data'[m] # 0 =>
          \/ m \in loaded \/ m_data[m] # 0
    BY <1>5 DEF TypeOK
  <2>2. QED
    BY <2>1 DEF TypeOK, Cleanup, Dying, Unloading
<1>12. EndInv'
  BY DEF TypeOK, EndInv, Freed
<1>13. RefsCounted'
  <2> SUFFICES ASSUME NEW a \in Addresses
               PROVE  (heap[a] # Freed => heap[a] = Refs(a))' /\ (heap[a] = Freed => Refs(a) = 0)'
    BY DEF RefsCounted
  <2>1. heap'[a] = heap[a] /\ lost[a] \in Nat
    BY DEF TypeOK
  <2>2. CASE a # data[t]
    <3>1. Users(a)' = Users(a)
      BY <1>1, <1>4, <2>2, AddressIsFound DEF Users, TypeOK
    <3>2. Takers(a)' = Takers(a)
      BY <2>2, AddressIsFound DEF Takers, TypeOK
    <3>3. lost'[a] = lost[a]
      BY <1>4, <2>2 DEF TypeOK
    <3>4. QED
      BY <2>1, <3>1, <3>2, <3>3 DEF RefsCounted, Refs
  <2>3. CASE a = data[t]
    <3>1. Takers(a)' = Takers(a) \ {t} /\ t \in Takers(a)
      BY <2>3, AddressIsFound DEF Takers, TypeOK
    <3>2. Cardinality(Takers(a)') = Cardinality(Takers(a)) - 1
      BY <3>1, Counts, CountRemove
    <3>3. heap[a] = Refs(a) /\ heap[a] # Freed
      BY <1>2, <2>3 DEF RefsCounted, Freed
    <3>4. Cardinality(Users(a)') + lost'[a] = Cardinality(Users(a)) + lost[a] + 1
      <4>1. CASE m_data[module[t]] = 0
        <5>1. Users(a)' = Users(a) \cup {module[t]} /\ module[t] \notin Users(a)
          BY <1>1, <1>5, <2>3, <4>1 DEF Users, TypeOK
        <5>2. lost'[a] = lost[a]
          BY <4>1
        <5>3. QED
          BY <2>1, <5>1, <5>2, Counts, CountAdd
      <4>2. CASE m_data[module[t]] # 0
        <5>1. Users(a)' = Users(a)
          BY <1>1, <1>4, <4>2 DEF Users, TypeOK
        <5>2. lost'[a] = lost[a] + 1
          BY <1>4, <2>3, <4>2 DEF TypeOK
        <5>3. QED
          BY <2>1, <5>1, <5>2, Counts
      <4>3. QED
        BY <4>1, <4>2
    <3>5. lost'[a] \in Nat
      BY <1>1, <1>2, <1>4, <2>1 DEF TypeOK
    <3>6. /\ Cardinality(Takers(a)) \in Nat /\ Cardinality(Users(a)) \in Nat
          /\ Cardinality(Users(a)') \in Nat
      <4>1. IsFiniteSet(Users(a)')
        BY ActorsAssumption, FS_Subset DEF Users
      <4>2. QED
        BY <4>1, Counts, FS_CardinalityType
    <3>7. heap'[a] = Refs(a)'
      BY <2>1, <3>2, <3>3, <3>4, <3>5, <3>6 DEF Refs
    <3>8. QED
      BY <2>1, <3>3, <3>7
  <2>4. QED
    BY <2>2, <2>3
<1>14. QED
  BY <1>6, <1>7, <1>8, <1>9, <1>10, <1>11, <1>12, <1>13 DEF Core

\* Nobody else is in the module.
LEMMA UnloadStep ==
  ASSUME IInv, NEW t \in Threads, NEW m \in Modules, Unload(t, m)
  PROVE  Core'
<1> USE DEF IInv, Core, Unload, Goto, Return, Lock, Unlock
<1>1. TypeOK'
  BY DEF TypeOK, Pointers, Places, Freed
<1>2. MutexIsHeld'
  BY ActorsAssumption DEF TypeOK, MutexIsHeld, Section
<1>3. Owned'
  <2>1. \A u \in Threads : module[u] # m
    BY DEF Busy
  <2>2. QED
    BY <2>1 DEF TypeOK, Owned, Dying, Unloading
<1>4. PlaceInv'
  <2>1. \A u \in Threads : module[u] # m
    BY DEF Busy
  <2>2. QED
    BY <2>1, ActorsAssumption DEF TypeOK, PlaceInv, Dying, Unloading, Getting
<1>5. Published'
  BY DEF TypeOK, Published, Freed
<1>6. Cleanup'
  BY DEF TypeOK, Cleanup, Dying, Unloading, Freed
<1>7. EndInv'
  BY DEF TypeOK, EndInv, Freed
<1>8. RefsCounted'
  <2> SUFFICES ASSUME NEW a \in Addresses
               PROVE  (heap[a] # Freed => heap[a] = Refs(a))' /\ (heap[a] = Freed => Refs(a) = 0)'
    BY DEF RefsCounted
  <2>1. Users(a)' = Users(a)
    BY DEF Users
  <2>2. Takers(a)' = Takers(a)
    BY DEF Takers, TypeOK
  <2>3. QED
    BY <2>1, <2>2 DEF RefsCounted, Refs
<1>9. QED
  BY <1>1, <1>2, <1>3, <1>4, <1>5, <1>6, <1>7, <1>8 DEF Core

\* The mutex is taken by one thread.
LEMMA EnterStep ==
  ASSUME IInv, NEW t \in Threads, Enter(t)
  PROVE  Core'
<1> USE DEF IInv, Core, Enter, Goto, Return, Lock, Unlock
<1>1. TypeOK'
  BY DEF TypeOK, Pointers, Places, Freed
<1>2. MutexIsHeld'
  BY ActorsAssumption DEF TypeOK, MutexIsHeld, Section
<1>3. Owned'
  BY ActorsAssumption DEF TypeOK, Owned, Dying, Unloading, PlaceInv
<1>4. PlaceInv'
  BY ActorsAssumption DEF TypeOK, PlaceInv, Dying, Unloading, Getting, Freed
<1>5. Published'
  BY DEF TypeOK, Published, Freed
<1>6. Cleanup'
  BY DEF TypeOK, Cleanup, Dying, Unloading, Freed
<1>7. EndInv'
  BY DEF TypeOK, EndInv, Freed
<1>8. RefsCounted'
  <2> SUFFICES ASSUME NEW a \in Addresses
               PROVE  (heap[a] # Freed => heap[a] = Refs(a))' /\ (heap[a] = Freed => Refs(a) = 0)'
    BY DEF RefsCounted
  <2>1. Users(a)' = Users(a)
    BY DEF Users
  <2>2. Takers(a)' = Takers(a)
    BY DEF Takers, TypeOK
  <2>3. QED
    BY <2>1, <2>2 DEF RefsCounted, Refs
<1>9. QED
  BY <1>1, <1>2, <1>3, <1>4, <1>5, <1>6, <1>7, <1>8 DEF Core

\* The module's reference is given back and no longer counted.
LEMMA DecrementStep ==
  ASSUME IInv, NEW t \in Threads, Decrement(t)
  PROVE  Core'
<1> USE DEF IInv, Core, Decrement, Goto, Return, Lock, Unlock
<1>1. data[t] \in Addresses /\ module[t] \in Modules /\ m_data[module[t]] = data[t]
  BY DEF TypeOK, PlaceInv, Pointers, Unloading
<1>2. heap[data[t]] \in Nat /\ heap[data[t]] > 0
  <2>1. module[t] \in Users(data[t])
    BY <1>1 DEF Users
  <2>2. QED
    BY <1>1, <2>1, ReferencedIsThere
<1>3. \A u \in Threads : u # t => pc[u] \notin Section
  BY DEF MutexIsHeld, Section
<1>4. heap' = [heap EXCEPT ![data[t]] = heap[data[t]] - 1]
  OBVIOUS
<1>5. names = CreateFromPointer(data[t])
  BY <1>1, <1>2 DEF Published
<1>6. TypeOK'
  <2>1. heap' \in [Addresses -> Nat \cup {Freed}]
    BY <1>1, <1>2, <1>4 DEF TypeOK
  <2>2. QED
    BY <2>1 DEF TypeOK, Pointers, Places
<1>7. MutexIsHeld'
  BY ActorsAssumption DEF TypeOK, MutexIsHeld, Section
<1>8. Owned'
  BY ActorsAssumption DEF TypeOK, Owned, Dying, Unloading, PlaceInv
<1>9. PlaceInv'
  <2>1. \A u \in Threads : u # t /\ pc[u] \in Dying =>
          data[u] # data[t] /\ heap'[data[u]] = 0
    BY <1>1, <1>2, <1>4 DEF PlaceInv, TypeOK, Pointers, Dying
  <2>2. \A u \in Threads : u # t /\ pc[u] \in Unloading => module[u] # module[t]
    BY DEF Owned, Unloading
  <2>3. \/ pc' = [pc EXCEPT ![t] = "destroy"] /\ heap'[data[t]] = 0
        \/ pc' = [pc EXCEPT ![t] = "leave"] /\ heap'[data[t]] > 0 /\ heap'[data[t]] # Freed
    BY <1>1, <1>2, <1>4 DEF TypeOK, Freed
  <2>4. QED
    BY <1>1, <1>3, <1>5, <2>1, <2>2, <2>3, ActorsAssumption
    DEF TypeOK, PlaceInv, Dying, Unloading, Getting, Section
<1>10. Published'
  <2>1. \A a \in Addresses : heap'[a] > 0 => heap[a] > 0
    BY <1>1, <1>2, <1>4 DEF TypeOK, Freed
  <2>2. \A a \in Addresses : names = CreateFromPointer(a) => a = data[t]
    BY <1>1, <1>5, AddressIsFound
  <2>3. heap'[data[t]] > 0 \/ pc'[t] = "destroy"
    BY <1>1, <1>2, <1>4 DEF TypeOK
  <2>4. QED
    BY <1>1, <2>1, <2>2, <2>3 DEF Published
<1>11. Cleanup'
  <2>1. heap'[data[t]] = 0 => pc'[t] = "destroy"
    BY <1>1, <1>2, <1>4 DEF TypeOK
  <2>2. QED
    BY <1>1, <1>4, <2>1 DEF TypeOK, Cleanup, Dying, Unloading
<1>12. EndInv'
  BY DEF TypeOK, EndInv, Freed
<1>13. RefsCounted'
  <2> SUFFICES ASSUME NEW a \in Addresses
               PROVE  (heap[a] # Freed => heap[a] = Refs(a))' /\ (heap[a] = Freed => Refs(a) = 0)'
    BY DEF RefsCounted
  <2>1. lost'[a] = lost[a] /\ lost[a] \in Nat
    BY DEF TypeOK
  <2>2. Takers(a)' = Takers(a)
    BY DEF Takers, TypeOK
  <2>3. CASE a # data[t]
    <3>1. Users(a)' = Users(a)
      BY <1>1, <2>3, AddressIsFound DEF Users, TypeOK
    <3>2. heap'[a] = heap[a]
      BY <1>4, <2>3 DEF TypeOK
    <3>3. QED
      BY <2>1, <2>2, <3>1, <3>2 DEF RefsCounted, Refs
  <2>4. CASE a = data[t]
    <3>1. Users(a)' = Users(a) \ {module[t]} /\ module[t] \in Users(a)
      BY <1>1, <2>4, AddressIsFound DEF Users, TypeOK
    <3>2. Cardinality(Users(a)') = Cardinality(Users(a)) - 1
      BY <3>1, Counts, CountRemove
    <3>3. heap[a] = Refs(a) /\ heap'[a] = heap[a] - 1 /\ heap'[a] # Freed
      BY <1>2, <1>4, <2>4 DEF RefsCounted, Freed, TypeOK
    <3>4. QED
      BY <2>1, <2>2, <3>2, <3>3, Counts DEF Refs
  <2>5. QED
    BY <2>3, <2>4
<1>14. QED
  BY <1>6, <1>7, <1>8, <1>9, <1>10, <1>11, <1>12, <1>13 DEF Core

\* Nothing is published, and nothing is referenced.
LEMMA DestroyStep ==
  ASSUME IInv, NEW t \in Threads, Destroy(t)
  PROVE  Core'
<1> USE DEF IInv, Core, Destroy, Goto, Return, Lock, Unlock
<1>1. data[t] \in Addresses /\ heap[data[t]] = 0 /\ names = CreateFromPointer(data[t])
  BY DEF TypeOK, PlaceInv, Pointers, Dying
<1>2. \A u \in Threads : u # t => pc[u] \notin Section
  BY DEF MutexIsHeld, Section
<1>3. \A a \in Addresses : NoNames # CreateFromPointer(a)
  BY AddressIsFound
<1>4. TypeOK'
  BY DEF TypeOK, Pointers, Places, Freed
<1>5. MutexIsHeld'
  BY ActorsAssumption DEF TypeOK, MutexIsHeld, Section
<1>6. Owned'
  BY ActorsAssumption DEF TypeOK, Owned, Dying, Unloading, PlaceInv
<1>7. PlaceInv'
  BY <1>1, <1>2, <1>3, ActorsAssumption
  DEF TypeOK, PlaceInv, Dying, Unloading, Getting, Section, Pointers
<1>8. Published'
  <2>1. \A a \in Addresses : ~(heap[a] > 0)
    BY <1>1, AddressIsFound DEF Published
  <2>2. QED
    BY <1>3, <2>1 DEF Published
<1>9. Cleanup'
  BY DEF TypeOK, Cleanup, Dying, Unloading, Freed
<1>10. EndInv'
  BY DEF TypeOK, EndInv, Freed
<1>11. RefsCounted'
  <2> SUFFICES ASSUME NEW a \in Addresses
               PROVE  (heap[a] # Freed => heap[a] = Refs(a))' /\ (heap[a] = Freed => Refs(a) = 0)'
    BY DEF RefsCounted
  <2>1. Users(a)' = Users(a)
    BY DEF Users
  <2>2. Takers(a)' = Takers(a)
    BY DEF Takers, TypeOK
  <2>3. QED
    BY <2>1, <2>2 DEF RefsCounted, Refs
<1>12. QED
  BY <1>4, <1>5, <1>6, <1>7, <1>8, <1>9, <1>10, <1>11 DEF Core

\* The mutex is free.
LEMMA LeaveStep ==
  ASSUME IInv, NEW t \in Threads, Leave(t)
  PROVE  Core'
<1> USE DEF IInv, Core, Leave, Goto, Return, Lock, Unlock
<1>1. TypeOK'
  BY DEF TypeOK, Pointers, Places, Freed
<1>2. MutexIsHeld'
  BY ActorsAssumption DEF TypeOK, MutexIsHeld, Section
<1>3. Owned'
  BY ActorsAssumption DEF TypeOK, Owned, Dying, Unloading, PlaceInv
<1>4. PlaceInv'
  BY ActorsAssumption DEF TypeOK, PlaceInv, Dying, Unloading, Getting, Freed
<1>5. Published'
  BY DEF TypeOK, Published, Freed
<1>6. Cleanup'
  BY DEF TypeOK, Cleanup, Dying, Unloading, Freed
<1>7. EndInv'
  BY DEF TypeOK, EndInv, Freed
<1>8. RefsCounted'
  <2> SUFFICES ASSUME NEW a \in Addresses
               PROVE  (heap[a] # Freed => heap[a] = Refs(a))' /\ (heap[a] = Freed => Refs(a) = 0)'
    BY DEF RefsCounted
  <2>1. Users(a)' = Users(a)
    BY DEF Users
  <2>2. Takers(a)' = Takers(a)
    BY DEF Takers, TypeOK
  <2>3. QED
    BY <2>1, <2>2 DEF RefsCounted, Refs
<1>9. QED
  BY <1>1, <1>2, <1>3, <1>4, <1>5, <1>6, <1>7, <1>8 DEF Core

\* The mutex is free, and the instance belongs to the thread.
LEMMA ResetStep ==
  ASSUME IInv, NEW t \in Threads, Reset(t)
  PROVE  Core'
<1> USE DEF IInv, Core, Reset, Goto, Return, Lock, Unlock
<1>1. TypeOK'
  BY DEF TypeOK, Pointers, Places, Freed
<1>2. MutexIsHeld'
  BY ActorsAssumption DEF TypeOK, MutexIsHeld, Section
<1>3. Owned'
  BY ActorsAssumption DEF TypeOK, Owned, Dying, Unloading, PlaceInv
<1>4. PlaceInv'
  BY ActorsAssumption DEF TypeOK, PlaceInv, Dying, Unloading, Getting, Freed
<1>5. Published'
  BY DEF TypeOK, Published, Freed
<1>6. Cleanup'
  BY DEF TypeOK, Cleanup, Dying, Unloading, Freed
<1>7. EndInv'
  BY DEF TypeOK, EndInv, Freed
<1>8. RefsCounted'
  <2> SUFFICES ASSUME NEW a \in Addresses
               PROVE  (heap[a] # Freed => heap[a] = Refs(a))' /\ (heap[a] = Freed => Refs(a) = 0)'
    BY DEF RefsCounted
  <2>1. Users(a)' = Users(a)
    BY DEF Users
  <2>2. Takers(a)' = Takers(a)
    BY DEF Takers, TypeOK
  <2>3. QED
    BY <2>1, <2>2 DEF RefsCounted, Refs
<1>9. QED
  BY <1>1, <1>2, <1>3, <1>4, <1>5, <1>6, <1>7, <1>8 DEF Core

\* Nobody refers to what is freed.
LEMMA FreeStep ==
  ASSUME IInv, NEW t \in Threads, Free(t)
  PROVE  Core'
<1> USE DEF IInv, Core, Free, Goto, Return, Lock, Unlock
<1>1. data[t] \in Addresses /\ heap[data[t]] = 0 /\ names # CreateFromPointer(data[t])
  BY DEF TypeOK, PlaceInv, Pointers, Dying
<1>2. \A u \in Threads : u # t /\ pc[u] \in Dying => data[u] # data[t]
  BY DEF Owned, Dying
<1>3. heap' = [heap EXCEPT ![data[t]] = Freed]
  OBVIOUS
<1>4. TypeOK'
  BY DEF TypeOK, Pointers, Places, Freed
<1>5. MutexIsHeld'
  BY ActorsAssumption DEF TypeOK, MutexIsHeld, Section
<1>6. Owned'
  BY ActorsAssumption DEF TypeOK, Owned, Dying, Unloading, PlaceInv
<1>7. PlaceInv'
  <2>1. \A u \in Threads : pc[u] \in {"addref", "leave"} => data[u] # data[t]
    BY <1>1 DEF PlaceInv
  <2>2. \A u \in Threads : u # t /\ pc[u] \in Dying \cup {"addref", "leave"} =>
          heap'[data[u]] = heap[data[u]]
    BY <1>2, <1>3, <2>1 DEF TypeOK, PlaceInv, Dying, Pointers, Unloading
  <2>3. QED
    BY <1>1, <2>2, ActorsAssumption DEF TypeOK, PlaceInv, Dying, Unloading, Getting
<1>8. Published'
  <2>1. \A a \in Addresses : heap'[a] > 0 => heap[a] > 0
    BY <1>1, <1>3 DEF TypeOK, Freed
  <2>2. \A a \in Addresses : names = CreateFromPointer(a) => heap'[a] = heap[a]
    BY <1>1, <1>3 DEF TypeOK
  <2>3. QED
    BY <2>1, <2>2 DEF Published, TypeOK
<1>9. Cleanup'
  BY DEF TypeOK, Cleanup, Dying, Unloading, Freed
<1>10. EndInv'
  BY DEF TypeOK, EndInv, Freed
<1>11. RefsCounted'
  <2> SUFFICES ASSUME NEW a \in Addresses
               PROVE  (heap[a] # Freed => heap[a] = Refs(a))' /\ (heap[a] = Freed => Refs(a) = 0)'
    BY DEF RefsCounted
  <2>1. Users(a)' = Users(a)
    BY DEF Users
  <2>2. Takers(a)' = Takers(a)
    BY DEF Takers, TypeOK
  <2>3. CASE a = data[t]
    BY <1>1, <1>3, <2>1, <2>2, <2>3 DEF RefsCounted, Refs, TypeOK, Freed
  <2>4. CASE a # data[t]
    BY <1>3, <2>1, <2>2, <2>4 DEF RefsCounted, Refs, TypeOK
  <2>5. QED
    BY <2>3, <2>4
<1>12. QED
  BY <1>4, <1>5, <1>6, <1>7, <1>8, <1>9, <1>10, <1>11 DEF Core

---------------------------------------------------------------------------
\* A module that was unloaded comes back without an instance.
LEMMA LoadStep ==
  ASSUME IInv, NEW m \in Modules, Load(m)
  PROVE  Core'
<1> USE DEF IInv, Core, Load
<1>1. TypeOK' /\ MutexIsHeld' /\ Owned' /\ EndInv' /\ Published'
  BY DEF TypeOK, MutexIsHeld, Owned, EndInv, Published
<1>2. PlaceInv' /\ Cleanup'
  BY DEF Busy, PlaceInv, Cleanup, Unloading
<1>3. RefsCounted'
  BY DEF RefsCounted, Refs, Users, Takers
<1>4. QED
  BY <1>1, <1>2, <1>3 DEF Core

LEMMA ExitProcessStep ==
  ASSUME IInv, ExitProcess
  PROVE  Core'
<1> USE DEF IInv, Core, ExitProcess
<1>1. TypeOK' /\ MutexIsHeld' /\ Owned' /\ EndInv' /\ Published'
  BY DEF TypeOK, MutexIsHeld, Owned, EndInv, Published
<1>2. PlaceInv' /\ Cleanup'
  BY DEF PlaceInv, Cleanup
<1>3. RefsCounted'
  BY DEF RefsCounted, Refs, Users, Takers
<1>4. QED
  BY <1>1, <1>2, <1>3 DEF Core

\* At the end the references go one by one, and the last one tells the instance.
LEMMA ShutdownReleaseStep ==
  ASSUME IInv, NEW m \in Modules, ShutdownRelease(m)
  PROVE  Core'
<1> USE DEF IInv, Core, ShutdownRelease
<1> DEFINE b == m_data[m]
<1>1. CASE b = 0
  <2>1. m_data' = m_data /\ heap' = heap /\ ended' = ended
    BY <1>1 DEF TypeOK
  <2>2. TypeOK' /\ MutexIsHeld' /\ Owned' /\ EndInv' /\ Published'
    BY <2>1 DEF TypeOK, MutexIsHeld, Owned, EndInv, Published
  <2>3. PlaceInv' /\ Cleanup'
    BY <1>1, <2>1 DEF PlaceInv, Cleanup
  <2>4. RefsCounted'
    BY <2>1 DEF RefsCounted, Refs, Users, Takers
  <2>5. QED
    BY <2>2, <2>3, <2>4 DEF Core
<1>2. CASE b # 0
  <2>1. b \in Addresses /\ m \in Users(b)
    BY <1>2 DEF TypeOK, Pointers, Users
  <2>2. heap[b] \in Nat /\ heap[b] > 0
    BY <2>1, ReferencedIsThere
  <2>3. ended[b] = 0
    BY <2>1, <2>2 DEF EndInv, TypeOK
  <2>4. heap' = [heap EXCEPT ![b] = heap[b] - 1]
    BY <1>2
  <2>5. ended' = [ended EXCEPT ![b] = IF heap[b] - 1 = 0 THEN 1 ELSE 0]
    BY <1>2, <2>1, <2>3 DEF TypeOK
  <2>6. TypeOK'
    <3>1. heap' \in [Addresses -> Nat \cup {Freed}] /\ ended' \in [Addresses -> Nat]
      BY <2>1, <2>2, <2>4, <2>5 DEF TypeOK
    <3>2. QED
      BY <3>1 DEF TypeOK, Pointers
  <2>7. MutexIsHeld' /\ Owned'
    BY DEF MutexIsHeld, Owned
  <2>8. PlaceInv'
    <3>1. \A t \in Threads : pc[t] \in Dying => data[t] # b /\ heap'[data[t]] = 0
      BY <2>1, <2>2, <2>4 DEF PlaceInv, TypeOK, Pointers, Dying
    <3>2. \A t \in Threads : pc[t] \in {"addref", "leave"} => heap'[data[t]] # Freed
      BY <2>1, <2>2, <2>4 DEF PlaceInv, TypeOK, Pointers, Freed
    <3>3. \A t \in Threads : pc[t] \in Unloading => module[t] # m
      BY DEF PlaceInv
    <3>4. QED
      BY <3>1, <3>2, <3>3 DEF PlaceInv, TypeOK
  <2>9. Published'
    BY <2>1, <2>2, <2>4 DEF Published, TypeOK, Freed
  <2>10. Cleanup'
    BY <1>2 DEF Cleanup, TypeOK
  <2>11. EndInv'
    BY <2>1, <2>2, <2>4, <2>5 DEF EndInv, TypeOK, Freed
  <2>12. RefsCounted'
    <3> SUFFICES ASSUME NEW a \in Addresses
                 PROVE  (heap[a] # Freed => heap[a] = Refs(a))' /\ (heap[a] = Freed => Refs(a) = 0)'
      BY DEF RefsCounted
    <3>1. Takers(a)' = Takers(a) /\ lost'[a] = lost[a] /\ lost[a] \in Nat
      BY DEF Takers, TypeOK
    <3>2. CASE a # b
      <4>1. Users(a)' = Users(a) /\ heap'[a] = heap[a]
        BY <2>4, <3>2, AddressIsFound DEF Users, TypeOK
      <4>2. QED
        BY <3>1, <4>1 DEF RefsCounted, Refs
    <3>3. CASE a = b
      <4>1. Users(a)' = Users(a) \ {m} /\ m \in Users(a)
        BY <2>1, <3>3, AddressIsFound DEF Users, TypeOK
      <4>2. Cardinality(Users(a)') = Cardinality(Users(a)) - 1
        BY <4>1, Counts, CountRemove
      <4>3. heap[a] = Refs(a) /\ heap'[a] = heap[a] - 1 /\ heap'[a] # Freed
        BY <2>1, <2>2, <2>4, <3>3 DEF RefsCounted, Freed, TypeOK
      <4>4. QED
        BY <3>1, <4>2, <4>3, Counts DEF Refs
    <3>4. QED
      BY <3>2, <3>3
  <2>13. QED
    BY <2>6, <2>7, <2>8, <2>9, <2>10, <2>11, <2>12 DEF Core
<1>3. QED
  BY <1>1, <1>2

LEMMA StepCore == IInv /\ [Next]_vars => Core'
<1> SUFFICES ASSUME IInv, [Next]_vars PROVE Core'
  OBVIOUS
<1>1. ASSUME NEW t \in Threads, Step(t) PROVE Core'
  BY <1>1, LookupStep, LookupFailsStep, AddRefStep, MakeStep, MakeFailsStep,
     CreateFailsStep, UnwindStep, InitializeStep, AcquireReturnsStep, CheckStep, AssignStep, DecrementStep,
     DestroyStep, LeaveStep, ResetStep, FreeStep
  DEF Step
<1>2. ASSUME NEW t \in Threads, Acquire(t) \/ AcquireFails(t) \/ Enter(t) PROVE Core'
  BY <1>2, AcquireStep, AcquireFailsStep, EnterStep
<1>3. ASSUME NEW t \in Threads, NEW m \in Modules, GetShared(t, m) \/ Unload(t, m)
      PROVE  Core'
  BY <1>3, GetSharedStep, UnloadStep
<1>4. ASSUME NEW m \in Modules, Load(m) \/ ShutdownRelease(m) PROVE Core'
  BY <1>4, LoadStep, ShutdownReleaseStep
<1>5. CASE ExitProcess
  BY <1>5, ExitProcessStep
<1>6. CASE UNCHANGED vars
  BY <1>6
  DEF vars, IInv, Core, TypeOK, MutexIsHeld, Owned, PlaceInv, Published, RefsCounted, Refs,
      Users, Takers, Cleanup, EndInv
<1>7. QED
  BY <1>1, <1>2, <1>3, <1>4, <1>5, <1>6 DEF Next

\* A half of a name is made by a thread that is about to unwind; while it is
\* there, no other thread is where names change.
LEMMA StepHalves == IInv /\ [Next]_vars => Halves'
<1> SUFFICES ASSUME IInv, [Next]_vars PROVE Halves'
  OBVIOUS
<1> USE DEF IInv, Core, Goto, Return
<1>1. ASSUME NEW t \in Threads, pc[t] \in Section \ {"unwind"}, ~shutdown
      PROVE  names = NoNames \/ \E a \in Addresses : names = CreateFromPointer(a)
  <2>1. \A u \in Threads : pc[u] = "unwind" => u = t
    BY <1>1 DEF MutexIsHeld, Section
  <2>2. QED
    BY <1>1, <2>1 DEF Halves
<1>2. ASSUME NEW t \in Threads, Lookup(t) PROVE Halves'
  <2>1. names = NoNames \/ \E a \in Addresses : names = CreateFromPointer(a)
    BY <1>1, <1>2 DEF Lookup, Section
  <2>2. names' = names
    BY <1>2, <2>1, NothingToRead, AddressIsFound DEF Lookup
  <2>3. QED
    BY <2>1, <2>2 DEF Halves
<1>3. ASSUME NEW t \in Threads, Make(t) \/ CreateFails(t) \/ Unwind(t) \/ Destroy(t)
      PROVE  Halves'
  BY <1>3 DEF Make, CreateFails, Unwind, Destroy, Halves, TypeOK
<1>4. ASSUME NEW t \in Threads, names' = names, shutdown' = shutdown,
             pc[t] # "unwind", NEW to, pc' = [pc EXCEPT ![t] = to]
      PROVE  Halves'
  BY <1>4 DEF Halves, TypeOK
<1>5. ASSUME NEW t \in Threads,
             \/ Acquire(t) \/ AcquireFails(t) \/ LookupFails(t) \/ AddRef(t)
             \/ MakeFails(t) \/ Initialize(t) \/ AcquireReturns(t)
      PROVE  Halves'
  BY <1>4, <1>5 DEF Acquire, AcquireFails, LookupFails, AddRef, MakeFails, Initialize,
                    AcquireReturns
<1>6. ASSUME NEW t \in Threads,
             \/ Check(t) \/ Assign(t) \/ Enter(t) \/ Decrement(t) \/ Leave(t)
             \/ Reset(t) \/ Free(t)
      PROVE  Halves'
  BY <1>4, <1>6 DEF Check, Assign, Enter, Decrement, Leave, Reset, Free
<1>7. ASSUME NEW t \in Threads, NEW m \in Modules, GetShared(t, m) \/ Unload(t, m)
      PROVE  Halves'
  <2>1. CASE pc' = pc
    BY <1>7, <2>1 DEF GetShared, Unload, Halves
  <2>2. CASE pc' # pc
    BY <1>4, <1>7, <2>2 DEF GetShared, Unload
  <2>3. QED
    BY <2>1, <2>2
<1>8. CASE \/ \E m \in Modules : Load(m) \/ ShutdownRelease(m)
           \/ ExitProcess \/ UNCHANGED vars
  BY <1>8 DEF Load, ShutdownRelease, ExitProcess, vars, Halves
<1>9. QED
  BY <1>2, <1>3, <1>5, <1>6, <1>7, <1>8 DEF Next, Step

LEMMA StepIInv == IInv /\ [Next]_vars => IInv'
  BY StepCore, StepHalves DEF IInv

THEOREM Invariance == Spec => []IInv
  BY InitIInv, StepIInv, PTL DEF Spec

\* Every variable keeps its type.
THEOREM TypeCorrect == Spec => []TypeOK
<1>1. IInv => TypeOK
  BY DEF IInv, Core
<1>2. QED
  BY Invariance, <1>1, PTL

\* m_refCount is exact, up to the references that a race loses.
THEOREM CountIsExact == Spec => []RefsCounted
<1>1. IInv => RefsCounted
  BY DEF IInv, Core
<1>2. QED
  BY Invariance, <1>1, PTL

\* No module and no thread follows a pointer to an instance that is gone.
THEOREM PointersAreLive == Spec => []NoUseAfterFree
<1>1. IInv => NoUseAfterFree
  <2> SUFFICES ASSUME IInv PROVE NoUseAfterFree
    OBVIOUS
  <2> USE DEF IInv, Core
  <2>1. ASSUME NEW m \in Modules, m_data[m] # 0 PROVE heap[m_data[m]] > 0
    <3>1. m_data[m] \in Addresses /\ m \in Users(m_data[m])
      BY <2>1 DEF TypeOK, Pointers, Users
    <3>2. QED
      BY <3>1, ReferencedIsThere
  <2>2. ASSUME NEW t \in Threads, data[t] # 0, pc[t] # "idle"
        PROVE  heap[data[t]] # Freed
    <3>1. data[t] \in Addresses
      BY <2>2 DEF TypeOK, Pointers
    <3>2. CASE pc[t] \in Dying \cup {"addref", "leave"}
      BY <3>2 DEF PlaceInv, Freed
    <3>3. CASE pc[t] \in Unloading
      <4>1. module[t] \in Modules /\ m_data[module[t]] = data[t]
        BY <2>2, <3>3 DEF PlaceInv, TypeOK
      <4>2. QED
        BY <2>1, <2>2, <4>1 DEF Freed
    <3>4. CASE pc[t] \in {"unlock", "check", "assign"}
      <4>1. t \in Takers(data[t])
        BY <3>4 DEF Takers
      <4>2. heap[data[t]] > 0
        BY <3>1, <4>1, ReferencedIsThere
      <4>3. QED
        BY <4>2 DEF Freed
    <3>5. QED
      BY <2>2, <3>2, <3>3, <3>4 DEF PlaceInv, TypeOK, Places, Dying, Unloading
  <2>3. QED
    BY <2>1, <2>2 DEF NoUseAfterFree
<1>2. QED
  BY Invariance, <1>1, PTL

\* All modules share one instance.
THEOREM InstanceIsShared == Spec => []OneInstance
<1>1. IInv => OneInstance
  <2> SUFFICES ASSUME IInv, NEW a \in Addresses, NEW b \in Addresses,
                      Users(a) \cup Takers(a) # {}, Users(b) \cup Takers(b) # {}
               PROVE  a = b
    BY DEF OneInstance
  <2>1. heap[a] > 0 /\ heap[b] > 0
    BY ReferencedIsThere DEF IInv, Core
  <2>2. names = CreateFromPointer(a) /\ names = CreateFromPointer(b)
    BY <2>1 DEF IInv, Core, Published
  <2>3. QED
    BY <2>2, AddressIsFound
<1>2. QED
  BY Invariance, <1>1, PTL

\* Outside the mutex the published address is that of the instance in use.
THEOREM PublishedRight == Spec => []PublishedIsLive
<1>1. IInv => PublishedIsLive
  <2> SUFFICES ASSUME IInv, mutex = NoThread, ~shutdown PROVE PublishedIsLive
    BY DEF PublishedIsLive
  <2>1. \A t \in Threads : pc[t] \notin {"unwind", "construct", "destroy"}
    BY ActorsAssumption DEF IInv, Core, MutexIsHeld, Section
  <2>2. \A a \in Addresses : heap[a] > 0 <=> names = CreateFromPointer(a)
    BY <2>1 DEF IInv, Core, Published
  <2>3. names = NoNames \/ \E a \in Addresses : names = CreateFromPointer(a)
    BY <2>1 DEF IInv, Halves
  <2>4. QED
    BY <2>2, <2>3 DEF PublishedIsLive
<1>2. QED
  BY Invariance, <1>1, PTL

\* When all modules are gone, nothing is left but what a race lost references to.
THEOREM LeavesNothing == Spec => []NothingLeft
<1>1. IInv => NothingLeft
  <2> SUFFICES ASSUME IInv, ~shutdown, loaded = {},
                      \A t \in Threads : pc[t] = "idle"
               PROVE  /\ \A a \in Addresses : heap[a] = IF lost[a] = 0 THEN Freed ELSE lost[a]
                      /\ \A a \in Addresses : lost[a] # 0 => names = CreateFromPointer(a)
                      /\ (\A a \in Addresses : lost[a] = 0) => names = NoNames
    BY DEF NothingLeft
  <2> USE DEF IInv, Core
  <2>1. \A m \in Modules : m_data[m] = 0
    BY DEF Cleanup, Unloading
  <2>2. ASSUME NEW a \in Addresses
        PROVE  heap[a] = IF lost[a] = 0 THEN Freed ELSE lost[a]
    <3>1. Users(a) = {} /\ Takers(a) = {}
      BY <2>1, AddressIsFound DEF Users, Takers
    <3>2. Refs(a) = lost[a]
      BY <3>1, FS_EmptySet DEF Refs, TypeOK
    <3>3. heap[a] # 0
      BY DEF Cleanup, Dying
    <3>4. QED
      BY <3>2, <3>3 DEF RefsCounted
  <2>3. ASSUME NEW a \in Addresses, lost[a] # 0 PROVE names = CreateFromPointer(a)
    <3>1. heap[a] > 0
      BY <2>2, <2>3 DEF TypeOK
    <3>2. QED
      BY <3>1 DEF Published
  <2>4. ASSUME \A a \in Addresses : lost[a] = 0 PROVE names = NoNames
    <3>1. \A a \in Addresses : ~(heap[a] > 0)
      BY <2>2, <2>4 DEF Freed
    <3>2. QED
      BY <3>1 DEF Halves, Published
  <2>5. QED
    BY <2>2, <2>3, <2>4
<1>2. QED
  BY Invariance, <1>1, PTL

\* The end is announced once, and to an instance nobody uses.
THEOREM EndIsAnnouncedOnce == Spec => []EndedOnce
<1>1. IInv => EndedOnce
  <2> SUFFICES ASSUME IInv, NEW a \in Addresses, ended[a] = 1
               PROVE  Users(a) = {} /\ heap[a] = 0
    BY DEF IInv, Core, EndInv, EndedOnce
  <2>1. heap[a] = 0
    BY DEF IInv, Core, EndInv
  <2>2. Refs(a) = 0
    BY <2>1 DEF IInv, Core, RefsCounted, Freed
  <2>3. QED
    BY <2>1, <2>2, NotCounted DEF IInv, Core
<1>2. QED
  BY Invariance, <1>1, PTL
=============================================================================
