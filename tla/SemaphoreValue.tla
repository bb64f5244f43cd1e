--------------------------- MODULE SemaphoreValue ---------------------------
(***************************************************************************)
(* wil::details_abi::SemaphoreValue (include/wil/result.h): a number is    *)
(* published inside a process as the count of a named semaphore, a longer  *)
(* one (a pointer without its two zero bits) as the counts of two.  There  *)
(* is no way to ask a semaphore for its count; reading it takes one off,   *)
(* puts it back and sees what was there before.                            *)
(*                                                                         *)
(* A named semaphore that exists is a record; NoSemaphore is a name nobody *)
(* has a handle for.  All operations run under one mutex of the caller.    *)
(***************************************************************************)
EXTENDS Integers

CONSTANTS
  Half,        \* 2^31: what one semaphore can count to, plus one
  NoSemaphore

ASSUME HalfAssumption == Half \in Nat /\ Half > 1

Counted == [count : 0 .. Half - 1, max : 1 .. Half - 1]

ASSUME NoSemaphoreAssumption == NoSemaphore \notin Counted

---------------------------------------------------------------------------
(* The kernel's semaphores.                                                *)

WaitForSingleObject(s) ==
  IF s.count > 0
  THEN [result |-> "OBJECT_0", sem |-> [count |-> s.count - 1, max |-> s.max]]
  ELSE [result |-> "TIMEOUT", sem |-> s]

\* TRUE with the count before it, or FALSE with ERROR_TOO_MANY_POSTS.
ReleaseSemaphore(s) ==
  IF s.count < s.max
  THEN [ok |-> TRUE, previous |-> s.count,
        sem |-> [count |-> s.count + 1, max |-> s.max]]
  ELSE [ok |-> FALSE, previous |-> 0, sem |-> s]

---------------------------------------------------------------------------
(* Faulty variants, to show what notices them.                             *)

GetValueFromSemaphore_NoIncrement(s) ==
  LET waited == WaitForSingleObject(s)
      posted == ReleaseSemaphore(waited.sem)
  IN IF waited.result = "OBJECT_0"
     THEN [hr |-> "S_OK", value |-> posted.previous, sem |-> posted.sem]
     ELSE [hr |-> "S_OK", value |-> 0, sem |-> s]

GetValueFromSemaphore_KeepsPost(s) ==
  LET waited == WaitForSingleObject(s)
      posted == ReleaseSemaphore(waited.sem)
  IN [hr    |-> "S_OK",
      value |-> IF waited.result = "OBJECT_0" THEN posted.previous + 1 ELSE 0,
      sem   |-> posted.sem]

---------------------------------------------------------------------------
\* A semaphore that is full, except the one that stands for zero.
CreateSemaphore(count) ==
  [count |-> count, max |-> IF count > 0 THEN count ELSE 1]

\* A value has four bytes or eight.
Sizes == {4, 8}
Is64Bit(size) == size > 4

\* Values that CreateFromValueInternal does not fail fast on.
Storable(size) == IF Is64Bit(size) THEN 0 .. Half * Half - 1 ELSE 0 .. Half - 1

CreateFromValue(size, value) ==
  [low  |-> CreateSemaphore(value % Half),
   high |-> IF Is64Bit(size) THEN CreateSemaphore(value \div Half) ELSE NoSemaphore]

\* Take one, put it back, and check that not one more fits.  Nothing to take
\* means zero, which is checked by the one post that fits and is taken back.
GetValueFromSemaphore(s) ==
  LET waited == WaitForSingleObject(s)
      posted == ReleaseSemaphore(waited.sem)
      more   == ReleaseSemaphore(posted.sem)
      back   == WaitForSingleObject(more.sem)
      failed(sem) == [hr |-> "E_UNEXPECTED", value |-> 0, sem |-> sem]
  IN IF ~posted.ok THEN failed(waited.sem)
     ELSE IF waited.result = "OBJECT_0"
     THEN IF more.ok THEN failed(more.sem)
          ELSE [hr |-> "S_OK", value |-> posted.previous + 1, sem |-> posted.sem]
     ELSE IF posted.previous # 0 THEN failed(posted.sem)
     ELSE IF more.ok THEN failed(more.sem)
     ELSE [hr |-> "S_OK", value |-> 0, sem |-> back.sem]

\* TryGetValueInternal: what is read, and what the names then hold.
TryGetValue(size, pair) ==
  LET low  == GetValueFromSemaphore(pair.low)
      high == GetValueFromSemaphore(pair.high)
      gives(v, after) ==
        [hr |-> "S_OK", value |-> v, retrieved |-> TRUE, names |-> after]
      fails(hr, after) ==
        [hr |-> hr, value |-> 0, retrieved |-> FALSE, names |-> after]
  IN IF pair.low = NoSemaphore THEN fails("S_OK", pair)
     ELSE IF low.hr # "S_OK"
     THEN fails(low.hr, [low |-> low.sem, high |-> pair.high])
     ELSE IF ~Is64Bit(size)
     THEN gives(low.value, [low |-> low.sem, high |-> pair.high])
     ELSE IF pair.high = NoSemaphore
     THEN fails("ERROR_FILE_NOT_FOUND", [low |-> low.sem, high |-> pair.high])
     ELSE IF high.hr # "S_OK"
     THEN fails(high.hr, [low |-> low.sem, high |-> high.sem])
     ELSE gives(high.value * Half + low.value, [low |-> low.sem, high |-> high.sem])

\* Pointers lose their two low bits, which must be zero, on the way.
StorablePointer(p) == p \in Nat /\ p % 4 = 0 /\ p \div 4 < Half * Half

CreateFromPointer(p) == CreateFromValue(8, p \div 4)

\* The second semaphore could not be created.
CreateFirst(p) == [low |-> CreateFromPointer(p).low, high |-> NoSemaphore]

TryGetPointer(pair) ==
  LET r == TryGetValue(8, pair)
  IN [hr |-> r.hr, pointer |-> r.value * 4, names |-> r.names]

NoNames == [low |-> NoSemaphore, high |-> NoSemaphore]
=============================================================================
