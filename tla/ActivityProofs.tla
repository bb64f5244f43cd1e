--------------------------- MODULE ActivityProofs ---------------------------
(***************************************************************************)
(* Proofs about activities, for any finite set of objects and any threads, *)
(* watchers and codes.  The invariant grows in five layers, each of which  *)
(* needs the ones before: who owns what (Owners); the lists of callbacks   *)
(* (Lists); where the data are (Pointers, Homes); how many stops are still *)
(* to come and who is the last (Ends, Counts); and the result that the     *)
(* stop event will carry (ResultsHeld).                                    *)
(***************************************************************************)
EXTENDS Activity, FiniteSetTheorems, FunctionTheorems, SequenceTheorems,
        NaturalsInduction, WellFoundedInduction, TLAPS

---------------------------------------------------------------------------
(* Lists of holders.                                                       *)

LEMMA LeastNumber ==
  ASSUME NEW S, S \subseteq Nat, S # {}
  PROVE  \E x \in S : \A y \in S : x <= y
<1>1. PICK x \in S : \A y \in S : <<y, x>> \notin OpToRel(<, Nat)
  BY NatLessThanWellFounded, WFMin, Zenon
<1>2. \A y \in S : y \in Nat /\ x \in Nat => (y < x => <<y, x>> \in OpToRel(<, Nat))
  BY Zenon DEF OpToRel
<1>3. \A y \in S : ~(y < x)
  BY <1>1, <1>2
<1> QED BY <1>3

\* Taking the element at place k out of a sequence.
LEMMA TakenOut ==
  ASSUME NEW S, NEW q \in Seq(S), NEW k \in 1 .. Len(q)
  PROVE  /\ RemoveAt(q, k) \in Seq(S) /\ Len(RemoveAt(q, k)) = Len(q) - 1
         /\ \A i \in 1 .. Len(q) - 1 : RemoveAt(q, k)[i] = IF i < k THEN q[i] ELSE q[i + 1]
<1> DEFINE a == SubSeq(q, 1, k - 1)
           b == SubSeq(q, k + 1, Len(q))
<1>1. Len(q) \in Nat /\ k \in Int /\ 1 <= k /\ k <= Len(q) /\ \A i \in 1 .. Len(q) : q[i] \in S
  BY LenProperties, ElementOfSeq
<1>2. a \in Seq(S) /\ Len(a) = k - 1 /\ \A i \in 1 .. k - 1 : a[i] = q[i]
  <2>1. 1 \in Int /\ k - 1 \in Int /\ (\A i \in 1 .. k - 1 : q[i] \in S)
    BY <1>1
  <2>2. /\ a \in Seq(S) /\ Len(a) = IF 1 <= k - 1 THEN (k - 1) - 1 + 1 ELSE 0
        /\ \A i \in 1 .. (k - 1) - 1 + 1 : a[i] = q[1 + i - 1]
    BY <2>1, SubSeqProperties
  <2> HIDE DEF a
  <2> QED BY <1>1, <2>2
<1>3. b \in Seq(S) /\ Len(b) = Len(q) - k /\ \A i \in 1 .. Len(q) - k : b[i] = q[i + k]
  <2>1. k + 1 \in Int /\ Len(q) \in Int /\ (\A i \in k + 1 .. Len(q) : q[i] \in S)
    BY <1>1
  <2>2. /\ b \in Seq(S) /\ Len(b) = IF k + 1 <= Len(q) THEN Len(q) - (k + 1) + 1 ELSE 0
        /\ \A i \in 1 .. Len(q) - (k + 1) + 1 : b[i] = q[(k + 1) + i - 1]
    BY <2>1, SubSeqProperties
  <2>3. \A i \in 1 .. Len(q) - k : (k + 1) + i - 1 = i + k
    BY <1>1
  <2> HIDE DEF b
  <2> QED BY <1>1, <2>2, <2>3
<1> HIDE DEF a, b
<1>4. /\ a \o b \in Seq(S) /\ Len(a \o b) = Len(a) + Len(b)
      /\ \A i \in 1 .. Len(a) + Len(b) : (a \o b)[i] = IF i <= Len(a) THEN a[i] ELSE b[i - Len(a)]
  BY <1>2, <1>3, ConcatProperties
<1>5. \A i \in 1 .. Len(q) - 1 :
        /\ i \in 1 .. Len(a) + Len(b) /\ (i <= Len(a) <=> i < k)
        /\ i < k => i \in 1 .. k - 1
        /\ ~(i < k) => i - Len(a) \in 1 .. Len(q) - k /\ (i - Len(a)) + k = i + 1
  BY <1>1, <1>2, <1>3
<1>6. \A i \in 1 .. Len(q) - 1 : (a \o b)[i] = IF i < k THEN q[i] ELSE q[i + 1]
  <2> TAKE i \in 1 .. Len(q) - 1
  <2>1. CASE i < k
    BY <2>1, <1>2, <1>4, <1>5
  <2>2. CASE ~(i < k)
    BY <2>2, <1>3, <1>4, <1>5
  <2> QED BY <2>1, <2>2
<1>7. RemoveAt(q, k) = a \o b
  BY DEF RemoveAt, a, b
<1>8. Len(a \o b) = Len(q) - 1
  BY <1>1, <1>2, <1>3, <1>4
<1> QED BY <1>4, <1>6, <1>7, <1>8

\* RemoveFirst takes out the element at some place, if it is there.
LEMMA FirstIsAt ==
  ASSUME NEW S, NEW q \in Seq(S), NEW e, \E i \in 1 .. Len(q) : q[i] = e
  PROVE  \E k \in 1 .. Len(q) : q[k] = e /\ RemoveFirst(q, e) = RemoveAt(q, k)
<1> DEFINE I == {i \in 1 .. Len(q) : q[i] = e}
<1>1. Len(q) \in Nat
  BY LenProperties
<1>2. I # {} /\ I \subseteq Nat
  BY <1>1
<1>3. RemoveFirst(q, e) = RemoveAt(q, Min(I))
  BY <1>2 DEF RemoveFirst, SelectInSeq
<1>4. Min(I) \in I
  <2> HIDE DEF I
  <2> QED BY <1>2, LeastNumber, Zenon DEF Min
<1> QED BY <1>3, <1>4

\* Removing an element from a list without repetitions.
LEMMA FirstRemoved ==
  ASSUME NEW S, NEW q \in Seq(S), NEW e
  PROVE  /\ RemoveFirst(q, e) \in Seq(S)
         /\ IsInjective(q) => /\ IsInjective(RemoveFirst(q, e))
                              /\ Range(RemoveFirst(q, e)) = Range(q) \ {e}
<1>0. Len(q) \in Nat /\ DOMAIN q = 1 .. Len(q)
  BY LenProperties
<1>1. CASE \A i \in 1 .. Len(q) : q[i] # e
  <2>1. RemoveFirst(q, e) = q
    BY <1>1 DEF RemoveFirst
  <2>2. e \notin Range(q)
    BY <1>0, <1>1 DEF Range
  <2> QED BY <2>1, <2>2
<1>2. CASE \E i \in 1 .. Len(q) : q[i] = e
  <2>1. PICK k \in 1 .. Len(q) : q[k] = e /\ RemoveFirst(q, e) = RemoveAt(q, k)
    BY <1>2, FirstIsAt
  <2> DEFINE r == RemoveFirst(q, e)
  <2>2. /\ r \in Seq(S) /\ Len(r) = Len(q) - 1
        /\ \A i \in 1 .. Len(q) - 1 : r[i] = IF i < k THEN q[i] ELSE q[i + 1]
    BY <2>1, TakenOut
  <2> HIDE DEF r
  <2>3. DOMAIN r = 1 .. Len(q) - 1
    BY <2>2, LenProperties
  <2>4. ASSUME IsInjective(q)
        PROVE  IsInjective(r)
    <3>1. \A i, j \in 1 .. Len(q) : q[i] = q[j] => i = j
      BY <1>0, <2>4 DEF IsInjective
    <3> SUFFICES ASSUME NEW i \in 1 .. Len(q) - 1, NEW j \in 1 .. Len(q) - 1, r[i] = r[j]
                 PROVE  i = j
      BY <2>3 DEF IsInjective
    <3> DEFINE x(n) == IF n < k THEN n ELSE n + 1
    <3>2. x(i) \in 1 .. Len(q) /\ x(j) \in 1 .. Len(q) /\ r[i] = q[x(i)] /\ r[j] = q[x(j)]
      BY <1>0, <2>2
    <3>3. x(i) = x(j)
      BY <3>1, <3>2
    <3> QED BY <1>0, <3>3
  <2>5. ASSUME IsInjective(q)
        PROVE  Range(r) = Range(q) \ {e}
    <3>1. \A i, j \in 1 .. Len(q) : q[i] = q[j] => i = j
      BY <1>0, <2>5 DEF IsInjective
    <3>2. \A i \in 1 .. Len(q) - 1 : \E j \in 1 .. Len(q) : j # k /\ r[i] = q[j]
      <4> TAKE i \in 1 .. Len(q) - 1
      <4>1. CASE i < k
        <5>1. i \in 1 .. Len(q) /\ i # k /\ r[i] = q[i]
          BY <1>0, <2>2, <4>1
        <5> QED BY <5>1
      <4>2. CASE ~(i < k)
        <5>1. i + 1 \in 1 .. Len(q) /\ i + 1 # k /\ r[i] = q[i + 1]
          BY <1>0, <2>2, <4>2
        <5> QED BY <5>1
      <4> QED BY <4>1, <4>2
    <3>3. \A j \in 1 .. Len(q) : j # k => \E i \in 1 .. Len(q) - 1 : r[i] = q[j]
      <4> TAKE j \in 1 .. Len(q)
      <4>1. CASE j < k
        BY <1>0, <2>2, <4>1
      <4>2. CASE j > k
        <5>1. j - 1 \in 1 .. Len(q) - 1 /\ ~(j - 1 < k) /\ (j - 1) + 1 = j
          BY <1>0, <4>2
        <5> QED BY <2>2, <5>1
      <4> QED BY <1>0, <4>1, <4>2
    <3>4. \A j \in 1 .. Len(q) : j # k => q[j] # e
      BY <2>1, <3>1
    <3>5. \A x \in Range(r) : x \in Range(q) \ {e}
      BY <1>0, <2>3, <3>2, <3>4 DEF Range
    <3>6. \A x \in Range(q) \ {e} : x \in Range(r)
      BY <1>0, <2>1, <2>3, <3>3 DEF Range
    <3> QED BY <3>5, <3>6
  <2> QED BY <2>2, <2>4, <2>5 DEF r
<1> QED BY <1>1, <1>2

\* Putting a holder in front of a list.
LEMMA PutInFront ==
  ASSUME NEW S, NEW q \in Seq(S), NEW e \in S
  PROVE  /\ <<e>> \o q \in Seq(S)
         /\ IsInjective(q) /\ e \notin Range(q)
              => IsInjective(<<e>> \o q) /\ Range(<<e>> \o q) = Range(q) \cup {e}
<1> DEFINE r == <<e>> \o q
<1>1. Len(q) \in Nat /\ DOMAIN q = 1 .. Len(q)
  BY LenProperties
<1>2. <<e>> \in Seq(S) /\ Len(<<e>>) = 1 /\ <<e>>[1] = e
  OBVIOUS
<1>3. /\ r \in Seq(S) /\ Len(r) = 1 + Len(q)
      /\ \A i \in 1 .. 1 + Len(q) : r[i] = IF i <= 1 THEN <<e>>[i] ELSE q[i - 1]
  BY <1>2, ConcatProperties
<1> HIDE DEF r
<1>4. DOMAIN r = 1 .. 1 + Len(q) /\ r[1] = e
  BY <1>1, <1>2, <1>3, LenProperties
<1>5. \A i \in 1 .. 1 + Len(q) : i = 1 \/ (i - 1 \in 1 .. Len(q) /\ r[i] = q[i - 1])
  BY <1>1, <1>3
<1>6. ASSUME IsInjective(q), e \notin Range(q)
      PROVE  IsInjective(r)
  <2>1. \A i \in 1 .. Len(q) : q[i] # e
    BY <1>1, <1>6 DEF Range
  <2>2. \A i, j \in 1 .. Len(q) : q[i] = q[j] => i = j
    BY <1>1, <1>6 DEF IsInjective
  <2> SUFFICES ASSUME NEW i \in 1 .. 1 + Len(q), NEW j \in 1 .. 1 + Len(q), r[i] = r[j]
               PROVE  i = j
    BY <1>4 DEF IsInjective
  <2>3. CASE i = 1 \/ j = 1
    BY <1>4, <1>5, <2>1, <2>3
  <2>4. CASE i # 1 /\ j # 1
    <3>1. i - 1 \in 1 .. Len(q) /\ j - 1 \in 1 .. Len(q) /\ q[i - 1] = q[j - 1]
      BY <1>5, <2>4
    <3>2. i - 1 = j - 1
      BY <2>2, <3>1
    <3> QED BY <1>1, <3>2
  <2> QED BY <2>3, <2>4
<1>7. Range(r) = Range(q) \cup {e}
  <2>1. \A j \in 1 .. Len(q) : r[j + 1] = q[j] /\ j + 1 \in 1 .. 1 + Len(q)
    BY <1>1, <1>3
  <2>2. 1 \in 1 .. 1 + Len(q)
    BY <1>1
  <2>3. \A x \in Range(r) : x \in Range(q) \cup {e}
    BY <1>1, <1>4, <1>5 DEF Range
  <2>4. \A x \in Range(q) : x \in Range(r)
    BY <1>1, <1>4, <2>1 DEF Range
  <2>5. e \in Range(r)
    BY <1>4, <2>2 DEF Range
  <2> QED BY <2>3, <2>4, <2>5
<1> QED BY <1>3, <1>6, <1>7 DEF r

---------------------------------------------------------------------------
(* Who watches: the holders and lists after a start, a stop and a move.    *)

WatchTyped(w) ==
  w.holder \in [Holders -> Threads \cup {NoThread}] /\ w.list \in [Threads -> Seq(Holders)]

ListsExact(w) ==
  \A t \in Threads :
    IsInjective(w.list[t]) /\ Range(w.list[t]) = {h \in Holders : w.holder[h] = t}

LEMMA StartKeepsLists ==
  ASSUME NEW w, WatchTyped(w), NEW t \in Threads, NEW h \in Holders
  PROVE  LET v == StartWatching(w, t, h) IN
           /\ WatchTyped(v) /\ v.holder = [w.holder EXCEPT ![h] = t]
           /\ ListsExact(w) /\ w.holder[h] = NoThread => ListsExact(v)
<1> DEFINE v == StartWatching(w, t, h)
<1>1. v.holder = [w.holder EXCEPT ![h] = t] /\ v.list = [w.list EXCEPT ![t] = <<h>> \o @]
  BY DEF StartWatching
<1>2. w.list[t] \in Seq(Holders) /\ <<h>> \o w.list[t] \in Seq(Holders)
  BY PutInFront DEF WatchTyped
<1>3. WatchTyped(v)
  BY <1>1, <1>2 DEF WatchTyped
<1>4. ASSUME ListsExact(w), w.holder[h] = NoThread
      PROVE  ListsExact(v)
  <2>1. /\ IsInjective(w.list[t]) /\ Range(w.list[t]) = {g \in Holders : w.holder[g] = t}
        /\ h \notin Range(w.list[t])
    BY <1>4, ActivityAssumption DEF ListsExact
  <2>2. /\ IsInjective(<<h>> \o w.list[t])
        /\ Range(<<h>> \o w.list[t]) = Range(w.list[t]) \cup {h}
    BY <1>2, <2>1, PutInFront
  <2> SUFFICES ASSUME NEW u \in Threads
               PROVE  IsInjective(v.list[u]) /\ Range(v.list[u]) = {g \in Holders : v.holder[g] = u}
    BY DEF ListsExact
  <2> HIDE DEF v
  <2>3. CASE u = t
    BY <1>1, <2>1, <2>2, <2>3 DEF WatchTyped
  <2>4. CASE u # t
    <3>1. v.list[u] = w.list[u]
      BY <1>1, <2>4 DEF WatchTyped
    <3>2. {g \in Holders : v.holder[g] = u} = {g \in Holders : w.holder[g] = u}
      BY <1>1, <1>4, <2>4, ActivityAssumption DEF WatchTyped
    <3> QED BY <1>4, <3>1, <3>2 DEF ListsExact
  <2> QED BY <2>3, <2>4
<1> QED BY <1>1, <1>3, <1>4

LEMMA StopKeepsLists ==
  ASSUME NEW w, WatchTyped(w), NEW h \in Holders
  PROVE  LET v == StopWatching(w, h) IN
           /\ WatchTyped(v) /\ v.holder = [w.holder EXCEPT ![h] = NoThread]
           /\ ListsExact(w) => ListsExact(v)
<1> DEFINE v == StopWatching(w, h)
<1>1. CASE w.holder[h] = NoThread
  BY <1>1 DEF StopWatching, WatchTyped
<1>2. CASE w.holder[h] # NoThread
  <2>1. PICK t \in Threads : w.holder[h] = t
    BY <1>2 DEF WatchTyped
  <2>2. /\ v.holder = [w.holder EXCEPT ![h] = NoThread]
        /\ v.list = [w.list EXCEPT ![t] = RemoveFirst(@, h)]
    BY <1>2, <2>1 DEF StopWatching
  <2>3. w.list[t] \in Seq(Holders)
    BY DEF WatchTyped
  <2>4. RemoveFirst(w.list[t], h) \in Seq(Holders)
    BY <2>3, FirstRemoved
  <2> HIDE DEF v
  <2>5. WatchTyped(v)
    BY <2>2, <2>4 DEF WatchTyped
  <2>6. ASSUME ListsExact(w), NEW u \in Threads
        PROVE  IsInjective(v.list[u]) /\ Range(v.list[u]) = {g \in Holders : v.holder[g] = u}
    <3>1. CASE u = t
      <4>1. IsInjective(w.list[t]) /\ Range(w.list[t]) = {g \in Holders : w.holder[g] = t}
        BY <2>6 DEF ListsExact
      <4>2. /\ IsInjective(RemoveFirst(w.list[t], h))
            /\ Range(RemoveFirst(w.list[t], h)) = Range(w.list[t]) \ {h}
        BY <2>3, <4>1, FirstRemoved
      <4>3. {g \in Holders : v.holder[g] = t} = {g \in Holders : w.holder[g] = t} \ {h}
        BY <2>2, ActivityAssumption DEF WatchTyped
      <4> QED BY <2>2, <3>1, <4>1, <4>2, <4>3 DEF WatchTyped
    <3>2. CASE u # t
      <4>1. v.list[u] = w.list[u]
        BY <2>2, <3>2 DEF WatchTyped
      <4>2. {g \in Holders : v.holder[g] = u} = {g \in Holders : w.holder[g] = u}
        BY <2>1, <2>2, <3>2, ActivityAssumption DEF WatchTyped
      <4> QED BY <2>6, <4>1, <4>2 DEF ListsExact
    <3> QED BY <3>1, <3>2
  <2>7. ListsExact(w) => ListsExact(v)
    BY <2>6 DEF ListsExact
  <2> QED BY <2>2, <2>5, <2>7 DEF v
<1> QED BY <1>1, <1>2

LEMMA MoveKeepsLists ==
  ASSUME NEW w, WatchTyped(w), NEW t \in Threads, NEW h \in Holders, NEW g \in Holders, g # h
  PROVE  LET v == HolderMoved(w, t, h, g) IN
           /\ WatchTyped(v)
           /\ v.holder = [w.holder EXCEPT ![g] = IF w.holder[h] = NoThread THEN @ ELSE t,
                                          ![h] = NoThread]
           /\ ListsExact(w) /\ w.holder[g] = NoThread => ListsExact(v)
<1> DEFINE x == StopWatching(w, h)
           v == HolderMoved(w, t, h, g)
<1>1. CASE w.holder[h] = NoThread
  BY <1>1 DEF HolderMoved, WatchTyped
<1>2. CASE w.holder[h] # NoThread
  <2>1. v = StartWatching(x, t, g)
    BY <1>2 DEF HolderMoved
  <2>2. WatchTyped(x) /\ x.holder = [w.holder EXCEPT ![h] = NoThread] /\ (ListsExact(w) => ListsExact(x))
    BY StopKeepsLists
  <2> HIDE DEF x, v
  <2>3. /\ WatchTyped(v) /\ v.holder = [x.holder EXCEPT ![g] = t]
        /\ ListsExact(x) /\ x.holder[g] = NoThread => ListsExact(v)
    BY <2>1, <2>2, StartKeepsLists
  <2>4. x.holder[g] = w.holder[g]
    BY <2>2 DEF WatchTyped
  <2>5. v.holder = [w.holder EXCEPT ![g] = IF w.holder[h] = NoThread THEN @ ELSE t, ![h] = NoThread]
    BY <1>2, <2>2, <2>3 DEF WatchTyped
  <2> QED BY <2>2, <2>3, <2>4, <2>5 DEF v
<1> QED BY <1>1, <1>2

---------------------------------------------------------------------------
(* Types, and who owns what: an object that is in the middle of something  *)
(* is there and belongs to the thread that works on it.                    *)

Places == Objects \cup {Cell}
Results == Codes \cup {OK, Unhandled}
ActivityData ==
  [status : {"new", "started", "stopped"}, result : Results, failure : Codes \cup {OK},
   stops : Int]
Working == {"copy", "destroy", "last", "release"}
Steps ==
  {Idle} \cup [op : Working, o : Objects]
         \cup [op : {"report"}, o : Objects, next : {"ignore", "release"}]
         \cup [op : {"notify"}, code : Failures, rest : Seq(Holders) \ {<<>>}]

TypeOK ==
  /\ mem \in [Places -> ActivityData]
  /\ ptr \in [Objects -> Places \cup {None}]
  /\ shared \in [Objects -> BOOLEAN]
  /\ refs \in Int
  /\ WatchTyped(Watching)
  /\ target \in [Watchers -> Objects \cup {None}]
  /\ owner \in [Objects -> Threads \cup {NoThread}]
  /\ share \in [Objects -> BOOLEAN]
  /\ at \in [Threads -> Steps]
  /\ reported \in Seq(Results)
  /\ votes \in Seq(Codes \cup {OK})
  /\ shares \in Nat

WorksOn(t, o) == at[t].op \in Working \cup {"report"} /\ at[t].o = o

Owners ==
  /\ \A t \in Threads, o \in Objects : WorksOn(t, o) => owner[o] = t
  /\ \A o \in Objects : Live(o) <=> owner[o] # NoThread
  /\ shares = 0 => \A o \in Objects : ~Live(o)

LEMMA StepFields ==
  ASSUME NEW s \in Steps
  PROVE  /\ s.op \in Working \cup {"report", "idle", "notify"}
         /\ s.op \in Working \cup {"report"} => s.o \in Objects
         /\ s.op = "report" => s.next \in {"ignore", "release"}
         /\ s.op = "idle" <=> s = Idle
         /\ s.op = "notify" => s.code \in Failures /\ s.rest \in Seq(Holders) /\ s.rest # <<>>
<1> QED BY DEF Steps, Working, Idle

LEMMA NewSteps ==
  ASSUME NEW o \in Objects
  PROVE  /\ Idle \in Steps
         /\ \A op \in Working : [op |-> op, o |-> o] \in Steps
         /\ \A next \in {"ignore", "release"} : [op |-> "report", o |-> o, next |-> next] \in Steps
         /\ \A op \in Working, s \in Steps :
              s.op \in Working => [s EXCEPT !.op = op] = [op |-> op, o |-> s.o]
<1> QED BY DEF Steps, Working, Idle

\* What the data become.
LEMMA DataFields ==
  ASSUME NEW d \in ActivityData
  PROVE  /\ IncrementExpectedStopCount(d) \in ActivityData
         /\ IncrementExpectedStopCount(d).status = d.status
         /\ IncrementExpectedStopCount(d).result = d.result
         /\ IncrementExpectedStopCount(d).stops = d.stops + 1
         /\ \A r \in Results :
              /\ SetStopResult(d, r) \in ActivityData
              /\ SetStopResult(d, r).status = d.status
              /\ SetStopResult(d, r).stops = d.stops - 1
              /\ SetStopResult(d, r).result = IF d.result = OK THEN r ELSE d.result
         /\ SetUnhandledException(d) \in ActivityData
         /\ SetUnhandledException(d).status = d.status
         /\ SetUnhandledException(d).result # OK
         /\ d.result # OK => SetUnhandledException(d).result = d.result
         /\ \A f \in Failures :
              /\ DataNotifyFailure(d, f) \in ActivityData
              /\ DataNotifyFailure(d, f).status = d.status
              /\ DataNotifyFailure(d, f).stops = d.stops
              /\ DataNotifyFailure(d, f).result = d.result
<1>1. \A r \in Results :
        /\ SetStopResult(d, r) \in ActivityData
        /\ SetStopResult(d, r).status = d.status
        /\ SetStopResult(d, r).stops = d.stops - 1
        /\ SetStopResult(d, r).result = IF d.result = OK THEN r ELSE d.result
  <2> TAKE r \in Results
  <2> DEFINE s == IF d.result = OK THEN r ELSE d.result
  <2>1. /\ d.status \in {"new", "started", "stopped"} /\ d.result \in Results
        /\ d.failure \in Codes \cup {OK} /\ d.stops \in Int
    BY DEF ActivityData
  <2>2. SetStopResult(d, r) =
          [status |-> d.status, result |-> s, failure |-> d.failure, stops |-> d.stops - 1]
    <3>1. SetStopResult(d, r) = [d EXCEPT !.result = s, !.stops = d.stops - 1]
      BY DEF SetStopResult
    <3> HIDE DEF s
    <3> QED BY <3>1 DEF ActivityData
  <2>3. s \in Results
    BY <2>1
  <2> HIDE DEF s
  <2>4. SetStopResult(d, r) \in ActivityData
    BY <2>1, <2>2, <2>3 DEF ActivityData
  <2> QED BY <2>2, <2>4 DEF s
<1>2. \E r \in Results : r # OK /\ SetUnhandledException(d) = SetStopResult(d, r)
  <2> DEFINE r == IF d.failure # OK THEN d.failure ELSE Unhandled
  <2>1. r \in Results /\ r # OK
    BY ActivityAssumption DEF ActivityData, Results
  <2>2. SetUnhandledException(d) = SetStopResult(d, r)
    BY DEF SetUnhandledException
  <2> HIDE DEF r
  <2> QED BY <2>1, <2>2
<1>3. \A f \in Failures :
        /\ DataNotifyFailure(d, f) \in ActivityData
        /\ DataNotifyFailure(d, f).status = d.status
        /\ DataNotifyFailure(d, f).stops = d.stops
        /\ DataNotifyFailure(d, f).result = d.result
  BY ActivityAssumption DEF ActivityData, Results, DataNotifyFailure
<1>4. IncrementExpectedStopCount(d) =
        [status |-> d.status, result |-> d.result, failure |-> d.failure, stops |-> d.stops + 1]
  BY DEF ActivityData, IncrementExpectedStopCount
<1>5. /\ IncrementExpectedStopCount(d) \in ActivityData
      /\ IncrementExpectedStopCount(d).status = d.status
      /\ IncrementExpectedStopCount(d).result = d.result
      /\ IncrementExpectedStopCount(d).stops = d.stops + 1
  BY <1>4 DEF ActivityData
<1> QED BY <1>1, <1>2, <1>3, <1>5

LEMMA NewDataFields ==
  /\ NewData \in ActivityData /\ NewData.status = "new"
  /\ [NewData EXCEPT !.status = "started"] \in ActivityData
  /\ [NewData EXCEPT !.status = "started"].status = "started"
  /\ [NewData EXCEPT !.status = "started"].result = OK
  /\ [NewData EXCEPT !.status = "started"].stops = 1
<1> QED BY DEF NewData, ActivityData, Results

\* A move of o to p, and a move of p to l before it.
LEMMA MoveOnce ==
  ASSUME TypeOK, NEW p \in Objects, NEW o \in Objects, p # o,
         BecomesObjs(Moved(Objs, p, o))
  PROVE  /\ mem' \in [Places -> ActivityData] /\ ptr' \in [Objects -> Places \cup {None}]
         /\ shared' \in [Objects -> BOOLEAN] /\ share' \in [Objects -> BOOLEAN]
         /\ mem'[p] = mem[o] /\ mem'[o] = NewData
         /\ \A x \in Places \ {p, o} : mem'[x] = mem[x]
         /\ ptr'[p] = (IF shared[o] THEN Cell ELSE p) /\ ptr'[o] = o
         /\ (shared'[p] <=> shared[o]) /\ ~shared'[o]
         /\ (share'[p] <=> share[o]) /\ ~share'[o]
         /\ \A x \in Objects \ {p, o} :
              ptr'[x] = ptr[x] /\ (shared'[x] <=> shared[x]) /\ (share'[x] <=> share[x])
<1> USE DEF TypeOK, BecomesObjs, Moved, Objs
<1>1. p \in Places /\ o \in Places /\ Cell \in Places
  BY DEF Places
<1>2. /\ mem' \in [Places -> ActivityData]
      /\ mem'[p] = mem[o] /\ mem'[o] = NewData
      /\ \A x \in Places \ {p, o} : mem'[x] = mem[x]
  BY <1>1, NewDataFields
<1>3. /\ ptr' \in [Objects -> Places \cup {None}]
      /\ ptr'[p] = (IF shared[o] THEN Cell ELSE p) /\ ptr'[o] = o
      /\ \A x \in Objects \ {p, o} : ptr'[x] = ptr[x]
  BY <1>1
<1>4. /\ shared' \in [Objects -> BOOLEAN]
      /\ (shared'[p] <=> shared[o]) /\ ~shared'[o]
      /\ \A x \in Objects \ {p, o} : (shared'[x] <=> shared[x])
  OBVIOUS
<1>5. /\ share' \in [Objects -> BOOLEAN]
      /\ (share'[p] <=> share[o]) /\ ~share'[o]
      /\ \A x \in Objects \ {p, o} : (share'[x] <=> share[x])
  OBVIOUS
<1> QED BY <1>2, <1>3, <1>4, <1>5

LEMMA MoveTwice ==
  ASSUME TypeOK, NEW l \in Objects, NEW p \in Objects, NEW o \in Objects,
         l # p, p # o, l # o, BecomesObjs(Moved(Moved(Objs, l, p), p, o))
  PROVE  /\ mem' \in [Places -> ActivityData] /\ ptr' \in [Objects -> Places \cup {None}]
         /\ shared' \in [Objects -> BOOLEAN] /\ share' \in [Objects -> BOOLEAN]
         /\ mem'[l] = mem[p] /\ mem'[p] = mem[o] /\ mem'[o] = NewData
         /\ \A x \in Places \ {l, p, o} : mem'[x] = mem[x]
         /\ ptr'[l] = (IF shared[p] THEN Cell ELSE l)
         /\ ptr'[p] = (IF shared[o] THEN Cell ELSE p) /\ ptr'[o] = o
         /\ (shared'[l] <=> shared[p]) /\ (shared'[p] <=> shared[o]) /\ ~shared'[o]
         /\ (share'[l] <=> share[p]) /\ (share'[p] <=> share[o]) /\ ~share'[o]
         /\ \A x \in Objects \ {l, p, o} :
              ptr'[x] = ptr[x] /\ (shared'[x] <=> shared[x]) /\ (share'[x] <=> share[x])
<1> USE DEF TypeOK, BecomesObjs, Moved, Objs
<1>1. l \in Places /\ p \in Places /\ o \in Places /\ Cell \in Places
  BY DEF Places
<1>2. /\ mem' \in [Places -> ActivityData]
      /\ mem'[l] = mem[p] /\ mem'[p] = mem[o] /\ mem'[o] = NewData
      /\ \A x \in Places \ {l, p, o} : mem'[x] = mem[x]
  BY <1>1, NewDataFields
<1>3. /\ ptr' \in [Objects -> Places \cup {None}]
      /\ ptr'[l] = (IF shared[p] THEN Cell ELSE l)
      /\ ptr'[p] = (IF shared[o] THEN Cell ELSE p) /\ ptr'[o] = o
      /\ \A x \in Objects \ {l, p, o} : ptr'[x] = ptr[x]
  BY <1>1
<1>4. /\ shared' \in [Objects -> BOOLEAN]
      /\ (shared'[l] <=> shared[p]) /\ (shared'[p] <=> shared[o]) /\ ~shared'[o]
      /\ \A x \in Objects \ {l, p, o} : (shared'[x] <=> shared[x])
  OBVIOUS
<1>5. /\ share' \in [Objects -> BOOLEAN]
      /\ (share'[l] <=> share[p]) /\ (share'[p] <=> share[o]) /\ ~share'[o]
      /\ \A x \in Objects \ {l, p, o} : (share'[x] <=> share[x])
  OBVIOUS
<1> QED BY <1>2, <1>3, <1>4, <1>5

LEMMA OwnersInit == Init => TypeOK /\ Owners
<1> SUFFICES ASSUME Init PROVE TypeOK /\ Owners
  OBVIOUS
<1> USE DEF Init
<1>1. mem \in [Places -> ActivityData]
  BY NewDataFields DEF Places
<1>2. WatchTyped(Watching)
  BY EmptySeq DEF WatchTyped, Watching
<1>3. at \in [Threads -> Steps]
  BY DEF Steps
<1>4. reported \in Seq(Results) /\ votes \in Seq(Codes \cup {OK})
  BY EmptySeq
<1>5. TypeOK
  BY <1>1, <1>2, <1>3, <1>4 DEF TypeOK
<1>6. Owners
  BY DEF Owners, WorksOn, Working, Live, Idle
<1> QED BY <1>5, <1>6

\* The steps one by one.
LEMMA OwnersStep ==
  ASSUME TypeOK, Owners, Next
  PROVE  TypeOK' /\ Owners'
<1> USE DEF TypeOK, Owners, WorksOn, Working, Live, Uses
<1>a. PICK t \in Threads :
        \/ \E o \in Objects :
             \/ Start(t, o) \/ Split(t, o) \/ SplitCopies(t, o) \/ BeginDestroy(t, o)
             \/ \E p \in Objects :
                  \/ CopyAssign(t, o, p) \/ MoveConstruct(t, o, p)
                  \/ \E l \in Objects : MoveAssign(t, o, p, l)
             \/ \E u \in Threads : Handover(t, u, o)
             \/ \E r \in Codes \cup {OK} : Stop(t, o, r)
             \/ \E w \in Watchers : Watch(t, w, o)
        \/ \E w \in Watchers : EndWatch(t, w)
        \/ \E f \in Failures : Fail(t, f)
        \/ ReportStopActivity(t) \/ Destroy(t) \/ DestroyLast(t) \/ Release(t)
        \/ NotifyFailure(t)
  BY DEF Next
<1>b. /\ at[t] \in Steps /\ NoThread \notin Threads /\ Cell \notin Objects
      /\ None \notin Places /\ OK \notin Codes /\ Idle \in Steps /\ Idle.op = "idle"
      /\ \A o \in Objects : o \in Places /\ o \in Holders
      /\ \A w \in Watchers : w \in Holders
      /\ WatchTyped(Watching) /\ at \in [Threads -> Steps]
      /\ owner \in [Objects -> Threads \cup {NoThread}]
  BY ActivityAssumption DEF Places, Holders, Idle, Steps
<1>c. \A w : BecomesWatching(w) /\ WatchTyped(w) => WatchTyped(Watching)'
  BY DEF BecomesWatching, WatchTyped, Watching
<1>d. UNCHANGED <<holder, list>> => WatchTyped(Watching)'
  BY <1>b DEF WatchTyped, Watching
<1>1. ASSUME NEW o \in Objects, Start(t, o)
      PROVE  TypeOK' /\ Owners'
  <2> USE DEF Start
  <2>1. mem' \in [Places -> ActivityData]
    BY <1>1, NewDataFields
  <2>2. WatchTyped(Watching)'
    BY <1>b, <1>c, <1>1, StartKeepsLists
  <2>3. TypeOK'
    BY <1>1, <1>b, <2>1, <2>2
  <2>4. Owners'
    BY <1>1, <1>b
  <2> QED BY <2>3, <2>4
<1>2. ASSUME NEW o \in Objects, Split(t, o)
      PROVE  TypeOK' /\ Owners'
  <2> USE DEF Split
  <2>1. mem' \in [Places -> ActivityData]
    <3>1. ptr[o] \in Places
      BY <1>2
    <3> QED BY <1>2, <3>1, DataFields
  <2>2. at' \in [Threads -> Steps]
    BY <1>2, NewSteps
  <2>3. TypeOK'
    BY <1>2, <1>d, <2>1, <2>2
  <2>4. Owners'
    BY <1>2, <1>b
  <2> QED BY <2>3, <2>4
<1>3. ASSUME NEW p \in Objects, SplitCopies(t, p)
      PROVE  TypeOK' /\ Owners'
  <2> USE DEF SplitCopies, CopyTo, watching, history
  <2>1. at[t].o \in Objects
    BY <1>3, <1>b, StepFields
  <2>2. mem' \in [Places -> ActivityData]
    BY <1>3, <2>1, NewDataFields DEF Places
  <2>3. at' \in [Threads -> Steps]
    BY <1>3, NewSteps
  <2>3a. refs' \in Int
    BY <1>3
  <2>3b. /\ ptr' \in [Objects -> Places \cup {None}]
         /\ shared' \in [Objects -> BOOLEAN] /\ share' \in [Objects -> BOOLEAN]
         /\ owner' \in [Objects -> Threads \cup {NoThread}]
    BY <1>3, <2>1 DEF Places
  <2>4. TypeOK'
    BY <1>3, <1>d, <2>2, <2>3, <2>3a, <2>3b
  <2>5. Owners'
    BY <1>3, <1>b, <2>1 DEF Places
  <2> QED BY <2>4, <2>5
<1>4. ASSUME NEW o \in Objects, BeginDestroy(t, o)
      PROVE  TypeOK' /\ Owners'
  <2> USE DEF BeginDestroy, memory, watching, history
  <2>1. at' \in [Threads -> Steps]
    BY <1>4, NewSteps
  <2>2. TypeOK'
    BY <1>4, <1>d, <2>1
  <2>3. Owners'
    BY <1>4, <1>b
  <2> QED BY <2>2, <2>3
<1>5. ASSUME NEW o \in Objects, NEW p \in Objects, CopyAssign(t, o, p)
      PROVE  TypeOK' /\ Owners'
  <2> USE DEF CopyAssign, CopyTo, history
  <2>1. mem' \in [Places -> ActivityData]
    BY <1>5, NewDataFields DEF Places
  <2>2. WatchTyped(Watching)'
    BY <1>b, <1>c, <1>5, StopKeepsLists
  <2>2a. refs' \in Int
    BY <1>5
  <2>2b. ptr' \in [Objects -> Places \cup {None}] /\ shared' \in [Objects -> BOOLEAN]
    BY <1>5 DEF Places
  <2>3. TypeOK'
    BY <1>5, <2>1, <2>2, <2>2a, <2>2b
  <2>4. Owners'
    BY <1>5, <1>b DEF Places
  <2> QED BY <2>3, <2>4
<1>6. ASSUME NEW o \in Objects, NEW p \in Objects, MoveConstruct(t, o, p)
      PROVE  TypeOK' /\ Owners'
  <2> USE DEF MoveConstruct, history
  <2>0. p # o
    BY <1>6
  <2>1. BecomesObjs(Moved(Objs, p, o))
    BY <1>6
  <2>2. /\ mem' \in [Places -> ActivityData] /\ ptr' \in [Objects -> Places \cup {None}]
        /\ shared' \in [Objects -> BOOLEAN] /\ share' \in [Objects -> BOOLEAN]
    BY <2>0, <2>1, MoveOnce
  <2>3. /\ ptr'[p] \in {Cell, p} /\ ptr'[o] = o
        /\ \A x \in Objects \ {p, o} : ptr'[x] = ptr[x]
    BY <2>0, <2>1, MoveOnce
  <2>4. WatchTyped(Watching)'
    BY <1>b, <1>c, <1>6, StopKeepsLists, StartKeepsLists
  <2>5. /\ owner' = [owner EXCEPT ![p] = t] /\ UNCHANGED <<refs, target, at, history>>
        /\ owner[o] = t /\ at[t].op = "idle"
        /\ ~Live(p)
    BY <1>6, <1>b
  <2>6. TypeOK'
    BY <2>2, <2>4, <2>5
  <2>7. Owners'
    <3>1. \A x \in Objects : x # None /\ Cell # None
      BY <1>b DEF Places
    <3> HIDE DEF TypeOK, MoveConstruct
    <3>2. owner \in [Objects -> Threads \cup {NoThread}] /\ shares' = shares
      BY <2>5 DEF TypeOK
    <3>3. \A u \in Threads, x \in Objects : WorksOn(u, x)' => owner'[x] = u
      BY <1>b, <2>2, <2>3, <2>5, <3>1, <3>2
    <3>4. \A x \in Objects : Live(x)' <=> owner'[x] # NoThread
      BY <1>b, <2>2, <2>3, <2>5, <3>1, <3>2
    <3>5. shares' = 0 => \A x \in Objects : ~Live(x)'
      BY <1>b, <2>2, <2>3, <2>5, <3>1, <3>2
    <3> QED BY <3>3, <3>4, <3>5
  <2> QED BY <2>6, <2>7
<1>7. ASSUME NEW o \in Objects, NEW p \in Objects, NEW l \in Objects, MoveAssign(t, o, p, l)
      PROVE  TypeOK' /\ Owners'
  <2> USE DEF MoveAssign, history
  <2>0. p # o /\ p # l /\ o # l
    BY <1>7
  <2>1. BecomesObjs(Moved(Moved(Objs, l, p), p, o))
    BY <1>7
  <2>2. /\ mem' \in [Places -> ActivityData] /\ ptr' \in [Objects -> Places \cup {None}]
        /\ shared' \in [Objects -> BOOLEAN] /\ share' \in [Objects -> BOOLEAN]
    BY <2>0, <2>1, MoveTwice
  <2>3. /\ ptr'[l] \in {Cell, l} /\ ptr'[p] \in {Cell, p} /\ ptr'[o] = o
        /\ \A x \in Objects \ {l, p, o} : ptr'[x] = ptr[x]
    BY <2>0, <2>1, MoveTwice
  <2>6. WatchTyped(Watching)'
    BY <1>b, <1>c, <1>7, <2>0, MoveKeepsLists
  <2>7. /\ owner' = [owner EXCEPT ![l] = t] /\ UNCHANGED <<refs, target, history>>
        /\ at' = [at EXCEPT ![t] = [op |-> "destroy", o |-> l]]
        /\ owner[o] = t /\ owner[p] = t /\ at[t].op = "idle" /\ ~Live(l)
    BY <1>7, <1>b
  <2>8. at' \in [Threads -> Steps]
    BY <2>7, NewSteps
  <2>9. TypeOK'
    BY <2>2, <2>6, <2>7, <2>8
  <2>10. Owners'
    <3>1. \A x \in Objects : x # None /\ Cell # None
      BY <1>b DEF Places
    <3> HIDE DEF TypeOK, MoveAssign
    <3>2. owner \in [Objects -> Threads \cup {NoThread}] /\ shares' = shares
      BY <2>7 DEF TypeOK
    <3>3. \A u \in Threads, x \in Objects : WorksOn(u, x)' => owner'[x] = u
      BY <1>b, <2>0, <2>2, <2>3, <2>7, <3>1, <3>2
    <3>4. \A x \in Objects : Live(x)' <=> owner'[x] # NoThread
      BY <1>b, <2>0, <2>2, <2>3, <2>7, <3>1, <3>2
    <3>5. shares' = 0 => \A x \in Objects : ~Live(x)'
      BY <1>b, <2>0, <2>2, <2>3, <2>7, <3>1, <3>2
    <3> QED BY <3>3, <3>4, <3>5
  <2> QED BY <2>9, <2>10
<1>8. ASSUME NEW o \in Objects, NEW u \in Threads, Handover(t, u, o)
      PROVE  TypeOK' /\ Owners'
  <2> USE DEF Handover, memory, watching, history
  <2>1. TypeOK'
    BY <1>8, <1>d
  <2>2. Owners'
    BY <1>8, <1>b
  <2> QED BY <2>1, <2>2
<1>9. ASSUME NEW o \in Objects, NEW r \in Codes \cup {OK}, Stop(t, o, r)
      PROVE  TypeOK' /\ Owners'
  <2> USE DEF Stop
  <2> DEFINE d == SetStopResult(mem[ptr[o]], r)
  <2>0. ptr[o] \in Places /\ r \in Results
    BY <1>9 DEF Results
  <2>1. d \in ActivityData
    BY <2>0, DataFields
  <2>2. mem' = [mem EXCEPT ![ptr[o]] = d]
    BY <1>9
  <2>3. \/ at' = [at EXCEPT ![t] = [op |-> "report", o |-> o, next |-> "ignore"]]
           /\ UNCHANGED <<holder, list>>
        \/ BecomesWatching(StopWatching(Watching, o)) /\ UNCHANGED at
    BY <1>9
  <2> HIDE DEF d
  <2>4. mem' \in [Places -> ActivityData]
    BY <2>0, <2>1, <2>2
  <2>5. WatchTyped(Watching)'
    BY <1>b, <1>c, <1>d, <2>3, StopKeepsLists
  <2>6. at' \in [Threads -> Steps]
    BY <2>3, NewSteps
  <2>7. votes' \in Seq(Codes \cup {OK})
    BY <1>9, AppendProperties
  <2>7a. share' \in [Objects -> BOOLEAN] /\ UNCHANGED <<ptr, shared, refs, target, owner, reported, shares>>
    BY <1>9
  <2>8. TypeOK'
    BY <2>4, <2>5, <2>6, <2>7, <2>7a
  <2>9. Owners'
    <3>1. owner[o] = t /\ at[t].op = "idle"
      BY <1>9, <1>b
    <3> HIDE DEF Stop, TypeOK
    <3> QED BY <3>1, <2>3, <1>b, <2>7a
  <2> QED BY <2>8, <2>9
<1>10. ASSUME NEW o \in Objects, NEW w \in Watchers, Watch(t, w, o)
       PROVE  TypeOK' /\ Owners'
  <2> USE DEF Watch, memory, history
  <2>1. WatchTyped(Watching)'
    BY <1>b, <1>c, <1>10, StartKeepsLists
  <2>2. TypeOK'
    BY <1>10, <2>1
  <2>3. Owners'
    BY <1>10
  <2> QED BY <2>2, <2>3
<1>11. ASSUME NEW w \in Watchers, EndWatch(t, w)
       PROVE  TypeOK' /\ Owners'
  <2> USE DEF EndWatch, memory, history
  <2>1. WatchTyped(Watching)'
    BY <1>b, <1>c, <1>11, StopKeepsLists
  <2>2. TypeOK'
    BY <1>11, <2>1
  <2>3. Owners'
    BY <1>11
  <2> QED BY <2>2, <2>3
<1>12. ASSUME NEW f \in Failures, Fail(t, f)
       PROVE  TypeOK' /\ Owners'
  <2> USE DEF Fail, memory, watching, history
  <2>1. list[t] \in Seq(Holders)
    BY <1>b DEF WatchTyped, Watching
  <2>2. at' \in [Threads -> Steps]
    BY <1>12, <2>1 DEF Steps
  <2>3. TypeOK'
    BY <1>12, <1>d, <2>2
  <2>4. Owners'
    BY <1>12, <1>b
  <2> QED BY <2>3, <2>4
<1>13. ASSUME ReportStopActivity(t)
       PROVE  TypeOK' /\ Owners'
  <2> DEFINE o == at[t].o
  <2>0. at[t].op = "report" /\ o \in Objects /\ at[t].next \in {"ignore", "release"}
    BY <1>13, <1>b, StepFields DEF ReportStopActivity
  <2>1. /\ mem' = [mem EXCEPT ![ptr[o]].status = "stopped"]
        /\ reported' = Append(reported, mem[ptr[o]].result)
        /\ BecomesWatching(StopWatching(Watching, o))
        /\ at' = [at EXCEPT ![t] = IF at[t].next = "ignore" THEN Idle ELSE [op |-> "release", o |-> o]]
        /\ UNCHANGED <<ptr, shared, refs, target, owner, share, votes, shares>>
    BY <1>13 DEF ReportStopActivity
  <2> HIDE DEF o
  <2>2. ptr[o] \in Places
    BY <2>0, <1>b DEF o
  <2>3. mem' \in [Places -> ActivityData] /\ mem[ptr[o]].result \in Results
    <3>1. mem' = [mem EXCEPT ![ptr[o]] = [@ EXCEPT !.status = "stopped"]]
      BY <2>1
    <3>2. mem[ptr[o]] \in ActivityData
      BY <2>2
    <3>3. [mem[ptr[o]] EXCEPT !.status = "stopped"] \in ActivityData /\ mem[ptr[o]].result \in Results
      BY <3>2 DEF ActivityData
    <3> QED BY <2>2, <3>1, <3>3
  <2>4. reported' \in Seq(Results)
    BY <2>1, <2>3, AppendProperties
  <2>5. WatchTyped(Watching)'
    BY <1>b, <1>c, <2>0, <2>1, StopKeepsLists
  <2>6. at' \in [Threads -> Steps]
    BY <2>0, <2>1, NewSteps
  <2>7. TypeOK'
    BY <2>1, <2>3, <2>4, <2>5, <2>6
  <2>8. Owners'
    BY <2>0, <2>1, <1>b DEF o
  <2> QED BY <2>7, <2>8
<1>14. ASSUME Destroy(t)
       PROVE  TypeOK' /\ Owners'
  <2> USE DEF Destroy, watching, history
  <2>0. at[t].op \in Working /\ at[t].o \in Objects
    BY <1>14, <1>b, StepFields
  <2>1. \E op \in {"release", "last"} : at' = [at EXCEPT ![t] = [op |-> op, o |-> at[t].o]]
    BY <1>14, <1>b, <2>0, NewSteps
  <2>2. at' \in [Threads -> Steps]
    BY <2>0, <2>1 DEF Steps
  <2>2a. refs' \in Int
    BY <1>14
  <2>3. TypeOK'
    BY <1>14, <1>d, <2>0, <2>2, <2>2a
  <2>4. Owners'
    BY <1>14, <2>0, <2>1
  <2> QED BY <2>3, <2>4
<1>15. ASSUME DestroyLast(t)
       PROVE  TypeOK' /\ Owners'
  <2> USE DEF DestroyLast, watching, history
  <2> DEFINE o == at[t].o
  <2>0. at[t].op = "last" /\ at[t].op \in Working /\ o \in Objects
    BY <1>15, <1>b, StepFields
  <2>1. ptr[o] \in Places
    BY <2>0, <1>b
  <2>2. \/ mem' = [mem EXCEPT ![ptr[o]] = SetUnhandledException(@)]
           /\ at' = [at EXCEPT ![t] = [op |-> "report", o |-> o, next |-> "release"]]
        \/ UNCHANGED mem /\ at' = [at EXCEPT ![t] = [op |-> "release", o |-> o]]
    BY <1>15, <1>b, <2>0, NewSteps
  <2>2a. UNCHANGED <<ptr, shared, refs, holder, list, target, owner, share, reported, votes, shares>>
    BY <1>15
  <2> HIDE DEF o
  <2>3. mem' \in [Places -> ActivityData]
    BY <2>1, <2>2, DataFields
  <2>4. at' \in [Threads -> Steps]
    BY <2>0, <2>2 DEF Steps
  <2>5. TypeOK'
    BY <1>d, <2>2a, <2>3, <2>4
  <2>6. Owners'
    <3>1. owner[o] = t
      BY <2>0 DEF o
    <3> HIDE DEF TypeOK, DestroyLast
    <3>3. \A u \in Threads, x \in Objects : WorksOn(u, x)' => owner'[x] = u
      BY <1>b, <3>1, <2>0, <2>2, <2>2a
    <3>4. \A x \in Objects : Live(x)' <=> owner'[x] # NoThread
      BY <1>b, <3>1, <2>0, <2>2, <2>2a
    <3>5. shares' = 0 => \A x \in Objects : ~Live(x)'
      BY <1>b, <3>1, <2>0, <2>2, <2>2a
    <3> QED BY <3>3, <3>4, <3>5
  <2> QED BY <2>5, <2>6
<1>16. ASSUME Release(t)
       PROVE  TypeOK' /\ Owners'
  <2> USE DEF Release, history
  <2>0. at[t].op = "release" /\ at[t].o \in Objects
    BY <1>16, <1>b, StepFields
  <2>1. mem' \in [Places -> ActivityData]
    BY <1>16, NewDataFields
  <2>2. WatchTyped(Watching)'
    BY <1>b, <1>c, <1>16, <2>0, StopKeepsLists
  <2>3. at' \in [Threads -> Steps]
    BY <1>16, <1>b
  <2>3a. refs' \in Int
    BY <1>16
  <2>4. TypeOK'
    BY <1>16, <2>1, <2>2, <2>3, <2>3a
  <2>5. Owners'
    BY <1>16, <2>0, <1>b
  <2> QED BY <2>4, <2>5
<1>17. ASSUME NotifyFailure(t)
       PROVE  TypeOK' /\ Owners'
  <2>0. /\ at[t].op = "notify" /\ at[t].code \in Failures
        /\ at[t].rest \in Seq(Holders) /\ at[t].rest # <<>>
    BY <1>17, <1>b, StepFields DEF NotifyFailure
  <2> DEFINE h == Head(at[t].rest)
             o == IF h \in Watchers THEN target[h] ELSE h
  <2>1. /\ mem' = [mem EXCEPT ![ptr[o]] = DataNotifyFailure(@, at[t].code)]
        /\ at' = [at EXCEPT ![t] = IF Len(at[t].rest) = 1 THEN Idle
                                   ELSE [op |-> "notify", code |-> at[t].code,
                                         rest |-> Tail(at[t].rest)]]
        /\ UNCHANGED <<ptr, shared, refs, holder, list, target, owner, share, reported, votes, shares>>
    BY <1>17 DEF NotifyFailure, watching, history
  <2> HIDE DEF o
  <2>2. mem' \in [Places -> ActivityData]
    BY <2>0, <2>1, DataFields
  <2>3. at'[t] \in Steps /\ at'[t].op \in {"idle", "notify"}
    <3>1. CASE Len(at[t].rest) = 1
      BY <2>1, <3>1, <1>b
    <3>2. CASE Len(at[t].rest) # 1
      <4> DEFINE q == Tail(at[t].rest)
      <4>1. q \in Seq(Holders) /\ Len(q) = Len(at[t].rest) - 1 /\ Len(at[t].rest) \in Nat
        BY <2>0, HeadTailProperties, LenProperties
      <4>2. q # <<>>
        <5>1. Len(q) # 0
          BY <3>2, <4>1
        <5> QED BY <5>1, EmptySeq
      <4>4. at[t].code \in Failures /\ q \in Seq(Holders) \ {<<>>}
        BY <2>0, <4>1, <4>2
      <4>5. at'[t] = [op |-> "notify", code |-> at[t].code, rest |-> q]
        BY <2>1, <3>2, <1>b
      <4> HIDE DEF q
      <4> QED BY <4>4, <4>5 DEF Steps
    <3> QED BY <3>1, <3>2
  <2>4. at' \in [Threads -> Steps] /\ \A u \in Threads \ {t} : at'[u] = at[u]
    BY <2>1, <2>3
  <2>5. TypeOK'
    BY <1>d, <2>1, <2>2, <2>4
  <2>6. Owners'
    BY <2>1, <2>3, <2>4
  <2> QED BY <2>5, <2>6
<1> QED
  BY <1>a, <1>1, <1>2, <1>3, <1>4, <1>5, <1>6, <1>7, <1>8, <1>9, <1>10, <1>11, <1>12, <1>13,
     <1>14, <1>15, <1>16, <1>17

LEMMA OwnersInvariance == Spec => [](TypeOK /\ Owners)
<1>1. TypeOK /\ Owners /\ [Next]_vars => (TypeOK /\ Owners)'
  <2> SUFFICES ASSUME TypeOK, Owners, [Next]_vars
               PROVE  TypeOK' /\ Owners'
    OBVIOUS
  <2>1. CASE Next
    BY <2>1, OwnersStep
  <2>2. CASE UNCHANGED vars
    BY <2>2 DEF vars, TypeOK, Owners, WorksOn, Live, WatchTyped, Watching
  <2> QED BY <2>1, <2>2
<1> QED BY OwnersInit, <1>1, PTL DEF Spec

---------------------------------------------------------------------------
(* The lists.  An object watches only its owner, a watcher only the owner  *)
(* of its object, and an object that is going is not watched.              *)

Dying(t, o) ==
  /\ at[t].o = o
  /\ at[t].op \in {"destroy", "last", "release"} \/ (at[t].op = "report" /\ at[t].next = "release")

Lists ==
  /\ ListsExact(Watching)
  /\ \A o \in Objects : holder[o] # NoThread => holder[o] = owner[o]
  /\ \A w \in Watchers : /\ target[w] = None <=> holder[w] = NoThread
                         /\ target[w] # None => holder[w] = owner[target[w]]
  /\ \A t \in Threads, o \in Objects : Dying(t, o) => ~Watched(o)

LEMMA ListsInit == Init => Lists
<1> SUFFICES ASSUME Init PROVE Lists
  OBVIOUS
<1> USE DEF Init
<1>1. ListsExact(Watching)
  <2> SUFFICES ASSUME NEW t \in Threads
               PROVE  IsInjective(list[t]) /\ Range(list[t]) = {h \in Holders : holder[h] = t}
    BY DEF ListsExact, Watching
  <2>1. list[t] = <<>> /\ {h \in Holders : holder[h] = t} = {}
    BY ActivityAssumption
  <2>2. DOMAIN <<>> = {}
    OBVIOUS
  <2> QED BY <2>1, <2>2 DEF IsInjective, Range
<1> QED BY <1>1 DEF Lists, Dying, Watched, Idle, Holders

LEMMA ListsAfterStart ==
  ASSUME TypeOK, Lists, NEW t \in Threads, NEW h \in Holders, holder[h] = NoThread,
         BecomesWatching(StartWatching(Watching, t, h))
  PROVE  ListsExact(Watching)' /\ holder' = [holder EXCEPT ![h] = t]
<1>1. WatchTyped(Watching) /\ ListsExact(Watching) /\ Watching.holder = holder
  BY DEF TypeOK, Lists, Watching
<1>2. PICK v : v = StartWatching(Watching, t, h)
  OBVIOUS
<1>3. Watching.holder[h] = NoThread
  BY <1>1
<1>4. v.holder = [Watching.holder EXCEPT ![h] = t] /\ ListsExact(v)
  BY <1>1, <1>2, <1>3, StartKeepsLists
<1>5. holder' = v.holder /\ list' = v.list
  BY <1>2 DEF BecomesWatching
<1>6. ListsExact(Watching)'
  BY <1>4, <1>5 DEF ListsExact, Watching
<1> QED BY <1>1, <1>4, <1>5, <1>6

LEMMA ListsAfterStop ==
  ASSUME TypeOK, Lists, NEW h \in Holders, BecomesWatching(StopWatching(Watching, h))
  PROVE  ListsExact(Watching)' /\ holder' = [holder EXCEPT ![h] = NoThread]
<1>1. WatchTyped(Watching) /\ ListsExact(Watching) /\ Watching.holder = holder
  BY DEF TypeOK, Lists, Watching
<1>2. PICK v : v = StopWatching(Watching, h)
  OBVIOUS
<1>3. v.holder = [Watching.holder EXCEPT ![h] = NoThread] /\ ListsExact(v)
  BY <1>1, <1>2, StopKeepsLists
<1>4. holder' = v.holder /\ list' = v.list
  BY <1>2 DEF BecomesWatching
<1>5. ListsExact(Watching)'
  BY <1>3, <1>4 DEF ListsExact, Watching
<1> QED BY <1>1, <1>3, <1>4, <1>5

LEMMA ListsStep ==
  ASSUME TypeOK, Owners, Lists, Next, TypeOK', Owners'
  PROVE  Lists'
<1>a. PICK t \in Threads :
        \/ \E o \in Objects :
             \/ Start(t, o) \/ Split(t, o) \/ SplitCopies(t, o) \/ BeginDestroy(t, o)
             \/ \E p \in Objects :
                  \/ CopyAssign(t, o, p) \/ MoveConstruct(t, o, p)
                  \/ \E l \in Objects : MoveAssign(t, o, p, l)
             \/ \E u \in Threads : Handover(t, u, o)
             \/ \E r \in Codes \cup {OK} : Stop(t, o, r)
             \/ \E w \in Watchers : Watch(t, w, o)
        \/ \E w \in Watchers : EndWatch(t, w)
        \/ \E f \in Failures : Fail(t, f)
        \/ ReportStopActivity(t) \/ Destroy(t) \/ DestroyLast(t) \/ Release(t)
        \/ NotifyFailure(t)
  BY DEF Next
<1>b. /\ NoThread \notin Threads /\ None \notin Objects /\ Objects \cap Watchers = {}
      /\ Holders = Objects \cup Watchers
      /\ WatchTyped(Watching) /\ ListsExact(Watching) /\ Watching.holder = holder
      /\ holder \in [Holders -> Threads \cup {NoThread}]
      /\ target \in [Watchers -> Objects \cup {None}]
      /\ owner \in [Objects -> Threads \cup {NoThread}]
      /\ at \in [Threads -> Steps] /\ at[t] \in Steps /\ Idle.op = "idle"
  BY ActivityAssumption DEF Holders, TypeOK, Lists, WatchTyped, Watching, Idle
<1>c. \A w : BecomesWatching(w) /\ ListsExact(w) => ListsExact(Watching)' /\ holder' = w.holder
  BY DEF BecomesWatching, ListsExact, Watching
<1>d. UNCHANGED <<holder, list>> => ListsExact(Watching)'
  BY <1>b DEF ListsExact, Watching
<1>e. \A o \in Objects : Uses(t, o) => owner[o] = t /\ Live(o) /\ at[t].op = "idle"
  BY <1>b DEF Uses
<1>f. \A o \in Objects : ~Live(o) => owner[o] = NoThread /\ holder[o] = NoThread /\ ~Watched(o)
  BY <1>b DEF Owners, Lists, Watched
<1>g. \A u \in Threads, o \in Objects : Dying(u, o) => owner[o] = u
  BY DEF Owners, WorksOn, Working, Dying
<1>h. (\A o \in Objects : o \in Holders) /\ (\A w \in Watchers : w \in Holders)
  BY DEF Holders
<1>i. WatchTyped(Watching) /\ ListsExact(Watching)
  BY <1>b
<1>1. ASSUME NEW o \in Objects, Start(t, o)
      PROVE  Lists'
  <2> USE DEF Start
  <2>1. ~Live(o)
    BY <1>1 DEF Owners
  <2>2. ListsExact(Watching)' /\ holder' = [holder EXCEPT ![o] = t]
    BY <1>1, <1>f, <1>h, <2>1, ListsAfterStart
  <2>3. \A u \in Threads, x \in Objects : Dying(u, x)' => Dying(u, x)
    BY <1>1, <1>b DEF Dying
  <2> QED BY <1>1, <1>b, <1>f, <2>1, <2>2, <2>3 DEF Lists, Watched
<1>2. ASSUME NEW o \in Objects, Split(t, o)
      PROVE  Lists'
  <2>1. \A u \in Threads, x \in Objects : Dying(u, x)' => Dying(u, x)
    BY <1>2, <1>b DEF Dying, Split
  <2> QED BY <1>2, <1>b, <1>d, <2>1 DEF Split, Lists, Watched
<1>3. ASSUME NEW p \in Objects, SplitCopies(t, p)
      PROVE  Lists'
  <2> USE DEF SplitCopies, watching
  <2>1. \A u \in Threads, x \in Objects : Dying(u, x)' => Dying(u, x)
    BY <1>3, <1>b DEF Dying
  <2>2. ~Live(p)
    BY <1>3
  <2> QED BY <1>3, <1>b, <1>d, <1>f, <2>1, <2>2 DEF Lists, Watched
<1>4. ASSUME NEW o \in Objects, BeginDestroy(t, o)
      PROVE  Lists'
  <2> USE DEF BeginDestroy, memory, watching, history
  <2>1. \A u \in Threads, x \in Objects : Dying(u, x)' => Dying(u, x) \/ x = o
    BY <1>4, <1>b DEF Dying
  <2> QED BY <1>4, <1>b, <1>d, <2>1 DEF Lists, Watched
<1>5. ASSUME NEW o \in Objects, NEW p \in Objects, CopyAssign(t, o, p)
      PROVE  Lists'
  <2> USE DEF CopyAssign
  <2>1. ListsExact(Watching)' /\ holder' = [holder EXCEPT ![p] = NoThread]
    BY <1>5, <1>h, ListsAfterStop
  <2>2. \A u \in Threads, x \in Objects : Dying(u, x)' => Dying(u, x)
    BY <1>5, <1>b DEF Dying
  <2> QED BY <1>5, <1>b, <2>1, <2>2 DEF Lists, Watched
<1>6. ASSUME NEW o \in Objects, NEW p \in Objects, MoveConstruct(t, o, p)
      PROVE  Lists'
  <2> USE DEF MoveConstruct
  <2>1. p # o /\ holder[p] = NoThread /\ owner[o] = t /\ ~Watched(p)
    BY <1>6, <1>e, <1>f
  <2>2. /\ ListsExact(Watching)'
        /\ \E s \in {t, NoThread} : holder' = [holder EXCEPT ![o] = NoThread, ![p] = s]
    <3> DEFINE left == StopWatching(Watching, o)
               now == StartWatching(left, t, p)
    <3>1. BecomesWatching(left) \/ BecomesWatching(now)
      BY <1>6
    <3>2. WatchTyped(left) /\ left.holder = [holder EXCEPT ![o] = NoThread] /\ ListsExact(left)
      BY <1>b, <1>h, StopKeepsLists
    <3> HIDE DEF left
    <3>3. left.holder[p] = NoThread
      BY <2>1, <3>2, <1>b
    <3>4. now.holder = [left.holder EXCEPT ![p] = t] /\ ListsExact(now)
      BY <1>h, <3>2, <3>3, StartKeepsLists
    <3> HIDE DEF now
    <3>5. CASE BecomesWatching(left)
      <4>1. ListsExact(Watching)' /\ holder' = [holder EXCEPT ![o] = NoThread]
        BY <1>c, <3>2, <3>5
      <4>2. holder' = [holder EXCEPT ![o] = NoThread, ![p] = NoThread]
        BY <4>1, <2>1, <1>b
      <4> QED BY <4>1, <4>2
    <3>6. CASE BecomesWatching(now)
      BY <1>c, <3>2, <3>4, <3>6, <1>b
    <3> QED BY <3>1, <3>5, <3>6
  <2>3. \A u \in Threads, x \in Objects : Dying(u, x)' => Dying(u, x)
    BY <1>6, <1>b DEF Dying
  <2>4. ~Watched(o) /\ owner' = [owner EXCEPT ![p] = t] /\ target' = target
    BY <1>6
  <2> HIDE DEF MoveConstruct
  <2> QED BY <1>b, <2>1, <2>2, <2>3, <2>4 DEF Lists, Watched
<1>7. ASSUME NEW o \in Objects, NEW p \in Objects, NEW l \in Objects, MoveAssign(t, o, p, l)
      PROVE  Lists'
  <2> USE DEF MoveAssign
  <2>1. /\ p # o /\ p # l /\ o # l /\ holder[l] = NoThread /\ owner[o] = t /\ owner[p] = t
        /\ ~Watched(l) /\ ~Watched(o) /\ ~Watched(p)
    BY <1>7, <1>e, <1>f DEF Watched
  <2>2. /\ ListsExact(Watching)'
        /\ \E r, s \in {t, NoThread} :
             holder' = [holder EXCEPT ![o] = NoThread, ![p] = s, ![l] = r]
    <3> DEFINE one == HolderMoved(Watching, t, p, l)
               two == HolderMoved(one, t, o, p)
    <3>1. BecomesWatching(two)
      BY <1>7
    <3>1a. PICK now : now = Watching
      OBVIOUS
    <3>1b. WatchTyped(now) /\ ListsExact(now) /\ now.holder = holder /\ now.holder[l] = NoThread
      BY <1>b, <2>1, <3>1a
    <3> HIDE DEF one
    <3>1c. one = HolderMoved(now, t, p, l)
      BY <3>1a DEF one
    <3>2. /\ WatchTyped(one) /\ ListsExact(one)
          /\ one.holder = [now.holder EXCEPT ![l] = IF now.holder[p] = NoThread THEN @ ELSE t,
                                             ![p] = NoThread]
      BY <1>h, <2>1, <3>1b, <3>1c, MoveKeepsLists
    <3>3. one.holder[p] = NoThread
      BY <2>1, <3>1b, <3>2, <1>b
    <3> HIDE DEF two
    <3>3a. two = HolderMoved(one, t, o, p)
      BY DEF two
    <3>4. /\ ListsExact(two)
          /\ two.holder = [one.holder EXCEPT ![p] = IF one.holder[o] = NoThread THEN @ ELSE t,
                                             ![o] = NoThread]
      <4>1. WatchTyped(one) /\ ListsExact(one)
        BY <3>2
      <4>2. o \in Holders /\ p \in Holders /\ p # o
        BY <1>h, <2>1
      <4> QED BY <3>3, <3>3a, <4>1, <4>2, MoveKeepsLists
    <3>5. PICK r \in {t, NoThread} : one.holder = [holder EXCEPT ![l] = r, ![p] = NoThread]
      BY <2>1, <3>1b, <3>2, <1>b
    <3>6. PICK s \in {t, NoThread} : two.holder = [one.holder EXCEPT ![p] = s, ![o] = NoThread]
      BY <2>1, <3>3, <3>4
    <3>7. two.holder = [holder EXCEPT ![o] = NoThread, ![p] = s, ![l] = r]
      BY <2>1, <3>5, <3>6, <1>b
    <3> QED BY <1>c, <3>1, <3>4, <3>7
  <2>3. \A u \in Threads, x \in Objects : Dying(u, x)' => Dying(u, x) \/ x = l
    BY <1>7, <1>b DEF Dying
  <2>4. owner' = [owner EXCEPT ![l] = t] /\ target' = target
    BY <1>7
  <2> HIDE DEF MoveAssign
  <2> QED BY <1>b, <2>1, <2>2, <2>3, <2>4 DEF Lists, Watched
<1>8. ASSUME NEW o \in Objects, NEW u \in Threads, Handover(t, u, o)
      PROVE  Lists'
  <2> USE DEF Handover, watching
  <2>1. \A v \in Threads, x \in Objects : Dying(v, x)' => Dying(v, x)
    BY <1>8, <1>b DEF Dying
  <2> QED BY <1>8, <1>b, <1>d, <2>1 DEF Lists, Watched
<1>9. ASSUME NEW o \in Objects, NEW r \in Codes \cup {OK}, Stop(t, o, r)
      PROVE  Lists'
  <2>1. \/ at' = [at EXCEPT ![t] = [op |-> "report", o |-> o, next |-> "ignore"]]
           /\ UNCHANGED <<holder, list>>
        \/ BecomesWatching(StopWatching(Watching, o)) /\ UNCHANGED at
    BY <1>9 DEF Stop
  <2>2. UNCHANGED <<target, owner>>
    BY <1>9 DEF Stop
  <2>3. ListsExact(Watching)' /\ holder' \in {holder, [holder EXCEPT ![o] = NoThread]}
    BY <1>d, <1>h, <2>1, ListsAfterStop
  <2>4. \A u \in Threads, x \in Objects : Dying(u, x)' => Dying(u, x)
    BY <1>b, <2>1 DEF Dying
  <2> QED BY <1>b, <2>2, <2>3, <2>4 DEF Lists, Watched
<1>10. ASSUME NEW o \in Objects, NEW w \in Watchers, Watch(t, w, o)
       PROVE  Lists'
  <2> USE DEF Watch
  <2>1. holder[w] = NoThread /\ owner[o] = t /\ at[t].op = "idle"
    BY <1>10, <1>e DEF Lists
  <2>2. ListsExact(Watching)' /\ holder' = [holder EXCEPT ![w] = t]
    BY <1>10, <1>h, <2>1, ListsAfterStart
  <2>3. \A u \in Threads, x \in Objects : Dying(u, x)' => Dying(u, x) /\ x # o
    BY <1>10, <1>b, <1>g, <2>1 DEF Dying
  <2>4. target' = [target EXCEPT ![w] = o] /\ UNCHANGED <<owner, at>>
    BY <1>10
  <2> HIDE DEF Watch
  <2> QED BY <1>b, <2>1, <2>2, <2>3, <2>4 DEF Lists, Watched
<1>11. ASSUME NEW w \in Watchers, EndWatch(t, w)
       PROVE  Lists'
  <2> USE DEF EndWatch
  <2>1. ListsExact(Watching)' /\ holder' = [holder EXCEPT ![w] = NoThread]
    BY <1>11, <1>h, ListsAfterStop
  <2>2. \A u \in Threads, x \in Objects : Dying(u, x)' => Dying(u, x)
    BY <1>11, <1>b DEF Dying
  <2> QED BY <1>11, <1>b, <2>1, <2>2 DEF Lists, Watched
<1>12. ASSUME NEW f \in Failures, Fail(t, f)
       PROVE  Lists'
  <2> USE DEF Fail, watching
  <2>1. \A u \in Threads, x \in Objects : Dying(u, x)' => Dying(u, x)
    BY <1>12, <1>b DEF Dying
  <2> QED BY <1>12, <1>b, <1>d, <2>1 DEF Lists, Watched
<1>13. ASSUME ReportStopActivity(t)
       PROVE  Lists'
  <2>0. PICK o \in Objects : o = at[t].o
    BY <1>13, <1>b, StepFields DEF ReportStopActivity
  <2>1. /\ BecomesWatching(StopWatching(Watching, o))
        /\ at' = [at EXCEPT ![t] = IF at[t].next = "ignore" THEN Idle ELSE [op |-> "release", o |-> o]]
        /\ at[t].op = "report" /\ UNCHANGED <<target, owner>>
    BY <1>13, <2>0 DEF ReportStopActivity
  <2>2. at[t].next \in {"ignore", "release"}
    BY <1>b, <2>1, StepFields
  <2>3. ListsExact(Watching)' /\ holder' = [holder EXCEPT ![o] = NoThread]
    BY <1>h, <2>1, ListsAfterStop
  <2>4. \A u \in Threads, x \in Objects : Dying(u, x)' => Dying(u, x)
    BY <1>b, <2>0, <2>1, <2>2 DEF Dying
  <2> QED BY <1>b, <2>1, <2>3, <2>4 DEF Lists, Watched
<1>14. ASSUME Destroy(t)
       PROVE  Lists'
  <2>1. at[t].op = "destroy" /\ at[t].op \in Working
    BY <1>14 DEF Destroy, Working
  <2>2. \E op \in {"release", "last"} : at' = [at EXCEPT ![t] = [op |-> op, o |-> at[t].o]]
    BY <1>14, <1>b, <2>1, NewSteps, StepFields DEF Destroy, Working
  <2>3. UNCHANGED <<holder, list, target, owner>>
    BY <1>14 DEF Destroy, watching
  <2>4. \A u \in Threads, x \in Objects : Dying(u, x)' => Dying(u, x)
    BY <1>b, <2>1, <2>2 DEF Dying
  <2> QED BY <1>b, <1>d, <2>3, <2>4 DEF Lists, Watched
<1>15. ASSUME DestroyLast(t)
       PROVE  Lists'
  <2>1. at[t].op = "last" /\ at[t].op \in Working
    BY <1>15 DEF DestroyLast, Working
  <2>2. \/ at' = [at EXCEPT ![t] = [op |-> "report", o |-> at[t].o, next |-> "release"]]
        \/ at' = [at EXCEPT ![t] = [op |-> "release", o |-> at[t].o]]
    BY <1>15, <1>b, <2>1, NewSteps, StepFields DEF DestroyLast, Working
  <2>3. UNCHANGED <<holder, list, target, owner>>
    BY <1>15 DEF DestroyLast, watching
  <2>4. \A u \in Threads, x \in Objects : Dying(u, x)' => Dying(u, x)
    BY <1>b, <2>1, <2>2 DEF Dying
  <2> QED BY <1>b, <1>d, <2>3, <2>4 DEF Lists, Watched
<1>16. ASSUME Release(t)
       PROVE  Lists'
  <2>0. PICK o \in Objects : o = at[t].o
    BY <1>16, <1>b, StepFields DEF Release, Working
  <2>1. /\ BecomesWatching(StopWatching(Watching, o)) /\ at' = [at EXCEPT ![t] = Idle]
        /\ at[t].op = "release" /\ owner' = [owner EXCEPT ![o] = NoThread] /\ UNCHANGED target
    BY <1>16, <2>0 DEF Release
  <2>2. ~Watched(o)
    BY <2>0, <2>1 DEF Dying, Lists
  <2>3. ListsExact(Watching)' /\ holder' = [holder EXCEPT ![o] = NoThread]
    BY <1>h, <2>1, ListsAfterStop
  <2>4. \A u \in Threads, x \in Objects : Dying(u, x)' => Dying(u, x)
    BY <1>b, <2>0, <2>1 DEF Dying
  <2> QED BY <1>b, <2>1, <2>2, <2>3, <2>4 DEF Lists, Watched
<1>17. ASSUME NotifyFailure(t)
       PROVE  Lists'
  <2>1. at[t].op = "notify" /\ UNCHANGED <<holder, list, target, owner>>
    BY <1>17 DEF NotifyFailure, watching
  <2>2. at'[t].op \in {"idle", "notify"} /\ \A u \in Threads \ {t} : at'[u] = at[u]
    BY <1>17, <1>b DEF NotifyFailure
  <2>3. \A u \in Threads, x \in Objects : Dying(u, x)' => Dying(u, x)
    BY <2>2 DEF Dying
  <2> QED BY <1>b, <1>d, <2>1, <2>3 DEF Lists, Watched
<1> QED
  BY <1>a, <1>1, <1>2, <1>3, <1>4, <1>5, <1>6, <1>7, <1>8, <1>9, <1>10, <1>11, <1>12, <1>13,
     <1>14, <1>15, <1>16, <1>17

LEMMA ListsInvariance == Spec => []Lists
<1>1. TypeOK /\ Owners /\ (TypeOK /\ Owners)' /\ Lists /\ [Next]_vars => Lists'
  <2> SUFFICES ASSUME TypeOK, Owners, TypeOK', Owners', Lists, [Next]_vars
               PROVE  Lists'
    OBVIOUS
  <2>1. CASE Next
    BY <2>1, ListsStep
  <2>2. CASE UNCHANGED vars
    BY <2>2 DEF vars, Lists, ListsExact, Watching, Dying, Watched
  <2> QED BY <2>1, <2>2
<1> QED BY ListsInit, OwnersInvariance, <1>1, PTL DEF Spec

\* A thread's list of callbacks holds exactly the holders that watch it, each
\* once, and each leads to a live activity object of this thread
\* (ThreadFailureCallbackHolder::StartWatching and StopWatching).
THEOREM ListsOfWatchers == Spec => []ListsAreExact
<1>1. TypeOK /\ Owners /\ Lists => ListsAreExact
  <2> SUFFICES ASSUME TypeOK, Owners, Lists, NEW t \in Threads
               PROVE  /\ IsInjective(list[t])
                      /\ Range(list[t]) = {h \in Holders : holder[h] = t}
                      /\ \A h \in Range(list[t]) :
                           LET o == IF h \in Watchers THEN target[h] ELSE h
                           IN  o # None /\ Live(o) /\ owner[o] = t
    BY DEF ListsAreExact
  <2>1. IsInjective(list[t]) /\ Range(list[t]) = {h \in Holders : holder[h] = t}
    BY DEF Lists, ListsExact, Watching
  <2>2. t # NoThread /\ None \notin Objects
    BY ActivityAssumption
  <2>3. ASSUME NEW h \in Holders, holder[h] = t
        PROVE  LET o == IF h \in Watchers THEN target[h] ELSE h
               IN  o # None /\ Live(o) /\ owner[o] = t
    <3>1. CASE h \in Watchers
      <4>1. target[h] # None /\ target[h] \in Objects
        BY <2>2, <2>3, <3>1 DEF Lists, TypeOK
      <4>2. owner[target[h]] = t
        BY <2>3, <3>1, <4>1 DEF Lists
      <4>3. Live(target[h])
        BY <2>2, <4>1, <4>2 DEF Owners
      <4> QED BY <3>1, <4>1, <4>2, <4>3
    <3>2. CASE h \notin Watchers
      <4>1. h \in Objects
        BY <3>2 DEF Holders
      <4>2. owner[h] = t
        BY <2>2, <2>3, <4>1 DEF Lists
      <4>3. Live(h)
        BY <2>2, <4>1, <4>2 DEF Owners
      <4> QED BY <2>2, <3>2, <4>1, <4>2, <4>3
    <3> QED BY <3>1, <3>2
  <2> QED BY <2>1, <2>3
<1> QED BY OwnersInvariance, ListsInvariance, <1>1, PTL

---------------------------------------------------------------------------
(* The memory.  There are data in one place only: in the cell once the     *)
(* activity was copied, before that in the one object that has it.         *)

Sharers == {o \in Objects : shared[o]}
Releasing(o) == \E t \in Threads : at[t].op = "release" /\ at[t].o = o
HasData(o) == shared[o] \/ mem[o].status # "new"

Pointers ==
  /\ refs = Cardinality(Sharers)
  /\ \A o \in Objects :
       /\ shared[o] => ptr[o] = Cell
       /\ Live(o) /\ ~shared[o] /\ ~Releasing(o) => ptr[o] = o
       /\ ptr[o] \in {o, Cell, None}
       /\ ~Live(o) => ~HasData(o) /\ ~share[o]

Homes ==
  /\ \A m, n \in Places : mem[m].status # "new" /\ mem[n].status # "new" => m = n
  /\ \A o \in Objects : /\ mem[o].status # "new" => Sharers = {} /\ ptr[o] = o
                        /\ shared[o] => mem[Cell].status # "new"
                        /\ share[o] /\ ~Releasing(o) => HasData(o)
  /\ \A t \in Threads, o \in Objects :
       at[t].op \in {"copy", "report"} /\ at[t].o = o => HasData(o)
  /\ shares = 0 => \A m \in Places : mem[m].status = "new"

\* Steps that neither change objects nor what their data say, nor copy, stop or
\* release one.
Quiet ==
  /\ UNCHANGED <<ptr, shared, refs, share, history>>
  /\ \A m \in Places : /\ mem'[m].status = mem[m].status
                       /\ mem'[m].result = mem[m].result
                       /\ mem'[m].stops = mem[m].stops
  /\ \A u \in Threads :
       \/ at'[u] = at[u]
       \/ /\ at[u].op \notin {"copy", "last", "release", "report"}
          /\ at'[u].op \notin {"copy", "last", "release", "report"}

LEMMA QuietSteps ==
  ASSUME TypeOK, NEW t \in Threads,
         \/ \E o \in Objects : BeginDestroy(t, o)
         \/ \E o \in Objects, u \in Threads : Handover(t, u, o)
         \/ \E o \in Objects, w \in Watchers : Watch(t, w, o)
         \/ \E w \in Watchers : EndWatch(t, w)
         \/ \E f \in Failures : Fail(t, f)
         \/ NotifyFailure(t)
  PROVE  Quiet
<1>a. /\ at \in [Threads -> Steps] /\ at[t] \in Steps /\ Idle.op = "idle"
      /\ mem \in [Places -> ActivityData]
  BY DEF TypeOK, Idle
<1>1. ASSUME NEW o \in Objects, BeginDestroy(t, o)
      PROVE  Quiet
  BY <1>1, <1>a DEF Quiet, BeginDestroy, memory, history, Uses
<1>2. ASSUME NEW o \in Objects, NEW u \in Threads, Handover(t, u, o)
      PROVE  Quiet
  BY <1>2, <1>a DEF Quiet, Handover, memory, history
<1>3. ASSUME NEW o \in Objects, NEW w \in Watchers, Watch(t, w, o)
      PROVE  Quiet
  BY <1>3, <1>a DEF Quiet, Watch, memory, history
<1>4. ASSUME NEW w \in Watchers, EndWatch(t, w)
      PROVE  Quiet
  BY <1>4, <1>a DEF Quiet, EndWatch, memory, history
<1>5. ASSUME NEW f \in Failures, Fail(t, f)
      PROVE  Quiet
  BY <1>5, <1>a DEF Quiet, Fail, memory, history
<1>6. ASSUME NotifyFailure(t)
      PROVE  Quiet
  <2>1. at[t].op = "notify" /\ at[t].code \in Failures
    BY <1>6, <1>a, StepFields DEF NotifyFailure
  <2>2. \E x : mem' = [mem EXCEPT ![x] = DataNotifyFailure(@, at[t].code)]
    BY <1>6 DEF NotifyFailure
  <2>3. \A m \in Places : /\ mem'[m].status = mem[m].status
                          /\ mem'[m].result = mem[m].result
                          /\ mem'[m].stops = mem[m].stops
    BY <1>a, <2>1, <2>2, DataFields
  <2>4. at'[t].op \in {"idle", "notify"} /\ \A u \in Threads \ {t} : at'[u] = at[u]
    BY <1>6, <1>a DEF NotifyFailure
  <2>5. UNCHANGED <<ptr, shared, refs, share, history>>
    BY <1>6 DEF NotifyFailure, history
  <2> QED BY <2>1, <2>3, <2>4, <2>5 DEF Quiet
<1> QED BY <1>1, <1>2, <1>3, <1>4, <1>5, <1>6

\* Counting sets of objects.
LEMMA ObjectSets ==
  ASSUME NEW S, S \subseteq Objects
  PROVE  /\ IsFiniteSet(S) /\ Cardinality(S) \in Nat
         /\ Cardinality(S) = 0 <=> S = {}
         /\ \A o \in S : Cardinality(S \ {o}) = Cardinality(S) - 1
         /\ \A o \in Objects \ S : Cardinality(S \cup {o}) = Cardinality(S) + 1
         /\ Cardinality(S) = 1 => \A o \in S : S = {o}
<1>1. IsFiniteSet(S)
  BY FS_Subset, ActivityAssumption
<1>2. Cardinality(S) \in Nat /\ (Cardinality(S) = 0 <=> S = {})
  BY <1>1, FS_CardinalityType, FS_EmptySet
<1>3. \A o \in S : Cardinality(S \ {o}) = Cardinality(S) - 1 /\ IsFiniteSet(S \ {o})
  BY <1>1, FS_RemoveElement
<1>4. \A o \in Objects \ S : Cardinality(S \cup {o}) = Cardinality(S) + 1
  BY <1>1, FS_AddElement
<1>5. ASSUME Cardinality(S) = 1, NEW o \in S
      PROVE  S = {o}
  <2>1. Cardinality(S \ {o}) = 0
    BY <1>3, <1>5
  <2>2. S \ {o} = {}
    BY <1>3, <2>1, FS_EmptySet
  <2> QED BY <2>2
<1> QED BY <1>1, <1>2, <1>3, <1>4, <1>5

LEMMA Swapped ==
  ASSUME NEW S, S \subseteq Objects, NEW p \in Objects \ S, NEW o \in Objects,
         NEW T, T = IF o \in S THEN (S \ {o}) \cup {p} ELSE S
  PROVE  Cardinality(T) = Cardinality(S)
<1>1. CASE o \in S
  <2>1. Cardinality(S \ {o}) = Cardinality(S) - 1 /\ Cardinality(S) \in Nat
    BY <1>1, ObjectSets
  <2>2. S \ {o} \subseteq Objects /\ p \in Objects \ (S \ {o})
    OBVIOUS
  <2>3. Cardinality((S \ {o}) \cup {p}) = Cardinality(S \ {o}) + 1
    BY <2>2, ObjectSets
  <2> QED BY <1>1, <2>1, <2>3
<1> QED BY <1>1

\* A copy of an object that has data to one that has none.
LEMMA CopyEffects ==
  ASSUME TypeOK, Pointers, Homes, NEW o \in Objects, NEW p \in Objects, o # p,
         CopyTo(o, p), HasData(o), ~HasData(p)
  PROVE  /\ Sharers' = Sharers \cup {o, p} /\ refs' = Cardinality(Sharers')
         /\ ptr'[o] = Cell /\ ptr'[p] = Cell /\ shared'[o] /\ shared'[p]
         /\ \A x \in Objects \ {o, p} : ptr'[x] = ptr[x] /\ (shared'[x] <=> shared[x])
         /\ mem'[Cell] = mem[IF shared[o] THEN Cell ELSE o] /\ mem'[Cell].status # "new"
         /\ \A x \in Objects : mem'[x].status = "new"
         /\ ~shared[o] => Sharers = {}
<1> USE DEF CopyTo, TypeOK
<1>1. o \in Places /\ p \in Places /\ Cell \in Places /\ Cell \notin Objects
  BY ActivityAssumption DEF Places
<1>2. /\ shared' = [shared EXCEPT ![o] = TRUE, ![p] = TRUE]
      /\ ptr' = [ptr EXCEPT ![o] = Cell, ![p] = Cell]
  OBVIOUS
<1>3. /\ ptr'[o] = Cell /\ ptr'[p] = Cell /\ shared'[o] /\ shared'[p]
      /\ \A x \in Objects \ {o, p} : ptr'[x] = ptr[x] /\ (shared'[x] <=> shared[x])
  BY <1>2
<1>4. Sharers' = Sharers \cup {o, p}
  BY <1>3 DEF Sharers
<1>5. ~shared[p] /\ mem[p].status = "new"
  BY DEF HasData
<1>6. CASE shared[o]
  <2>1. mem' = mem /\ refs' = refs + 1
    BY <1>6
  <2>2. o \in Sharers /\ p \notin Sharers /\ Sharers \subseteq Objects
    BY <1>5, <1>6 DEF Sharers
  <2>3. Sharers' = Sharers \cup {p}
    BY <1>4, <2>2
  <2>4. refs' = Cardinality(Sharers')
    BY <2>1, <2>2, <2>3, ObjectSets DEF Pointers
  <2>5. \A x \in Objects : mem[x].status = "new"
    BY <2>2 DEF Homes
  <2>6. mem[Cell].status # "new"
    BY <1>6 DEF Homes
  <2> QED BY <1>3, <1>4, <1>6, <2>1, <2>4, <2>5, <2>6
<1>7. CASE ~shared[o]
  <2>1. mem' = [mem EXCEPT ![Cell] = mem[o], ![o] = NewData] /\ refs' = 2
    BY <1>7
  <2>2. mem[o].status # "new" /\ Sharers = {}
    BY <1>7 DEF HasData, Homes
  <2>3. Cardinality(Sharers') = 2
    <3>1. PICK S : S = {o}
      OBVIOUS
    <3>2. Cardinality(S) = 1
      BY <3>1, FS_Singleton
    <3>3. S \subseteq Objects /\ p \in Objects \ S
      BY <3>1
    <3>4. Cardinality(S \cup {p}) = 2
      <4>1. Cardinality(S \cup {p}) = Cardinality(S) + 1
        BY <3>3, ObjectSets
      <4> QED BY <3>2, <4>1
    <3>5. Sharers' = S \cup {p}
      BY <1>4, <2>2, <3>1
    <3> QED BY <3>4, <3>5
  <2>4. \A x \in Objects : x \in Places /\ (x # o => mem[x].status = "new")
    BY <1>1, <2>2 DEF Homes, Places
  <2>5. \A x \in Objects : mem'[x].status = "new"
    BY <1>1, <2>1, <2>4, NewDataFields
  <2>6. mem'[Cell] = mem[o]
    BY <1>1, <2>1
  <2> QED BY <1>3, <1>4, <1>7, <2>1, <2>2, <2>3, <2>5, <2>6
<1> QED BY <1>6, <1>7

LEMMA CopyKeepsMemory ==
  ASSUME TypeOK, Pointers, Homes, NEW o \in Objects, NEW p \in Objects, o # p,
         CopyTo(o, p), HasData(o), ~HasData(p), Live(o), shares # 0, shares' = shares,
         \A x \in Objects : x # p => (share'[x] <=> share[x]),
         \A u \in Threads : at'[u] = at[u] \/ (at[u].op = "copy" /\ at'[u].op = "idle")
  PROVE  Pointers' /\ Homes'
<1>1. /\ Sharers' = Sharers \cup {o, p} /\ refs' = Cardinality(Sharers')
      /\ ptr'[o] = Cell /\ ptr'[p] = Cell /\ shared'[o] /\ shared'[p]
      /\ \A x \in Objects \ {o, p} : ptr'[x] = ptr[x] /\ (shared'[x] <=> shared[x])
      /\ mem'[Cell].status # "new"
      /\ \A x \in Objects : mem'[x].status = "new"
  BY CopyEffects
<1>2. \A x \in Objects : Releasing(x)' <=> Releasing(x)
  BY DEF Releasing
<1>3. \A x \in Objects : x \in Places /\ Cell # None
  BY ActivityAssumption DEF Places
<1>4. \A x \in Objects : /\ HasData(x)' <=> shared'[x]
                         /\ HasData(x) => shared'[x]
                         /\ x \notin {o, p} => (Live(x)' <=> Live(x))
  <2> SUFFICES ASSUME NEW x \in Objects
               PROVE  /\ HasData(x)' <=> shared'[x]
                      /\ HasData(x) => shared'[x]
                      /\ x \notin {o, p} => (Live(x)' <=> Live(x))
    OBVIOUS
  <2>1. HasData(x)' <=> shared'[x]
    BY <1>1 DEF HasData
  <2>2. ASSUME HasData(x), ~shared[x]
        PROVE  x \in {o, p}
    <3>1. mem[x].status # "new" /\ Sharers = {}
      BY <2>2 DEF HasData, Homes
    <3>2. mem[o].status # "new"
      BY <3>1 DEF HasData, Sharers
    <3> QED BY <1>3, <3>1, <3>2 DEF Homes
  <2>3. x \notin {o, p} => (Live(x)' <=> Live(x))
    BY <1>1 DEF Live
  <2> QED BY <1>1, <2>1, <2>2, <2>3
<1>5. Pointers'
  BY <1>1, <1>2, <1>3, <1>4 DEF Pointers, Live, HasData
<1>6. \A u \in Threads, x \in Objects :
        at'[u].op \in {"copy", "report"} /\ at'[u].o = x => HasData(x)'
  BY <1>4 DEF Homes
<1>7. Homes'
  BY <1>1, <1>2, <1>3, <1>4, <1>6 DEF Homes, Places
<1> QED BY <1>5, <1>7

LEMMA MemoryInit == Init => Pointers /\ Homes
<1> SUFFICES ASSUME Init PROVE Pointers /\ Homes
  OBVIOUS
<1> USE DEF Init
<1>1. Sharers = {}
  BY DEF Sharers
<1>2. Cardinality({}) = 0
  BY ObjectSets
<1>3. \A m \in Places : mem[m].status = "new"
  BY NewDataFields DEF Places
<1>4. \A o \in Objects : o \in Places
  BY DEF Places
<1>5. Pointers
  BY <1>1, <1>2, <1>3, <1>4 DEF Pointers, Live, HasData
<1>6. Homes
  BY <1>1, <1>3, <1>4 DEF Homes, Idle
<1> QED BY <1>5, <1>6

LEMMA MemoryStep ==
  ASSUME TypeOK, Owners, Pointers, Homes, Next, TypeOK', Owners'
  PROVE  Pointers' /\ Homes'
<1>a. PICK t \in Threads :
        \/ \E o \in Objects :
             \/ Start(t, o) \/ Split(t, o) \/ SplitCopies(t, o) \/ BeginDestroy(t, o)
             \/ \E p \in Objects :
                  \/ CopyAssign(t, o, p) \/ MoveConstruct(t, o, p)
                  \/ \E l \in Objects : MoveAssign(t, o, p, l)
             \/ \E u \in Threads : Handover(t, u, o)
             \/ \E r \in Codes \cup {OK} : Stop(t, o, r)
             \/ \E w \in Watchers : Watch(t, w, o)
        \/ \E w \in Watchers : EndWatch(t, w)
        \/ \E f \in Failures : Fail(t, f)
        \/ ReportStopActivity(t) \/ Destroy(t) \/ DestroyLast(t) \/ Release(t)
        \/ NotifyFailure(t)
  BY DEF Next
<1>b. /\ NoThread \notin Threads /\ Cell \notin Objects /\ None # Cell
      /\ \A o \in Objects : o # None /\ o \in Places
      /\ Cell \in Places
      /\ mem \in [Places -> ActivityData]
      /\ ptr \in [Objects -> Places \cup {None}] /\ ptr' \in [Objects -> Places \cup {None}]
      /\ shared \in [Objects -> BOOLEAN] /\ share \in [Objects -> BOOLEAN]
      /\ owner \in [Objects -> Threads \cup {NoThread}]
      /\ at \in [Threads -> Steps] /\ at[t] \in Steps /\ Idle.op = "idle"
      /\ Sharers \subseteq Objects
  BY ActivityAssumption DEF TypeOK, Idle, Places, Sharers
<1>c. \A u \in Threads :
        at[u].op \in {"copy", "destroy", "last", "release", "report"}
          => at[u].o \in Objects /\ owner[at[u].o] = u /\ Live(at[u].o)
  <2> SUFFICES ASSUME NEW u \in Threads, at[u].op \in {"copy", "destroy", "last", "release", "report"}
               PROVE  at[u].o \in Objects /\ owner[at[u].o] = u /\ Live(at[u].o)
    OBVIOUS
  <2>1. at[u].o \in Objects
    BY <1>b, StepFields DEF Working
  <2> QED BY <1>b, <2>1 DEF Owners, WorksOn, Working
<1>d. \A o \in Objects : Uses(t, o) => owner[o] = t /\ Live(o) /\ at[t].op = "idle" /\ ~Releasing(o)
  BY <1>b, <1>c DEF Uses, Releasing
<1>e. \A o \in Objects : Live(o) /\ ~Releasing(o) =>
        /\ ptr[o] = IF shared[o] THEN Cell ELSE o
        /\ HasData(o) <=> mem[ptr[o]].status # "new"
  BY <1>b DEF Pointers, Homes, HasData, Sharers
<1>f. \A o \in Objects : Releasing(o) => owner[o] # NoThread /\ Live(o)
  BY <1>b, <1>c DEF Releasing
<1>1. ASSUME NEW o \in Objects, Start(t, o)
      PROVE  Pointers' /\ Homes'
  <2> USE DEF Start
  <2>1. \A x \in Objects : ~Live(x) /\ ~HasData(x) /\ ~share[x]
    BY <1>1 DEF Owners, Pointers
  <2>2. Sharers = {} /\ Sharers' = {}
    BY <1>1, <2>1 DEF Sharers, HasData
  <2>3. \A m \in Places : m # o => mem'[m].status = "new"
    BY <1>1, <1>b DEF Homes
  <2>4. mem'[o].status # "new" /\ at[t].op = "idle"
    BY <1>1, <1>b, NewDataFields
  <2>5. ptr'[o] = o /\ \A x \in Objects : x # o => ptr'[x] = None
    BY <1>1, <1>b, <2>1 DEF Live
  <2>6. Pointers'
    BY <1>1, <1>b, <2>1, <2>2, <2>3, <2>4, <2>5 DEF Pointers, Live, HasData, Sharers
  <2>7. \A u \in Threads : at[u].op \notin {"copy", "report"}
    BY <1>c, <2>1
  <2>8. Homes'
    BY <1>1, <1>b, <2>1, <2>2, <2>3, <2>4, <2>5, <2>7 DEF Homes, HasData, Sharers
  <2> QED BY <2>6, <2>8
<1>2. ASSUME NEW o \in Objects, Split(t, o)
      PROVE  Pointers' /\ Homes'
  <2> USE DEF Split
  <2>1. owner[o] = t /\ Live(o) /\ ~Releasing(o) /\ HasData(o) /\ ptr[o] \in Places /\ at[t].op = "idle"
    BY <1>2, <1>b, <1>d, <1>e DEF IsRunning, Live
  <2>2. \A m \in Places : mem'[m].status = mem[m].status
    BY <1>2, <1>b, <2>1, DataFields
  <2>3. /\ at' = [at EXCEPT ![t] = [op |-> "copy", o |-> o]]
        /\ UNCHANGED <<ptr, shared, refs, share>>
    BY <1>2
  <2>4. shares' # 0
    BY <1>2 DEF TypeOK
  <2> HIDE DEF Split
  <2>5. Sharers' = Sharers /\ (\A x \in Objects : (HasData(x)' <=> HasData(x)) /\ (Live(x)' <=> Live(x)))
    BY <1>b, <2>2, <2>3 DEF Sharers, HasData, Live
  <2>6. \A x \in Objects : Releasing(x)' <=> Releasing(x)
    BY <1>b, <2>1, <2>3 DEF Releasing
  <2>7. Pointers'
    BY <2>3, <2>5, <2>6 DEF Pointers
  <2>8. \A u \in Threads, x \in Objects :
        at'[u].op \in {"copy", "report"} /\ at'[u].o = x => HasData(x)'
    BY <1>b, <1>c, <2>1, <2>3, <2>5 DEF Homes
  <2>9. Homes'
    BY <1>b, <2>2, <2>3, <2>4, <2>5, <2>6, <2>8 DEF Homes
  <2> QED BY <2>7, <2>9
<1>3. ASSUME NEW p \in Objects, SplitCopies(t, p)
      PROVE  Pointers' /\ Homes'
  <2>1. PICK o \in Objects : o = at[t].o /\ owner[o] = t /\ Live(o) /\ at[t].op = "copy"
    BY <1>3, <1>c DEF SplitCopies
  <2>2. HasData(o) /\ ~Live(p) /\ ~HasData(p) /\ o # p /\ CopyTo(o, p)
    BY <1>3, <2>1 DEF Homes, Pointers, SplitCopies
  <2>3. at' = [at EXCEPT ![t] = Idle] /\ share' = [share EXCEPT ![p] = TRUE] /\ UNCHANGED shares
    BY <1>3 DEF SplitCopies, history
  <2>4. \A u \in Threads : at'[u] = at[u] \/ (at[u].op = "copy" /\ at'[u].op = "idle")
    BY <1>b, <2>1, <2>3
  <2>5. \A x \in Objects : x # p => (share'[x] <=> share[x])
    BY <1>b, <2>3
  <2>6. shares # 0
    BY <2>1 DEF Owners
  <2> QED BY <2>1, <2>2, <2>3, <2>4, <2>5, <2>6, CopyKeepsMemory
<1>4. ASSUME Quiet
      PROVE  Pointers' /\ Homes'
  <2> USE DEF Quiet, history
  <2>1. Sharers' = Sharers /\ (\A x \in Objects : (HasData(x)' <=> HasData(x)) /\ (Live(x)' <=> Live(x)))
    BY <1>4, <1>b DEF Sharers, HasData, Live
  <2>2. \A x \in Objects : Releasing(x)' <=> Releasing(x)
    BY <1>4 DEF Releasing
  <2>3. Pointers'
    BY <1>4, <2>1, <2>2 DEF Pointers
  <2>4. \A u \in Threads, x \in Objects :
        at'[u].op \in {"copy", "report"} /\ at'[u].o = x => HasData(x)'
    BY <1>4, <1>c, <2>1 DEF Homes
  <2>5. Homes'
    BY <1>4, <1>b, <2>1, <2>2, <2>4 DEF Homes
  <2> QED BY <2>3, <2>5
<1>5. ASSUME NEW o \in Objects, NEW p \in Objects, CopyAssign(t, o, p)
      PROVE  Pointers' /\ Homes'
  <2>1. /\ owner[o] = t /\ Live(o) /\ HasData(o) /\ ~Releasing(p) /\ Live(p) /\ o # p
        /\ mem[ptr[o]].status # "new"
    BY <1>5, <1>d, <1>e DEF CopyAssign, IsRunning
  <2>2. ~HasData(p)
    <3>1. ~shared[p] /\ ptr[p] = p /\ mem[p].status # "started" /\ mem[ptr[o]].status = "started"
      BY <1>5, <1>e, <2>1 DEF CopyAssign, IsRunning
    <3>2. ptr[o] \in Places
      BY <1>b, <2>1 DEF Live
    <3>3. mem[p].status = "new"
      BY <1>b, <3>1, <3>2 DEF Homes
    <3> QED BY <3>1, <3>3 DEF HasData
  <2>3. CopyTo(o, p) /\ UNCHANGED <<share, at, shares>>
    BY <1>5 DEF CopyAssign, history
  <2>4. shares # 0
    BY <2>1 DEF Owners
  <2> QED BY <2>1, <2>2, <2>3, <2>4, CopyKeepsMemory
<1>6. ASSUME NEW o \in Objects, NEW p \in Objects, MoveConstruct(t, o, p)
      PROVE  Pointers' /\ Homes'
  <2>0. /\ p # o /\ BecomesObjs(Moved(Objs, p, o)) /\ UNCHANGED <<at, refs, shares>>
        /\ ~Live(p) /\ Live(o) /\ owner[o] = t /\ ~Releasing(o)
    BY <1>6, <1>d DEF MoveConstruct, history
  <2>1. ~shared[p] /\ mem[p].status = "new" /\ ~share[p] /\ shares # 0 /\ ~Releasing(p)
    BY <1>f, <2>0 DEF Owners, Pointers, HasData
  <2>2. /\ mem'[p] = mem[o] /\ mem'[o] = NewData
        /\ \A x \in Places \ {p, o} : mem'[x] = mem[x]
        /\ ptr'[p] = (IF shared[o] THEN Cell ELSE p) /\ ptr'[o] = o
        /\ (shared'[p] <=> shared[o]) /\ ~shared'[o]
        /\ (share'[p] <=> share[o]) /\ ~share'[o]
        /\ \A x \in Objects \ {p, o} :
             ptr'[x] = ptr[x] /\ (shared'[x] <=> shared[x]) /\ (share'[x] <=> share[x])
    BY <2>0, MoveOnce
  <2>3. Sharers' = IF o \in Sharers THEN (Sharers \ {o}) \cup {p} ELSE Sharers
    BY <2>0, <2>1, <2>2 DEF Sharers
  <2>4. Cardinality(Sharers') = Cardinality(Sharers)
    <3>1. p \in Objects \ Sharers
      BY <2>1 DEF Sharers
    <3> QED BY <1>b, <2>3, <3>1, Swapped
  <2>5. \A x \in Objects : Releasing(x)' <=> Releasing(x)
    BY <2>0 DEF Releasing
  <2>6. \A x \in Objects : /\ x \notin {o, p} => /\ HasData(x)' <=> HasData(x)
                                                 /\ Live(x)' <=> Live(x)
                           /\ HasData(p)' <=> HasData(o)
                           /\ ~HasData(o)'
    BY <1>b, <2>0, <2>2, NewDataFields DEF HasData, Live
  <2>7. Pointers'
    BY <1>b, <2>0, <2>1, <2>2, <2>4, <2>5, <2>6 DEF Pointers, Live
  <2>8. /\ \A m, n \in Places : mem'[m].status # "new" /\ mem'[n].status # "new" => m = n
        /\ \A x \in Objects : mem'[x].status # "new" => Sharers' = {} /\ ptr'[x] = x
    <3>1. mem'[o].status = "new"
      BY <2>2, NewDataFields
    <3>2. \A x \in Objects : mem'[x].status # "new" =>
             \/ x = p /\ mem[o].status # "new"
             \/ x \notin {p, o} /\ mem[x].status # "new"
      BY <1>b, <2>2, <3>1
    <3>3. \A x \in Objects : mem[x].status # "new" => Sharers = {} /\ Sharers' = {}
      BY <2>3 DEF Homes
    <3>4. \A x \in Objects : mem'[x].status # "new" => Sharers' = {} /\ ptr'[x] = x
      BY <2>2, <3>2, <3>3 DEF Homes, Sharers
    <3>5. \A m \in Places : mem'[m].status # "new" =>
             \/ m = p /\ mem[o].status # "new"
             \/ m \notin {p, o} /\ mem[m].status # "new"
      BY <2>2, <3>1
    <3>6. \A m, n \in Places : mem'[m].status # "new" /\ mem'[n].status # "new" => m = n
      BY <1>b, <3>5 DEF Homes
    <3> QED BY <3>4, <3>6
  <2>9. \A x \in Objects : /\ shared'[x] => mem'[Cell].status # "new"
                           /\ share'[x] /\ ~Releasing(x)' => HasData(x)'
    BY <1>b, <2>0, <2>1, <2>2, <2>5, <2>6 DEF Homes
  <2>10. \A u \in Threads, x \in Objects :
           at'[u].op \in {"copy", "report"} /\ at'[u].o = x => HasData(x)'
    <3>1. \A u \in Threads : at[u].op \in {"copy", "report"} => at[u].o \notin {o, p}
      BY <1>b, <1>c, <2>0, <1>6 DEF MoveConstruct, Uses
    <3> QED BY <2>0, <2>6, <3>1 DEF Homes
  <2>11. Homes'
    BY <2>0, <2>1, <2>8, <2>9, <2>10 DEF Homes
  <2> QED BY <2>7, <2>11
<1>7. ASSUME NEW o \in Objects, NEW p \in Objects, NEW l \in Objects, MoveAssign(t, o, p, l)
      PROVE  Pointers' /\ Homes'
  <2>0. /\ p # o /\ l # o /\ l # p /\ BecomesObjs(Moved(Moved(Objs, l, p), p, o))
        /\ UNCHANGED <<refs, shares>>
        /\ at' = [at EXCEPT ![t] = [op |-> "destroy", o |-> l]]
        /\ ~Live(l) /\ Live(o) /\ owner[o] = t /\ ~Releasing(o) /\ at[t].op = "idle"
        /\ Live(p) /\ owner[p] = t /\ ~Releasing(p)
    BY <1>7, <1>d DEF MoveAssign, history
  <2>1. ~shared[l] /\ mem[l].status = "new" /\ ~share[l] /\ shares # 0 /\ ~Releasing(l)
    BY <1>f, <2>0 DEF Owners, Pointers, HasData
  <2>2. /\ mem'[l] = mem[p] /\ mem'[p] = mem[o] /\ mem'[o] = NewData
        /\ \A x \in Places \ {l, p, o} : mem'[x] = mem[x]
        /\ ptr'[l] = (IF shared[p] THEN Cell ELSE l)
        /\ ptr'[p] = (IF shared[o] THEN Cell ELSE p) /\ ptr'[o] = o
        /\ (shared'[l] <=> shared[p]) /\ (shared'[p] <=> shared[o]) /\ ~shared'[o]
        /\ (share'[l] <=> share[p]) /\ (share'[p] <=> share[o]) /\ ~share'[o]
        /\ \A x \in Objects \ {l, p, o} :
             ptr'[x] = ptr[x] /\ (shared'[x] <=> shared[x]) /\ (share'[x] <=> share[x])
    BY <2>0, MoveTwice
  <2>3. PICK S : S = IF p \in Sharers THEN (Sharers \ {p}) \cup {l} ELSE Sharers
    OBVIOUS
  <2>4. S \subseteq Objects /\ p \notin S /\ (o \in S <=> o \in Sharers)
    BY <1>b, <2>0, <2>3
  <2>5. Sharers' = IF o \in S THEN (S \ {o}) \cup {p} ELSE S
    <3>1. \A x \in Objects : x \in Sharers <=> shared[x]
      BY DEF Sharers
    <3>2. \A x \in Objects : x \in Sharers' <=> shared'[x]
      BY DEF Sharers
    <3>3. l \notin Sharers /\ Sharers' \subseteq Objects
      BY <2>1 DEF Sharers
    <3>4. \A x \in Objects : x \in Sharers' <=> x \in (IF o \in S THEN (S \ {o}) \cup {p} ELSE S)
      BY <2>0, <2>2, <2>3, <3>1, <3>2, <3>3
    <3> QED BY <2>4, <3>3, <3>4
  <2>6. Cardinality(Sharers') = Cardinality(Sharers) /\ (Sharers = {} => Sharers' = {})
    <3>1. l \in Objects \ Sharers
      BY <2>1 DEF Sharers
    <3>2. Cardinality(S) = Cardinality(Sharers)
      BY <1>b, <2>3, <3>1, Swapped
    <3>3. p \in Objects \ S
      BY <2>4
    <3>4. Cardinality(Sharers') = Cardinality(S)
      BY <2>4, <2>5, <3>3, Swapped
    <3> QED BY <2>3, <2>5, <3>2, <3>4
  <2>7. \A x \in Objects : Releasing(x)' <=> Releasing(x)
    BY <1>b, <2>0 DEF Releasing
  <2>8. /\ \A x \in Objects : x \notin {l, p, o} => /\ HasData(x)' <=> HasData(x)
                                                    /\ Live(x)' <=> Live(x)
        /\ HasData(l)' <=> HasData(p)
        /\ HasData(p)' <=> HasData(o)
        /\ ~HasData(o)'
    BY <1>b, <2>0, <2>2, NewDataFields DEF HasData, Live
  <2>9. Pointers'
    BY <1>b, <2>0, <2>1, <2>2, <2>6, <2>7, <2>8 DEF Pointers, Live
  <2>10. /\ \A m, n \in Places : mem'[m].status # "new" /\ mem'[n].status # "new" => m = n
         /\ \A x \in Objects : mem'[x].status # "new" => Sharers' = {} /\ ptr'[x] = x
    <3>1. mem'[o].status = "new"
      BY <2>2, NewDataFields
    <3>2. \A m \in Places : mem'[m].status # "new" =>
             \/ m = l /\ mem[p].status # "new"
             \/ m = p /\ mem[o].status # "new"
             \/ m \notin {l, p, o} /\ mem[m].status # "new"
      BY <2>2, <3>1
    <3>3. \A m, n \in Places : mem'[m].status # "new" /\ mem'[n].status # "new" => m = n
      BY <1>b, <2>0, <3>2 DEF Homes
    <3>4. \A x \in Objects : mem[x].status # "new" => Sharers = {} /\ ptr[x] = x /\ ~shared[x]
      BY DEF Homes, Sharers
    <3>5. \A x \in Objects : mem'[x].status # "new" => Sharers' = {} /\ ptr'[x] = x
      BY <1>b, <2>2, <2>6, <3>2, <3>4
    <3> QED BY <3>3, <3>5
  <2>11. \A x \in Objects : /\ shared'[x] => mem'[Cell].status # "new"
                            /\ share'[x] /\ ~Releasing(x)' => HasData(x)'
    BY <1>b, <2>0, <2>1, <2>2, <2>7, <2>8 DEF Homes
  <2>12. \A u \in Threads, x \in Objects :
           at'[u].op \in {"copy", "report"} /\ at'[u].o = x => HasData(x)'
    <3>1. \A u \in Threads : at[u].op \in {"copy", "report"} => at[u].o \notin {l, o, p}
      BY <1>b, <1>c, <2>0
    <3> QED BY <1>b, <2>0, <2>8, <3>1 DEF Homes
  <2>13. Homes'
    BY <2>0, <2>1, <2>10, <2>11, <2>12 DEF Homes
  <2> QED BY <2>9, <2>13
<1>8. ASSUME NEW o \in Objects, NEW r \in Codes \cup {OK}, Stop(t, o, r)
      PROVE  Pointers' /\ Homes'
  <2>1. /\ owner[o] = t /\ Live(o) /\ ~Releasing(o) /\ HasData(o) /\ ptr[o] \in Places
        /\ at[t].op = "idle" /\ r \in Results
    BY <1>8, <1>b, <1>d DEF Stop, Live, Homes, Results
  <2>2. \A m \in Places : mem'[m].status = mem[m].status
    <3>1. PICK d : d = SetStopResult(mem[ptr[o]], r)
      OBVIOUS
    <3>2. mem' = [mem EXCEPT ![ptr[o]] = d]
      BY <1>8, <3>1 DEF Stop
    <3>3. mem[ptr[o]] \in ActivityData
      BY <1>b, <2>1
    <3>4. d.status = mem[ptr[o]].status
      BY <2>1, <3>1, <3>3, DataFields
    <3> QED BY <1>b, <2>1, <3>2, <3>4
  <2>3. /\ UNCHANGED <<ptr, shared, refs, shares>>
        /\ share' = [share EXCEPT ![o] = FALSE]
    BY <1>8 DEF Stop
  <2>4. at'[t] \in {at[t], [op |-> "report", o |-> o, next |-> "ignore"]}
        /\ \A u \in Threads \ {t} : at'[u] = at[u]
    BY <1>8, <1>b DEF Stop
  <2>5. Sharers' = Sharers /\ (\A x \in Objects : (HasData(x)' <=> HasData(x)) /\ (Live(x)' <=> Live(x)))
    BY <1>b, <2>2, <2>3 DEF Sharers, HasData, Live
  <2>6. \A x \in Objects : Releasing(x)' <=> Releasing(x)
    BY <2>1, <2>4 DEF Releasing
  <2>7. Pointers'
    BY <1>b, <2>3, <2>5, <2>6 DEF Pointers
  <2>8. \A u \in Threads, x \in Objects :
        at'[u].op \in {"copy", "report"} /\ at'[u].o = x => HasData(x)'
    BY <1>b, <1>c, <2>1, <2>4, <2>5 DEF Homes
  <2>9. Homes'
    BY <1>b, <2>2, <2>3, <2>5, <2>6, <2>8 DEF Homes
  <2> QED BY <2>7, <2>9
<1>9. ASSUME ReportStopActivity(t)
      PROVE  Pointers' /\ Homes'
  <2>1. PICK o \in Objects : o = at[t].o /\ owner[o] = t /\ Live(o) /\ at[t].op = "report"
    BY <1>9, <1>c DEF ReportStopActivity
  <2>2. HasData(o) /\ ~Releasing(o) /\ ptr[o] \in Places /\ shares # 0
    BY <1>b, <1>c, <2>1 DEF Homes, Releasing, Live, Owners
  <2>3. \A m \in Places : mem'[m].status # "new" <=> mem[m].status # "new"
    <3>1. mem[ptr[o]].status # "new" /\ mem[ptr[o]] \in ActivityData
      BY <1>b, <1>e, <2>1, <2>2
    <3>2. mem' = [mem EXCEPT ![ptr[o]] = [@ EXCEPT !.status = "stopped"]]
      BY <1>9, <2>1 DEF ReportStopActivity
    <3>3. [mem[ptr[o]] EXCEPT !.status = "stopped"].status = "stopped"
      BY <3>1 DEF ActivityData
    <3> QED BY <1>b, <2>2, <3>1, <3>2, <3>3
  <2>4. UNCHANGED <<ptr, shared, refs, shares, share>>
    BY <1>9 DEF ReportStopActivity
  <2>5. at'[t] \in {Idle, [op |-> "release", o |-> o]} /\ \A u \in Threads \ {t} : at'[u] = at[u]
    BY <1>9, <1>b, <2>1 DEF ReportStopActivity
  <2>6. Sharers' = Sharers /\ (\A x \in Objects : (HasData(x)' <=> HasData(x)) /\ (Live(x)' <=> Live(x)))
    BY <1>b, <2>3, <2>4 DEF Sharers, HasData, Live
  <2>7. \A x \in Objects : Releasing(x) => Releasing(x)'
    BY <2>1, <2>5 DEF Releasing
  <2>8. Pointers'
    BY <1>b, <2>4, <2>6, <2>7 DEF Pointers
  <2>9. \A u \in Threads, x \in Objects :
        at'[u].op \in {"copy", "report"} /\ at'[u].o = x => HasData(x)'
    BY <1>b, <2>5, <2>6 DEF Homes
  <2>10. Homes'
    BY <1>b, <2>2, <2>3, <2>4, <2>6, <2>7, <2>9 DEF Homes
  <2> QED BY <2>8, <2>10
<1>10. ASSUME Destroy(t)
       PROVE  Pointers' /\ Homes'
  <2>1. PICK o \in Objects : o = at[t].o /\ owner[o] = t /\ Live(o) /\ at[t].op = "destroy"
    BY <1>10, <1>c DEF Destroy
  <2>2. UNCHANGED <<mem, ptr, share, shares>>
    BY <1>10 DEF Destroy, history
  <2>3. \/ shared[o] /\ shared' = [shared EXCEPT ![o] = FALSE] /\ refs' = refs - 1
           /\ at' = [at EXCEPT ![t] = [op |-> "release", o |-> o]]
        \/ UNCHANGED <<shared, refs>> /\ at' = [at EXCEPT ![t] = [op |-> "last", o |-> o]]
    BY <1>10, <1>b, <2>1, NewSteps DEF Destroy, Working
  <2>4. CASE UNCHANGED <<shared, refs>> /\ at' = [at EXCEPT ![t] = [op |-> "last", o |-> o]]
    <3>1. Sharers' = Sharers /\ (\A x \in Objects : (HasData(x)' <=> HasData(x)) /\ (Live(x)' <=> Live(x)))
      BY <2>2, <2>4 DEF Sharers, HasData, Live
    <3>2. \A x \in Objects : Releasing(x)' <=> Releasing(x)
      BY <1>b, <2>1, <2>4 DEF Releasing
    <3>3. \A u \in Threads, x \in Objects :
            at'[u].op \in {"copy", "report"} /\ at'[u].o = x => HasData(x)'
      BY <1>b, <2>4, <3>1 DEF Homes
    <3>4. Pointers'
      BY <2>2, <2>4, <3>1, <3>2 DEF Pointers
    <3>5. Homes'
      BY <2>2, <2>4, <3>1, <3>2, <3>3 DEF Homes
    <3> QED BY <3>4, <3>5
  <2>5. CASE /\ shared[o] /\ shared' = [shared EXCEPT ![o] = FALSE] /\ refs' = refs - 1
             /\ at' = [at EXCEPT ![t] = [op |-> "release", o |-> o]]
    <3>1. Sharers' = Sharers \ {o} /\ o \in Sharers
      BY <1>b, <2>5 DEF Sharers
    <3>2. refs' = Cardinality(Sharers')
      BY <1>b, <2>5, <3>1, ObjectSets DEF Pointers
    <3>3. Releasing(o)' /\ \A x \in Objects \ {o} : Releasing(x)' <=> Releasing(x)
      BY <1>b, <2>1, <2>5 DEF Releasing
    <3>4. \A x \in Objects : /\ Live(x)' <=> Live(x)
                             /\ x # o => (HasData(x)' <=> HasData(x))
                             /\ HasData(x)' => HasData(x)
      BY <1>b, <2>2, <2>5 DEF HasData, Live
    <3>5. \A u \in Threads, x \in Objects :
            at'[u].op \in {"copy", "report"} /\ at'[u].o = x => HasData(x)'
      BY <1>b, <1>c, <2>1, <2>5, <3>4 DEF Homes
    <3>6. Pointers'
      BY <1>b, <2>1, <2>2, <2>5, <3>2, <3>3, <3>4 DEF Pointers
    <3>7. Homes'
      BY <1>b, <2>2, <2>5, <3>1, <3>3, <3>4, <3>5 DEF Homes
    <3> QED BY <3>6, <3>7
  <2> QED BY <2>3, <2>4, <2>5
<1>11. ASSUME DestroyLast(t)
       PROVE  Pointers' /\ Homes'
  <2>1. PICK o \in Objects : o = at[t].o /\ owner[o] = t /\ Live(o) /\ at[t].op = "last"
    BY <1>11, <1>c DEF DestroyLast
  <2>2. UNCHANGED <<ptr, shared, refs, share, shares>>
    BY <1>11 DEF DestroyLast, history
  <2>3. /\ ptr[o] \in Places
        /\ \/ /\ IsRunning(o) /\ mem' = [mem EXCEPT ![ptr[o]] = SetUnhandledException(@)]
              /\ at' = [at EXCEPT ![t] = [op |-> "report", o |-> o, next |-> "release"]]
           \/ UNCHANGED mem /\ at' = [at EXCEPT ![t] = [op |-> "release", o |-> o]]
    BY <1>11, <1>b, <2>1, NewSteps DEF DestroyLast, Working, Live
  <2>4. \A m \in Places : mem'[m].status = mem[m].status
    BY <1>b, <2>3, DataFields
  <2>5. ~Releasing(o)
    BY <1>b, <1>c, <2>1 DEF Releasing
  <2>6. Sharers' = Sharers /\ (\A x \in Objects : (HasData(x)' <=> HasData(x)) /\ (Live(x)' <=> Live(x)))
    BY <1>b, <2>2, <2>4 DEF Sharers, HasData, Live
  <2>7. \A x \in Objects : Releasing(x) => Releasing(x)'
    BY <1>b, <2>1, <2>3 DEF Releasing
  <2>8. \A u \in Threads, x \in Objects :
          at'[u].op \in {"copy", "report"} /\ at'[u].o = x => HasData(x)'
    <3>1. IsRunning(o) => HasData(o)
      BY <1>e, <2>1, <2>5 DEF IsRunning
    <3> QED BY <1>b, <2>3, <2>6, <3>1 DEF Homes
  <2>9. Pointers'
    BY <1>b, <2>2, <2>6, <2>7 DEF Pointers
  <2>10. Homes'
    BY <1>b, <2>2, <2>4, <2>6, <2>7, <2>8 DEF Homes
  <2> QED BY <2>9, <2>10
<1>12. ASSUME Release(t)
       PROVE  Pointers' /\ Homes'
  <2>1. PICK o \in Objects : o = at[t].o /\ owner[o] = t /\ Live(o) /\ at[t].op = "release"
    BY <1>12, <1>c DEF Release
  <2>2. /\ refs' = IF shared[o] THEN refs - 1 ELSE refs
        /\ shared' = [shared EXCEPT ![o] = FALSE]
        /\ ptr' = [ptr EXCEPT ![o] = None]
        /\ mem' = [mem EXCEPT ![o] = NewData]
        /\ share' = [share EXCEPT ![o] = FALSE]
        /\ at' = [at EXCEPT ![t] = Idle]
        /\ shares' = shares
    BY <1>12, <2>1 DEF Release, history
  <2>3. Sharers' = Sharers \ {o} /\ (o \in Sharers <=> shared[o])
    BY <1>b, <2>2 DEF Sharers
  <2>4. refs' = Cardinality(Sharers')
    <3>1. CASE shared[o]
      BY <1>b, <2>2, <2>3, <3>1, ObjectSets DEF Pointers
    <3>2. CASE ~shared[o]
      <4>1. Sharers' = Sharers
        BY <2>3, <3>2
      <4> QED BY <2>2, <3>2, <4>1 DEF Pointers
    <3> QED BY <3>1, <3>2
  <2>5. /\ mem'[o].status = "new" /\ ~shared'[o] /\ ~share'[o] /\ ptr'[o] = None
        /\ mem'[Cell] = mem[Cell]
        /\ \A x \in Places \ {o} : mem'[x] = mem[x]
        /\ \A x \in Objects \ {o} : /\ ptr'[x] = ptr[x] /\ (shared'[x] <=> shared[x])
                                    /\ (share'[x] <=> share[x])
    BY <1>b, <2>2, NewDataFields
  <2>6. ~Live(o)' /\ ~HasData(o)' /\ \A x \in Objects \ {o} : /\ Live(x)' <=> Live(x)
                                                              /\ HasData(x)' <=> HasData(x)
    BY <1>b, <2>5 DEF Live, HasData
  <2>7. \A x \in Objects \ {o} : Releasing(x)' <=> Releasing(x)
    BY <1>b, <2>1, <2>2 DEF Releasing
  <2>8. Pointers'
    BY <1>b, <2>4, <2>5, <2>6, <2>7 DEF Pointers
  <2>9. \A u \in Threads, x \in Objects :
          at'[u].op \in {"copy", "report"} /\ at'[u].o = x => HasData(x)'
    BY <1>b, <1>c, <2>1, <2>2, <2>6 DEF Homes
  <2>10. Homes'
    BY <1>b, <2>2, <2>3, <2>5, <2>6, <2>7, <2>9 DEF Homes
  <2> QED BY <2>8, <2>10
<1> QED
  BY <1>a, <1>1, <1>2, <1>3, <1>4, <1>5, <1>6, <1>7, <1>8, <1>9, <1>10, <1>11, <1>12, QuietSteps

LEMMA MemoryInvariance == Spec => [](Pointers /\ Homes)
<1>1. TypeOK /\ Owners /\ (TypeOK /\ Owners)' /\ Pointers /\ Homes /\ [Next]_vars
        => (Pointers /\ Homes)'
  <2> SUFFICES ASSUME TypeOK, Owners, TypeOK', Owners', Pointers, Homes, [Next]_vars
               PROVE  Pointers' /\ Homes'
    OBVIOUS
  <2>1. CASE Next
    BY <2>1, MemoryStep
  <2>2. CASE UNCHANGED vars
    BY <2>2 DEF vars, Pointers, Homes, Sharers, Releasing, HasData, Live
  <2> QED BY <2>1, <2>2
<1> QED BY MemoryInit, OwnersInvariance, <1>1, PTL DEF Spec

\* Objects find their data: in the cell if they share it, which is then counted,
\* else in themselves (ActivityBase::operator= and the move constructor).
THEOREM DataAreFound == Spec => []PointersLeadToData
<1>1. Pointers => PointersLeadToData
  BY DEF Pointers, PointersLeadToData, Sharers, Releasing
<1> QED BY MemoryInvariance, <1>1, PTL

---------------------------------------------------------------------------
(* The count of stops.  Each share that is not yet given back, and each    *)
(* copy that Split has counted but not made, is one of the shares without  *)
(* a vote.  So the stop that takes the count to zero is the last one, and  *)
(* who finds itself the last holder of data that run is alone with them.   *)

Copied(o) == \E t \in Threads : at[t].op = "copy" /\ at[t].o = o
Sharing == {o \in Objects : share[o]}
Copying == {o \in Objects : Copied(o)}
Reporting == \E t \in Threads : at[t].op = "report"
Running == \E m \in Places : mem[m].status = "started"
IsLast(s) == s.op \in {"last", "release"} \/ (s.op = "report" /\ s.next = "release")

Ends ==
  /\ \A t \in Threads, o \in Objects :
       /\ at[t].o = o /\ IsLast(at[t]) /\ shared[o] => Sharers = {o}
       /\ at[t].o = o /\ at[t].op \in {"copy", "report"} => IsRunning(o)
  /\ \A t, u \in Threads : at[t].op = "report" /\ at[u].op = "report" => t = u
  /\ \A o \in Objects : Releasing(o) => /\ mem[o].status # "started"
                                        /\ shared[o] => mem[Cell].status # "started"
  /\ mem[Cell].status = "started" => Sharers # {}

Counts ==
  /\ Cardinality(Sharing) + Cardinality(Copying) + Len(votes) <= shares
  /\ \A o \in Objects : share[o] => IsRunning(o) \/ Releasing(o)
  /\ \A m \in Places : mem[m].status = "started" /\ ~Reporting
       => mem[m].stops = shares - Len(votes) /\ Len(votes) < shares
  /\ \A t \in Threads : at[t].op = "report" /\ at[t].next = "ignore" => Len(votes) = shares
  /\ shares = 0 => reported = <<>>
  /\ shares # 0 => IF Running THEN reported = <<>> ELSE Len(reported) = 1

Memory == TypeOK /\ Owners /\ Pointers /\ Homes

\* An object at work on and its thread.
LEMMA AtWork ==
  ASSUME TypeOK, Owners, NEW u \in Threads,
         at[u].op \in {"copy", "destroy", "last", "release", "report"}
  PROVE  at[u].o \in Objects /\ owner[at[u].o] = u /\ Live(at[u].o)
<1>1. at[u].o \in Objects
  BY StepFields DEF TypeOK, Working
<1>2. owner[at[u].o] = u /\ NoThread \notin Threads
  BY <1>1, ActivityAssumption DEF Owners, WorksOn, Working
<1> QED BY <1>1, <1>2 DEF Owners

\* Where an object's data are.
LEMMA DataPlace ==
  ASSUME Memory, NEW o \in Objects, Live(o), ~Releasing(o)
  PROVE  /\ ptr[o] = IF shared[o] THEN Cell ELSE o
         /\ ptr[o] \in Places
         /\ IsRunning(o) => HasData(o)
<1>1. ptr[o] = (IF shared[o] THEN Cell ELSE o) /\ ptr[o] \in Places
  BY DEF Memory, Pointers, Places
<1> QED BY <1>1 DEF IsRunning, HasData

\* Two objects that lead to the running activity share it.
LEMMA RunningTogether ==
  ASSUME Memory, NEW o \in Objects, NEW x \in Objects, o # x,
         Live(o), Live(x), ~Releasing(o), ~Releasing(x), IsRunning(o), IsRunning(x)
  PROVE  shared[o] /\ shared[x]
<1>1. ptr[o] = (IF shared[o] THEN Cell ELSE o) /\ ptr[x] = (IF shared[x] THEN Cell ELSE x)
  BY DataPlace
<1>2. ptr[o] \in Places /\ ptr[x] \in Places
  BY DataPlace
<1>3. ptr[o] = ptr[x]
  BY <1>2 DEF Memory, Homes, IsRunning
<1>4. Cell \notin Objects
  BY ActivityAssumption
<1> QED BY <1>1, <1>3, <1>4

\* While the stop event is being reported no other share is left to be stopped or
\* split, and no other holder finds itself the last one.
LEMMA ReportsAlone ==
  ASSUME Memory, Ends, Counts, NEW t \in Threads, at[t].op = "report"
  PROVE  /\ Copying = {}
         /\ at[t].next = "ignore" => Sharing = {}
         /\ \A x \in Objects : share[x] => Releasing(x) \/ x = at[t].o
         /\ \A u \in Threads : at[u].op = "last" => ~IsRunning(at[u].o)
<1>a. /\ Sharing \subseteq Objects /\ Copying \subseteq Objects
      /\ Len(votes) \in Nat /\ shares \in Nat
  BY LenProperties DEF Memory, TypeOK, Sharing, Copying
<1>b. Cardinality(Sharing) \in Nat /\ Cardinality(Copying) \in Nat
  BY <1>a, ObjectSets
<1>1. PICK o \in Objects : o = at[t].o /\ owner[o] = t /\ Live(o)
  BY AtWork DEF Memory
<1>2. at[t].next \in {"ignore", "release"} /\ IsRunning(o)
  BY <1>1, StepFields DEF Memory, TypeOK, Ends
<1>3. ~Releasing(o)
  BY <1>1, AtWork DEF Releasing, Memory
<1>4. CASE at[t].next = "ignore"
  <2>1. Len(votes) = shares
    BY <1>4 DEF Counts
  <2>2. Cardinality(Sharing) = 0 /\ Cardinality(Copying) = 0
    BY <1>a, <1>b, <2>1 DEF Counts
  <2>3. Sharing = {} /\ Copying = {}
    BY <1>a, <2>2, ObjectSets
  <2>4. \A x \in Objects : ~share[x]
    BY <2>3 DEF Sharing
  <2>5. ASSUME NEW u \in Threads, at[u].op = "last", IsRunning(at[u].o)
        PROVE  FALSE
    <3>1. PICK x \in Objects : x = at[u].o /\ owner[x] = u /\ Live(x)
      BY <2>5, AtWork DEF Memory
    <3>2. ~Releasing(x) /\ x # o
      BY <1>1, <2>5, <3>1, AtWork DEF Releasing, Memory
    <3>3. shared[o] /\ shared[x]
      BY <1>1, <1>2, <1>3, <2>5, <3>1, <3>2, RunningTogether
    <3>4. Sharers = {x}
      BY <2>5, <3>1, <3>3 DEF Ends, IsLast
    <3> QED BY <3>2, <3>3, <3>4 DEF Sharers
  <2> QED BY <2>3, <2>4, <2>5
<1>5. CASE at[t].next = "release"
  <2>1. ASSUME NEW x \in Objects, Live(x), ~Releasing(x), IsRunning(x)
        PROVE  x = o
    <3>1. SUFFICES ASSUME x # o PROVE FALSE
      OBVIOUS
    <3>2. shared[o] /\ shared[x]
      BY <1>1, <1>2, <1>3, <2>1, <3>1, RunningTogether
    <3>3. Sharers = {o}
      BY <1>1, <1>5, <3>2 DEF Ends, IsLast
    <3> QED BY <3>1, <3>2, <3>3 DEF Sharers
  <2>2. ASSUME NEW u \in Threads, at[u].op \in {"copy", "last"}, IsRunning(at[u].o)
        PROVE  FALSE
    <3>1. PICK x \in Objects : x = at[u].o /\ owner[x] = u /\ Live(x)
      BY <2>2, AtWork DEF Memory
    <3>2. ~Releasing(x) /\ x # o
      BY <1>1, <2>2, <3>1, AtWork DEF Releasing, Memory
    <3> QED BY <2>1, <2>2, <3>1, <3>2
  <2>3. Copying = {}
    BY <2>2 DEF Copying, Copied, Ends
  <2>4. \A x \in Objects : share[x] => Releasing(x) \/ x = o
    <3>1. \A x \in Objects : share[x] => Live(x)
      BY DEF Memory, Pointers
    <3> QED BY <2>1, <3>1 DEF Counts
  <2> QED BY <1>1, <1>5, <2>2, <2>3, <2>4
<1> QED BY <1>2, <1>4, <1>5

LEMMA CountsInit == Init => Ends /\ Counts
<1> SUFFICES ASSUME Init PROVE Ends /\ Counts
  OBVIOUS
<1> USE DEF Init
<1>1. /\ \A m \in Places : mem[m].status = "new"
      /\ \A t \in Threads : at[t].op = "idle"
      /\ \A o \in Objects : ~share[o] /\ ~shared[o]
      /\ Cell \in Places
  BY NewDataFields DEF Places, Idle
<1>2. \A o \in Objects : ~Releasing(o) /\ ~Copied(o)
  BY <1>1 DEF Releasing, Copied
<1>3. Ends
  BY <1>1, <1>2 DEF Ends, IsLast
<1>4. Sharing = {} /\ Copying = {}
  BY <1>1, <1>2 DEF Sharing, Copying
<1>5. Cardinality({}) = 0 /\ Len(votes) = 0
  BY ObjectSets
<1>6. Counts
  BY <1>1, <1>4, <1>5 DEF Counts
<1> QED BY <1>3, <1>6

LEMMA QuietKeepsCounts ==
  ASSUME Memory, Ends, Counts, TypeOK', Quiet
  PROVE  Ends' /\ Counts'
<1>a. /\ UNCHANGED <<ptr, shared, share, reported, votes, shares>>
      /\ \A m \in Places : /\ mem'[m].status = mem[m].status
                           /\ mem'[m].stops = mem[m].stops
      /\ \A u \in Threads :
           \/ at'[u] = at[u]
           \/ /\ at[u].op \notin {"copy", "last", "release", "report"}
              /\ at'[u].op \notin {"copy", "last", "release", "report"}
  BY DEF Quiet, history
<1>b. \A o \in Objects : o \in Places
  BY DEF Places
<1>1. /\ Sharers' = Sharers /\ Sharing' = Sharing
      /\ Copying' = Copying
      /\ \A o \in Objects : Releasing(o)' <=> Releasing(o)
      /\ Reporting' <=> Reporting
      /\ Running' <=> Running
  BY <1>a DEF Sharers, Sharing, Copying, Copied, Releasing, Reporting, Running
<1>2. \A o \in Objects : Live(o) => (IsRunning(o)' <=> IsRunning(o))
  BY <1>a DEF Memory, TypeOK, IsRunning, Live
<1>3. \A u \in Threads : at[u].op \in {"copy", "report"} => at[u].o \in Objects /\ Live(at[u].o)
  BY AtWork DEF Memory
<1>4. /\ \A u \in Threads, o \in Objects :
           at'[u].o = o /\ IsLast(at'[u]) /\ shared'[o] => Sharers' = {o}
      /\ \A u \in Threads, o \in Objects :
           at'[u].o = o /\ at'[u].op \in {"copy", "report"} => IsRunning(o)'
  <2>1. \A u \in Threads, o \in Objects :
           at'[u].o = o /\ IsLast(at'[u]) /\ shared'[o] => Sharers' = {o}
    BY <1>a, <1>1 DEF Ends, IsLast
  <2>2. \A u \in Threads, o \in Objects :
           at'[u].o = o /\ at'[u].op \in {"copy", "report"} => IsRunning(o)'
    BY <1>a, <1>2, <1>3 DEF Ends
  <2> QED BY <2>1, <2>2
<1>5. \A t, u \in Threads : at'[t].op = "report" /\ at'[u].op = "report" => t = u
  BY <1>a DEF Ends
<1>6. Ends'
  BY <1>a, <1>b, <1>1, <1>4, <1>5 DEF Ends, Places
<1>7. \A o \in Objects : share[o] => Live(o)
  BY DEF Memory, Pointers
<1>8. \A u \in Threads : at'[u].op = "report" /\ at'[u].next = "ignore" => Len(votes') = shares'
  BY <1>a DEF Counts
<1>9. Counts'
  BY <1>a, <1>1, <1>2, <1>7, <1>8 DEF Counts
<1> QED BY <1>6, <1>9

\* What holds of every state, for the steps below.
LEMMA CountsFacts ==
  ASSUME Memory, Counts
  PROVE  /\ Cell \notin Objects /\ Cell \in Places /\ \A o \in Objects : o \in Places /\ o # None
         /\ None \notin Places
         /\ mem \in [Places -> ActivityData] /\ ptr \in [Objects -> Places \cup {None}]
         /\ shared \in [Objects -> BOOLEAN] /\ share \in [Objects -> BOOLEAN]
         /\ at \in [Threads -> Steps] /\ Idle.op = "idle"
         /\ votes \in Seq(Codes \cup {OK}) /\ reported \in Seq(Results)
         /\ Sharers \subseteq Objects /\ Sharing \subseteq Objects /\ Copying \subseteq Objects
         /\ Cardinality(Sharing) \in Nat /\ Cardinality(Copying) \in Nat
         /\ Len(votes) \in Nat /\ shares \in Nat
         /\ \A o \in Objects : share[o] \/ Releasing(o) \/ Copied(o) => Live(o)
<1>1. /\ Cell \notin Objects /\ Cell \in Places /\ \A o \in Objects : o \in Places /\ o # None
      /\ None \notin Places
  BY ActivityAssumption DEF Places
<1>2. /\ mem \in [Places -> ActivityData] /\ ptr \in [Objects -> Places \cup {None}]
      /\ shared \in [Objects -> BOOLEAN] /\ share \in [Objects -> BOOLEAN]
      /\ at \in [Threads -> Steps] /\ Idle.op = "idle"
      /\ votes \in Seq(Codes \cup {OK}) /\ reported \in Seq(Results) /\ shares \in Nat
  BY DEF Memory, TypeOK, Idle
<1>3. Sharers \subseteq Objects /\ Sharing \subseteq Objects /\ Copying \subseteq Objects
  BY DEF Sharers, Sharing, Copying
<1>4. Cardinality(Sharing) \in Nat /\ Cardinality(Copying) \in Nat /\ Len(votes) \in Nat
  BY <1>2, <1>3, ObjectSets, LenProperties
<1>5. \A o \in Objects : share[o] \/ Releasing(o) \/ Copied(o) => Live(o)
  BY AtWork DEF Memory, Pointers, Releasing, Copied
<1> QED BY <1>1, <1>2, <1>3, <1>4, <1>5

LEMMA UsesFacts ==
  ASSUME Memory, NEW t \in Threads, NEW o \in Objects, Uses(t, o)
  PROVE  /\ Live(o) /\ owner[o] = t /\ at[t] = Idle /\ at[t].op = "idle"
         /\ ~Releasing(o) /\ ~Copied(o)
         /\ \A u \in Threads :
              at[u].op \in {"copy", "destroy", "last", "release", "report"} => at[u].o # o
         /\ ptr[o] = (IF shared[o] THEN Cell ELSE o) /\ ptr[o] \in Places
<1>1. Live(o) /\ owner[o] = t /\ at[t] = Idle /\ at[t].op = "idle"
  BY DEF Uses, Idle
<1>2. \A u \in Threads :
        at[u].op \in {"copy", "destroy", "last", "release", "report"} => at[u].o # o
  BY <1>1, AtWork DEF Memory
<1>3. ~Releasing(o) /\ ~Copied(o)
  BY <1>2 DEF Releasing, Copied
<1>4. ptr[o] = (IF shared[o] THEN Cell ELSE o) /\ ptr[o] \in Places
  BY <1>1, <1>3, DataPlace
<1> QED BY <1>1, <1>2, <1>3, <1>4

LEMMA StartKeepsCounts ==
  ASSUME Memory, Ends, Counts, Memory', NEW t \in Threads, NEW o \in Objects, Start(t, o)
  PROVE  Ends' /\ Counts'
<1> USE DEF Start
<1>a. /\ \A x \in Objects : o \in Places
      /\ mem \in [Places -> ActivityData] /\ ptr \in [Objects -> Places \cup {None}]
      /\ share \in [Objects -> BOOLEAN] /\ Len(votes) \in Nat
      /\ Sharing \subseteq Objects /\ Copying \subseteq Objects
  BY CountsFacts
<1>1. \A x \in Objects : ~Live(x) /\ ~share[x] /\ ~shared[x] /\ ~Releasing(x) /\ ~Copied(x)
  <2>1. \A x \in Objects : ~Live(x)
    BY DEF Memory, Owners
  <2> QED BY <2>1, CountsFacts DEF Memory, Pointers, HasData
<1>2. \A u \in Threads : at[u].op \notin {"copy", "destroy", "last", "release", "report"}
  BY <1>1, AtWork DEF Memory
<1>3. Sharing = {} /\ Copying = {} /\ Copying' = {} /\ Sharing' = {o} /\ Cardinality({}) = 0
  <2>1. Sharing = {} /\ Copying = {}
    BY <1>1 DEF Sharing, Copying
  <2>2. Sharing' = {o}
    BY <1>1, <1>a DEF Sharing
  <2>3. Copying' = {}
    BY <2>1 DEF Copying, Copied
  <2> QED BY <2>1, <2>2, <2>3, ObjectSets
<1>4. Len(votes) = 0 /\ shares' = 1 /\ votes' = votes /\ reported' = <<>> /\ at' = at
  BY <1>a, <1>3 DEF Counts
<1>5. Cardinality(Sharing') = 1
  BY <1>3, FS_Singleton
<1>6. /\ mem'[o].status = "started" /\ mem'[o].stops = 1 /\ ptr'[o] = o
      /\ \A m \in Places : m # o => mem'[m].status = "new"
  BY <1>a, NewDataFields DEF Memory, Homes
<1>7. \A x \in Objects : (share'[x] <=> x = o) /\ ~shared'[x]
  BY <1>a, <1>1
<1> HIDE DEF Start
<1>8. IsRunning(o)' /\ Running' /\ ~Reporting'
  BY <1>a, <1>2, <1>4, <1>6 DEF IsRunning, Running, Reporting
<1>9. Ends'
  BY <1>2, <1>4, <1>6, <1>7, CountsFacts DEF Ends, IsLast, Releasing
<1>10. Counts'
  BY <1>2, <1>3, <1>4, <1>5, <1>6, <1>7, <1>8 DEF Counts
<1> QED BY <1>9, <1>10

LEMMA SplitKeepsCounts ==
  ASSUME Memory, Ends, Counts, Memory', NEW t \in Threads, NEW o \in Objects, Split(t, o)
  PROVE  Ends' /\ Counts'
<1>a. Uses(t, o) /\ share[o] /\ IsRunning(o)
  BY DEF Split
<1>b. /\ Live(o) /\ at[t].op = "idle" /\ ~Releasing(o) /\ ~Copied(o)
      /\ \A u \in Threads :
           at[u].op \in {"copy", "destroy", "last", "release", "report"} => at[u].o # o
      /\ ptr[o] = (IF shared[o] THEN Cell ELSE o) /\ ptr[o] \in Places
  BY <1>a, UsesFacts
<1>c. /\ mem \in [Places -> ActivityData] /\ at \in [Threads -> Steps]
      /\ ptr \in [Objects -> Places \cup {None}]
      /\ Copying \subseteq Objects /\ Cell \in Places /\ \A x \in Objects : x \in Places
      /\ Cardinality(Sharing) \in Nat /\ Cardinality(Copying) \in Nat
      /\ Len(votes) \in Nat /\ shares \in Nat
  BY CountsFacts
<1>1. ~Reporting
  BY <1>a, <1>b, ReportsAlone DEF Reporting
<1>2. PICK m \in Places : m = ptr[o]
  BY <1>b
<1>3. /\ mem' = [mem EXCEPT ![m] = IncrementExpectedStopCount(mem[m])]
      /\ shares' = shares + 1
      /\ at' = [at EXCEPT ![t] = [op |-> "copy", o |-> o]]
      /\ UNCHANGED <<ptr, shared, share, reported, votes>>
  BY <1>2 DEF Split
<1>4. /\ mem'[m].status = mem[m].status /\ mem'[m].stops = mem[m].stops + 1
      /\ \A n \in Places \ {m} : mem'[n] = mem[n]
  BY <1>c, <1>3, DataFields
<1>5. mem[m].status = "started" /\ \A n \in Places : mem[n].status = "started" => n = m
  BY <1>a, <1>2 DEF IsRunning, Memory, Homes
<1>6. at'[t] = [op |-> "copy", o |-> o] /\ \A u \in Threads \ {t} : at'[u] = at[u]
  BY <1>c, <1>3
<1>7. /\ Sharers' = Sharers /\ Sharing' = Sharing /\ Copying' = Copying \cup {o}
      /\ ~Reporting' /\ Running' /\ Running
      /\ \A x \in Objects : Releasing(x)' <=> Releasing(x)
  <2>1. Sharers' = Sharers /\ Sharing' = Sharing
    BY <1>3 DEF Sharers, Sharing
  <2>2. Copying' = Copying \cup {o}
    BY <1>b, <1>6 DEF Copying, Copied
  <2>3. \A x \in Objects : Releasing(x)' <=> Releasing(x)
    BY <1>b, <1>6 DEF Releasing
  <2>4. ~Reporting' /\ Running' /\ Running
    BY <1>1, <1>4, <1>5, <1>6 DEF Reporting, Running
  <2> QED BY <2>1, <2>2, <2>3, <2>4
<1>8. Cardinality(Copying') = Cardinality(Copying) + 1
  <2>1. o \in Objects \ Copying
    BY <1>b DEF Copying
  <2> QED BY <1>7, <1>c, <2>1, ObjectSets
<1>9. \A x \in Objects : Live(x) => (IsRunning(x)' <=> IsRunning(x))
  BY <1>c, <1>3, <1>4 DEF IsRunning, Live
<1>10. Ends'
  <2>1. \A u \in Threads, x \in Objects :
           at'[u].o = x /\ IsLast(at'[u]) /\ shared'[x] => Sharers' = {x}
    BY <1>3, <1>6, <1>7 DEF Ends, IsLast
  <2>2. \A u \in Threads, x \in Objects :
           at'[u].o = x /\ at'[u].op \in {"copy", "report"} => IsRunning(x)'
    <3>1. \A u \in Threads, x \in Objects :
            at[u].o = x /\ at[u].op \in {"copy", "report"} => Live(x)
      BY AtWork DEF Memory
    <3> QED BY <1>a, <1>b, <1>6, <1>9, <3>1 DEF Ends
  <2>3. \A u, v \in Threads : at'[u].op = "report" /\ at'[v].op = "report" => u = v
    BY <1>6 DEF Ends
  <2>4. \A n \in Places : mem'[n].status = mem[n].status
    BY <1>4
  <2> QED BY <1>3, <1>7, <1>c, <2>1, <2>2, <2>3, <2>4 DEF Ends
<1>11. Counts'
  <2>1. Cardinality(Sharing') + Cardinality(Copying') + Len(votes') <= shares'
    BY <1>3, <1>7, <1>8, <1>c DEF Counts
  <2>2. \A x \in Objects : share'[x] => IsRunning(x)' \/ Releasing(x)'
    BY <1>3, <1>7, <1>9, CountsFacts DEF Counts
  <2>3. mem[m].stops = shares - Len(votes) /\ Len(votes) < shares
    BY <1>1, <1>5 DEF Counts
  <2>4. \A n \in Places : mem'[n].status = "started" =>
           mem'[n].stops = shares' - Len(votes') /\ Len(votes') < shares'
    BY <1>3, <1>4, <1>5, <1>c, <2>3
  <2>5. shares # 0 /\ shares' # 0 /\ reported' = <<>>
    BY <1>3, <1>7, <1>c, <2>3 DEF Counts
  <2> QED BY <1>7, <2>1, <2>2, <2>4, <2>5 DEF Counts, Reporting
<1> QED BY <1>10, <1>11

\* A copy changes where the running activity's data are, and for whom.
LEMMA CopyKeepsCounts ==
  ASSUME Memory, Ends, Counts, NEW o \in Objects, NEW p \in Objects, o # p,
         CopyTo(o, p), Live(o), ~Releasing(o), IsRunning(o), ~HasData(p),
         \A x \in Objects : x # p => (share'[x] <=> share[x]),
         \A u \in Threads : at'[u].op \in {"copy", "last", "release", "report"}
                              => at'[u] = at[u] /\ at[u].o \notin {o, p},
         \A u \in Threads : at[u].op \in {"release", "report"} => at'[u] = at[u],
         Cardinality(Sharing') + Cardinality(Copying') = Cardinality(Sharing) + Cardinality(Copying),
         UNCHANGED <<reported, votes, shares>>
  PROVE  Ends' /\ Counts'
<1>a. HasData(o) /\ ptr[o] = (IF shared[o] THEN Cell ELSE o) /\ ptr[o] \in Places
  BY DataPlace
<1>b. /\ Cell \notin Objects /\ Cell \in Places /\ \A x \in Objects : x \in Places
      /\ Len(votes) \in Nat /\ shares \in Nat
      /\ \A x \in Objects : share[x] \/ Releasing(x) => Live(x)
  BY CountsFacts
<1>1. /\ Sharers' = Sharers \cup {o, p}
      /\ ptr'[o] = Cell /\ ptr'[p] = Cell
      /\ \A x \in Objects \ {o, p} : ptr'[x] = ptr[x] /\ (shared'[x] <=> shared[x])
      /\ mem'[Cell] = mem[IF shared[o] THEN Cell ELSE o]
      /\ \A x \in Objects : mem'[x].status = "new"
      /\ ~shared[o] => Sharers = {}
  BY <1>a, CopyEffects DEF Memory
<1>2. PICK m \in Places : m = ptr[o] /\ mem'[Cell] = mem[m]
  BY <1>a, <1>1
<1>3. mem[m].status = "started" /\ (\A n \in Places : mem'[n].status = "started" => n = Cell)
  BY <1>1, <1>2 DEF IsRunning, Places
<1>4. Running /\ Running' /\ shares # 0
  <2>1. shares # 0
    BY <1>3 DEF Memory, Homes
  <2> QED BY <1>b, <1>2, <1>3, <2>1 DEF Running
<1>5. IsRunning(o)' /\ IsRunning(p)'
  BY <1>1, <1>2, <1>3 DEF IsRunning
<1>6. ASSUME NEW x \in Objects, x # p, Live(x), ~Releasing(x), IsRunning(x)
      PROVE  IsRunning(x)'
  <2>1. CASE x = o
    BY <1>5, <2>1
  <2>2. CASE x # o
    <3>1. shared[x]
      BY <1>6, <2>2, RunningTogether
    <3>2. ptr[x] = Cell
      BY <1>6, <3>1, DataPlace
    <3> QED BY <1>1, <1>2, <1>3, <1>6, <2>2, <3>2 DEF IsRunning
  <2> QED BY <2>1, <2>2
<1>7. \A x \in Objects \ {o, p} : shared[x] => shared[o] /\ o \in Sharers /\ ptr[o] = Cell
  BY <1>a, <1>1 DEF Sharers
<1>8. \A x \in Objects : Releasing(x)' <=> Releasing(x)
  BY DEF Releasing
<1>9. \A x \in Objects : Releasing(x)' => x \notin {o, p}
  BY DEF Releasing
<1>10. Ends'
  <2>1. ASSUME NEW u \in Threads, NEW x \in Objects, at'[u].o = x, IsLast(at'[u]), shared'[x]
        PROVE  Sharers' = {x}
    <3>1. at'[u] = at[u] /\ x \notin {o, p}
      BY <2>1 DEF IsLast
    <3>2. shared[x] /\ o \in Sharers
      BY <1>1, <1>7, <2>1, <3>1
    <3>3. Sharers = {x}
      BY <2>1, <3>1, <3>2 DEF Ends
    <3> QED BY <3>1, <3>2, <3>3
  <2>2. ASSUME NEW u \in Threads, NEW x \in Objects,
               at'[u].o = x, at'[u].op \in {"copy", "report"}
        PROVE  IsRunning(x)'
    <3>1. at'[u] = at[u] /\ x \notin {o, p}
      BY <2>2
    <3>2. IsRunning(x) /\ Live(x) /\ ~Releasing(x)
      BY <2>2, <3>1, AtWork DEF Ends, Memory, Releasing
    <3> QED BY <1>6, <3>1, <3>2
  <2>3. \A u, v \in Threads : at'[u].op = "report" /\ at'[v].op = "report" => u = v
    BY DEF Ends
  <2>4. ASSUME NEW x \in Objects, Releasing(x)'
        PROVE  mem'[x].status # "started" /\ ~shared'[x]
    <3>1. Releasing(x) /\ x \notin {o, p}
      BY <1>8, <1>9, <2>4
    <3>2. ASSUME shared[x]
          PROVE  FALSE
      <4>1. m = Cell
        BY <1>2, <1>7, <3>1, <3>2
      <4> QED BY <1>3, <3>1, <3>2, <4>1 DEF Ends
    <3> QED BY <1>1, <3>1, <3>2
  <2>5. Sharers' # {}
    BY <1>1
  <2> QED BY <2>1, <2>2, <2>3, <2>4, <2>5 DEF Ends
<1>11. Counts'
  <2>1. Cardinality(Sharing') + Cardinality(Copying') + Len(votes') <= shares'
    BY DEF Counts
  <2>2. \A x \in Objects : share'[x] => IsRunning(x)' \/ Releasing(x)'
    BY <1>b, <1>5, <1>6, <1>8 DEF Counts
  <2>3. Reporting' <=> Reporting
    BY DEF Reporting
  <2>4. ~Reporting => mem'[Cell].stops = shares - Len(votes) /\ Len(votes) < shares
    BY <1>2, <1>3 DEF Counts
  <2>5. \A u \in Threads : at'[u].op = "report" /\ at'[u].next = "ignore" => Len(votes') = shares'
    BY DEF Counts
  <2>6. reported' = <<>>
    BY <1>4 DEF Counts
  <2> QED BY <1>3, <1>4, <2>1, <2>2, <2>3, <2>4, <2>5, <2>6 DEF Counts
<1> QED BY <1>10, <1>11

LEMMA SplitCopiesKeepsCounts ==
  ASSUME Memory, Ends, Counts, Memory', NEW t \in Threads, NEW p \in Objects, SplitCopies(t, p)
  PROVE  Ends' /\ Counts'
<1>a. /\ at \in [Threads -> Steps] /\ share \in [Objects -> BOOLEAN] /\ Idle.op = "idle"
      /\ Sharing \subseteq Objects /\ Copying \subseteq Objects
      /\ Cardinality(Sharing) \in Nat /\ Cardinality(Copying) \in Nat
      /\ \A x \in Objects : share[x] \/ Releasing(x) => Live(x)
  BY CountsFacts
<1>1. PICK o \in Objects : o = at[t].o /\ owner[o] = t /\ Live(o) /\ at[t].op = "copy"
  BY AtWork DEF SplitCopies, Memory
<1>2. ~Live(p) /\ CopyTo(o, p) /\ at' = [at EXCEPT ![t] = Idle]
      /\ share' = [share EXCEPT ![p] = TRUE] /\ UNCHANGED <<reported, votes, shares>>
  BY <1>1 DEF SplitCopies, history
<1>3. ~HasData(p) /\ ~share[p] /\ o # p
  BY <1>1, <1>2 DEF Memory, Pointers
<1>4. at'[t].op = "idle" /\ \A u \in Threads \ {t} : at'[u] = at[u]
  BY <1>a, <1>2
<1>5. \A u \in Threads \ {t} :
        at[u].op \in {"copy", "last", "release", "report"} => at[u].o \notin {o, p}
  BY <1>1, <1>2, AtWork DEF Memory
<1>6. ~Releasing(o) /\ IsRunning(o)
  BY <1>1, <1>5 DEF Releasing, Ends
<1>7. Sharing' = Sharing \cup {p} /\ p \in Objects \ Sharing
  BY <1>a, <1>2, <1>3 DEF Sharing
<1>8. Copying' = Copying \ {o} /\ o \in Copying
  BY <1>1, <1>4, <1>5 DEF Copying, Copied
<1>9. Cardinality(Sharing') = Cardinality(Sharing) + 1
  BY <1>a, <1>7, ObjectSets
<1>10. Cardinality(Copying') = Cardinality(Copying) - 1
  BY <1>a, <1>8, ObjectSets
<1>11. Cardinality(Sharing') + Cardinality(Copying') = Cardinality(Sharing) + Cardinality(Copying)
  BY <1>a, <1>9, <1>10
<1>12. \A x \in Objects : x # p => (share'[x] <=> share[x])
  BY <1>a, <1>2
<1>13. /\ \A u \in Threads : at'[u].op \in {"copy", "last", "release", "report"}
                              => at'[u] = at[u] /\ at[u].o \notin {o, p}
       /\ \A u \in Threads : at[u].op \in {"release", "report"} => at'[u] = at[u]
  BY <1>1, <1>4, <1>5
<1> QED BY <1>1, <1>2, <1>3, <1>6, <1>11, <1>12, <1>13, CopyKeepsCounts

LEMMA CopyAssignKeepsCounts ==
  ASSUME Memory, Ends, Counts, Memory', NEW t \in Threads, NEW o \in Objects, NEW p \in Objects,
         CopyAssign(t, o, p)
  PROVE  Ends' /\ Counts'
<1>1. /\ Uses(t, o) /\ Uses(t, p) /\ o # p /\ IsRunning(o) /\ ~shared[p] /\ ~IsRunning(p)
      /\ CopyTo(o, p) /\ UNCHANGED <<share, at, reported, votes, shares>>
  BY DEF CopyAssign, history
<1>2. Live(o) /\ Live(p) /\ ~Releasing(o) /\ ~Releasing(p) /\ ptr[p] = p
      /\ \A u \in Threads :
           at[u].op \in {"copy", "last", "release", "report"} => at[u].o \notin {o, p}
  BY <1>1, UsesFacts
<1>3. ~HasData(p)
  <2>1. mem[p].status # "started" /\ HasData(o)
    BY <1>1, <1>2, DataPlace DEF IsRunning
  <2>2. ptr[o] \in Places /\ p \in Places /\ ptr[o] = IF shared[o] THEN Cell ELSE o
    BY <1>1, UsesFacts, CountsFacts
  <2>3. ptr[o] # p
    BY <1>1, <2>2, CountsFacts
  <2>4. mem[ptr[o]].status # "new" 
    BY <1>1 DEF IsRunning
  <2> QED BY <1>1, <2>2, <2>3, <2>4 DEF HasData, Memory, Homes
<1>4. Sharing' = Sharing /\ Copying' = Copying
  BY <1>1 DEF Sharing, Copying, Copied
<1> QED BY <1>1, <1>2, <1>3, <1>4, CopyKeepsCounts

\* A move takes objects' data to other objects: what x has then, f[x] had before.
LEMMA MoveKeepsCounts ==
  ASSUME Memory, Ends, Counts, NEW f \in [Objects -> Objects], NEW W, W \subseteq Objects,
         \A x \in Objects : (x \in W <=> f[x] \in W) /\ (x \notin W => f[x] = x),
         \A y \in Objects : \E x \in Objects : f[x] = y,
         mem'[Cell] = mem[Cell],
         \A x \in Objects : /\ mem'[x].status = mem[f[x]].status
                            /\ mem'[x].status = "started" => mem'[x].stops = mem[f[x]].stops,
         \A x \in Objects : (shared'[x] <=> shared[f[x]]) /\ (share'[x] <=> share[f[x]]),
         \A x \in Objects \ W : ptr'[x] = ptr[x],
         \A x \in W : share'[x] => ptr'[x] = IF shared'[x] THEN Cell ELSE x,
         \A x \in W : Live(x) => ~Releasing(x),
         \A u \in Threads : at[u].op \in {"copy", "last", "release", "report"} => at[u].o \notin W,
         \A u \in Threads : \/ at'[u] = at[u]
                            \/ at[u].op = "idle" /\ at'[u].op = "destroy",
         Cardinality(Sharing') = Cardinality(Sharing),
         UNCHANGED <<reported, votes, shares>>
  PROVE  Ends' /\ Counts'
<1>b. /\ Cell \notin Objects /\ Cell \in Places /\ Places = Objects \cup {Cell}
      /\ \A x \in Objects : share[x] \/ Releasing(x) => Live(x)
  BY CountsFacts DEF Places
<1>1. /\ Copying' = Copying /\ (Reporting' <=> Reporting)
      /\ \A x \in Objects : Releasing(x)' <=> Releasing(x)
  BY DEF Copying, Copied, Reporting, Releasing
<1>2. Running' <=> Running
  BY <1>b DEF Running
<1>3. \A x \in Objects \ W : Live(x) => (IsRunning(x)' <=> IsRunning(x))
  BY DEF IsRunning, Live, Memory, Pointers
<1>4. ASSUME NEW x \in W, share'[x]
      PROVE  IsRunning(x)'
  <2>1. f[x] \in W /\ f[x] \in Objects /\ share[f[x]]
    BY <1>4
  <2>2. Live(f[x]) /\ ~Releasing(f[x])
    BY <1>b, <2>1
  <2>3. IsRunning(f[x]) /\ ptr[f[x]] = IF shared[f[x]] THEN Cell ELSE f[x]
    BY <2>1, <2>2, DataPlace DEF Counts
  <2>4. ptr'[x] = IF shared[f[x]] THEN Cell ELSE x
    BY <1>4
  <2> QED BY <2>1, <2>3, <2>4 DEF IsRunning
<1>5. ASSUME NEW u \in Threads, NEW x \in Objects, at'[u].o = x,
             at'[u].op \in {"copy", "last", "release", "report"}
      PROVE  at'[u] = at[u] /\ x \notin W /\ f[x] = x /\ Live(x)
  BY <1>5, AtWork DEF Memory
<1>6. Ends'
  <2>1. ASSUME NEW u \in Threads, NEW x \in Objects, at'[u].o = x, IsLast(at'[u]), shared'[x]
        PROVE  Sharers' = {x}
    <3>1. at'[u] = at[u] /\ x \notin W /\ f[x] = x
      BY <1>5, <2>1 DEF IsLast
    <3>2. Sharers = {x}
      BY <2>1, <3>1 DEF Ends
    <3>3. \A y \in Objects : shared'[y] <=> y = x
      BY <3>1, <3>2 DEF Sharers
    <3> QED BY <3>3 DEF Sharers
  <2>2. \A u \in Threads, x \in Objects :
           at'[u].o = x /\ at'[u].op \in {"copy", "report"} => IsRunning(x)'
    BY <1>3, <1>5 DEF Ends
  <2>3. \A u, v \in Threads : at'[u].op = "report" /\ at'[v].op = "report" => u = v
    BY DEF Ends
  <2>4. \A x \in Objects : Releasing(x)' => /\ mem'[x].status # "started"
                                            /\ shared'[x] => mem'[Cell].status # "started"
    BY <1>1, <1>b DEF Ends
  <2>5. mem'[Cell].status = "started" => Sharers' # {}
    BY DEF Ends, Sharers
  <2> QED BY <2>1, <2>2, <2>3, <2>4, <2>5 DEF Ends
<1>7. Counts'
  <2>1. \A x \in Objects : share'[x] => IsRunning(x)' \/ Releasing(x)'
    BY <1>b, <1>1, <1>3, <1>4 DEF Counts
  <2>2. \A m \in Places : mem'[m].status = "started" =>
           \E n \in Places : mem[n].status = "started" /\ mem'[m].stops = mem[n].stops
    BY <1>b
  <2>3. \A u \in Threads : at'[u].op = "report" /\ at'[u].next = "ignore" => Len(votes') = shares'
    BY DEF Counts
  <2> QED BY <1>1, <1>2, <2>1, <2>2, <2>3 DEF Counts
<1> QED BY <1>6, <1>7

LEMMA MoveConstructKeepsCounts ==
  ASSUME Memory, Ends, Counts, Memory', NEW t \in Threads, NEW o \in Objects, NEW p \in Objects,
         MoveConstruct(t, o, p)
  PROVE  Ends' /\ Counts'
<1>1. /\ Uses(t, o) /\ ~Live(p) /\ BecomesObjs(Moved(Objs, p, o))
      /\ UNCHANGED <<at, reported, votes, shares>>
  BY DEF MoveConstruct, history
<1>2. /\ Live(o) /\ ~Releasing(o) /\ p # o
      /\ \A u \in Threads :
           at[u].op \in {"copy", "destroy", "last", "release", "report"} => at[u].o # o
  BY <1>1, UsesFacts
<1>3. ~HasData(p) /\ ~share[p] /\ mem[p].status = "new" /\ ~shared[p]
  BY <1>1 DEF Memory, Pointers, HasData
<1>4. /\ mem'[p] = mem[o] /\ mem'[o] = NewData
      /\ \A x \in Places \ {p, o} : mem'[x] = mem[x]
      /\ ptr'[p] = (IF shared[o] THEN Cell ELSE p) /\ ptr'[o] = o
      /\ (shared'[p] <=> shared[o]) /\ ~shared'[o]
      /\ (share'[p] <=> share[o]) /\ ~share'[o]
      /\ \A x \in Objects \ {p, o} :
           ptr'[x] = ptr[x] /\ (shared'[x] <=> shared[x]) /\ (share'[x] <=> share[x])
  BY <1>1, <1>2, MoveOnce DEF Memory
<1>5. PICK f \in [Objects -> Objects] :
        f = [x \in Objects |-> IF x = p THEN o ELSE IF x = o THEN p ELSE x]
  OBVIOUS
<1>6. f[p] = o /\ f[o] = p /\ \A x \in Objects \ {p, o} : f[x] = x
  BY <1>2, <1>5
<1>7. Sharing' = IF o \in Sharing THEN (Sharing \ {o}) \cup {p} ELSE Sharing
  BY <1>2, <1>3, <1>4 DEF Sharing
<1>8. p \in Objects \ Sharing /\ Sharing \subseteq Objects
  BY <1>3 DEF Sharing
<1>9. Cardinality(Sharing') = Cardinality(Sharing)
  BY <1>7, <1>8, Swapped
<1>b. Cell \notin Objects /\ Cell \in Places /\ \A x \in Objects : x \in Places
  BY CountsFacts
<1>10. PICK W : W = {p, o}
  OBVIOUS
<1>11. /\ W \subseteq Objects
       /\ \A x \in Objects : (x \in W <=> f[x] \in W) /\ (x \notin W => f[x] = x)
       /\ \A y \in Objects : \E x \in Objects : f[x] = y
  BY <1>6, <1>10
<1>12. mem'[Cell] = mem[Cell]
  BY <1>4, <1>b
<1>13. \A x \in Objects : /\ mem'[x].status = mem[f[x]].status
                          /\ mem'[x].status = "started" => mem'[x].stops = mem[f[x]].stops
  BY <1>3, <1>4, <1>6, <1>b, NewDataFields
<1>14. \A x \in Objects : (shared'[x] <=> shared[f[x]]) /\ (share'[x] <=> share[f[x]])
  BY <1>3, <1>4, <1>6
<1>15. /\ \A x \in Objects \ W : ptr'[x] = ptr[x]
       /\ \A x \in W : share'[x] => ptr'[x] = IF shared'[x] THEN Cell ELSE x
       /\ \A x \in W : Live(x) => ~Releasing(x)
  BY <1>1, <1>2, <1>4, <1>10
<1>16. \A u \in Threads : at[u].op \in {"copy", "last", "release", "report"} => at[u].o \notin W
  BY <1>1, <1>2, <1>10, AtWork DEF Memory
<1> QED BY <1>1, <1>9, <1>11, <1>12, <1>13, <1>14, <1>15, <1>16, MoveKeepsCounts

LEMMA MoveAssignKeepsCounts ==
  ASSUME Memory, Ends, Counts, Memory', NEW t \in Threads,
         NEW o \in Objects, NEW p \in Objects, NEW l \in Objects, MoveAssign(t, o, p, l)
  PROVE  Ends' /\ Counts'
<1>1. /\ Uses(t, o) /\ Uses(t, p) /\ o # p /\ ~Live(l)
      /\ BecomesObjs(Moved(Moved(Objs, l, p), p, o))
      /\ at' = [at EXCEPT ![t] = [op |-> "destroy", o |-> l]]
      /\ UNCHANGED <<reported, votes, shares>>
  BY DEF MoveAssign, history
<1>2. /\ Live(o) /\ Live(p) /\ ~Releasing(o) /\ ~Releasing(p) /\ at[t].op = "idle"
      /\ \A u \in Threads :
           at[u].op \in {"copy", "destroy", "last", "release", "report"} => at[u].o \notin {o, p}
  BY <1>1, UsesFacts
<1>3. ~HasData(l) /\ ~share[l] /\ mem[l].status = "new" /\ ~shared[l] /\ l # p /\ l # o
  BY <1>1, <1>2 DEF Memory, Pointers, HasData
<1>4. /\ mem'[l] = mem[p] /\ mem'[p] = mem[o] /\ mem'[o] = NewData
      /\ \A x \in Places \ {l, p, o} : mem'[x] = mem[x]
      /\ ptr'[l] = (IF shared[p] THEN Cell ELSE l)
      /\ ptr'[p] = (IF shared[o] THEN Cell ELSE p) /\ ptr'[o] = o
      /\ (shared'[l] <=> shared[p]) /\ (shared'[p] <=> shared[o]) /\ ~shared'[o]
      /\ (share'[l] <=> share[p]) /\ (share'[p] <=> share[o]) /\ ~share'[o]
      /\ \A x \in Objects \ {l, p, o} :
           ptr'[x] = ptr[x] /\ (shared'[x] <=> shared[x]) /\ (share'[x] <=> share[x])
  BY <1>1, <1>3, MoveTwice DEF Memory
<1>5. PICK f \in [Objects -> Objects] :
        f = [x \in Objects |-> IF x = l THEN p ELSE IF x = p THEN o ELSE IF x = o THEN l ELSE x]
  OBVIOUS
<1>6. f[l] = p /\ f[p] = o /\ f[o] = l /\ \A x \in Objects \ {l, p, o} : f[x] = x
  BY <1>1, <1>3, <1>5
<1>7. Cardinality(Sharing') = Cardinality(Sharing)
  <2>1. PICK T : T = IF p \in Sharing THEN (Sharing \ {p}) \cup {l} ELSE Sharing
    OBVIOUS
  <2>2. l \in Objects \ Sharing /\ Sharing \subseteq Objects
    BY <1>3 DEF Sharing
  <2>3. Cardinality(T) = Cardinality(Sharing)
    BY <2>1, <2>2, Swapped
  <2>4. p \in Objects \ T /\ T \subseteq Objects
    BY <1>3, <2>1, <2>2
  <2>5. Sharing' = IF o \in T THEN (T \ {o}) \cup {p} ELSE T
    BY <1>1, <1>3, <1>4, <2>1 DEF Sharing
  <2>6. Cardinality(Sharing') = Cardinality(T)
    BY <2>4, <2>5, Swapped
  <2> QED BY <2>3, <2>6
<1>b. Cell \notin Objects /\ Cell \in Places /\ \A x \in Objects : x \in Places
  BY CountsFacts
<1>10. PICK W : W = {l, p, o}
  OBVIOUS
<1>11. /\ W \subseteq Objects
       /\ \A x \in Objects : (x \in W <=> f[x] \in W) /\ (x \notin W => f[x] = x)
       /\ \A y \in Objects : \E x \in Objects : f[x] = y
  BY <1>6, <1>10
<1>12. mem'[Cell] = mem[Cell]
  BY <1>4, <1>b
<1>13. \A x \in Objects : /\ mem'[x].status = mem[f[x]].status
                          /\ mem'[x].status = "started" => mem'[x].stops = mem[f[x]].stops
  BY <1>3, <1>4, <1>6, <1>b, NewDataFields
<1>14. \A x \in Objects : (shared'[x] <=> shared[f[x]]) /\ (share'[x] <=> share[f[x]])
  BY <1>3, <1>4, <1>6
<1>15. /\ \A x \in Objects \ W : ptr'[x] = ptr[x]
       /\ \A x \in W : share'[x] => ptr'[x] = IF shared'[x] THEN Cell ELSE x
       /\ \A x \in W : Live(x) => ~Releasing(x)
  BY <1>1, <1>2, <1>4, <1>10
<1>16. \A u \in Threads : at[u].op \in {"copy", "last", "release", "report"} => at[u].o \notin W
  BY <1>1, <1>2, <1>10, AtWork DEF Memory
<1>17. \A u \in Threads : \/ at'[u] = at[u]
                          \/ at[u].op = "idle" /\ at'[u].op = "destroy"
  BY <1>1, <1>2, CountsFacts
<1> QED BY <1>1, <1>7, <1>11, <1>12, <1>13, <1>14, <1>15, <1>16, <1>17, MoveKeepsCounts

LEMMA StopKeepsCounts ==
  ASSUME Memory, Ends, Counts, Memory', NEW t \in Threads, NEW o \in Objects,
         NEW r \in Codes \cup {OK}, Stop(t, o, r)
  PROVE  Ends' /\ Counts'
<1>a. Uses(t, o) /\ share[o]
  BY DEF Stop
<1>b. /\ Live(o) /\ at[t].op = "idle" /\ ~Releasing(o) /\ ~Copied(o)
      /\ \A u \in Threads :
           at[u].op \in {"copy", "destroy", "last", "release", "report"} => at[u].o # o
      /\ ptr[o] \in Places
  BY <1>a, UsesFacts
<1>c. /\ mem \in [Places -> ActivityData] /\ at \in [Threads -> Steps]
      /\ ptr \in [Objects -> Places \cup {None}] /\ share \in [Objects -> BOOLEAN]
      /\ Sharing \subseteq Objects /\ votes \in Seq(Codes \cup {OK})
      /\ Cardinality(Sharing) \in Nat /\ Cardinality(Copying) \in Nat
      /\ Len(votes) \in Nat /\ shares \in Nat
  BY CountsFacts
<1>1. ~Reporting
  BY <1>a, <1>b, ReportsAlone DEF Reporting
<1>2. IsRunning(o)
  BY <1>a, <1>b DEF Counts
<1>3. PICK m \in Places : m = ptr[o]
  BY <1>b
<1>4. PICK d \in ActivityData :
        /\ d = SetStopResult(mem[m], r)
        /\ d.status = mem[m].status /\ d.stops = mem[m].stops - 1
  <2>1. mem[m] \in ActivityData /\ r \in Results
    BY <1>c DEF Results
  <2>2. /\ SetStopResult(mem[m], r) \in ActivityData
        /\ SetStopResult(mem[m], r).status = mem[m].status
        /\ SetStopResult(mem[m], r).stops = mem[m].stops - 1
    BY <2>1, DataFields
  <2> QED BY <2>2
<1>5. /\ mem' = [mem EXCEPT ![m] = d]
      /\ share' = [share EXCEPT ![o] = FALSE]
      /\ votes' = Append(votes, r)
      /\ UNCHANGED <<ptr, shared, reported, shares>>
      /\ IF d.stops = 0 THEN at' = [at EXCEPT ![t] = [op |-> "report", o |-> o, next |-> "ignore"]]
                        ELSE UNCHANGED at
  BY <1>3, <1>4 DEF Stop
<1>6. mem[m].status = "started" /\ \A n \in Places : mem[n].status = "started" => n = m
  BY <1>2, <1>3 DEF IsRunning, Memory, Homes
<1>7. mem'[m] = d /\ (\A n \in Places \ {m} : mem'[n] = mem[n])
      /\ \A n \in Places : mem'[n].status = mem[n].status
  BY <1>c, <1>4, <1>5
<1>8. mem[m].stops = shares - Len(votes) /\ Len(votes) < shares /\ Len(votes') = Len(votes) + 1
      /\ reported = <<>>
  BY <1>1, <1>5, <1>6, <1>c, AppendProperties DEF Counts, Running
<1>9. /\ at'[t] = at[t] \/ at'[t] = [op |-> "report", o |-> o, next |-> "ignore"]
      /\ \A u \in Threads \ {t} : at'[u] = at[u]
  BY <1>5, <1>c
<1>10. /\ Sharers' = Sharers /\ Sharing' = Sharing \ {o} /\ o \in Sharing
       /\ Copying' = Copying /\ Running'
       /\ \A x \in Objects : Releasing(x)' <=> Releasing(x)
  <2>1. Sharers' = Sharers
    BY <1>5 DEF Sharers
  <2>2. Sharing' = Sharing \ {o} /\ o \in Sharing
    BY <1>a, <1>5, <1>c DEF Sharing
  <2>3. Copying' = Copying
    BY <1>b, <1>9 DEF Copying, Copied
  <2>4. \A x \in Objects : Releasing(x)' <=> Releasing(x)
    BY <1>b, <1>9 DEF Releasing
  <2> QED BY <1>6, <1>7, <2>1, <2>2, <2>3, <2>4 DEF Running
<1>11. \A x \in Objects : Live(x) => (IsRunning(x)' <=> IsRunning(x))
  BY <1>c, <1>5, <1>7 DEF IsRunning, Live
<1>12. Ends'
  <2>1. \A u \in Threads, x \in Objects :
           at'[u].o = x /\ IsLast(at'[u]) /\ shared'[x] => Sharers' = {x}
    BY <1>5, <1>9, <1>10 DEF Ends, IsLast
  <2>2. \A u \in Threads, x \in Objects :
           at'[u].o = x /\ at'[u].op \in {"copy", "report"} => IsRunning(x)'
    <3>1. \A u \in Threads, x \in Objects :
            at[u].o = x /\ at[u].op \in {"copy", "report"} => Live(x)
      BY AtWork DEF Memory
    <3> QED BY <1>2, <1>b, <1>9, <1>11, <3>1 DEF Ends
  <2>3. \A u, v \in Threads : at'[u].op = "report" /\ at'[v].op = "report" => u = v
    BY <1>1, <1>9 DEF Reporting
  <2> QED BY <1>5, <1>7, <1>10, <2>1, <2>2, <2>3, CountsFacts DEF Ends
<1>13. Counts'
  <2>1. Cardinality(Sharing') = Cardinality(Sharing) - 1
    BY <1>10, <1>c, ObjectSets
  <2>2. Cardinality(Sharing') + Cardinality(Copying') + Len(votes') <= shares'
    BY <1>5, <1>8, <1>10, <1>c, <2>1 DEF Counts
  <2>3. \A x \in Objects : share'[x] => IsRunning(x)' \/ Releasing(x)'
    <3>1. \A x \in Objects : share'[x] => share[x]
      BY <1>5, <1>c
    <3> QED BY <1>10, <1>11, <3>1, CountsFacts DEF Counts
  <2>4. CASE d.stops = 0
    <3>1. at'[t] = [op |-> "report", o |-> o, next |-> "ignore"]
      BY <1>5, <1>c, <2>4
    <3>2. Reporting'
      BY <3>1 DEF Reporting
    <3>3. Len(votes') = shares'
      BY <1>4, <1>5, <1>8, <1>c, <2>4
    <3> QED BY <1>5, <1>8, <1>10, <2>2, <2>3, <3>2, <3>3 DEF Counts
  <2>5. CASE d.stops # 0
    <3>1. ~Reporting'
      BY <1>1, <1>5, <2>5 DEF Reporting
    <3>2. d.stops = shares' - Len(votes') /\ Len(votes') < shares'
      BY <1>4, <1>5, <1>8, <1>c, <2>5
    <3>3. \A n \in Places : mem'[n].status = "started" => mem'[n].stops = d.stops
      BY <1>6, <1>7
    <3> QED BY <1>5, <1>8, <1>10, <2>2, <2>3, <3>1, <3>2, <3>3 DEF Counts, Reporting
  <2> QED BY <2>4, <2>5
<1> QED BY <1>12, <1>13

LEMMA ReportKeepsCounts ==
  ASSUME Memory, Ends, Counts, Memory', NEW t \in Threads, ReportStopActivity(t)
  PROVE  Ends' /\ Counts'
<1>a. PICK o \in Objects : o = at[t].o /\ owner[o] = t /\ Live(o) /\ at[t].op = "report"
  BY AtWork DEF ReportStopActivity, Memory
<1>b. /\ mem \in [Places -> ActivityData] /\ at \in [Threads -> Steps]
      /\ ptr \in [Objects -> Places \cup {None}] /\ reported \in Seq(Results)
  BY CountsFacts
<1>1. IsRunning(o) /\ at[t].next \in {"ignore", "release"}
  BY <1>a, StepFields DEF Ends, Memory, TypeOK
<1>2. PICK m \in Places : m = ptr[o]
  BY <1>a, <1>b DEF Live
<1>3. /\ mem' = [mem EXCEPT ![m] = [@ EXCEPT !.status = "stopped"]]
      /\ reported' = Append(reported, mem[m].result)
      /\ at' = [at EXCEPT ![t] = IF at[t].next = "ignore" THEN Idle ELSE [op |-> "release", o |-> o]]
      /\ UNCHANGED <<ptr, shared, share, votes, shares>>
  BY <1>a, <1>2 DEF ReportStopActivity
<1>4. mem[m].status = "started" /\ \A n \in Places : mem[n].status = "started" => n = m
  BY <1>1, <1>2 DEF IsRunning, Memory, Homes
<1>5. \A n \in Places : mem'[n].status # "started"
  <2>1. [mem[m] EXCEPT !.status = "stopped"].status = "stopped"
    BY <1>b DEF ActivityData
  <2> QED BY <1>3, <1>4, <1>b, <2>1
<1>6. ~Running' /\ Running /\ reported = <<>> /\ shares # 0
  BY <1>4, <1>5 DEF Running, Counts, Memory, Homes
<1>7. Len(reported') = 1
  BY <1>3, <1>6
<1>8. /\ Copying = {}
      /\ at[t].next = "ignore" => Sharing = {}
      /\ \A x \in Objects : share[x] => Releasing(x) \/ x = o
      /\ \A u \in Threads \ {t} : at[u].op # "report"
  BY <1>a, ReportsAlone DEF Ends
<1>9. /\ at'[t].op \in {"idle", "release"}
      /\ at'[t].op = "release" => at'[t].o = o /\ at[t].next = "release"
      /\ at'[t].op = "idle" => at[t].next = "ignore"
      /\ \A u \in Threads \ {t} : at'[u] = at[u]
  <2>1. \A u \in Threads \ {t} : at'[u] = at[u]
    BY <1>3, <1>b
  <2>2. CASE at[t].next = "ignore"
    BY <1>3, <1>b, <2>1, <2>2, CountsFacts
  <2>3. CASE at[t].next = "release"
    <3>1. at'[t] = [op |-> "release", o |-> o]
      BY <1>3, <1>b, <2>3
    <3> QED BY <2>1, <2>3, <3>1
  <2> QED BY <1>1, <2>2, <2>3
<1>10. /\ Sharers' = Sharers /\ Sharing' = Sharing /\ Copying' = Copying /\ ~Reporting'
       /\ \A x \in Objects : Releasing(x) => Releasing(x)'
  <2>1. Sharers' = Sharers /\ Sharing' = Sharing
    BY <1>3 DEF Sharers, Sharing
  <2>2. Copying' = Copying
    BY <1>a, <1>9 DEF Copying, Copied
  <2>3. \A x \in Objects : Releasing(x) => Releasing(x)'
    BY <1>a, <1>9 DEF Releasing
  <2>4. ~Reporting'
    BY <1>8, <1>9 DEF Reporting
  <2> QED BY <2>1, <2>2, <2>3, <2>4
<1>11. Ends'
  <2>1. \A u \in Threads, x \in Objects :
           at'[u].o = x /\ IsLast(at'[u]) /\ shared'[x] => Sharers' = {x}
    BY <1>a, <1>3, <1>9, <1>10 DEF Ends, IsLast
  <2>2. \A u \in Threads : at'[u].op \notin {"copy", "report"}
    BY <1>8, <1>9, AtWork DEF Copying, Copied, Memory
  <2> QED BY <1>5, <2>1, <2>2, CountsFacts DEF Ends
<1>12. Counts'
  <2>1. \A x \in Objects : share'[x] => Releasing(x)'
    <3>1. share[o] => Releasing(o)'
      <4>1. share[o] => at[t].next = "release"
        BY <1>1, <1>8 DEF Sharing
      <4> QED BY <4>1, <1>9 DEF Releasing
    <3> QED BY <1>3, <1>8, <1>10, <3>1
  <2>2. Cardinality(Sharing') + Cardinality(Copying') + Len(votes') <= shares'
    BY <1>3, <1>10 DEF Counts
  <2> QED BY <1>3, <1>5, <1>6, <1>7, <1>10, <2>1, <2>2 DEF Counts, Reporting
<1> QED BY <1>11, <1>12

\* Objects that are destroyed: what they lead to stays.
LEMMA DestroyKeepsCounts ==
  ASSUME Memory, Ends, Counts, Memory', NEW t \in Threads, Destroy(t)
  PROVE  Ends' /\ Counts'
<1>a. PICK o \in Objects : o = at[t].o /\ owner[o] = t /\ Live(o) /\ at[t].op = "destroy"
  BY AtWork DEF Destroy, Memory
<1>b. /\ at \in [Threads -> Steps] /\ shared \in [Objects -> BOOLEAN] /\ Sharers \subseteq Objects
  BY CountsFacts
<1>1. UNCHANGED <<mem, ptr, share, reported, votes, shares>>
  BY DEF Destroy, history
<1>2. \/ /\ shared[o] /\ refs # 1
         /\ shared' = [shared EXCEPT ![o] = FALSE]
         /\ at' = [at EXCEPT ![t] = [op |-> "release", o |-> o]]
      \/ /\ ~shared[o] \/ refs = 1
         /\ shared' = shared
         /\ at' = [at EXCEPT ![t] = [op |-> "last", o |-> o]]
  BY <1>a, <1>b, NewSteps DEF Destroy, Working
<1>3. /\ \A u \in Threads \ {t} : at'[u] = at[u]
      /\ at'[t].op \in {"release", "last"} /\ at'[t].o = o
  BY <1>2, <1>b
<1>4. /\ Sharing' = Sharing /\ Copying' = Copying /\ (Running' <=> Running)
      /\ (Reporting' <=> Reporting)
      /\ \A x \in Objects : Releasing(x) => Releasing(x)'
      /\ \A x \in Objects : Releasing(x)' => Releasing(x) \/ x = o
  <2>1. Sharing' = Sharing
    BY <1>1 DEF Sharing
  <2>2. Copying' = Copying
    BY <1>a, <1>3 DEF Copying, Copied
  <2>3. Running' <=> Running
    BY <1>1 DEF Running
  <2>4. Reporting' <=> Reporting
    BY <1>a, <1>3 DEF Reporting
  <2>5. /\ \A x \in Objects : Releasing(x) => Releasing(x)'
        /\ \A x \in Objects : Releasing(x)' => Releasing(x) \/ x = o
    BY <1>a, <1>3 DEF Releasing
  <2> QED BY <2>1, <2>2, <2>3, <2>4, <2>5
<1>5. \A x \in Objects : IsRunning(x)' <=> IsRunning(x)
  BY <1>1 DEF IsRunning
<1>6. /\ \A u \in Threads, x \in Objects :
           at'[u].o = x /\ at'[u].op \in {"copy", "report"} => IsRunning(x)'
      /\ \A u, v \in Threads : at'[u].op = "report" /\ at'[v].op = "report" => u = v
  <2>1. \A u \in Threads, x \in Objects :
           at'[u].o = x /\ at'[u].op \in {"copy", "report"} => IsRunning(x)'
    BY <1>3, <1>5 DEF Ends
  <2>2. \A u, v \in Threads : at'[u].op = "report" /\ at'[v].op = "report" => u = v
    BY <1>3 DEF Ends
  <2> QED BY <2>1, <2>2
<1>7. Counts'
  <2>1. \A x \in Objects : share'[x] => IsRunning(x)' \/ Releasing(x)'
    BY <1>1, <1>4, <1>5 DEF Counts
  <2>2. \A u \in Threads : at'[u].op = "report" /\ at'[u].next = "ignore" => Len(votes') = shares'
    BY <1>1, <1>3 DEF Counts
  <2> QED BY <1>1, <1>4, <2>1, <2>2 DEF Counts
<1>8. refs = Cardinality(Sharers)
  BY DEF Memory, Pointers
<1>9. CASE /\ shared[o] /\ refs # 1
           /\ shared' = [shared EXCEPT ![o] = FALSE]
           /\ at' = [at EXCEPT ![t] = [op |-> "release", o |-> o]]
  <2>1. Sharers' = Sharers \ {o} /\ o \in Sharers
    BY <1>9, <1>b DEF Sharers
  <2>2. Sharers' # {}
    <3>1. ASSUME Sharers = {o} PROVE FALSE
      <4>1. Cardinality({o}) = 1
        BY FS_Singleton
      <4> QED BY <1>8, <1>9, <3>1, <4>1
    <3> QED BY <2>1, <3>1
  <2>3. \A u \in Threads, x \in Objects :
           at'[u].o = x /\ IsLast(at'[u]) /\ shared'[x] => Sharers' = {x}
    <3>1. SUFFICES ASSUME NEW u \in Threads, NEW x \in Objects,
                          at'[u].o = x, IsLast(at'[u]), shared'[x]
                   PROVE  FALSE
      OBVIOUS
    <3>2. x # o /\ shared[x]
      BY <1>9, <1>b, <3>1
    <3>3. at'[u] = at[u]
      BY <1>3, <3>1, <3>2
    <3>4. Sharers = {x}
      BY <3>1, <3>2, <3>3 DEF Ends
    <3> QED BY <2>1, <3>2, <3>4
  <2>4. mem[o].status # "started"
    BY <2>1 DEF Memory, Homes
  <2>5. \A x \in Objects : Releasing(x)' => /\ mem'[x].status # "started"
                                            /\ shared'[x] => mem'[Cell].status # "started"
    BY <1>1, <1>4, <1>9, <1>b, <2>4 DEF Ends
  <2>6. Ends'
    BY <1>6, <2>2, <2>3, <2>5 DEF Ends
  <2> QED BY <1>7, <2>6
<1>10. CASE /\ ~shared[o] \/ refs = 1
            /\ shared' = shared
            /\ at' = [at EXCEPT ![t] = [op |-> "last", o |-> o]]
  <2>1. Sharers' = Sharers
    BY <1>10 DEF Sharers
  <2>2. shared[o] => Sharers = {o}
    <3>1. SUFFICES ASSUME shared[o] PROVE Sharers = {o}
      OBVIOUS
    <3>2. o \in Sharers /\ Cardinality(Sharers) = 1
      BY <1>8, <1>10, <3>1 DEF Sharers
    <3> QED BY <1>b, <3>2, ObjectSets
  <2>3. \A u \in Threads, x \in Objects :
           at'[u].o = x /\ IsLast(at'[u]) /\ shared'[x] => Sharers' = {x}
    BY <1>3, <1>10, <2>1, <2>2 DEF Ends
  <2>4. \A x \in Objects : Releasing(x)' <=> Releasing(x)
    BY <1>10, <1>a, <1>b DEF Releasing
  <2>5. Ends'
    BY <1>1, <1>6, <1>10, <2>1, <2>3, <2>4 DEF Ends
  <2> QED BY <1>7, <2>5
<1> QED BY <1>2, <1>9, <1>10

LEMMA DestroyLastKeepsCounts ==
  ASSUME Memory, Ends, Counts, Memory', NEW t \in Threads, DestroyLast(t)
  PROVE  Ends' /\ Counts'
<1>a. PICK o \in Objects : o = at[t].o /\ owner[o] = t /\ Live(o) /\ at[t].op = "last"
  BY AtWork DEF DestroyLast, Memory
<1>b. /\ at \in [Threads -> Steps] /\ mem \in [Places -> ActivityData]
      /\ ptr \in [Objects -> Places \cup {None}] /\ \A x \in Objects : x \in Places
      /\ Cell \in Places
  BY CountsFacts
<1>c. ~Releasing(o)
  BY <1>a, AtWork DEF Releasing, Memory
<1>d. ptr[o] = (IF shared[o] THEN Cell ELSE o) /\ ptr[o] \in Places
  BY <1>a, <1>c, DataPlace
<1>1. UNCHANGED <<ptr, shared, share, reported, votes, shares>>
  BY DEF DestroyLast, history
<1>2. \/ /\ IsRunning(o) /\ mem' = [mem EXCEPT ![ptr[o]] = SetUnhandledException(@)]
         /\ at' = [at EXCEPT ![t] = [op |-> "report", o |-> o, next |-> "release"]]
      \/ /\ ~IsRunning(o) /\ mem' = mem
         /\ at' = [at EXCEPT ![t] = [op |-> "release", o |-> o]]
  BY <1>a, <1>b, NewSteps DEF DestroyLast, Working
<1>3. \A n \in Places : mem'[n].status = mem[n].status
  BY <1>2, <1>b, <1>d, DataFields
<1>4. /\ \A u \in Threads \ {t} : at'[u] = at[u]
      /\ at'[t].op \in {"release", "report"} /\ at'[t].o = o
      /\ at'[t].op = "report" => at'[t].next = "release" /\ IsRunning(o)
      /\ at'[t].op = "release" => ~IsRunning(o) /\ mem' = mem
  BY <1>2, <1>b
<1>5. /\ Sharing' = Sharing /\ Copying' = Copying /\ Sharers' = Sharers
      /\ (Running' <=> Running)
      /\ \A x \in Objects : Releasing(x) => Releasing(x)'
      /\ \A x \in Objects : Releasing(x)' => Releasing(x) \/ (x = o /\ ~IsRunning(o))
  <2>1. Sharing' = Sharing /\ Sharers' = Sharers
    BY <1>1 DEF Sharing, Sharers
  <2>2. Copying' = Copying
    BY <1>a, <1>4 DEF Copying, Copied
  <2>3. Running' <=> Running
    BY <1>3 DEF Running
  <2>4. /\ \A x \in Objects : Releasing(x) => Releasing(x)'
        /\ \A x \in Objects : Releasing(x)' => Releasing(x) \/ (x = o /\ ~IsRunning(o))
    BY <1>a, <1>4 DEF Releasing
  <2> QED BY <2>1, <2>2, <2>3, <2>4
<1>6. \A x \in Objects : Live(x) => (IsRunning(x)' <=> IsRunning(x))
  BY <1>1, <1>3, <1>b DEF IsRunning, Live
<1>7. ~IsRunning(o) => /\ mem[o].status # "started"
                       /\ shared[o] => mem[Cell].status # "started"
  <2>1. shared[o] => mem[o].status = "new"
    BY DEF Memory, Homes, Sharers
  <2> QED BY <1>d, <2>1 DEF IsRunning
<1>8. IsRunning(o) => ~Reporting
  BY <1>a, ReportsAlone DEF Reporting
<1>9. Ends'
  <2>1. \A u \in Threads, x \in Objects :
           at'[u].o = x /\ IsLast(at'[u]) /\ shared'[x] => Sharers' = {x}
    BY <1>a, <1>1, <1>4, <1>5 DEF Ends, IsLast
  <2>2. \A u \in Threads, x \in Objects :
           at'[u].o = x /\ at'[u].op \in {"copy", "report"} => IsRunning(x)'
    <3>1. \A u \in Threads, x \in Objects :
            at[u].o = x /\ at[u].op \in {"copy", "report"} => Live(x)
      BY AtWork DEF Memory
    <3> QED BY <1>a, <1>4, <1>6, <3>1 DEF Ends
  <2>3. \A u, v \in Threads : at'[u].op = "report" /\ at'[v].op = "report" => u = v
    BY <1>4, <1>8 DEF Ends, Reporting
  <2>4. \A x \in Objects : Releasing(x)' => /\ mem'[x].status # "started"
                                            /\ shared'[x] => mem'[Cell].status # "started"
    BY <1>1, <1>3, <1>5, <1>7, <1>b DEF Ends
  <2> QED BY <1>3, <1>5, <1>b, <2>1, <2>2, <2>3, <2>4 DEF Ends
<1>10. Counts'
  <2>1. \A x \in Objects : share'[x] => IsRunning(x)' \/ Releasing(x)'
    BY <1>1, <1>5, <1>6, CountsFacts DEF Counts
  <2>2. \A u \in Threads : at'[u].op = "report" /\ at'[u].next = "ignore" => Len(votes') = shares'
    BY <1>1, <1>4 DEF Counts
  <2>3. \A m \in Places : mem'[m].status = "started" /\ ~Reporting'
          => mem'[m].stops = shares' - Len(votes') /\ Len(votes') < shares'
    <3>1. CASE at'[t].op = "report"
      BY <3>1 DEF Reporting
    <3>2. CASE at'[t].op = "release"
      <4>1. mem' = mem
        BY <1>4, <3>2
      <4>2. Reporting => Reporting'
        BY <1>a, <1>4 DEF Reporting
      <4> QED BY <1>1, <4>1, <4>2 DEF Counts
    <3> QED BY <1>4, <3>1, <3>2
  <2> QED BY <1>1, <1>5, <2>1, <2>2, <2>3 DEF Counts
<1> QED BY <1>9, <1>10

LEMMA ReleaseKeepsCounts ==
  ASSUME Memory, Ends, Counts, Memory', NEW t \in Threads, Release(t)
  PROVE  Ends' /\ Counts'
<1>a. PICK o \in Objects : o = at[t].o /\ owner[o] = t /\ Live(o) /\ at[t].op = "release"
  BY AtWork DEF Release, Memory
<1>b. /\ at \in [Threads -> Steps] /\ mem \in [Places -> ActivityData]
      /\ ptr \in [Objects -> Places \cup {None}] /\ \A x \in Objects : x \in Places
      /\ shared \in [Objects -> BOOLEAN] /\ share \in [Objects -> BOOLEAN]
      /\ Cell \in Places /\ Cell \notin Objects /\ Idle.op = "idle"
      /\ Sharing \subseteq Objects /\ Cardinality(Sharing) \in Nat /\ Cardinality(Copying) \in Nat
      /\ Len(votes) \in Nat /\ shares \in Nat
  BY CountsFacts
<1>1. /\ shared' = [shared EXCEPT ![o] = FALSE]
      /\ ptr' = [ptr EXCEPT ![o] = None]
      /\ mem' = [mem EXCEPT ![o] = NewData]
      /\ share' = [share EXCEPT ![o] = FALSE]
      /\ at' = [at EXCEPT ![t] = Idle]
      /\ UNCHANGED <<reported, votes, shares>>
  BY <1>a DEF Release, history
<1>2. /\ mem'[o].status = "new" /\ ~shared'[o] /\ ~share'[o] /\ at'[t].op = "idle"
      /\ \A n \in Places \ {o} : mem'[n] = mem[n]
      /\ \A x \in Objects \ {o} : /\ ptr'[x] = ptr[x] /\ (shared'[x] <=> shared[x])
                                  /\ (share'[x] <=> share[x])
      /\ \A u \in Threads \ {t} : at'[u] = at[u]
  BY <1>1, <1>b, NewDataFields
<1>3. \A u \in Threads \ {t} :
        at[u].op \in {"copy", "last", "release", "report"} => at[u].o # o
  BY <1>a, AtWork DEF Memory
<1>4. mem[o].status # "started" /\ (shared[o] => mem[Cell].status # "started")
  BY <1>a DEF Ends, Releasing
<1>5. /\ Sharing' = Sharing \ {o} /\ Copying' = Copying /\ Sharers' = Sharers \ {o}
      /\ (Running' <=> Running) /\ (Reporting' <=> Reporting)
      /\ \A x \in Objects : Releasing(x)' <=> Releasing(x) /\ x # o
  <2>1. Sharing' = Sharing \ {o} /\ Sharers' = Sharers \ {o}
    BY <1>2 DEF Sharing, Sharers
  <2>2. Copying' = Copying
    BY <1>a, <1>2 DEF Copying, Copied
  <2>3. Running' <=> Running
    BY <1>2, <1>4 DEF Running
  <2>4. Reporting' <=> Reporting
    BY <1>a, <1>2 DEF Reporting
  <2>5. \A x \in Objects : Releasing(x)' <=> Releasing(x) /\ x # o
    BY <1>a, <1>2, <1>3 DEF Releasing
  <2> QED BY <2>1, <2>2, <2>3, <2>4, <2>5
<1>6. \A x \in Objects \ {o} : Live(x) => (IsRunning(x)' <=> IsRunning(x))
  <2>1. \A x \in Objects \ {o} : Live(x) => ptr[x] \in {x, Cell}
    BY DEF Live, Memory, Pointers
  <2> QED BY <1>2, <1>b, <2>1 DEF IsRunning
<1>7. Ends'
  <2>1. ASSUME NEW u \in Threads, NEW x \in Objects, at'[u].o = x, IsLast(at'[u]), shared'[x]
        PROVE  Sharers' = {x}
    <3>1. u # t /\ x # o
      BY <1>2, <2>1 DEF IsLast
    <3>2. Sharers = {x}
      BY <1>2, <2>1, <3>1 DEF Ends
    <3> QED BY <1>5, <3>1, <3>2
  <2>2. \A u \in Threads, x \in Objects :
           at'[u].o = x /\ at'[u].op \in {"copy", "report"} => IsRunning(x)'
    <3>1. \A u \in Threads, x \in Objects :
            at[u].o = x /\ at[u].op \in {"copy", "report"} => Live(x)
      BY AtWork DEF Memory
    <3> QED BY <1>2, <1>3, <1>6, <3>1 DEF Ends
  <2>3. \A u, v \in Threads : at'[u].op = "report" /\ at'[v].op = "report" => u = v
    BY <1>2 DEF Ends
  <2>4. \A x \in Objects : Releasing(x)' => /\ mem'[x].status # "started"
                                            /\ shared'[x] => mem'[Cell].status # "started"
    BY <1>2, <1>5, <1>b DEF Ends
  <2>5. ASSUME mem'[Cell].status = "started"
        PROVE  Sharers' # {}
    <3>1. mem[Cell].status = "started"
      BY <1>2, <1>b, <2>5
    <3>2. o \notin Sharers /\ Sharers # {}
      BY <1>4, <3>1 DEF Sharers, Ends
    <3> QED BY <1>5, <3>2
  <2> QED BY <2>1, <2>2, <2>3, <2>4, <2>5 DEF Ends
<1>8. Counts'
  <2>1. Cardinality(Sharing') <= Cardinality(Sharing) /\ Cardinality(Sharing') \in Nat
    <3>1. CASE o \in Sharing
      BY <1>5, <1>b, <3>1, ObjectSets
    <3>2. CASE o \notin Sharing
      <4>1. Sharing' = Sharing
        BY <1>5, <3>2
      <4> QED BY <1>b, <4>1
    <3> QED BY <3>1, <3>2
  <2>2. Cardinality(Sharing') + Cardinality(Copying') + Len(votes') <= shares'
    BY <1>1, <1>5, <1>b, <2>1 DEF Counts
  <2>3. \A x \in Objects : share'[x] => IsRunning(x)' \/ Releasing(x)'
    <3>1. \A x \in Objects : share'[x] => share[x] /\ x # o /\ Live(x)
      BY <1>2, CountsFacts
    <3> QED BY <1>5, <1>6, <3>1 DEF Counts
  <2>4. \A u \in Threads : at'[u].op = "report" /\ at'[u].next = "ignore" => Len(votes') = shares'
    BY <1>1, <1>2 DEF Counts
  <2>5. \A m \in Places : mem'[m].status = "started" => mem[m].status = "started" /\ mem'[m] = mem[m]
    BY <1>2
  <2> QED BY <1>1, <1>5, <2>2, <2>3, <2>4, <2>5 DEF Counts
<1> QED BY <1>7, <1>8

LEMMA CountsStep ==
  ASSUME Memory, Ends, Counts, Memory', Next
  PROVE  Ends' /\ Counts'
<1>a. PICK t \in Threads :
        \/ \E o \in Objects :
             \/ Start(t, o) \/ Split(t, o) \/ SplitCopies(t, o) \/ BeginDestroy(t, o)
             \/ \E p \in Objects :
                  \/ CopyAssign(t, o, p) \/ MoveConstruct(t, o, p)
                  \/ \E l \in Objects : MoveAssign(t, o, p, l)
             \/ \E u \in Threads : Handover(t, u, o)
             \/ \E r \in Codes \cup {OK} : Stop(t, o, r)
             \/ \E w \in Watchers : Watch(t, w, o)
        \/ \E w \in Watchers : EndWatch(t, w)
        \/ \E f \in Failures : Fail(t, f)
        \/ ReportStopActivity(t) \/ Destroy(t) \/ DestroyLast(t) \/ Release(t)
        \/ NotifyFailure(t)
  BY DEF Next
<1>1. CASE \E o \in Objects : Start(t, o) \/ Split(t, o) \/ SplitCopies(t, o)
  BY <1>1, StartKeepsCounts, SplitKeepsCounts, SplitCopiesKeepsCounts
<1>2. CASE \E o, p \in Objects : \/ CopyAssign(t, o, p) \/ MoveConstruct(t, o, p)
                                 \/ \E l \in Objects : MoveAssign(t, o, p, l)
  BY <1>2, CopyAssignKeepsCounts, MoveConstructKeepsCounts, MoveAssignKeepsCounts
<1>3. CASE \E o \in Objects, r \in Codes \cup {OK} : Stop(t, o, r)
  BY <1>3, StopKeepsCounts
<1>4. CASE ReportStopActivity(t) \/ Destroy(t) \/ DestroyLast(t) \/ Release(t)
  BY <1>4, ReportKeepsCounts, DestroyKeepsCounts, DestroyLastKeepsCounts, ReleaseKeepsCounts
<1>5. CASE \/ \E o \in Objects : BeginDestroy(t, o)
           \/ \E o \in Objects, u \in Threads : Handover(t, u, o)
           \/ \E o \in Objects, w \in Watchers : Watch(t, w, o)
           \/ \E w \in Watchers : EndWatch(t, w)
           \/ \E f \in Failures : Fail(t, f)
           \/ NotifyFailure(t)
  <2>1. Quiet
    BY <1>5, QuietSteps DEF Memory
  <2> QED BY <2>1, QuietKeepsCounts DEF Memory
<1> QED BY <1>a, <1>1, <1>2, <1>3, <1>4, <1>5

LEMMA CountsInvariance == Spec => [](Memory /\ Ends /\ Counts)
<1>1. Spec => []Memory
  BY OwnersInvariance, MemoryInvariance, PTL DEF Memory
<1>2. Memory /\ Memory' /\ Ends /\ Counts /\ [Next]_vars => (Ends /\ Counts)'
  <2> SUFFICES ASSUME Memory, Memory', Ends, Counts, [Next]_vars
               PROVE  Ends' /\ Counts'
    OBVIOUS
  <2>1. CASE Next
    BY <2>1, CountsStep
  <2>2. CASE UNCHANGED vars
    <3>1. Quiet
      BY <2>2 DEF vars, Quiet, history
    <3> QED BY <3>1, QuietKeepsCounts DEF Memory
  <2> QED BY <2>1, <2>2
<1> QED BY CountsInit, <1>1, <1>2, PTL DEF Spec

\* One stop event for the activity, however it was split, moved and abandoned:
\* none while some object still leads to the running activity, exactly one from
\* then on (~ActivityBase: "positively identify the final release").
THEOREM StopReportedOnce == Spec => []StopIsReportedOnce
<1>1. Memory /\ Ends /\ Counts => StopIsReportedOnce
  <2> SUFFICES ASSUME Memory, Ends, Counts
               PROVE  Running <=> \E o \in Objects : Live(o) /\ IsRunning(o)
    BY CountsFacts DEF StopIsReportedOnce, Counts
  <2>1. ASSUME NEW o \in Objects, Live(o), IsRunning(o)
        PROVE  Running
    BY <2>1, CountsFacts DEF Live, IsRunning, Running
  <2>2. ASSUME NEW m \in Places, mem[m].status = "started"
        PROVE  \E o \in Objects : Live(o) /\ IsRunning(o)
    <3>1. CASE m = Cell
      <4>1. PICK o \in Objects : shared[o]
        BY <2>2, <3>1 DEF Ends, Sharers
      <4>2. ptr[o] = Cell /\ Cell # None
        BY <4>1, CountsFacts DEF Memory, Pointers
      <4> QED BY <2>2, <3>1, <4>2 DEF Live, IsRunning
    <3>2. CASE m \in Objects
      <4>1. ptr[m] = m /\ m # None
        BY <2>2, <3>2, CountsFacts DEF Memory, Homes
      <4> QED BY <2>2, <3>2, <4>1 DEF Live, IsRunning
    <3> QED BY <3>1, <3>2 DEF Places
  <2> QED BY <2>1, <2>2 DEF Running
<1> QED BY CountsInvariance, <1>1, PTL

---------------------------------------------------------------------------
(* The result.  As long as somebody is left to stop the activity its data  *)
(* hold the first failure given to a Stop; once it is found abandoned they *)
(* hold that or another failure.                                           *)

Abandoned == \E t \in Threads : at[t].op = "report" /\ at[t].next = "release"
ResultSoFar(r) == IF Failed = {} THEN r = OK ELSE IsFirstFailure(r)
ResultAbandoned(r) ==
  /\ r # OK /\ Len(votes) < shares
  /\ Failed # {} => IsFirstFailure(r)

ResultsHeld ==
  /\ ReportedResultIsRight
  /\ \A m \in Places : mem[m].status = "started" =>
       IF Abandoned THEN ResultAbandoned(mem[m].result) ELSE ResultSoFar(mem[m].result)

CountsOK == Memory /\ Ends /\ Counts

LEMMA ResultsInit == Init => ResultsHeld
<1> SUFFICES ASSUME Init PROVE ResultsHeld
  OBVIOUS
<1>1. \A m \in Places : mem[m].status = "new"
  BY NewDataFields DEF Init, Places
<1>2. reported = <<>>
  BY DEF Init
<1>3. Range(reported) = {}
  BY <1>2 DEF Range
<1> QED BY <1>1, <1>3 DEF ResultsHeld, ReportedResultIsRight

\* Another result given to Stop.
LEMMA ResultGiven ==
  ASSUME votes \in Seq(Codes \cup {OK}), NEW r \in Codes \cup {OK}, votes' = Append(votes, r),
         NEW x, ResultSoFar(x), NEW y, y = IF x = OK THEN r ELSE x
  PROVE  ResultSoFar(y)'
<1> DEFINE n == Len(votes) + 1
<1>1. /\ Len(votes) \in Nat /\ DOMAIN votes = 1 .. Len(votes) /\ DOMAIN votes' = 1 .. n
      /\ votes'[n] = r /\ \A k \in 1 .. Len(votes) : votes'[k] = votes[k]
  BY LenProperties, AppendProperties
<1>2. \A k \in 1 .. n : k = n \/ k \in 1 .. Len(votes)
  BY <1>1
<1>3. n \in 1 .. n /\ n \notin 1 .. Len(votes) /\ 1 .. Len(votes) \subseteq 1 .. n
  BY <1>1
<1>4. Failed' = Failed \cup (IF r = OK THEN {} ELSE {n})
  BY <1>1, <1>2, <1>3 DEF Failed
<1>5. \A k \in Failed : k \in 1 .. Len(votes) /\ votes'[k] = votes[k] /\ votes[k] # OK /\ k <= n
  BY <1>1 DEF Failed
<1> HIDE DEF n
<1>6. CASE Failed = {}
  <2>1. y = r
    BY <1>6 DEF ResultSoFar
  <2>2. CASE r = OK
    <3>1. Failed' = {}
      BY <1>4, <1>6, <2>2
    <3> QED BY <2>1, <2>2, <3>1 DEF ResultSoFar
  <2>3. CASE r # OK
    <3>1. Failed' = {n} /\ n <= n
      BY <1>1, <1>4, <1>6, <2>3 DEF n
    <3>2. IsFirstFailure(y)'
      BY <1>1, <2>1, <3>1 DEF IsFirstFailure
    <3> QED BY <3>1, <3>2 DEF ResultSoFar
  <2> QED BY <2>2, <2>3
<1>7. CASE Failed # {}
  <2>1. PICK k \in Failed : votes[k] = x /\ \A j \in Failed : k <= j
    BY <1>7 DEF ResultSoFar, IsFirstFailure
  <2>2. y = x /\ votes'[k] = x /\ k \in Failed'
    BY <1>4, <1>5, <2>1
  <2>3. \A j \in Failed' : k <= j
    BY <1>4, <1>5, <2>1
  <2>4. IsFirstFailure(y)'
    BY <2>2, <2>3 DEF IsFirstFailure
  <2> QED BY <2>2, <2>4 DEF ResultSoFar
<1> QED BY <1>6, <1>7

\* Steps that give no result and report none.
LEMMA ResultsKept ==
  ASSUME CountsOK, ResultsHeld, UNCHANGED <<reported, votes>>,
         shares' \in Nat, shares <= shares', reported # <<>> => shares' = shares,
         Abandoned' <=> Abandoned,
         \A m \in Places : mem'[m].status = "started" =>
           \E n \in Places : mem[n].status = "started" /\ mem'[m].result = mem[n].result
  PROVE  ResultsHeld'
<1>1. Failed' = Failed /\ \A r : IsFirstFailure(r)' <=> IsFirstFailure(r)
  BY DEF Failed, IsFirstFailure
<1>2. Len(votes) \in Nat /\ shares \in Nat
  BY CountsFacts DEF CountsOK
<1>3. \A r : ResultSoFar(r)' <=> ResultSoFar(r)
  BY <1>1 DEF ResultSoFar
<1>4. \A r : ResultAbandoned(r) => ResultAbandoned(r)'
  BY <1>1, <1>2 DEF ResultAbandoned
<1>5. ReportedResultIsRight'
  <2>1. CASE reported = <<>>
    <3>1. Range(reported') = {}
      BY <2>1 DEF Range
    <3> QED BY <3>1 DEF ReportedResultIsRight
  <2>2. CASE reported # <<>>
    <3>1. shares' = shares
      BY <2>2
    <3> QED BY <1>1, <3>1 DEF ReportedResultIsRight, ResultsHeld
  <2> QED BY <2>1, <2>2
<1>6. \A m \in Places : \A r : mem'[m].status = "started" /\ mem'[m].result = r =>
        IF Abandoned' THEN ResultAbandoned(r)' ELSE ResultSoFar(r)'
  <2> SUFFICES ASSUME NEW m \in Places, NEW r, mem'[m].status = "started", mem'[m].result = r
               PROVE  IF Abandoned' THEN ResultAbandoned(r)' ELSE ResultSoFar(r)'
    OBVIOUS
  <2>1. PICK n \in Places : mem[n].status = "started" /\ r = mem[n].result
    OBVIOUS
  <2>2. IF Abandoned THEN ResultAbandoned(r) ELSE ResultSoFar(r)
    BY <2>1 DEF ResultsHeld
  <2> QED BY <1>3, <1>4, <2>2
<1> QED BY <1>5, <1>6 DEF ResultsHeld

\* Steps that copy, move or let go of data: no stop event begins or ends.
LEMMA MovingKeepsResults ==
  ASSUME CountsOK, ResultsHeld, Memory', NEW t \in Threads,
         \/ \E o \in Objects : Split(t, o) \/ SplitCopies(t, o)
         \/ \E o, p \in Objects : \/ CopyAssign(t, o, p) \/ MoveConstruct(t, o, p)
                                  \/ \E l \in Objects : MoveAssign(t, o, p, l)
         \/ Destroy(t) \/ Release(t)
  PROVE  ResultsHeld'
<1>a. /\ Cell \notin Objects /\ Cell \in Places /\ Places = Objects \cup {Cell}
      /\ mem \in [Places -> ActivityData] /\ ptr \in [Objects -> Places \cup {None}]
      /\ at \in [Threads -> Steps] /\ at[t] \in Steps /\ Idle.op = "idle"
      /\ shares \in Nat /\ shares' \in Nat
  BY CountsFacts DEF CountsOK, Places, Memory, TypeOK
<1>b. ASSUME UNCHANGED <<reported, votes>>, shares <= shares', reported # <<>> => shares' = shares,
             \A u \in Threads : at'[u] = at[u] \/ (at[u].op # "report" /\ at'[u].op # "report"),
             \A m \in Places : mem'[m].status = "started" =>
               \E n \in Places : mem[n].status = "started" /\ mem'[m].result = mem[n].result
      PROVE  ResultsHeld'
  <2>1. Abandoned' <=> Abandoned
    BY <1>b DEF Abandoned
  <2> QED BY <1>a, <1>b, <2>1, ResultsKept
<1>1. ASSUME NEW o \in Objects, Split(t, o)
      PROVE  ResultsHeld'
  <2>1. Uses(t, o) /\ IsRunning(o)
    BY <1>1 DEF Split
  <2>2. ptr[o] \in Places /\ at[t].op = "idle"
    BY <2>1, UsesFacts DEF CountsOK
  <2>3. PICK m \in Places : m = ptr[o]
    BY <2>2
  <2>4. /\ mem' = [mem EXCEPT ![m] = IncrementExpectedStopCount(mem[m])]
        /\ shares' = shares + 1 /\ UNCHANGED <<reported, votes>>
        /\ at' = [at EXCEPT ![t] = [op |-> "copy", o |-> o]]
    BY <1>1, <2>3 DEF Split
  <2>5. mem[m].status = "started"
    BY <2>1, <2>3 DEF IsRunning
  <2>6. reported = <<>>
    BY <2>5 DEF CountsOK, Counts, Running, Memory, Homes
  <2>7. \A n \in Places : mem'[n].status = mem[n].status /\ mem'[n].result = mem[n].result
    BY <1>a, <2>4, DataFields
  <2>8. \A u \in Threads : at'[u] = at[u] \/ (at[u].op # "report" /\ at'[u].op # "report")
    BY <1>a, <2>2, <2>4
  <2>9. shares <= shares'
    BY <1>a, <2>4
  <2> QED BY <1>b, <2>4, <2>6, <2>7, <2>8, <2>9
<1>2. ASSUME NEW o \in Objects, NEW p \in Objects, o # p, CopyTo(o, p), Live(o), ~Releasing(o),
             IsRunning(o), ~HasData(p), UNCHANGED <<reported, votes, shares>>,
             \A u \in Threads : at'[u] = at[u] \/ (at[u].op # "report" /\ at'[u].op # "report")
      PROVE  ResultsHeld'
  <2>1. HasData(o) /\ ptr[o] = (IF shared[o] THEN Cell ELSE o) /\ ptr[o] \in Places
    BY <1>2, DataPlace DEF CountsOK
  <2>2. /\ mem'[Cell] = mem[IF shared[o] THEN Cell ELSE o]
        /\ \A x \in Objects : mem'[x].status = "new"
    BY <1>2, <2>1, CopyEffects DEF CountsOK, Memory
  <2>3. PICK m \in Places : m = ptr[o] /\ mem'[Cell] = mem[m] /\ mem[m].status = "started"
    BY <1>2, <2>1, <2>2 DEF IsRunning
  <2>4. \A n \in Places : mem'[n].status = "started" => n = Cell
    BY <1>a, <2>2
  <2> QED BY <1>a, <1>b, <1>2, <2>3, <2>4
<1>3. ASSUME NEW p \in Objects, SplitCopies(t, p)
      PROVE  ResultsHeld'
  <2>1. PICK o \in Objects : o = at[t].o /\ owner[o] = t /\ Live(o) /\ at[t].op = "copy"
    BY <1>3, AtWork DEF SplitCopies, CountsOK, Memory
  <2>2. ~Live(p) /\ CopyTo(o, p) /\ at' = [at EXCEPT ![t] = Idle]
        /\ UNCHANGED <<reported, votes, shares>>
    BY <1>3, <2>1 DEF SplitCopies, history
  <2>3. ~HasData(p) /\ o # p /\ IsRunning(o) /\ ~Releasing(o)
    <3>1. ~HasData(p) /\ o # p
      BY <2>1, <2>2 DEF CountsOK, Memory, Pointers
    <3>2. IsRunning(o) /\ ~Releasing(o)
      BY <2>1, AtWork DEF CountsOK, Memory, Ends, Releasing
    <3> QED BY <3>1, <3>2
  <2>4. \A u \in Threads : at'[u] = at[u] \/ (at[u].op # "report" /\ at'[u].op # "report")
    BY <1>a, <2>1, <2>2
  <2> QED BY <1>2, <2>1, <2>2, <2>3, <2>4
<1>4. ASSUME NEW o \in Objects, NEW p \in Objects, CopyAssign(t, o, p)
      PROVE  ResultsHeld'
  <2>1. /\ Uses(t, o) /\ Uses(t, p) /\ o # p /\ IsRunning(o) /\ ~shared[p] /\ ~IsRunning(p)
        /\ CopyTo(o, p) /\ UNCHANGED <<at, reported, votes, shares>>
    BY <1>4 DEF CopyAssign, history
  <2>2. /\ Live(o) /\ ~Releasing(o) /\ ptr[o] \in Places
        /\ ptr[o] = (IF shared[o] THEN Cell ELSE o) /\ ptr[p] = p
    BY <2>1, UsesFacts DEF CountsOK
  <2>3. ~HasData(p)
    <3>1. mem[ptr[o]].status # "new" /\ ptr[o] # p
      BY <1>a, <2>1, <2>2 DEF IsRunning
    <3> QED BY <1>a, <2>1, <2>2, <3>1 DEF HasData, CountsOK, Memory, Homes
  <2> QED BY <1>2, <2>1, <2>2, <2>3
<1>5. ASSUME NEW o \in Objects, NEW p \in Objects, MoveConstruct(t, o, p)
      PROVE  ResultsHeld'
  <2>1. /\ Uses(t, o) /\ ~Live(p) /\ BecomesObjs(Moved(Objs, p, o))
        /\ UNCHANGED <<at, reported, votes, shares>>
    BY <1>5 DEF MoveConstruct, history
  <2>2. p # o
    BY <2>1 DEF Uses
  <2>3. mem'[p] = mem[o] /\ mem'[o] = NewData /\ \A x \in Places \ {p, o} : mem'[x] = mem[x]
    BY <2>1, <2>2, MoveOnce DEF CountsOK, Memory
  <2> QED BY <1>a, <1>b, <2>1, <2>3, NewDataFields
<1>6. ASSUME NEW o \in Objects, NEW p \in Objects, NEW l \in Objects, MoveAssign(t, o, p, l)
      PROVE  ResultsHeld'
  <2>1. /\ Uses(t, o) /\ Uses(t, p) /\ o # p /\ ~Live(l)
        /\ BecomesObjs(Moved(Moved(Objs, l, p), p, o))
        /\ at' = [at EXCEPT ![t] = [op |-> "destroy", o |-> l]]
        /\ UNCHANGED <<reported, votes, shares>>
    BY <1>6 DEF MoveAssign, history
  <2>2. l # o /\ l # p /\ at[t].op = "idle"
    BY <1>a, <2>1 DEF Uses
  <2>3. /\ mem'[l] = mem[p] /\ mem'[p] = mem[o] /\ mem'[o] = NewData
        /\ \A x \in Places \ {l, p, o} : mem'[x] = mem[x]
    BY <2>1, <2>2, MoveTwice DEF CountsOK, Memory
  <2>4. \A u \in Threads : at'[u] = at[u] \/ (at[u].op # "report" /\ at'[u].op # "report")
    BY <1>a, <2>1, <2>2
  <2>5. \A m \in Places : mem'[m].status = "started" =>
           \E n \in Places : mem[n].status = "started" /\ mem'[m].result = mem[n].result
    BY <1>a, <2>3, NewDataFields
  <2> QED BY <1>a, <1>b, <2>1, <2>4, <2>5
<1>7. ASSUME Destroy(t)
      PROVE  ResultsHeld'
  <2>1. UNCHANGED <<mem, reported, votes, shares>> /\ at[t].op = "destroy"
        /\ \/ at' = [at EXCEPT ![t].op = "release"] \/ at' = [at EXCEPT ![t].op = "last"]
    BY <1>7 DEF Destroy, history
  <2>2. at'[t].op \in {"release", "last"} /\ \A u \in Threads \ {t} : at'[u] = at[u]
    <3>1. PICK op \in {"release", "last"} : at' = [at EXCEPT ![t] = [at[t] EXCEPT !.op = op]]
      BY <2>1
    <3>2. [at[t] EXCEPT !.op = op] = [op |-> op, o |-> at[t].o]
      BY <1>a, <2>1, NewSteps, StepFields DEF Working
    <3> QED BY <1>a, <3>1, <3>2
  <2> QED BY <1>a, <1>b, <2>1, <2>2
<1>8. ASSUME Release(t)
      PROVE  ResultsHeld'
  <2>1. PICK o \in Objects : o = at[t].o /\ at[t].op = "release"
    BY <1>8, AtWork DEF Release, CountsOK, Memory
  <2>2. /\ mem' = [mem EXCEPT ![o] = NewData] /\ at' = [at EXCEPT ![t] = Idle]
        /\ UNCHANGED <<reported, votes, shares>>
    BY <1>8, <2>1 DEF Release, history
  <2>3. \A u \in Threads : at'[u] = at[u] \/ (at[u].op # "report" /\ at'[u].op # "report")
    BY <1>a, <2>1, <2>2
  <2>4. \A m \in Places : mem'[m].status = "started" => mem'[m] = mem[m]
    BY <1>a, <2>2, NewDataFields
  <2> QED BY <1>a, <1>b, <2>2, <2>3, <2>4
<1> QED BY <1>1, <1>3, <1>4, <1>5, <1>6, <1>7, <1>8

LEMMA StopKeepsResults ==
  ASSUME CountsOK, ResultsHeld, NEW t \in Threads, NEW o \in Objects,
         NEW r \in Codes \cup {OK}, Stop(t, o, r)
  PROVE  ResultsHeld'
<1>a. Uses(t, o) /\ share[o]
  BY DEF Stop
<1>b. /\ Live(o) /\ at[t].op = "idle" /\ ~Releasing(o) /\ ptr[o] \in Places
      /\ \A u \in Threads :
           at[u].op \in {"copy", "destroy", "last", "release", "report"} => at[u].o # o
  BY <1>a, UsesFacts DEF CountsOK
<1>c. /\ mem \in [Places -> ActivityData] /\ at \in [Threads -> Steps]
      /\ votes \in Seq(Codes \cup {OK})
  BY CountsFacts DEF CountsOK
<1>1. ~Reporting
  BY <1>a, <1>b, ReportsAlone DEF Reporting, CountsOK
<1>2. IsRunning(o)
  BY <1>a, <1>b DEF Counts, CountsOK
<1>3. PICK m \in Places : m = ptr[o]
  BY <1>b
<1>4. PICK d \in ActivityData :
        /\ d = SetStopResult(mem[m], r)
        /\ d.result = IF mem[m].result = OK THEN r ELSE mem[m].result
  <2>1. mem[m] \in ActivityData /\ r \in Results
    BY <1>c DEF Results
  <2>2. /\ SetStopResult(mem[m], r) \in ActivityData
        /\ SetStopResult(mem[m], r).result = IF mem[m].result = OK THEN r ELSE mem[m].result
    BY <2>1, DataFields
  <2> QED BY <2>2
<1>5. /\ mem' = [mem EXCEPT ![m] = d]
      /\ votes' = Append(votes, r) /\ UNCHANGED reported
      /\ at' = at \/ at' = [at EXCEPT ![t] = [op |-> "report", o |-> o, next |-> "ignore"]]
  BY <1>3, <1>4 DEF Stop
<1>6. mem[m].status = "started" /\ \A n \in Places : mem[n].status # "new" => n = m
  BY <1>2, <1>3 DEF IsRunning, Memory, Homes, CountsOK
<1>7. mem'[m] = d /\ \A n \in Places : mem'[n].status = "started" => n = m
  BY <1>c, <1>5, <1>6
<1>8. ~Abandoned /\ ~Abandoned'
  <2>1. ~Abandoned
    BY <1>1 DEF Abandoned, Reporting
  <2>2. CASE at' = at
    BY <2>1, <2>2 DEF Abandoned
  <2>3. CASE at' = [at EXCEPT ![t] = [op |-> "report", o |-> o, next |-> "ignore"]]
    <3>1. at'[t].next = "ignore" /\ \A u \in Threads \ {t} : at'[u] = at[u]
      BY <1>c, <2>3
    <3> QED BY <2>1, <3>1 DEF Abandoned
  <2> QED BY <1>5, <2>1, <2>2, <2>3
<1>9. reported = <<>> /\ Range(reported') = {}
  <2>1. reported = <<>>
    BY <1>6 DEF CountsOK, Counts, Running, Memory, Homes
  <2> QED BY <1>5, <2>1 DEF Range
<1>10. PICK x, y : x = mem[m].result /\ y = d.result
  OBVIOUS
<1>11. ResultSoFar(x)
  BY <1>6, <1>8, <1>10 DEF ResultsHeld
<1>12. y = IF x = OK THEN r ELSE x
  BY <1>4, <1>10
<1>13. ResultSoFar(y)'
  BY <1>c, <1>5, <1>11, <1>12, ResultGiven
<1>14. \A n \in Places : mem'[n].status = "started" => mem'[n].result = y
  BY <1>7, <1>10
<1> QED BY <1>8, <1>9, <1>13, <1>14 DEF ResultsHeld, ReportedResultIsRight

LEMMA ReportKeepsResults ==
  ASSUME CountsOK, ResultsHeld, NEW t \in Threads, ReportStopActivity(t)
  PROVE  ResultsHeld'
<1>a. PICK o \in Objects : o = at[t].o /\ owner[o] = t /\ Live(o) /\ at[t].op = "report"
  BY AtWork DEF ReportStopActivity, CountsOK, Memory
<1>b. /\ mem \in [Places -> ActivityData] /\ ptr \in [Objects -> Places \cup {None}]
      /\ reported \in Seq(Results)
  BY CountsFacts DEF CountsOK
<1>1. IsRunning(o) /\ at[t].next \in {"ignore", "release"}
  BY <1>a, StepFields DEF Ends, Memory, TypeOK, CountsOK
<1>2. PICK m \in Places : m = ptr[o]
  BY <1>a, <1>b DEF Live
<1>3. PICK r : r = mem[m].result
  OBVIOUS
<1>4. /\ mem' = [mem EXCEPT ![m] = [@ EXCEPT !.status = "stopped"]]
      /\ reported' = Append(reported, r)
      /\ UNCHANGED <<votes, shares>>
  BY <1>a, <1>2, <1>3 DEF ReportStopActivity
<1>5. mem[m].status = "started" /\ \A n \in Places : mem[n].status = "started" => n = m
  BY <1>1, <1>2 DEF IsRunning, Memory, Homes, CountsOK
<1>6. \A n \in Places : mem'[n].status # "started"
  <2>1. [mem[m] EXCEPT !.status = "stopped"].status = "stopped"
    BY <1>b DEF ActivityData
  <2> QED BY <1>4, <1>5, <1>b, <2>1
<1>7. reported = <<>>
  BY <1>5 DEF CountsOK, Counts, Running, Memory, Homes
<1>8. Range(reported') = {r}
  <2>1. reported' = <<r>>
    BY <1>4, <1>7
  <2> QED BY <2>1 DEF Range
<1>9. Abandoned <=> at[t].next = "release"
  BY <1>a DEF Abandoned, Ends, CountsOK
<1>10. IF Failed = {} THEN r = OK <=> Len(votes) = shares ELSE IsFirstFailure(r)
  <2>1. CASE at[t].next = "ignore"
    <3>1. ResultSoFar(r)
      BY <1>3, <1>5, <1>9, <2>1 DEF ResultsHeld
    <3>2. Len(votes) = shares
      BY <1>a, <2>1 DEF CountsOK, Counts
    <3> QED BY <3>1, <3>2 DEF ResultSoFar
  <2>2. CASE at[t].next = "release"
    <3>1. ResultAbandoned(r)
      BY <1>3, <1>5, <1>9, <2>2 DEF ResultsHeld
    <3>2. Len(votes) \in Nat /\ shares \in Nat
      BY CountsFacts DEF CountsOK
    <3> QED BY <3>1, <3>2 DEF ResultAbandoned
  <2> QED BY <1>1, <2>1, <2>2
<1>11. Failed' = Failed /\ \A x : IsFirstFailure(x)' <=> IsFirstFailure(x)
  BY <1>4 DEF Failed, IsFirstFailure
<1>12. ReportedResultIsRight'
  BY <1>4, <1>8, <1>10, <1>11 DEF ReportedResultIsRight
<1> QED BY <1>6, <1>12 DEF ResultsHeld

LEMMA DestroyLastKeepsResults ==
  ASSUME CountsOK, ResultsHeld, NEW t \in Threads, DestroyLast(t)
  PROVE  ResultsHeld'
<1>a. PICK o \in Objects : o = at[t].o /\ owner[o] = t /\ Live(o) /\ at[t].op = "last"
  BY AtWork DEF DestroyLast, Memory, CountsOK
<1>b. /\ at \in [Threads -> Steps] /\ mem \in [Places -> ActivityData]
      /\ ptr \in [Objects -> Places \cup {None}] /\ shares \in Nat
  BY CountsFacts DEF CountsOK
<1>c. UNCHANGED <<reported, votes, shares>>
  BY DEF DestroyLast, history
<1>1. CASE IsRunning(o)
  <2>1. PICK m \in Places : m = ptr[o]
    BY <1>a, <1>b DEF Live
  <2>2. mem[m] \in ActivityData /\ mem[m].status = "started"
        /\ \A n \in Places : mem[n].status = "started" => n = m
    BY <1>1, <1>b, <2>1 DEF IsRunning, CountsOK, Memory, Homes
  <2>3. PICK d \in ActivityData :
          /\ d = SetUnhandledException(mem[m])
          /\ d.result # OK /\ d.status = mem[m].status
          /\ mem[m].result # OK => d.result = mem[m].result
    BY <2>2, DataFields
  <2>4. /\ mem' = [mem EXCEPT ![m] = d]
        /\ at' = [at EXCEPT ![t] = [op |-> "report", o |-> o, next |-> "release"]]
    BY <1>1, <1>a, <2>1, <2>3 DEF DestroyLast
  <2>5. ~Reporting /\ ~Abandoned
    BY <1>1, <1>a, ReportsAlone DEF Reporting, Abandoned, CountsOK
  <2>6. Abandoned'
    BY <1>b, <2>4 DEF Abandoned
  <2>7. PICK x, y : x = mem[m].result /\ y = d.result
    OBVIOUS
  <2>8. ResultSoFar(x) /\ Len(votes) < shares
    BY <2>2, <2>5, <2>7 DEF ResultsHeld, CountsOK, Counts
  <2>9. Failed # {} => IsFirstFailure(y)
    <3>1. Failed # {} => IsFirstFailure(x) /\ x # OK
      BY <2>8 DEF ResultSoFar, IsFirstFailure, Failed
    <3> QED BY <2>3, <2>7, <3>1
  <2>10. Failed' = Failed /\ \A z : IsFirstFailure(z)' <=> IsFirstFailure(z)
    BY <1>c DEF Failed, IsFirstFailure
  <2>11. ResultAbandoned(y)'
    BY <1>c, <2>3, <2>7, <2>8, <2>9, <2>10 DEF ResultAbandoned
  <2>12. \A n \in Places : mem'[n].status = "started" => mem'[n].result = y
    BY <1>b, <2>2, <2>3, <2>4, <2>7
  <2>13. ReportedResultIsRight'
    BY <1>c, <2>10 DEF ResultsHeld, ReportedResultIsRight
  <2> QED BY <2>6, <2>11, <2>12, <2>13 DEF ResultsHeld
<1>2. CASE ~IsRunning(o)
  <2>1. mem' = mem /\ at' = [at EXCEPT ![t] = [at[t] EXCEPT !.op = "release"]]
    BY <1>2, <1>a DEF DestroyLast
  <2>2. [at[t] EXCEPT !.op = "release"] = [op |-> "release", o |-> o]
    BY <1>a, <1>b, NewSteps DEF Working
  <2>3. at'[t].op = "release" /\ \A u \in Threads \ {t} : at'[u] = at[u]
    BY <1>b, <2>1, <2>2
  <2>4. Abandoned' <=> Abandoned
    BY <1>a, <2>3 DEF Abandoned
  <2> QED BY <1>b, <1>c, <2>1, <2>4, ResultsKept
<1> QED BY <1>1, <1>2

LEMMA ResultsStep ==
  ASSUME CountsOK, ResultsHeld, CountsOK', Next
  PROVE  ResultsHeld'
<1>a. PICK t \in Threads :
        \/ \E o \in Objects :
             \/ Start(t, o) \/ Split(t, o) \/ SplitCopies(t, o) \/ BeginDestroy(t, o)
             \/ \E p \in Objects :
                  \/ CopyAssign(t, o, p) \/ MoveConstruct(t, o, p)
                  \/ \E l \in Objects : MoveAssign(t, o, p, l)
             \/ \E u \in Threads : Handover(t, u, o)
             \/ \E r \in Codes \cup {OK} : Stop(t, o, r)
             \/ \E w \in Watchers : Watch(t, w, o)
        \/ \E w \in Watchers : EndWatch(t, w)
        \/ \E f \in Failures : Fail(t, f)
        \/ ReportStopActivity(t) \/ Destroy(t) \/ DestroyLast(t) \/ Release(t)
        \/ NotifyFailure(t)
  BY DEF Next
<1>1. ASSUME NEW o \in Objects, Start(t, o)
      PROVE  ResultsHeld'
  <2>1. /\ shares = 0 /\ UNCHANGED <<at, votes, reported>>
        /\ mem' = [mem EXCEPT ![o] = [NewData EXCEPT !.status = "started"]]
    BY <1>1 DEF Start
  <2>2. \A u \in Threads : at[u].op # "report"
    BY <2>1, AtWork DEF CountsOK, Memory, Owners
  <2>3. ~Abandoned'
    BY <2>1, <2>2 DEF Abandoned
  <2>4. Range(reported') = {}
    <3>1. reported = <<>>
      BY <2>1 DEF CountsOK, Counts
    <3> QED BY <2>1, <3>1 DEF Range
  <2>5. Len(votes) = 0 /\ votes' = votes
    <3>1. /\ Cardinality(Sharing) \in Nat /\ Cardinality(Copying) \in Nat /\ Len(votes) \in Nat
      BY CountsFacts DEF CountsOK
    <3> QED BY <2>1, <3>1 DEF CountsOK, Counts
  <2>6. Failed' = {}
    <3>1. DOMAIN votes = 1 .. Len(votes)
      BY CountsFacts, LenProperties DEF CountsOK
    <3> QED BY <2>5, <3>1 DEF Failed
  <2>7. \A m \in Places : mem'[m].status = "started" => mem'[m].result = OK
    <3>1. /\ mem \in [Places -> ActivityData] /\ o \in Places
      BY CountsFacts DEF CountsOK
    <3>2. \A m \in Places : mem[m].status = "new"
      BY <2>1 DEF CountsOK, Memory, Homes
    <3> QED BY <2>1, <3>1, <3>2, NewDataFields
  <2> QED BY <2>3, <2>4, <2>6, <2>7 DEF ResultsHeld, ReportedResultIsRight, ResultSoFar
<1>2. CASE \/ \E o \in Objects : Split(t, o) \/ SplitCopies(t, o)
           \/ \E o, p \in Objects : \/ CopyAssign(t, o, p) \/ MoveConstruct(t, o, p)
                                    \/ \E l \in Objects : MoveAssign(t, o, p, l)
           \/ Destroy(t) \/ Release(t)
  BY <1>2, MovingKeepsResults DEF CountsOK
<1>3. CASE \E o \in Objects, r \in Codes \cup {OK} : Stop(t, o, r)
  BY <1>3, StopKeepsResults
<1>4. CASE ReportStopActivity(t) \/ DestroyLast(t)
  BY <1>4, ReportKeepsResults, DestroyLastKeepsResults
<1>5. CASE \/ \E o \in Objects : BeginDestroy(t, o)
           \/ \E o \in Objects, u \in Threads : Handover(t, u, o)
           \/ \E o \in Objects, w \in Watchers : Watch(t, w, o)
           \/ \E w \in Watchers : EndWatch(t, w)
           \/ \E f \in Failures : Fail(t, f)
           \/ NotifyFailure(t)
  <2>1. Quiet
    BY <1>5, QuietSteps DEF Memory, CountsOK
  <2>2. /\ UNCHANGED <<reported, votes, shares>> /\ shares \in Nat
        /\ \A m \in Places : mem'[m].status = mem[m].status /\ mem'[m].result = mem[m].result
    BY <2>1, CountsFacts DEF Quiet, history, CountsOK
  <2>3. Abandoned' <=> Abandoned
    BY <2>1 DEF Quiet, Abandoned
  <2> QED BY <2>2, <2>3, ResultsKept
<1> QED BY <1>a, <1>1, <1>2, <1>3, <1>4, <1>5

LEMMA ResultsInvariance == Spec => []ResultsHeld
<1>1. Spec => []CountsOK
  BY CountsInvariance, PTL DEF CountsOK
<1>2. CountsOK /\ CountsOK' /\ ResultsHeld /\ [Next]_vars => ResultsHeld'
  <2> SUFFICES ASSUME CountsOK, CountsOK', ResultsHeld, [Next]_vars
               PROVE  ResultsHeld'
    OBVIOUS
  <2>1. CASE Next
    BY <2>1, ResultsStep
  <2>2. CASE UNCHANGED vars
    BY <2>2 DEF vars, ResultsHeld, ReportedResultIsRight, Abandoned, ResultSoFar,
       ResultAbandoned, Failed, IsFirstFailure
  <2> QED BY <2>1, <2>2
<1> QED BY ResultsInit, <1>1, <1>2, PTL DEF Spec

\* The stop event says success only if every share of the activity was stopped
\* with success; otherwise the first failure given to a Stop; with none, that the
\* activity was abandoned (SetUnhandledException) or the last failure it watched.
THEOREM ReportedIsRight == Spec => []ReportedResultIsRight
<1>1. ResultsHeld => ReportedResultIsRight
  BY DEF ResultsHeld
<1> QED BY ResultsInvariance, <1>1, PTL

\* The invariant of activities as a whole, for any finite set of objects, any
\* threads, watchers and codes: who owns what, the lists, where the data are, the
\* count of stops, and the result.
THEOREM ActivityInvariance == Spec => [](TypeOK /\ Owners /\ Lists /\ Pointers /\ Homes
                                         /\ Ends /\ Counts /\ ResultsHeld)
BY OwnersInvariance, ListsInvariance, MemoryInvariance, CountsInvariance,
   ResultsInvariance, PTL
=============================================================================
