----------------------- MODULE ApartmentVariableProofs -----------------------
(* Safety of apartment variables, for all threads, apartments and variables.   *)
EXTENDS ApartmentVariable, TLAPS

---------------------------------------------------------------------------
(* The inductive invariant *)

\* A creator runs only in an apartment that is up.
CreatorsInLiveApartments == \A a \in Apartments : state[a] # "up" => Quiet(a)

\* The storage that a creator's value will go to is the apartment's storage.
CreatorsHaveStorage ==
  \A t \in Threads : \A i \in DOMAIN creating[t] :
    /\ creating[t][i].at # 0
    /\ ClearsWhileCreating \/ creating[t][i].at = storage[Home[t]]

\* Numbers are given once.
NumbersAreNew ==
  /\ \A a \in Apartments, v \in Vars : values[a][v] < nextId
  /\ \A v \in Vars : \A x \in job[v].old : 0 < x /\ x < nextId

IInv ==
  /\ TypeOK
  /\ CreatorsInLiveApartments
  /\ CreatorsHaveStorage
  /\ NumbersAreNew
  /\ HandedOutValuesLive
  /\ ObserversMatchStorage
  /\ ClearAllReachesAll
  /\ ~ClearsWhileCreating => NoUseAfterFree

USE DEF Jobs, Runs, Quiet, Frame, Pop, NoValues, NoJob, Inserted, MayClear

LEMMA InitHolds == Init => IInv
<1> SUFFICES ASSUME Init PROVE IInv OBVIOUS
<1> USE ApartmentAssumption DEF Init
<1>1. TypeOK
  <2>1. creating \in [Threads -> Seq(Calls)] OBVIOUS
  <2>2. job \in [Vars -> Jobs] BY DEF Jobs
  <2>3. /\ state \in [Apartments -> {"up", "ending", "down"}]
        /\ storage \in [Apartments -> Nat]
        /\ values \in [Apartments -> [Vars -> Nat]]
        /\ registered \subseteq Apartments
        /\ nextId \in Nat \ {0}
        /\ handed \in [Apartments -> [Vars -> Nat]]
        /\ strayed \in Nat
    OBVIOUS
  <2> HIDE DEF Init
  <2>4. QED BY <2>1, <2>2, <2>3 DEF TypeOK
<1>2. CreatorsHaveStorage BY DEF CreatorsHaveStorage
<1>3. NumbersAreNew BY DEF NumbersAreNew
<1>4. QED
  BY <1>1, <1>2, <1>3 DEF IInv, CreatorsInLiveApartments,
     HandedOutValuesLive, ObserversMatchStorage, ClearAllReachesAll, NoUseAfterFree

LEMMA FrontShape ==
  ASSUME NEW S, NEW s \in Seq(S), Len(s) > 0
  PROVE  /\ Len(s) \in DOMAIN s /\ s[Len(s)] \in S
         /\ SubSeq(s, 1, Len(s) - 1) \in Seq(S)
         /\ \A i \in DOMAIN SubSeq(s, 1, Len(s) - 1) :
              i \in DOMAIN s /\ SubSeq(s, 1, Len(s) - 1)[i] = s[i]
OBVIOUS

\* What is left of a thread's calls, when the last one ends.
LEMMA PopShape ==
  ASSUME TypeOK, NEW t \in Threads, Len(creating[t]) > 0, Pop(t)
  PROVE  /\ creating' \in [Threads -> Seq(Calls)]
         /\ \A u \in Threads : \A i \in DOMAIN creating'[u] :
              i \in DOMAIN creating[u] /\ creating'[u][i] = creating[u][i]
         /\ Frame(t) \in Calls
         /\ Len(creating[t]) \in DOMAIN creating[t]
         /\ Frame(t) = creating[t][Len(creating[t])]
<1>1. creating \in [Threads -> Seq(Calls)] BY DEF TypeOK
<1>2. creating[t] \in Seq(Calls) BY <1>1
<1>3. QED BY <1>1, <1>2, FrontShape

LEMMA ClearInKeeps ==
  ASSUME IInv, NEW a \in Apartments, NEW v \in Vars, MayClear(a), state[a] = "up", ClearIn(a, v),
         UNCHANGED <<state, creating, nextId, strayed>>,
         job' \in [Vars -> Jobs],
         \A w \in Vars : job'[w].old = job[w].old /\ job'[w].failed = job[w].failed,
         \A w \in Vars : \A b \in job[w].todo : b \in job'[w].todo \/ (w = v /\ b = a)
  PROVE  IInv'
<1> USE ApartmentAssumption DEF IInv, ClearIn
<1>1. TypeOK'
  <2>1. /\ values' \in [Apartments -> [Vars -> Nat]]
        /\ handed' \in [Apartments -> [Vars -> Nat]]
    BY DEF TypeOK
  <2>2. storage' \in [Apartments -> Nat] /\ registered' \subseteq Apartments
    <3>1. storage \in [Apartments -> Nat] /\ registered \subseteq Apartments
      BY DEF TypeOK
    <3>2. /\ storage' = storage \/ storage' = [storage EXCEPT ![a] = 0]
          /\ registered' = registered \/ registered' = registered \ {a}
      OBVIOUS
    <3> HIDE DEF IInv, ClearIn
    <3>3. QED BY <3>1, <3>2
  <2>3. QED BY <2>1, <2>2 DEF TypeOK
<1>2. CreatorsInLiveApartments' BY DEF CreatorsInLiveApartments
<1>3. CreatorsHaveStorage'
  BY DEF CreatorsHaveStorage, TypeOK
<1>4. NumbersAreNew' BY DEF NumbersAreNew, TypeOK
<1>5. HandedOutValuesLive' BY DEF HandedOutValuesLive, TypeOK
<1>6. ObserversMatchStorage' BY DEF ObserversMatchStorage, TypeOK
<1>7. ClearAllReachesAll' BY DEF ClearAllReachesAll, NumbersAreNew, TypeOK
<1>8. (~ClearsWhileCreating => NoUseAfterFree)' BY DEF NoUseAfterFree
<1>9. QED BY <1>1, <1>2, <1>3, <1>4, <1>5, <1>6, <1>7, <1>8

LEMMA NextKeeps == IInv /\ [Next]_vars => IInv'
<1> SUFFICES ASSUME IInv, [Next]_vars PROVE IInv' OBVIOUS
<1> USE ApartmentAssumption DEF IInv
<1>1. ASSUME NEW t \in Threads, NEW v \in Vars, Find(t, v) PROVE IInv'
  BY <1>1 DEF Find, TypeOK, CreatorsInLiveApartments, CreatorsHaveStorage,
     NumbersAreNew, HandedOutValuesLive, ObserversMatchStorage, ClearAllReachesAll, NoUseAfterFree
<1>2. ASSUME NEW t \in Threads, NEW v \in Vars, BeginCreate(t, v) PROVE IInv'
  <2> USE <1>2 DEF BeginCreate
  <2>1. TypeOK'
    <3> DEFINE s == IF storage[Home[t]] # 0 THEN storage[Home[t]] ELSE nextId
    <3>1. s \in Nat /\ Home[t] \in Apartments BY DEF TypeOK
    <3>2. [var |-> v, at |-> s] \in Calls BY <3>1 DEF Calls
    <3>3. /\ creating \in [Threads -> Seq(Calls)]
          /\ creating' = [creating EXCEPT ![t] = Append(@, [var |-> v, at |-> s])]
      BY DEF TypeOK
    <3>4. creating' \in [Threads -> Seq(Calls)]
      <4> HIDE DEF s, BeginCreate
      <4>1. QED BY <3>2, <3>3
    <3>5. storage' \in [Apartments -> Nat] /\ nextId' \in Nat \ {0} /\ registered' \subseteq Apartments
      BY <3>1 DEF TypeOK
    <3>6. QED BY <3>4, <3>5 DEF TypeOK
  <2>2. CreatorsInLiveApartments' BY DEF CreatorsInLiveApartments, TypeOK
  <2>3. CreatorsHaveStorage'
    <3>1. \A u \in Threads : \A i \in DOMAIN creating'[u] :
            \/ i \in DOMAIN creating[u] /\ creating'[u][i] = creating[u][i]
            \/ u = t /\ creating'[u][i].at = storage'[Home[t]]
      BY DEF TypeOK
    <3>2. storage'[Home[t]] # 0 /\ (storage[Home[t]] # 0 => storage' = storage)
      BY DEF TypeOK
    <3>3. \A u \in Threads : storage'[Home[u]] # storage[Home[u]] => Home[u] = Home[t] /\ storage[Home[t]] = 0
      BY DEF TypeOK
    <3>4. QED BY <3>1, <3>2, <3>3 DEF CreatorsHaveStorage, TypeOK
  <2>4. NumbersAreNew'
    <3>1. values' = values /\ job' = job /\ nextId' \in {nextId, nextId + 1}
      OBVIOUS
    <3>2. values \in [Apartments -> [Vars -> Nat]] /\ nextId \in Nat
      BY DEF TypeOK
    <3>3. job \in [Vars -> Jobs] BY DEF TypeOK
    <3> HIDE DEF BeginCreate
    <3>4. QED BY <3>1, <3>2, <3>3 DEF NumbersAreNew
  <2>5. HandedOutValuesLive' BY DEF HandedOutValuesLive
  <2>6. ObserversMatchStorage' BY DEF ObserversMatchStorage, TypeOK
  <2>7. ClearAllReachesAll' BY DEF ClearAllReachesAll
  <2>8. (~ClearsWhileCreating => NoUseAfterFree)' BY DEF NoUseAfterFree
  <2>9. QED BY <2>1, <2>2, <2>3, <2>4, <2>5, <2>6, <2>7, <2>8
<1>3. ASSUME NEW t \in Threads, NEW v \in Vars, Clear(t, v) PROVE IInv'
  BY <1>3, ClearInKeeps DEF Clear, TypeOK
<1>4. ASSUME NEW t \in Threads, CreatorThrows(t) PROVE IInv'
  <2> USE <1>4, PopShape DEF CreatorThrows
  <2>1. CreatorsInLiveApartments' BY DEF CreatorsInLiveApartments, TypeOK
  <2>2. CreatorsHaveStorage' BY DEF CreatorsHaveStorage
  <2>3. QED BY <2>1, <2>2 DEF TypeOK, NumbersAreNew, HandedOutValuesLive,
     ObserversMatchStorage, ClearAllReachesAll, NoUseAfterFree
<1>5. ASSUME NEW t \in Threads, Insert(t) PROVE IInv'
  <2> DEFINE a == Home[t]
             f == Frame(t)
  <2>0. /\ Len(creating[t]) > 0 /\ Pop(t)
        /\ a \in Apartments /\ f.var \in Vars /\ f.at \in Nat /\ f.at # 0
        /\ nextId' = nextId + 1
        /\ UNCHANGED <<state, storage, registered, job>>
        /\ ClearsWhileCreating \/ f.at = storage[a]
    <3>1. Len(creating[t]) > 0 /\ Pop(t) BY <1>5 DEF Insert
    <3>2. /\ f \in Calls /\ Len(creating[t]) \in DOMAIN creating[t]
          /\ f = creating[t][Len(creating[t])]
      BY <3>1, PopShape
    <3>3. f.var \in Vars /\ f.at \in Nat BY <3>2 DEF Calls
    <3>4. f.at # 0 /\ (ClearsWhileCreating \/ f.at = storage[a])
      BY <3>2 DEF CreatorsHaveStorage
    <3>5. QED BY <1>5, <3>1, <3>3, <3>4 DEF Insert
  <2>1. CASE f.at = storage[a]
    <3>0. /\ UNCHANGED strayed
          /\ \E kept \in Nat :
               /\ kept = IF values[a][f.var] # 0 THEN values[a][f.var] ELSE nextId
               /\ values' = [values EXCEPT ![a][f.var] = kept]
               /\ handed' = [handed EXCEPT ![a][f.var] = IF @ # 0 THEN @ ELSE kept]
      <4> DEFINE kept == IF values[a][f.var] # 0 THEN values[a][f.var] ELSE nextId
      <4>1. kept \in Nat BY <2>0 DEF TypeOK
      <4>2. /\ UNCHANGED strayed
            /\ values' = [values EXCEPT ![a][f.var] = kept]
            /\ handed' = [handed EXCEPT ![a][f.var] = IF @ # 0 THEN @ ELSE kept]
        BY <1>5, <2>1 DEF Insert
      <4>3. QED BY <4>1, <4>2
    <3>1. TypeOK' BY <2>0, <3>0, PopShape DEF TypeOK
    <3>2. CreatorsInLiveApartments' BY <2>0, PopShape DEF CreatorsInLiveApartments, TypeOK
    <3>3. CreatorsHaveStorage' BY <2>0, PopShape DEF CreatorsHaveStorage
    <3>4. NumbersAreNew' BY <2>0, <3>0 DEF NumbersAreNew, TypeOK
    <3>5. HandedOutValuesLive' BY <2>0, <3>0 DEF HandedOutValuesLive, TypeOK
    <3>6. ObserversMatchStorage' BY <2>0, <2>1, <3>0 DEF ObserversMatchStorage, TypeOK
    <3>7. ClearAllReachesAll' BY <2>0, <3>0 DEF ClearAllReachesAll, NumbersAreNew, TypeOK
    <3>8. (~ClearsWhileCreating => NoUseAfterFree)' BY <3>0 DEF NoUseAfterFree
    <3>9. QED BY <3>1, <3>2, <3>3, <3>4, <3>5, <3>6, <3>7, <3>8
  <2>2. CASE f.at # storage[a]
    <3>0. ClearsWhileCreating /\ strayed' = strayed + 1 /\ UNCHANGED <<values, handed>>
      BY <1>5, <2>0, <2>2 DEF Insert
    <3>1. TypeOK' BY <2>0, <3>0, PopShape DEF TypeOK
    <3>2. CreatorsInLiveApartments' BY <2>0, PopShape DEF CreatorsInLiveApartments, TypeOK
    <3>3. CreatorsHaveStorage' BY <2>0, PopShape DEF CreatorsHaveStorage
    <3>4. QED BY <2>0, <3>0, <3>1, <3>2, <3>3 DEF NumbersAreNew, HandedOutValuesLive,
       ObserversMatchStorage, ClearAllReachesAll, TypeOK
  <2>3. QED BY <2>1, <2>2
<1>6. ASSUME NEW v \in Vars, ClearAll(v) PROVE IInv'
  <2> USE <1>6 DEF ClearAll
  <2>1. TypeOK' BY DEF TypeOK
  <2>2. NumbersAreNew' BY DEF NumbersAreNew, TypeOK
  <2>3. ClearAllReachesAll' BY DEF ClearAllReachesAll, TypeOK
  <2>4. QED BY <2>1, <2>2, <2>3 DEF CreatorsInLiveApartments, CreatorsHaveStorage,
     HandedOutValuesLive, ObserversMatchStorage, NoUseAfterFree
<1>7. ASSUME NEW v \in Vars, NEW a \in Apartments, Visit(v, a) PROVE IInv'
  BY <1>7, ClearInKeeps DEF Visit, TypeOK
<1>8. ASSUME NEW v \in Vars, NEW a \in Apartments, PassOver(v, a) PROVE IInv'
  <2> USE <1>8 DEF PassOver
  <2>1. TypeOK' BY DEF TypeOK
  <2>2. NumbersAreNew' BY DEF NumbersAreNew, TypeOK
  <2>3. ClearAllReachesAll'
    BY DEF ClearAllReachesAll, ObserversMatchStorage, NumbersAreNew, TypeOK
  <2>4. QED BY <2>1, <2>2, <2>3 DEF CreatorsInLiveApartments, CreatorsHaveStorage,
     HandedOutValuesLive, ObserversMatchStorage, NoUseAfterFree
<1>9. ASSUME NEW v \in Vars, NEW a \in Apartments, Rethrow(v, a) PROVE IInv'
  <2> USE <1>9 DEF Rethrow
  <2>1. TypeOK' BY DEF TypeOK
  <2>2. NumbersAreNew' BY DEF NumbersAreNew, TypeOK
  <2>3. ClearAllReachesAll' BY DEF ClearAllReachesAll, TypeOK
  <2>4. QED BY <2>1, <2>2, <2>3 DEF CreatorsInLiveApartments, CreatorsHaveStorage,
     HandedOutValuesLive, ObserversMatchStorage, NoUseAfterFree
<1>10. ASSUME NEW a \in Apartments, BeginRundown(a) PROVE IInv'
  BY <1>10 DEF BeginRundown, TypeOK, CreatorsInLiveApartments, CreatorsHaveStorage,
     NumbersAreNew, HandedOutValuesLive, ObserversMatchStorage, ClearAllReachesAll, NoUseAfterFree
<1>11. ASSUME NEW a \in Apartments, OnUninitialize(a) PROVE IInv'
  <2> USE <1>11 DEF OnUninitialize
  <2>1. TypeOK' BY DEF TypeOK
  <2>2. CreatorsInLiveApartments' BY DEF CreatorsInLiveApartments
  <2>3. CreatorsHaveStorage'
    <3>1. \A t \in Threads : Home[t] = a => DOMAIN creating[t] = {}
      <4>1. ASSUME NEW t \in Threads, Home[t] = a PROVE DOMAIN creating[t] = {}
        <5>1. creating \in [Threads -> Seq(Calls)] BY DEF TypeOK
        <5>2. Len(creating[t]) = 0 BY <4>1 DEF CreatorsInLiveApartments
        <5>3. DOMAIN creating[t] = 1..0 BY <5>1, <5>2
        <5>4. QED BY <5>3
      <4>2. QED BY <4>1
    <3>2. \A t \in Threads : Home[t] # a => storage'[Home[t]] = storage[Home[t]]
      BY DEF TypeOK
    <3>3. QED BY <3>1, <3>2 DEF CreatorsHaveStorage
  <2>4. NumbersAreNew' BY DEF NumbersAreNew, TypeOK
  <2>5. HandedOutValuesLive' BY DEF HandedOutValuesLive, TypeOK
  <2>6. ObserversMatchStorage' BY DEF ObserversMatchStorage, TypeOK
  <2>7. ClearAllReachesAll' BY DEF ClearAllReachesAll, NumbersAreNew, TypeOK
  <2>8. QED BY <2>1, <2>2, <2>3, <2>4, <2>5, <2>6, <2>7 DEF NoUseAfterFree
<1>12. ASSUME NEW a \in Apartments, EndRundown(a) PROVE IInv'
  <2> USE <1>12 DEF EndRundown
  <2>1. TypeOK' /\ CreatorsInLiveApartments' /\ CreatorsHaveStorage'
    BY DEF TypeOK, CreatorsInLiveApartments, CreatorsHaveStorage
  <2>2. NumbersAreNew' /\ HandedOutValuesLive' BY DEF NumbersAreNew, HandedOutValuesLive
  <2>3. ObserversMatchStorage' BY DEF ObserversMatchStorage, TypeOK
  <2>4. ClearAllReachesAll'
    BY DEF ClearAllReachesAll, ObserversMatchStorage, NumbersAreNew, TypeOK
  <2>5. QED BY <2>1, <2>2, <2>3, <2>4 DEF NoUseAfterFree
<1>13. CASE UNCHANGED vars
  BY <1>13 DEF vars, TypeOK, CreatorsInLiveApartments, CreatorsHaveStorage,
     NumbersAreNew, HandedOutValuesLive, ObserversMatchStorage, ClearAllReachesAll, NoUseAfterFree
<1>14. QED
  BY <1>1, <1>2, <1>3, <1>4, <1>5, <1>6, <1>7, <1>8, <1>9, <1>10, <1>11, <1>12, <1>13
  DEF Next

---------------------------------------------------------------------------
(* The theorems *)

THEOREM Invariance == Spec => []IInv
BY InitHolds, NextKeeps, PTL DEF Spec

\* A reference that get_or_create handed out keeps leading to its value.
THEOREM ValuesStay == Spec => []HandedOutValuesLive
BY Invariance, PTL DEF IInv

\* Storage and shutdown observers come and go together; none outlives its apartment.
THEOREM ObserversAgree == Spec => []ObserversMatchStorage
BY Invariance, PTL DEF IInv

\* Asynchronous clearing leaves out no value that existed when it began, unless the
\* action ends with an error.
THEOREM ClearingIsComplete == Spec => []ClearAllReachesAll
BY Invariance, PTL DEF IInv

\* If clients do not clear while a creator runs, no value goes to dead storage.
THEOREM CarefulClientsAreSafe ==
  ASSUME ~ClearsWhileCreating
  PROVE  Spec => []NoUseAfterFree
<1>1. IInv => NoUseAfterFree BY DEF IInv
<1>2. QED BY <1>1, Invariance, PTL
=============================================================================
