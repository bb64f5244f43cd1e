-------------------------- MODULE ErrorReportsProofs --------------------------
(***************************************************************************)
(* The two halves of SetLastError, for any threads, codes, ring and limit. *)
(* What is remembered: the ring holds the errors recorded last, in order,  *)
(* and every context has heard of each error once, so that a context finds *)
(* an error whenever one was reported in it, and by code the one that came *)
(* first.  The guard: the counter is exact and a mark is always about to   *)
(* be cleared.                                                             *)
(***************************************************************************)
EXTENDS MCErrorReports, FiniteSetTheorems, FunctionTheorems, SequenceTheorems,
        NaturalsInduction, WellFoundedInduction, TLAPS

---------------------------------------------------------------------------
(* The errors.                                                             *)

\* What is at the end of a sequence, and how it grows and shrinks.
LEMMA LastOf ==
  ASSUME NEW S, NEW q \in Seq(S)
  PROVE  /\ Len(q) \in Nat /\ DOMAIN q = 1 .. Len(q)
         /\ \A i \in DOMAIN q : q[i] \in S
         /\ q # <<>> <=> Len(q) # 0
<1>1. Len(q) \in Nat /\ DOMAIN q = 1 .. Len(q)
  BY LenProperties
<1>2. \A i \in DOMAIN q : q[i] \in S
  BY <1>1, ElementOfSeq
<1>3. q = <<>> <=> Len(q) = 0
  BY EmptySeq
<1> QED BY <1>1, <1>2, <1>3

LEMMA OneMore ==
  ASSUME NEW S, NEW q \in Seq(S), NEW e \in S
  PROVE  LET r == Append(q, e) IN
           /\ r \in Seq(S) /\ Len(r) = Len(q) + 1 /\ DOMAIN r = 1 .. Len(q) + 1
           /\ r # <<>> /\ r[Len(q) + 1] = e
           /\ \A i \in 1 .. Len(q) : r[i] = q[i]
<1> DEFINE r == Append(q, e)
<1>1. /\ r \in Seq(S) /\ Len(r) = Len(q) + 1
      /\ r[Len(q) + 1] = e /\ \A i \in 1 .. Len(q) : r[i] = q[i]
  BY AppendProperties, LenProperties
<1> HIDE DEF r
<1>2. DOMAIN r = 1 .. Len(r) /\ Len(q) \in Nat /\ r # <<>>
  BY <1>1, LastOf
<1> QED BY <1>1, <1>2 DEF r

LEMMA OneLess ==
  ASSUME NEW S, NEW q \in Seq(S), q # <<>>
  PROVE  LET r == SubSeq(q, 1, Len(q) - 1) IN
           /\ r \in Seq(S) /\ Len(r) = Len(q) - 1 /\ DOMAIN r = 1 .. Len(q) - 1
           /\ r # <<>> <=> Len(q) # 1
           /\ \A i \in 1 .. Len(q) - 1 : r[i] = q[i]
<1>1. Len(q) \in Nat \ {0} /\ DOMAIN q = 1 .. Len(q) /\ \A i \in 1 .. Len(q) - 1 : q[i] \in S
  BY LastOf
<1> DEFINE r == SubSeq(q, 1, Len(q) - 1)
<1>2. r \in Seq(S) /\ Len(r) = Len(q) - 1 /\ \A i \in 1 .. Len(q) - 1 : r[i] = q[i]
  <2>1. Len(q) - 1 \in Nat
    BY <1>1
  <2>2. \A i \in 1 .. Len(q) - 1 : i \in 1 .. Len(q)
    BY <1>1
  <2> QED BY <1>1, <2>1, <2>2, SubSeqProperties
<1> HIDE DEF r
<1>3. DOMAIN r = 1 .. Len(r) /\ (r # <<>> <=> Len(r) # 0)
  BY <1>2, LastOf
<1> QED BY <1>1, <1>2, <1>3 DEF r

\* Indexes other than the last.
LEMMA AllButLast ==
  \A n \in Nat \ {0}, i \in Nat : i \in 1 .. n - 1 <=> i \in 1 .. n /\ i # n
OBVIOUS

\* The places of the ring.
LEMMA NextSlot ==
  ASSUME NEW i \in Slots
  PROVE  (i + 1) % ErrorCount = IF i = ErrorCount - 1 THEN 0 ELSE i + 1
BY ErrorCountAssumption DEF Slots

LEMMA InitErrors == Init => IInv
<1> SUFFICES ASSUME Init PROVE IInv
  OBVIOUS
<1> USE DEF Init
<1>1. TypeOK
  <2>1. 0 \in Slots /\ Unused \in [sequenceId : 0 .. 1, hr : Codes \cup {Any}]
    BY ErrorCountAssumption DEF Slots, Unused
  <2>2. <<>> \in Seq(Contexts) /\ <<>> \in Seq(Reports)
    BY EmptySeq
  <2> QED BY <2>1, <2>2 DEF TypeOK
<1>2. ASSUME NEW t \in Threads PROVE Nested(t) /\ RingInOrder(t) /\ DOMAIN contexts[t] = {}
  <2>1. contexts[t] = <<>> /\ reports[t] = <<>>
    OBVIOUS
  <2>2. Nested(t)
    BY <2>1 DEF Nested
  <2>3. \A i \in Slots : errors[t][i].sequenceId = 0
    BY DEF Unused
  <2>4. Newest(t).sequenceId = 0
    BY <2>3, ErrorCountAssumption DEF Newest, Slots
  <2>5. RingInOrder(t)
    BY <2>1, <2>3, <2>4 DEF RingInOrder
  <2> QED BY <2>1, <2>2, <2>5
<1> QED BY <1>1, <1>2 DEF IInv, InOrder

\* What other threads do does not concern it.
LEMMA OthersKeep ==
  ASSUME TypeOK, NEW t \in Threads, InOrder(t),
         failureSequenceId' \in Nat, failureSequenceId <= failureSequenceId',
         known \subseteq known', t \in allocated => t \in allocated',
         errors'[t] = errors[t], errorCurrentIndex'[t] = errorCurrentIndex[t],
         latestSubscribedFailureSequenceId'[t] = latestSubscribedFailureSequenceId[t],
         contexts'[t] = contexts[t], reports'[t] = reports[t]
  PROVE  InOrder(t)'
<1>1. Nested(t)'
  <2>1. failureSequenceId \in Nat /\ \A k \in DOMAIN contexts[t] : contexts[t][k].start \in 1 .. failureSequenceId
    BY DEF TypeOK, InOrder, Nested
  <2>2. \A k \in DOMAIN contexts[t] : contexts[t][k].start \in 1 .. failureSequenceId'
    BY <2>1
  <2> QED BY <2>2 DEF InOrder, Nested
<1>2. RingInOrder(t)'
  <2>1. /\ failureSequenceId \in Nat /\ \A i \in DOMAIN reports[t] : reports[t][i].id \in Nat
        /\ \A i \in DOMAIN reports[t] : reports[t][i].id <= failureSequenceId
    <3>1. reports[t] \in Seq(Reports)
      BY DEF TypeOK
    <3>2. \A i \in DOMAIN reports[t] : reports[t][i] \in Reports
      BY <3>1, LastOf
    <3> QED BY <3>2 DEF TypeOK, InOrder, RingInOrder, Reports
  <2>2. \A i \in DOMAIN reports[t] : reports[t][i].id <= failureSequenceId'
    BY <2>1
  <2> QED BY <2>2 DEF InOrder, RingInOrder, Newest, Later, Behind, Kept
<1>3. \A k \in DOMAIN contexts[t] : Heard(t, k)'
  BY DEF InOrder, Heard, Newest, Since, Recorded, Kept
<1> QED BY <1>1, <1>2, <1>3 DEF InOrder

\* A step of one thread.
LEMMA OneThread ==
  ASSUME IInv, NEW t \in Threads, TypeOK', InOrder(t)',
         failureSequenceId <= failureSequenceId',
         known \subseteq known', \A u \in Threads \ {t} : u \in allocated => u \in allocated',
         \A u \in Threads \ {t} :
           /\ errors'[u] = errors[u] /\ errorCurrentIndex'[u] = errorCurrentIndex[u]
           /\ latestSubscribedFailureSequenceId'[u] = latestSubscribedFailureSequenceId[u]
           /\ contexts'[u] = contexts[u] /\ reports'[u] = reports[u]
  PROVE  IInv'
<1>1. failureSequenceId' \in Nat
  BY DEF TypeOK
<1>2. ASSUME NEW u \in Threads PROVE InOrder(u)'
  <2>1. CASE u = t
    BY <2>1
  <2>2. CASE u # t
    BY <1>1, <2>2, OthersKeep DEF IInv
  <2> QED BY <2>1, <2>2
<1> QED BY <1>2 DEF IInv

\* A context that stays, while nothing is reported.
LEMMA StillHeard ==
  ASSUME NEW t \in Threads, NEW k, Heard(t, k), contexts'[t][k] = contexts[t][k],
         allocated \subseteq allocated',
         UNCHANGED <<errors, errorCurrentIndex, reports>>
  PROVE  Heard(t, k)'
BY DEF Heard, Newest, Since, Recorded, Kept

LEMMA TokenStep ==
  ASSUME IInv, NEW t \in Threads, GetCurrentErrorSequenceId(t)
  PROVE  IInv'
<1> USE DEF GetCurrentErrorSequenceId
<1>1. TypeOK'
  BY DEF IInv, TypeOK
<1>2. failureSequenceId \in Nat
  BY DEF IInv, TypeOK
<1>3. InOrder(t)'
  BY <1>2, OthersKeep DEF IInv
<1> QED BY <1>1, <1>2, <1>3, OneThread

LEMMA OpenStep ==
  ASSUME IInv, NEW t \in Threads, Open(t)
  PROVE  IInv'
<1> DEFINE q == contexts[t]
           c == [start |-> failureSequenceId, last |-> latestSubscribedFailureSequenceId[t],
                 from |-> Len(reports[t])]
           r == Append(q, c)
<1>1. /\ TypeOK /\ Nested(t) /\ RingInOrder(t)
      /\ \A k \in DOMAIN q : Heard(t, k)
      /\ failureSequenceId \in Nat \ {0}
  BY DEF IInv, InOrder, TypeOK
<1>2. /\ contexts' = [contexts EXCEPT ![t] = r]
      /\ known' = known \cup {t}
      /\ latestSubscribedFailureSequenceId' =
           [latestSubscribedFailureSequenceId EXCEPT ![t] = failureSequenceId]
      /\ UNCHANGED <<failureSequenceId, allocated, errors, errorCurrentIndex, token, reports>>
  BY DEF Open
<1>3. q \in Seq(Contexts) /\ Len(q) \in Nat /\ DOMAIN q = 1 .. Len(q) /\ (q # <<>> <=> Len(q) # 0)
  BY <1>1, LastOf DEF TypeOK
<1>4. Len(reports[t]) \in Nat /\ DOMAIN reports[t] = 1 .. Len(reports[t])
  BY <1>1, LastOf DEF TypeOK
<1>5. c \in Contexts
  BY <1>1, <1>4 DEF TypeOK, Contexts
<1> HIDE DEF c
<1>6. /\ r \in Seq(Contexts) /\ Len(r) = Len(q) + 1 /\ DOMAIN r = 1 .. Len(q) + 1
      /\ r # <<>> /\ r[Len(q) + 1] = c
      /\ \A i \in 1 .. Len(q) : r[i] = q[i]
  BY <1>3, <1>5, OneMore
<1> HIDE DEF r
<1>7. contexts'[t] = r /\ \A u \in Threads \ {t} : contexts'[u] = contexts[u]
  BY <1>1, <1>2 DEF TypeOK
<1>8. /\ latestSubscribedFailureSequenceId'[t] = failureSequenceId
      /\ \A u \in Threads \ {t} :
           latestSubscribedFailureSequenceId'[u] = latestSubscribedFailureSequenceId[u]
  BY <1>1, <1>2 DEF TypeOK
<1>9. TypeOK'
  <2>1. contexts' \in [Threads -> Seq(Contexts)]
    BY <1>1, <1>2, <1>6 DEF TypeOK
  <2>2. latestSubscribedFailureSequenceId' \in [Threads -> 0 .. failureSequenceId]
    BY <1>1, <1>2 DEF TypeOK
  <2> QED BY <1>1, <1>2, <2>1, <2>2 DEF TypeOK
<1>10. Nested(t)'
  <2>1. ASSUME NEW k \in 1 .. Len(q)
        PROVE  /\ r[k].start \in 1 .. failureSequenceId
               /\ r[k].from <= Len(reports[t])
               /\ r[k].last = IF k = 1 THEN 0 ELSE r[k - 1].start
               /\ \A j \in 1 .. k : r[j].start <= r[k].start
    <3>1. r[k] = q[k] /\ (k # 1 => r[k - 1] = q[k - 1]) /\ \A j \in 1 .. k : r[j] = q[j]
      BY <1>3, <1>6
    <3> QED BY <1>1, <1>3, <3>1 DEF Nested
  <2>2. /\ c.start = failureSequenceId /\ c.from = Len(reports[t])
        /\ c.last = IF q = <<>> THEN 0 ELSE q[Len(q)].start
    BY <1>1 DEF c, Nested
  <2>3. \A j \in 1 .. Len(q) : r[j].start <= c.start
    BY <1>1, <2>1, <2>2
  <2>4. \A k \in 1 .. Len(q) + 1 :
          /\ r[k].start \in 1 .. failureSequenceId
          /\ r[k].from <= Len(reports[t])
          /\ r[k].last = IF k = 1 THEN 0 ELSE r[k - 1].start
          /\ \A j \in 1 .. k : r[j].start <= r[k].start
    <3> SUFFICES ASSUME NEW k \in 1 .. Len(q) + 1
                 PROVE  /\ r[k].start \in 1 .. failureSequenceId
                        /\ r[k].from <= Len(reports[t])
                        /\ r[k].last = IF k = 1 THEN 0 ELSE r[k - 1].start
                        /\ \A j \in 1 .. k : r[j].start <= r[k].start
      OBVIOUS
    <3>1. CASE k \in 1 .. Len(q)
      BY <2>1, <3>1
    <3>2. CASE k = Len(q) + 1
      <4>1. r[k] = c /\ (k = 1 <=> q = <<>>) /\ (k # 1 => r[k - 1] = q[Len(q)])
        BY <1>3, <1>6, <3>2
      <4>2. \A j \in 1 .. k : j = k \/ j \in 1 .. Len(q)
        BY <1>3, <3>2
      <4> QED BY <1>1, <1>4, <2>2, <2>3, <4>1, <4>2
    <3> QED BY <1>3, <3>1, <3>2
  <2>5. r # <<>> /\ r[Len(r)].start = failureSequenceId
    BY <1>6, <2>2
  <2> HIDE DEF q
  <2> QED BY <1>2, <1>6, <1>7, <1>8, <2>4, <2>5 DEF Nested
<1>11. RingInOrder(t)'
  BY <1>1, <1>2 DEF RingInOrder, Newest, Later, Behind, Kept
<1>12. ASSUME NEW k \in DOMAIN r PROVE Heard(t, k)'
  <2>1. CASE k \in 1 .. Len(q)
    BY <1>1, <1>2, <1>3, <1>6, <1>7, <2>1, StillHeard
  <2>2. CASE k = Len(q) + 1
    <3>1. contexts'[t][k] = c /\ c.start = failureSequenceId /\ c.from = Len(reports[t])
      BY <1>6, <1>7, <2>2 DEF c
    <3>2. Since(t, k)' = {}
      BY <1>2, <1>4, <3>1 DEF Since
    <3>3. \A slot \in Slots : errors'[t][slot].sequenceId \in 0 .. failureSequenceId
      BY <1>1, <1>2 DEF TypeOK
    <3>4. \A slot \in Slots : ~(errors'[t][slot].sequenceId > c.start)
      BY <1>1, <3>1, <3>3
    <3> QED BY <3>1, <3>2, <3>4 DEF Heard
  <2> QED BY <1>3, <1>6, <2>1, <2>2
<1>13. InOrder(t)'
  BY <1>7, <1>10, <1>11, <1>12 DEF InOrder
<1> QED BY <1>1, <1>2, <1>7, <1>8, <1>9, <1>13, OneThread

LEMMA CloseStep ==
  ASSUME IInv, NEW t \in Threads, Close(t)
  PROVE  IInv'
<1> DEFINE q == contexts[t]
           r == SubSeq(q, 1, Len(q) - 1)
<1>1. /\ TypeOK /\ Nested(t) /\ RingInOrder(t)
      /\ \A k \in DOMAIN q : Heard(t, k)
      /\ failureSequenceId \in Nat \ {0}
  BY DEF IInv, InOrder, TypeOK
<1>2. /\ contexts' = [contexts EXCEPT ![t] = r] /\ q # <<>>
      /\ latestSubscribedFailureSequenceId' =
           [latestSubscribedFailureSequenceId EXCEPT ![t] = q[Len(q)].last]
      /\ UNCHANGED <<failureSequenceId, known, allocated, errors, errorCurrentIndex,
                     token, reports>>
  BY <1>1 DEF Close, TypeOK
<1>3. q \in Seq(Contexts) /\ Len(q) \in Nat \ {0} /\ DOMAIN q = 1 .. Len(q)
  BY <1>1, <1>2, LastOf DEF TypeOK
<1>4. /\ r \in Seq(Contexts) /\ Len(r) = Len(q) - 1 /\ DOMAIN r = 1 .. Len(q) - 1
      /\ r # <<>> <=> Len(q) # 1
      /\ \A i \in 1 .. Len(q) - 1 : r[i] = q[i]
  BY <1>2, <1>3, OneLess
<1> HIDE DEF r
<1>5. contexts'[t] = r /\ \A u \in Threads \ {t} : contexts'[u] = contexts[u]
  BY <1>1, <1>2 DEF TypeOK
<1>6. /\ latestSubscribedFailureSequenceId'[t] = q[Len(q)].last
      /\ \A u \in Threads \ {t} :
           latestSubscribedFailureSequenceId'[u] = latestSubscribedFailureSequenceId[u]
  BY <1>1, <1>2 DEF TypeOK
<1>0. \A k \in 1 .. Len(q) :
        /\ q[k].start \in 1 .. failureSequenceId
        /\ q[k].from <= Len(reports[t])
        /\ q[k].last = IF k = 1 THEN 0 ELSE q[k - 1].start
        /\ \A j \in 1 .. k : q[j].start <= q[k].start
  BY <1>1, <1>3 DEF Nested
<1>7. q[Len(q)].last = IF Len(q) = 1 THEN 0 ELSE q[Len(q) - 1].start
  <2> HIDE DEF q
  <2>1. Len(q) \in 1 .. Len(q)
    BY <1>3
  <2> QED BY <1>0, <2>1
<1>8. Len(q) # 1 => q[Len(q) - 1].start \in 1 .. failureSequenceId
  <2> HIDE DEF q
  <2>1. Len(q) # 1 => Len(q) - 1 \in 1 .. Len(q)
    BY <1>3
  <2> QED BY <1>0, <2>1
<1>9. TypeOK'
  <2>1. q[Len(q)].last \in 0 .. failureSequenceId
    BY <1>1, <1>7, <1>8
  <2> QED BY <1>1, <1>2, <1>4, <2>1 DEF TypeOK
<1>10. Nested(t)'
  <2>1. ASSUME NEW k \in 1 .. Len(q) - 1
        PROVE  /\ r[k].start \in 1 .. failureSequenceId
               /\ r[k].from <= Len(reports[t])
               /\ r[k].last = IF k = 1 THEN 0 ELSE r[k - 1].start
               /\ \A j \in 1 .. k : r[j].start <= r[k].start
    <3> HIDE DEF q
    <3>0. Len(q) \in Nat /\ \A i \in 1 .. Len(q) - 1 : r[i] = q[i]
      BY <1>3, <1>4
    <3>1. r[k] = q[k] /\ (k # 1 => r[k - 1] = q[k - 1]) /\ \A j \in 1 .. k : r[j] = q[j]
      <4>1. /\ k \in 1 .. Len(q) - 1 /\ (k # 1 => k - 1 \in 1 .. Len(q) - 1)
            /\ 1 .. k \subseteq 1 .. Len(q) - 1
        BY ONLY <3>0, k \in 1 .. Len(q) - 1
      <4> QED BY ONLY <3>0, <4>1
    <3>2. k \in 1 .. Len(q)
      BY ONLY <3>0, k \in 1 .. Len(q) - 1
    <3>3. /\ q[k].start \in 1 .. failureSequenceId
          /\ q[k].from <= Len(reports[t])
          /\ q[k].last = IF k = 1 THEN 0 ELSE q[k - 1].start
          /\ \A j \in 1 .. k : q[j].start <= q[k].start
      BY ONLY <1>0, <3>2
    <3> QED BY ONLY <3>1, <3>3
  <2>2. q[Len(q)].last = IF r = <<>> THEN 0 ELSE r[Len(r)].start
    BY <1>3, <1>4, <1>7
  <2>3. t \in known
    BY <1>1, <1>2 DEF Nested
  <2> HIDE DEF q
  <2> QED BY <1>2, <1>4, <1>5, <1>6, <2>1, <2>2, <2>3 DEF Nested
<1>11. RingInOrder(t)'
  BY <1>1, <1>2 DEF RingInOrder, Newest, Later, Behind, Kept
<1>12. ASSUME NEW k \in DOMAIN r PROVE Heard(t, k)'
  BY <1>1, <1>2, <1>3, <1>4, <1>5, StillHeard
<1>13. InOrder(t)'
  BY <1>5, <1>10, <1>11, <1>12 DEF InOrder
<1> QED BY <1>1, <1>2, <1>5, <1>6, <1>9, <1>13, OneThread

LEMMA ReuseStep ==
  ASSUME IInv, NEW t \in Threads, ThreadIdReused(t)
  PROVE  IInv'
<1>1. TypeOK /\ InOrder(t) /\ failureSequenceId \in Nat \ {0}
  BY DEF IInv, TypeOK
<1>2. /\ contexts'[t] = <<>> /\ reports'[t] = <<>>
      /\ \A u \in Threads \ {t} : reports'[u] = reports[u]
      /\ UNCHANGED <<failureSequenceId, known, allocated, errors, errorCurrentIndex,
                     latestSubscribedFailureSequenceId, contexts>>
  BY <1>1 DEF ThreadIdReused, TypeOK
<1>3. TypeOK'
  <2>1. <<>> \in Seq(Reports)
    BY EmptySeq
  <2> QED BY <1>1, <2>1 DEF ThreadIdReused, TypeOK
<1>4. Nested(t)'
  BY <1>1, <1>2 DEF InOrder, Nested
<1>5. RingInOrder(t)'
  BY <1>1, <1>2 DEF InOrder, RingInOrder, Newest
<1>6. InOrder(t)'
  BY <1>2, <1>4, <1>5 DEF InOrder
<1> QED BY <1>1, <1>2, <1>3, <1>6, OneThread

\* The errors that were recorded after one are finitely many.
LEMMA LaterIsFinite ==
  ASSUME TypeOK, NEW t \in Threads, NEW i
  PROVE  /\ Later(t, i) \subseteq 1 .. Len(reports[t])
         /\ IsFiniteSet(Later(t, i)) /\ Cardinality(Later(t, i)) \in Nat
<1>1. Len(reports[t]) \in Nat /\ DOMAIN reports[t] = 1 .. Len(reports[t])
  BY LastOf DEF TypeOK
<1>2. Later(t, i) \subseteq 1 .. Len(reports[t])
  BY <1>1 DEF Later
<1>3. IsFiniteSet(1 .. Len(reports[t]))
  BY <1>1, FS_Interval
<1> QED BY <1>2, <1>3, FS_Subset, FS_CardinalityType

\* What a report adds to a thread's reports.
LEMMA ReportAdded ==
  ASSUME TypeOK, NEW t \in Threads, NEW rep \in Reports,
         reports' = [reports EXCEPT ![t] = Append(@, rep)]
  PROVE  /\ Len(reports[t]) \in Nat /\ DOMAIN reports[t] = 1 .. Len(reports[t])
         /\ reports' \in [Threads -> Seq(Reports)]
         /\ Len(reports'[t]) = Len(reports[t]) + 1
         /\ DOMAIN reports'[t] = 1 .. Len(reports[t]) + 1
         /\ reports'[t][Len(reports[t]) + 1] = rep
         /\ \A i \in 1 .. Len(reports[t]) : reports'[t][i] = reports[t][i]
         /\ \A u \in Threads \ {t} : reports'[u] = reports[u]
<1> DEFINE a == reports[t]
           b == Append(a, rep)
<1>1. a \in Seq(Reports)
  BY DEF TypeOK
<1>2. reports' = [reports EXCEPT ![t] = b]
  BY DEF TypeOK
<1>3. Len(a) \in Nat /\ DOMAIN a = 1 .. Len(a)
  <2> HIDE DEF a
  <2> QED BY <1>1, LastOf
<1>4. /\ b \in Seq(Reports) /\ Len(b) = Len(a) + 1 /\ DOMAIN b = 1 .. Len(a) + 1
      /\ b[Len(a) + 1] = rep /\ \A i \in 1 .. Len(a) : b[i] = a[i]
  <2> HIDE DEF a
  <2> QED BY <1>1, OneMore
<1> HIDE DEF b
<1>5. reports'[t] = b /\ \A u \in Threads \ {t} : reports'[u] = reports[u]
  BY <1>2 DEF TypeOK
<1>6. reports' \in [Threads -> Seq(Reports)]
  BY <1>2, <1>4 DEF TypeOK
<1> QED BY <1>3, <1>4, <1>5, <1>6

\* A report that is recorded, as the next error of the thread.
LEMMA RecordedInOrder ==
  ASSUME TypeOK, NEW t \in Threads, RingInOrder(t), NEW hr \in Codes,
         Record(t, hr),
         NEW rep \in Reports, rep.hr = hr, rep.id = failureSequenceId',
         reports' = [reports EXCEPT ![t] = Append(@, rep)]
  PROVE  RingInOrder(t)'
<1> DEFINE a == reports[t]
           n == Len(a)
           b == reports'[t]
           cur == errorCurrentIndex[t]
           next == IF cur = ErrorCount - 1 THEN 0 ELSE cur + 1
           new == [sequenceId |-> failureSequenceId + 1, hr |-> hr]
<1>1. /\ failureSequenceId \in Nat /\ failureSequenceId' = failureSequenceId + 1
      /\ cur \in Slots /\ next \in Slots /\ ErrorCount \in Nat \ {0}
  <2>1. cur \in Slots /\ ErrorCount \in Nat \ {0} /\ failureSequenceId \in Nat
    BY ErrorCountAssumption DEF TypeOK
  <2>2. failureSequenceId' = failureSequenceId + 1
    BY DEF Record
  <2> HIDE DEF cur
  <2>3. next \in Slots
    BY <2>1 DEF Slots
  <2> QED BY <2>1, <2>2, <2>3
<1>2. /\ errorCurrentIndex' = [errorCurrentIndex EXCEPT ![t] = next]
      /\ errors' = [errors EXCEPT ![t][next] = new]
  BY <1>1, NextSlot DEF Record
<1> HIDE DEF next, new
<1>3. /\ errorCurrentIndex'[t] = next
      /\ \A slot \in Slots : errors'[t][slot] = IF slot = next THEN new ELSE errors[t][slot]
  BY <1>1, <1>2 DEF TypeOK
<1>4. /\ a \in Seq(Reports) /\ n \in Nat /\ DOMAIN a = 1 .. n
      /\ \A i \in 1 .. n : a[i].id \in 0 .. failureSequenceId
  <2>1. a \in Seq(Reports) /\ \A i \in DOMAIN a : a[i].id <= failureSequenceId
    BY DEF TypeOK, RingInOrder
  <2> HIDE DEF a
  <2>2. n \in Nat /\ DOMAIN a = 1 .. n /\ \A i \in 1 .. n : a[i] \in Reports
    BY <2>1, LastOf
  <2>3. \A i \in 1 .. n : a[i].id \in Nat
    BY <2>2 DEF Reports
  <2> QED BY <1>1, <2>1, <2>2, <2>3
<1>5. /\ DOMAIN b = 1 .. n + 1 /\ b[n + 1] = rep
      /\ \A i \in 1 .. n : b[i] = a[i]
  BY ReportAdded
<1>6. reports'[t] = b
  OBVIOUS
<1>7. rep.id = failureSequenceId + 1 /\ rep.hr = hr
  BY <1>1
<1>8. new.sequenceId = failureSequenceId + 1 /\ new.hr = hr
  BY DEF new
<1> HIDE DEF b, a
<1>9. \A slot \in Slots : errors[t][slot].sequenceId \in 0 .. failureSequenceId
  BY DEF TypeOK
<1>10. \A slot \in Slots : errors'[t][slot].sequenceId <= Newest(t)'.sequenceId
  BY <1>1, <1>3, <1>8, <1>9 DEF Newest
<1>13. \A i \in 1 .. n + 1 : b[i].id <= failureSequenceId'
  BY <1>1, <1>4, <1>5, <1>7
<1>11. ASSUME NEW i \in 1 .. n + 1, NEW j \in 1 .. n + 1, i < j, b[j].id # 0
       PROVE  b[i].id < b[j].id
  <2>1. i \in 1 .. n
    BY <1>4, <1>11
  <2>2. CASE j \in 1 .. n
    BY <1>4, <1>5, <1>11, <2>1, <2>2 DEF RingInOrder, a
  <2>3. CASE j = n + 1
    <3>1. b[j].id = failureSequenceId + 1 /\ b[i].id = a[i].id
      BY <1>5, <1>7, <2>1, <2>3
    <3>2. a[i].id \in 0 .. failureSequenceId
      BY <1>4, <2>1
    <3> QED BY <1>1, <3>1, <3>2
  <2> QED BY <1>4, <2>2, <2>3
<1>12. ASSUME NEW i \in 1 .. n + 1, b[i].id # 0, Cardinality(Later(t, i)') < ErrorCount
       PROVE  Kept(t, Behind(t, Cardinality(Later(t, i))), i)'
  <2>1. CASE i = n + 1
    <3>1. Later(t, i)' = {}
      BY <1>4, <1>5, <1>6, <2>1 DEF Later
    <3>2. Cardinality(Later(t, i)') = 0
      BY <3>1, FS_EmptySet
    <3>3. Behind(t, Cardinality(Later(t, i)))' = next
      BY <1>1, <1>3, <3>2 DEF Behind, Slots
    <3>4. b[i].id = failureSequenceId + 1 /\ b[i].hr = hr
      BY <1>5, <1>7, <2>1
    <3>5. errors'[t][next] = [sequenceId |-> b[i].id, hr |-> b[i].hr]
      BY <1>1, <1>3, <3>4 DEF new
    <3> QED BY <1>6, <3>3, <3>5 DEF Kept
  <2>2. CASE i \in 1 .. n
    <3> DEFINE m == Cardinality(Later(t, i))
    <3>1. Later(t, i)' = Later(t, i) \cup {n + 1}
      <4>1. \A j \in 1 .. n + 1 : j \in 1 .. n \/ j = n + 1
        BY <1>4
      <4>2. n + 1 > i /\ b[n + 1].id # 0
        BY <1>1, <1>4, <1>5, <1>7, <2>2
      <4>3. 1 .. n \subseteq 1 .. n + 1 /\ n + 1 \in 1 .. n + 1
        BY <1>4
      <4> QED BY <1>4, <1>5, <1>6, <4>1, <4>2, <4>3 DEF Later, a
    <3>2. n + 1 \notin Later(t, i) /\ IsFiniteSet(Later(t, i)) /\ m \in Nat
      BY <1>4, LaterIsFinite DEF a
    <3>3. Cardinality(Later(t, i)') = m + 1
      BY <3>1, <3>2, FS_AddElement
    <3> HIDE DEF m
    <3>4. m + 1 < ErrorCount
      BY <1>12, <3>3
    <3>5. Kept(t, Behind(t, m), i)
      <4>1. m < ErrorCount
        BY <1>1, <3>2, <3>4
      <4>2. i \in DOMAIN reports[t] /\ reports[t][i].id # 0
        BY <1>4, <1>5, <1>12, <2>2 DEF a
      <4> QED BY <4>1, <4>2 DEF RingInOrder, m
    <3>6. Behind(t, m) \in Slots \ {next}
      <4>1. Behind(t, m) = IF m <= cur THEN cur - m ELSE cur - m + ErrorCount
        BY DEF Behind
      <4> HIDE DEF cur
      <4> QED BY <1>1, <3>2, <3>4, <4>1 DEF Slots, next
    <3>7. Behind(t, Cardinality(Later(t, i)))' = Behind(t, m)
      <4>1. Behind(t, Cardinality(Later(t, i)))'
              = IF m + 1 <= next THEN next - (m + 1) ELSE next - (m + 1) + ErrorCount
        BY <1>3, <3>3 DEF Behind
      <4>2. Behind(t, m) = IF m <= cur THEN cur - m ELSE cur - m + ErrorCount
        BY DEF Behind
      <4> HIDE DEF cur
      <4> QED BY <1>1, <3>2, <3>4, <4>1, <4>2 DEF Slots, next
    <3>8. errors'[t][Behind(t, m)] = errors[t][Behind(t, m)] /\ b[i] = a[i]
      BY <1>3, <1>5, <2>2, <3>6
    <3> QED BY <1>6, <3>5, <3>7, <3>8 DEF Kept, a
  <2> QED BY <1>4, <2>1, <2>2
<1> QED BY <1>5, <1>6, <1>10, <1>11, <1>12, <1>13 DEF RingInOrder

\* A report that is not recorded changes nothing of the ring.
LEMMA UnrecordedInOrder ==
  ASSUME TypeOK, NEW t \in Threads, RingInOrder(t),
         UNCHANGED <<failureSequenceId, errors, errorCurrentIndex>>,
         NEW rep \in Reports, rep.id = 0,
         reports' = [reports EXCEPT ![t] = Append(@, rep)]
  PROVE  RingInOrder(t)'
<1> DEFINE a == reports[t]
           n == Len(a)
           b == reports'[t]
<1>1. a \in Seq(Reports) /\ n \in Nat /\ DOMAIN a = 1 .. n
  <2>1. a \in Seq(Reports)
    BY DEF TypeOK
  <2> HIDE DEF a
  <2> QED BY <2>1, LastOf
<1>2. /\ DOMAIN b = 1 .. n + 1 /\ b[n + 1] = rep
      /\ \A i \in 1 .. n : b[i] = a[i]
  BY ReportAdded
<1>3. reports'[t] = b /\ rep.id = 0 /\ failureSequenceId \in Nat
  BY DEF TypeOK
<1> HIDE DEF a, b
<1>4. \A i \in 1 .. n + 1 : i \in 1 .. n \/ i = n + 1
  BY <1>1
<1>5. \A i \in 1 .. n + 1 : b[i].id # 0 => i \in 1 .. n
  BY <1>2, <1>3, <1>4
<1>6. \A i \in 1 .. n + 1 : b[i].id <= failureSequenceId
  BY <1>1, <1>2, <1>3, <1>4 DEF RingInOrder, a
<1>7. ASSUME NEW i \in 1 .. n + 1, NEW j \in 1 .. n + 1, i < j, b[j].id # 0
      PROVE  b[i].id < b[j].id
  <2>1. j \in 1 .. n
    BY <1>5, <1>7
  <2>2. i \in 1 .. n
    BY <1>1, <1>7, <2>1
  <2> QED BY <1>1, <1>2, <1>7, <2>1, <2>2 DEF RingInOrder, a
<1>8. ASSUME NEW i \in 1 .. n + 1, b[i].id # 0, Cardinality(Later(t, i)') < ErrorCount
      PROVE  Kept(t, Behind(t, Cardinality(Later(t, i))), i)'
  <2>1. i \in 1 .. n /\ b[i] = a[i]
    BY <1>2, <1>5, <1>8
  <2>2. Later(t, i)' = Later(t, i)
    <3>1. \A j : j \in Later(t, i)' <=> j \in 1 .. n + 1 /\ j > i /\ b[j].id # 0
      BY <1>2, <1>3 DEF Later
    <3>2. \A j : j \in Later(t, i) <=> j \in 1 .. n /\ j > i /\ a[j].id # 0
      BY <1>1 DEF Later, a
    <3>3. 1 .. n \subseteq 1 .. n + 1
      BY <1>1
    <3> QED BY <1>2, <1>5, <3>1, <3>2, <3>3
  <2>3. Kept(t, Behind(t, Cardinality(Later(t, i))), i)
    BY <1>1, <1>8, <2>1, <2>2 DEF RingInOrder, a
  <2> QED BY <1>3, <2>1, <2>2, <2>3 DEF Kept, Behind, a
<1> QED BY <1>2, <1>3, <1>6, <1>7, <1>8 DEF RingInOrder, Newest

\* What a context has heard is not lost with a later report.
LEMMA HeardBefore ==
  ASSUME TypeOK, NEW t \in Threads, NEW k \in DOMAIN contexts[t], Nested(t), Heard(t, k),
         NEW rep \in Reports,
         contexts' = contexts,
         reports' = [reports EXCEPT ![t] = Append(@, rep)]
  PROVE  LET context == contexts[t][k]
             last == Len(reports[t]) + 1 IN
         /\ Since(t, k)' = Since(t, k) \cup {last}
         /\ reports'[t][last] = rep
         /\ \A i \in Since(t, k) : i < last /\ reports'[t][i] = reports[t][i]
         /\ \A i \in Since(t, k) :
              IF reports'[t][i].id # 0 THEN context.start < reports'[t][i].id
              ELSE \E j \in Recorded(t, k)' :
                     j < i /\ reports'[t][j].hr = reports'[t][i].hr
<1>0. /\ Len(reports[t]) \in Nat /\ DOMAIN reports[t] = 1 .. Len(reports[t])
      /\ DOMAIN reports'[t] = 1 .. Len(reports[t]) + 1
      /\ reports'[t][Len(reports[t]) + 1] = rep
      /\ \A i \in 1 .. Len(reports[t]) : reports'[t][i] = reports[t][i]
  BY ReportAdded
<1> DEFINE n == Len(reports[t])
           c == contexts[t][k]
<1>1. /\ n \in Nat /\ DOMAIN reports[t] = 1 .. n
      /\ DOMAIN reports'[t] = 1 .. n + 1
      /\ reports'[t][n + 1] = rep
      /\ \A i \in 1 .. n : reports'[t][i] = reports[t][i]
  BY <1>0
<1>2. c.from <= n /\ c.from \in Nat
  <2>1. contexts[t] \in Seq(Contexts)
    BY DEF TypeOK
  <2>2. c \in Contexts
    BY <2>1, LastOf
  <2> QED BY <2>2 DEF Nested, Contexts
<1>3. /\ Since(t, k)' = {i \in 1 .. n + 1 : i > c.from}
      /\ Since(t, k) = {i \in 1 .. n : i > c.from}
  BY <1>1 DEF Since
<1>4. Since(t, k)' = Since(t, k) \cup {n + 1}
  <2> HIDE DEF c, n
  <2>1. \A i \in 1 .. n + 1 : i \in 1 .. n \/ i = n + 1
    BY <1>1
  <2>2. n + 1 > c.from /\ n + 1 \in 1 .. n + 1 /\ 1 .. n \subseteq 1 .. n + 1
    BY <1>1, <1>2
  <2> QED BY <1>3, <2>1, <2>2 DEF c
<1>5. \A i \in Since(t, k) : i < n + 1 /\ reports'[t][i] = reports[t][i]
  BY <1>1, <1>3
<1>6. Recorded(t, k) \subseteq Recorded(t, k)'
  BY <1>4, <1>5 DEF Recorded
<1>7. \A i \in Since(t, k) :
        IF reports'[t][i].id # 0 THEN c.start < reports'[t][i].id
        ELSE \E j \in Recorded(t, k)' :
               j < i /\ reports'[t][j].hr = reports'[t][i].hr
  <2>1. \A i \in Since(t, k) :
          IF reports[t][i].id # 0 THEN c.start < reports[t][i].id
          ELSE \E j \in Recorded(t, k) : j < i /\ reports[t][j].hr = reports[t][i].hr
    BY DEF Heard
  <2>2. Recorded(t, k) \subseteq Since(t, k)
    BY DEF Recorded
  <2> HIDE DEF c
  <2> QED BY <1>5, <1>6, <2>1, <2>2
<1> QED BY <1>1, <1>4, <1>5, <1>7

\* A report that is recorded.
LEMMA RecordedHeard ==
  ASSUME TypeOK, NEW t \in Threads, NEW k \in DOMAIN contexts[t], Nested(t), Heard(t, k),
         NEW hr \in Codes, Record(t, hr), t \in allocated',
         contexts' = contexts,
         NEW rep \in Reports, rep.hr = hr, rep.id = failureSequenceId',
         reports' = [reports EXCEPT ![t] = Append(@, rep)]
  PROVE  Heard(t, k)'
<1> DEFINE c == contexts[t][k]
           last == Len(reports[t]) + 1
           cur == errorCurrentIndex[t]
           next == (cur + 1) % ErrorCount
           new == [sequenceId |-> failureSequenceId + 1, hr |-> hr]
<1>1. /\ failureSequenceId \in Nat /\ failureSequenceId' = failureSequenceId + 1
      /\ c.start \in 1 .. failureSequenceId
  BY DEF TypeOK, Record, Nested
<1>2. next \in Slots
  <2>1. cur \in Slots
    BY DEF TypeOK
  <2> HIDE DEF cur
  <2>2. next = IF cur = ErrorCount - 1 THEN 0 ELSE cur + 1
    BY <2>1, NextSlot
  <2> QED BY <2>1, <2>2, ErrorCountAssumption DEF Slots
<1>3. /\ errorCurrentIndex' = [errorCurrentIndex EXCEPT ![t] = next]
      /\ errors' = [errors EXCEPT ![t][next] = new]
  BY <1>1 DEF Record
<1> HIDE DEF next, new, c
<1>4. /\ errorCurrentIndex'[t] = next
      /\ \A slot \in Slots : errors'[t][slot] = IF slot = next THEN new ELSE errors[t][slot]
  BY <1>2, <1>3 DEF TypeOK
<1>5. /\ Since(t, k)' = Since(t, k) \cup {last}
      /\ reports'[t][last] = rep
      /\ \A i \in Since(t, k) : i < last /\ reports'[t][i] = reports[t][i]
      /\ \A i \in Since(t, k) :
           IF reports'[t][i].id # 0 THEN c.start < reports'[t][i].id
           ELSE \E j \in Recorded(t, k)' :
                  j < i /\ reports'[t][j].hr = reports'[t][i].hr
  BY HeardBefore DEF c
<1> HIDE DEF last
<1>6. Newest(t)'.sequenceId > c.start
  BY <1>1, <1>2, <1>4 DEF Newest, new
<1>7. \A i \in Since(t, k)' :
        IF reports'[t][i].id # 0 THEN c.start < reports'[t][i].id
        ELSE \E j \in Recorded(t, k)' :
               j < i /\ reports'[t][j].hr = reports'[t][i].hr
  <2>1. reports'[t][last].id # 0 /\ c.start < reports'[t][last].id
    <3>1. reports'[t][last].id = failureSequenceId + 1
      BY <1>1, <1>5
    <3>2. c.start < failureSequenceId + 1
      BY <1>1
    <3>3. reports'[t][last].id # 0
      <4>1. failureSequenceId \in Nat
        BY <1>1
      <4>2. failureSequenceId + 1 # 0
        BY ONLY <4>1
      <4> QED BY ONLY <3>1, <4>2
    <3> QED BY <3>1, <3>2, <3>3
  <2> QED BY Zenon, <1>5, <2>1
<1>8. ASSUME NEW slot \in Slots, errors'[t][slot].sequenceId > c.start
      PROVE  \E i \in Since(t, k)' : Kept(t, slot, i)'
  <2>1. CASE slot = next
    <3>1. errors'[t][slot] = [sequenceId |-> reports'[t][last].id, hr |-> reports'[t][last].hr]
      <4>1. reports'[t][last].id = failureSequenceId + 1 /\ reports'[t][last].hr = hr
        BY <1>1, <1>5
      <4> QED BY <1>4, <2>1, <4>1 DEF new
    <3>2. last \in Since(t, k)'
      BY <1>5
    <3> QED BY <3>1, <3>2 DEF Kept
  <2>2. CASE slot # next
    <3>1. PICK i \in Since(t, k) : Kept(t, slot, i)
      BY <1>4, <1>8, <2>2 DEF Heard, c
    <3>2. Kept(t, slot, i)'
      BY <1>4, <1>5, <2>2, <3>1 DEF Kept
    <3> QED BY <1>5, <3>1, <3>2
  <2> QED BY <2>1, <2>2
<1>9. contexts'[t][k] = c
  BY DEF c
<1> QED BY <1>6, <1>7, <1>8, <1>9 DEF Heard

\* A report that is not, because its code was seen since the innermost context.
LEMMA UnrecordedHeard ==
  ASSUME TypeOK, NEW t \in Threads, NEW k \in DOMAIN contexts[t], InOrder(t), Heard(t, k),
         NEW hr \in Codes, Seen(t, hr), t \in allocated',
         UNCHANGED <<errors, errorCurrentIndex, contexts>>,
         NEW rep \in Reports, rep.hr = hr, rep.id = 0,
         reports' = [reports EXCEPT ![t] = Append(@, rep)]
  PROVE  Heard(t, k)'
<1> DEFINE c == contexts[t][k]
           last == Len(reports[t]) + 1
<1>1. PICK seen \in Slots :
        /\ errors[t][seen].sequenceId > latestSubscribedFailureSequenceId[t]
        /\ errors[t][seen].hr = hr
  BY DEF Seen
<1>2. /\ errors[t][seen].sequenceId \in Nat /\ Newest(t).sequenceId \in Nat
      /\ errors[t][seen].sequenceId <= Newest(t).sequenceId
  BY DEF TypeOK, Newest, InOrder, RingInOrder
<1>3. c.start \in Nat /\ c.start < errors[t][seen].sequenceId
  <2>1. contexts[t] \in Seq(Contexts)
    BY DEF TypeOK
  <2>2. Len(contexts[t]) \in Nat \ {0} /\ DOMAIN contexts[t] = 1 .. Len(contexts[t])
    BY <2>1, LastOf
  <2>3. Len(contexts[t]) \in DOMAIN contexts[t] /\ k \in 1 .. Len(contexts[t])
    BY <2>2
  <2>4. /\ latestSubscribedFailureSequenceId[t] = contexts[t][Len(contexts[t])].start
        /\ c.start <= contexts[t][Len(contexts[t])].start
        /\ c.start \in Nat /\ contexts[t][Len(contexts[t])].start \in Nat
    <3>1. \A i \in DOMAIN contexts[t] : contexts[t][i].start \in Nat
      <4>1. \A i \in DOMAIN contexts[t] : contexts[t][i] \in Contexts
        BY <2>1, LastOf
      <4> QED BY <4>1 DEF Contexts
    <3>2. contexts[t] # <<>>
      BY <2>1, <2>2, LastOf
    <3>3. c.start <= contexts[t][Len(contexts[t])].start
      BY <2>3 DEF InOrder, Nested
    <3> QED BY <2>3, <3>1, <3>2, <3>3 DEF InOrder, Nested
  <2> HIDE DEF c
  <2> QED BY <1>1, <1>2, <2>4
<1>4. /\ Since(t, k)' = Since(t, k) \cup {last}
      /\ reports'[t][last] = rep
      /\ \A i \in Since(t, k) : i < last /\ reports'[t][i] = reports[t][i]
      /\ \A i \in Since(t, k) :
           IF reports'[t][i].id # 0 THEN c.start < reports'[t][i].id
           ELSE \E j \in Recorded(t, k)' :
                  j < i /\ reports'[t][j].hr = reports'[t][i].hr
  BY HeardBefore DEF InOrder
<1> HIDE DEF c, last
<1>5. \A slot \in Slots : errors[t][slot].sequenceId > c.start
        => \E i \in Since(t, k) : Kept(t, slot, i)
  BY DEF Heard, c
<1>6. PICK first \in Since(t, k) : Kept(t, seen, first)
  BY <1>2, <1>3, <1>5
<1>7. first \in Recorded(t, k)' /\ first < last /\ reports'[t][first].hr = hr
  <2>1. /\ errors[t][seen].sequenceId = reports[t][first].id
        /\ errors[t][seen].hr = reports[t][first].hr
    BY <1>6 DEF Kept
  <2>2. reports'[t][first] = reports[t][first] /\ first < last /\ first \in Since(t, k)'
    BY <1>4
  <2>3. reports[t][first].id # 0 /\ reports[t][first].hr = hr
    BY <1>1, <1>2, <1>3, <2>1
  <2> QED BY <2>2, <2>3 DEF Recorded
<1>8. \A i \in Since(t, k)' :
        IF reports'[t][i].id # 0 THEN c.start < reports'[t][i].id
        ELSE \E j \in Recorded(t, k)' :
               j < i /\ reports'[t][j].hr = reports'[t][i].hr
  <2>1. reports'[t][last].id = 0 /\ reports'[t][last].hr = hr
    BY <1>4
  <2> QED BY <1>4, <1>7, <2>1
<1>9. \A slot \in Slots : errors'[t][slot].sequenceId > c.start
        => \E i \in Since(t, k)' : Kept(t, slot, i)'
  <2> SUFFICES ASSUME NEW slot \in Slots, errors[t][slot].sequenceId > c.start
               PROVE  \E i \in Since(t, k)' : Kept(t, slot, i)'
    OBVIOUS
  <2>1. PICK i \in Since(t, k) : Kept(t, slot, i)
    BY <1>5
  <2>2. reports'[t][i] = reports[t][i] /\ i \in Since(t, k)'
    BY <1>4, <2>1
  <2>3. Kept(t, slot, i)'
    BY <2>1, <2>2 DEF Kept
  <2> QED BY <2>2, <2>3
<1>10. c.start < Newest(t)'.sequenceId
  BY <1>2, <1>3 DEF Newest
<1>11. contexts'[t][k] = c
  BY DEF c
<1> QED BY <1>8, <1>9, <1>10, <1>11 DEF Heard

\* A report, with or without that its thread's data is created in the same step.
LEMMA ReportStep ==
  ASSUME IInv, NEW t \in Threads, NEW hr \in Codes, Report(t, hr),
         known' \in {known, known \cup {t}}
  PROVE  IInv'
<1> DEFINE recorded == t \in allocated' /\ ~Seen(t, hr)
           rep == [hr |-> hr, id |-> IF recorded THEN failureSequenceId' ELSE 0]
<1>1. /\ TypeOK /\ InOrder(t) /\ Nested(t) /\ RingInOrder(t)
      /\ \A k \in DOMAIN contexts[t] : Heard(t, k)
      /\ failureSequenceId \in Nat \ {0}
  BY DEF IInv, InOrder, TypeOK
<1>2. /\ allocated' = IF t \in known /\ Listening(t) THEN allocated \cup {t} ELSE allocated
      /\ IF recorded THEN Record(t, hr)
         ELSE UNCHANGED <<failureSequenceId, errors, errorCurrentIndex>>
      /\ reports' = [reports EXCEPT ![t] = Append(@, rep)]
      /\ UNCHANGED <<latestSubscribedFailureSequenceId, contexts, token>>
  BY DEF Report
<1> HIDE DEF recorded
<1>3. /\ recorded => failureSequenceId' = failureSequenceId + 1
      /\ ~recorded => failureSequenceId' = failureSequenceId
  BY <1>2 DEF Record
<1>4. /\ rep \in Reports /\ rep.hr = hr
      /\ recorded => rep.id = failureSequenceId'
      /\ ~recorded => rep.id = 0
  BY <1>1, <1>3 DEF Reports
<1> HIDE DEF rep
<1>5. /\ DOMAIN reports[t] = 1 .. Len(reports[t]) /\ Len(reports[t]) \in Nat
      /\ reports' \in [Threads -> Seq(Reports)]
      /\ Len(reports'[t]) = Len(reports[t]) + 1
      /\ \A u \in Threads \ {t} : reports'[u] = reports[u]
  BY <1>1, <1>2, <1>4, ReportAdded
<1>6. failureSequenceId' \in Nat \ {0} /\ failureSequenceId <= failureSequenceId'
  BY <1>1, <1>3
<1>7. /\ errors' \in [Threads -> [Slots -> [sequenceId : 0 .. failureSequenceId',
                                          hr : Codes \cup {Any}]]]
      /\ errorCurrentIndex' \in [Threads -> Slots]
      /\ \A u \in Threads \ {t} :
           errors'[u] = errors[u] /\ errorCurrentIndex'[u] = errorCurrentIndex[u]
  <2>1. CASE recorded
    <3> DEFINE next == (errorCurrentIndex[t] + 1) % ErrorCount
               new == [sequenceId |-> failureSequenceId', hr |-> hr]
    <3>1. next \in Slots
      <4>1. errorCurrentIndex[t] \in Slots
        BY <1>1 DEF TypeOK
      <4> QED BY <4>1, NextSlot, ErrorCountAssumption DEF Slots
    <3>2. /\ errorCurrentIndex' = [errorCurrentIndex EXCEPT ![t] = next]
          /\ errors' = [errors EXCEPT ![t][next] = new]
      BY <1>2, <2>1 DEF Record
    <3>3. new \in [sequenceId : 0 .. failureSequenceId', hr : Codes \cup {Any}]
      BY <1>6
    <3>4. errors \in [Threads -> [Slots -> [sequenceId : 0 .. failureSequenceId',
                                          hr : Codes \cup {Any}]]]
      <4>1. 0 .. failureSequenceId \subseteq 0 .. failureSequenceId'
        BY <1>1, <1>6
      <4>2. errors \in [Threads -> [Slots -> [sequenceId : 0 .. failureSequenceId,
                                            hr : Codes \cup {Any}]]]
        BY <1>1 DEF TypeOK
      <4> QED BY ONLY <4>1, <4>2
    <3> HIDE DEF next, new
    <3> QED BY <1>1, <3>1, <3>2, <3>3, <3>4 DEF TypeOK
  <2>2. CASE ~recorded
    BY <1>1, <1>2, <1>3, <2>2 DEF TypeOK
  <2> QED BY <2>1, <2>2
<1>8. TypeOK'
  <2>1. latestSubscribedFailureSequenceId' \in [Threads -> 0 .. failureSequenceId']
    BY <1>1, <1>2, <1>6 DEF TypeOK
  <2>2. allocated' \subseteq known' /\ known' \subseteq Threads
    BY <1>1, <1>2 DEF TypeOK
  <2> QED BY <1>1, <1>2, <1>5, <1>6, <1>7, <2>1, <2>2 DEF TypeOK
<1>9. Nested(t)'
  <2>1. \A k \in DOMAIN contexts[t] :
          /\ contexts[t][k].start \in 1 .. failureSequenceId'
          /\ contexts[t][k].from <= Len(reports[t])
    BY <1>1, <1>6 DEF Nested
  <2>2. \A k \in DOMAIN contexts[t] : contexts[t][k].from \in Nat
    <3>1. contexts[t] \in Seq(Contexts)
      BY <1>1 DEF TypeOK
    <3>2. \A k \in DOMAIN contexts[t] : contexts[t][k] \in Contexts
      BY <3>1, LastOf
    <3> QED BY <3>2 DEF Contexts
  <2>3. \A k \in DOMAIN contexts[t] : contexts[t][k].from <= Len(reports'[t])
    BY <1>5, <2>1, <2>2
  <2> QED BY <1>1, <1>2, <2>1, <2>3 DEF Nested
<1>10. RingInOrder(t)'
  <2>1. CASE recorded
    BY <1>1, <1>2, <1>4, <2>1, RecordedInOrder
  <2>2. CASE ~recorded
    BY <1>1, <1>2, <1>4, <2>2, UnrecordedInOrder
  <2> QED BY <2>1, <2>2
<1>11. ASSUME NEW k \in DOMAIN contexts[t] PROVE Heard(t, k)'
  <2>1. CASE recorded
    <3>1. t \in allocated'
      BY <2>1 DEF recorded
    <3> QED BY <1>1, <1>2, <1>4, <2>1, <3>1, RecordedHeard
  <2>2. CASE ~recorded
    <3>1. t \in known /\ Listening(t)
      <4>1. contexts[t] \in Seq(Contexts)
        BY <1>1 DEF TypeOK
      <4>2. contexts[t] # <<>> /\ Len(contexts[t]) \in DOMAIN contexts[t]
        BY <4>1, LastOf
      <4>3. contexts[t][Len(contexts[t])].start \in 1 .. failureSequenceId
        BY <1>1, <4>2 DEF Nested
      <4> QED BY <1>1, <4>2, <4>3 DEF Nested, Listening
    <3>2. t \in allocated'
      BY <1>2, <3>1
    <3>3. Seen(t, hr)
      BY <2>2, <3>2 DEF recorded
    <3> QED BY <1>1, <1>2, <1>4, <2>2, <3>2, <3>3, UnrecordedHeard
  <2> QED BY <2>1, <2>2
<1>12. InOrder(t)'
  BY <1>2, <1>9, <1>10, <1>11 DEF InOrder
<1> QED BY <1>2, <1>5, <1>6, <1>7, <1>8, <1>12, OneThread

LEMMA ErrorsStep == IInv /\ [Next]_vars => IInv'
<1> SUFFICES ASSUME IInv, [Next]_vars PROVE IInv'
  OBVIOUS
<1>1. ASSUME NEW t \in Threads, GetCurrentErrorSequenceId(t) PROVE IInv'
  BY <1>1, TokenStep
<1>2. ASSUME NEW t \in Threads, Open(t) PROVE IInv'
  BY <1>2, OpenStep
<1>3. ASSUME NEW t \in Threads, Close(t) PROVE IInv'
  BY <1>3, CloseStep
<1>4. ASSUME NEW t \in Threads, NEW hr \in Codes, SetLastError(t, hr) PROVE IInv'
  BY <1>4, ReportStep DEF SetLastError
<1>5. ASSUME NEW t \in Threads, NEW hr \in Codes, NEW point \in Points(t),
             NEW match \in Codes \cup {Any}, GetCaughtExceptionError(t, point, match, hr)
      PROVE  IInv'
  BY <1>5, ReportStep DEF GetCaughtExceptionError
<1>6. ASSUME NEW t \in Threads, ThreadIdReused(t) PROVE IInv'
  BY <1>6, ReuseStep
<1>7. CASE UNCHANGED vars
  <2>1. TypeOK'
    BY <1>7 DEF vars, IInv, TypeOK
  <2>2. failureSequenceId \in Nat
    BY DEF IInv, TypeOK
  <2>3. \A t \in Threads : InOrder(t)'
    BY <1>7, <2>2, OthersKeep DEF vars, IInv
  <2> QED BY <2>1, <2>3 DEF IInv
<1> QED BY <1>1, <1>2, <1>3, <1>4, <1>5, <1>6, <1>7 DEF Next

LEMMA OrderedRing == IInv => NewestIsCurrent
BY DEF IInv, InOrder, RingInOrder, NewestIsCurrent

LEMMA HeardIsFound == IInv => ContextFindsError
<1> SUFFICES ASSUME IInv, NEW t \in Threads, NEW k \in DOMAIN contexts[t], Since(t, k) # {}
             PROVE  Found(t, contexts[t][k].start, Any)
  BY DEF ContextFindsError
<1>1. /\ t \in allocated /\ contexts[t][k].start < Newest(t).sequenceId
      /\ contexts[t][k].start \in 1 .. failureSequenceId /\ failureSequenceId \in Nat
      /\ Newest(t).sequenceId \in Nat
  BY DEF IInv, InOrder, Heard, Nested, TypeOK, Newest
<1>2. GetLastError(t, contexts[t][k].start, Any) = Newest(t)
  BY <1>1 DEF GetLastError
<1>3. Newest(t).sequenceId # 0
  BY <1>1
<1> QED BY <1>2, <1>3 DEF Found, Unused

LEMMA LeastNumber ==
  ASSUME NEW S, S \subseteq Nat, S # {}
  PROVE  \E x \in S : \A y \in S : x <= y
<1>1. PICK x \in S : \A y \in S : <<y, x>> \notin OpToRel(<, Nat)
  BY NatLessThanWellFounded, WFMin, Zenon
<1>2. \A y \in S : y \in Nat /\ x \in Nat => (y < x => <<y, x>> \in OpToRel(<, Nat))
  BY Zenon DEF OpToRel
<1>3. \A y \in S : ~(y < x)
  BY <1>1, <1>2
<1> QED BY <1>3

LEMMA OriginationIsFound == IInv => OriginationFound
<1> SUFFICES ASSUME IInv, NEW t \in Threads, NEW k \in DOMAIN contexts[t], NEW hr \in Codes,
                    Cardinality(Recorded(t, k)) <= ErrorCount,
                    {i \in Since(t, k) : reports[t][i].hr = hr} # {}
             PROVE  \E i \in {i \in Since(t, k) : reports[t][i].hr = hr} :
                      /\ \A j \in {j \in Since(t, k) : reports[t][j].hr = hr} : i <= j
                      /\ GetLastError(t, contexts[t][k].start, hr)
                           = [sequenceId |-> reports[t][i].id, hr |-> hr]
  BY DEF OriginationFound
<1> DEFINE same == {i \in Since(t, k) : reports[t][i].hr = hr}
           start == contexts[t][k].start
<1>1. /\ TypeOK /\ Nested(t) /\ RingInOrder(t) /\ Heard(t, k)
      /\ start \in Nat /\ ErrorCount \in Nat
  BY ErrorCountAssumption DEF IInv, InOrder, Nested
<1>2. /\ Len(reports[t]) \in Nat /\ DOMAIN reports[t] = 1 .. Len(reports[t])
      /\ \A i \in DOMAIN reports[t] : reports[t][i].id \in Nat
  <2>1. reports[t] \in Seq(Reports)
    BY <1>1 DEF TypeOK
  <2>2. \A i \in DOMAIN reports[t] : reports[t][i] \in Reports
    BY <2>1, LastOf
  <2> QED BY <2>1, <2>2, LastOf DEF Reports
<1>3. same \subseteq Nat /\ same \subseteq DOMAIN reports[t]
  BY <1>2 DEF Since
<1>4. PICK first \in same : \A j \in same : first <= j
  <2>1. same # {}
    OBVIOUS
  <2> HIDE DEF same
  <2> QED BY <1>3, <2>1, LeastNumber
<1>5. first \in Since(t, k) /\ first \in DOMAIN reports[t] /\ first \in Nat
      /\ reports[t][first].hr = hr
  BY <1>3
\* The first report of the code was recorded.
<1>6. reports[t][first].id # 0 /\ start < reports[t][first].id
  <2>1. ASSUME reports[t][first].id = 0 PROVE FALSE
    <3>1. PICK j \in Recorded(t, k) : j < first /\ reports[t][j].hr = reports[t][first].hr
      BY <1>1, <1>5, <2>1 DEF Heard
    <3>2. j \in same
      BY <1>5, <3>1 DEF Recorded
    <3>3. j \in Nat
      BY <1>3, <3>2
    <3> QED BY <1>4, <1>5, <3>1, <3>2, <3>3
  <2> QED BY <1>1, <1>5, <2>1 DEF Heard
\* The ring still holds it.
<1>7. PICK kept \in Slots : Kept(t, kept, first)
  <2>1. Later(t, first) \subseteq Recorded(t, k) \ {first}
    <3>1. \A j \in DOMAIN reports[t] : j > first => j \in Since(t, k)
      <4>1. contexts[t] \in Seq(Contexts)
        BY <1>1 DEF TypeOK
      <4>2. contexts[t][k] \in Contexts
        BY <4>1, LastOf
      <4>3. contexts[t][k].from \in Nat
        BY <4>2 DEF Contexts
      <4> QED BY <1>2, <1>5, <4>3 DEF Since
    <3> QED BY <1>2, <1>5, <3>1 DEF Later, Recorded
  <2>2. IsFiniteSet(Recorded(t, k)) /\ first \in Recorded(t, k)
    <3>1. Recorded(t, k) \subseteq 1 .. Len(reports[t])
      BY <1>2 DEF Recorded, Since
    <3>2. IsFiniteSet(1 .. Len(reports[t]))
      BY ONLY <1>2, FS_Interval
    <3> QED BY <1>5, <1>6, <3>1, <3>2, FS_Subset DEF Recorded
  <2>3. /\ Cardinality(Recorded(t, k) \ {first}) = Cardinality(Recorded(t, k)) - 1
        /\ IsFiniteSet(Recorded(t, k) \ {first})
    BY <2>2, FS_RemoveElement
  <2>4. /\ Cardinality(Later(t, first)) <= Cardinality(Recorded(t, k) \ {first})
        /\ Cardinality(Later(t, first)) \in Nat
        /\ Cardinality(Recorded(t, k)) \in Nat
    BY <2>1, <2>2, <2>3, FS_Subset, FS_CardinalityType
  <2>5. Cardinality(Later(t, first)) < ErrorCount
    BY <1>1, <2>3, <2>4
  <2>6. Kept(t, Behind(t, Cardinality(Later(t, first))), first)
    BY <1>1, <1>5, <1>6, <2>5 DEF RingInOrder
  <2>7. Behind(t, Cardinality(Later(t, first))) \in Slots
    <3>1. errorCurrentIndex[t] \in Slots
      BY <1>1 DEF TypeOK
    <3> HIDE DEF start, same
    <3> QED BY <1>1, <2>4, <2>5, <3>1 DEF Behind, Slots
  <2> QED BY <2>6, <2>7
\* And what else it holds with that code is newer.
<1> DEFINE matching == {i \in Slots : errors[t][i].hr = hr /\ errors[t][i].sequenceId > start}
<1>8. /\ errors[t][kept].hr = hr
      /\ errors[t][kept].sequenceId = reports[t][first].id
      /\ kept \in matching
  <2>1. /\ errors[t][kept].hr = hr /\ errors[t][kept].sequenceId = reports[t][first].id
    BY <1>5, <1>7 DEF Kept
  <2> QED BY <1>1, <1>2, <1>5, <1>6, <2>1
<1>9. \A slot \in matching : reports[t][first].id <= errors[t][slot].sequenceId
  <2> SUFFICES ASSUME NEW slot \in matching
               PROVE  reports[t][first].id <= errors[t][slot].sequenceId
    OBVIOUS
  <2>1. PICK i \in Since(t, k) : Kept(t, slot, i)
    BY <1>1 DEF Heard
  <2>2. errors[t][slot].sequenceId = reports[t][i].id /\ reports[t][i].hr = hr
    BY <2>1 DEF Kept
  <2>3. i \in same /\ i \in DOMAIN reports[t] /\ i \in Nat /\ reports[t][i].id # 0
    BY <1>1, <1>2, <1>3, <2>2 DEF Since
  <2>4. first = i \/ first < i
    BY <1>4, <1>5, <2>3
  <2>5. first < i => reports[t][first].id < reports[t][i].id
    BY <1>1, <1>5, <2>3 DEF RingInOrder
  <2> QED BY <1>2, <1>5, <2>2, <2>3, <2>4, <2>5
<1>10. /\ \A slot \in Slots : errors[t][slot] \in [sequenceId : Nat, hr : Codes \cup {Any}]
  BY <1>1 DEF TypeOK
<1> DEFINE oldest == CHOOSE i \in matching :
                       \A j \in matching : errors[t][i].sequenceId <= errors[t][j].sequenceId
<1>11. oldest \in matching
       /\ \A j \in matching : errors[t][oldest].sequenceId <= errors[t][j].sequenceId
  <2>1. \E i \in matching : \A j \in matching : errors[t][i].sequenceId <= errors[t][j].sequenceId
    <3> HIDE DEF matching
    <3> QED BY <1>8, <1>9
  <2> HIDE DEF matching
  <2> QED BY <2>1
<1>12. errors[t][oldest] = [sequenceId |-> reports[t][first].id, hr |-> hr]
  <2>1. oldest \in Slots /\ errors[t][oldest].hr = hr
    BY <1>11
  <2>2. /\ errors[t][oldest].sequenceId <= reports[t][first].id
        /\ reports[t][first].id <= errors[t][oldest].sequenceId
    <3> HIDE DEF matching, oldest
    <3> QED BY <1>8, <1>9, <1>11
  <2>3. errors[t][oldest].sequenceId = reports[t][first].id
    <3>1. reports[t][first].id \in Nat /\ errors[t][oldest].sequenceId \in Nat
      BY <1>2, <1>5, <1>10, <2>1
    <3> HIDE DEF oldest
    <3> QED BY <2>2, <3>1
  <2> HIDE DEF oldest
  <2> QED BY <1>10, <2>1, <2>3
<1>13. GetLastError(t, start, hr) = errors[t][oldest]
  <2>1. t \in allocated /\ start < Newest(t).sequenceId /\ Newest(t).sequenceId \in Nat
    BY <1>1, <1>5 DEF Heard, TypeOK, Newest
  <2>2. hr # Any /\ matching # {}
    BY <1>8, CodesAssumption
  <2>3. ~(start >= Newest(t).sequenceId)
    BY <1>1, <2>1
  <2> HIDE DEF start
  <2> QED BY <2>1, <2>2, <2>3 DEF GetLastError
<1> QED BY <1>4, <1>12, <1>13

\* A behaviour of the module is one of the errors.
LEMMA ErrorsHalf == MCSpec => Spec
<1>1. MCInit => Init
  BY DEF MCInit
<1>2. [MCNext]_<<vars, half, lastThread, depth, calls>> => [Next]_vars
  BY DEF MCNext
<1> QED BY <1>1, <1>2, PTL DEF MCSpec, Spec

\* The ring is in order, contexts nest, and what a context has heard is what was
\* reported in it.
THEOREM ErrorsInvariance == MCSpec => []IInv
BY ErrorsHalf, InitErrors, ErrorsStep, PTL DEF Spec

\* No slot of a ring is newer than the current one, from which a search starts.
THEOREM CurrentIsNewest == MCSpec => []NewestIsCurrent
BY ErrorsInvariance, OrderedRing, PTL

\* A context in which something was reported finds an error, whatever was opened,
\* closed and reported within it or before.
THEOREM ContextFinds == MCSpec => []ContextFindsError
BY ErrorsInvariance, HeardIsFound, PTL

\* Asked for a code, a context finds the first report of it, unless the ring
\* has overflowed since.
THEOREM FirstReportFound == MCSpec => []OriginationFound
BY ErrorsInvariance, OriginationIsFound, PTL

---------------------------------------------------------------------------
(* The guard.                                                              *)

\* The guard counts with its own instance of the finite sets.
LEMMA GuardCounts ==
  \A S : /\ Guard!IsFiniteSet(S) <=> IsFiniteSet(S)
         /\ Guard!Cardinality(S) = Cardinality(S)
<1>1. \A S : Guard!IsFiniteSet(S) <=> IsFiniteSet(S)
  BY DEF Guard!IsFiniteSet, IsFiniteSet
<1>2. \A S : Guard!Cardinality(S) = Cardinality(S)
  BY DEF Guard!Cardinality, Cardinality
<1> QED BY <1>1, <1>2

\* A call moves on, returns, or calls again.
LEMMA GotoPlace ==
  ASSUME NEW q \in Seq(Guard!Places), q # <<>>, NEW place \in Guard!Places
  PROVE  LET r == [q EXCEPT ![Len(q)] = place] IN
           /\ r \in Seq(Guard!Places) /\ DOMAIN r = DOMAIN q /\ DOMAIN q = 1 .. Len(q)
           /\ Len(q) \in Nat \ {0} /\ Len(r) = Len(q)
           /\ \A i \in DOMAIN q : r[i] = IF i = Len(q) THEN place ELSE q[i]
<1>1. Len(q) \in Nat \ {0} /\ DOMAIN q = 1 .. Len(q)
  BY EmptySeq, LenProperties
<1> QED BY <1>1, ExceptSeq

LEMMA ReturnPlace ==
  ASSUME NEW q \in Seq(Guard!Places), q # <<>>
  PROVE  LET r == SubSeq(q, 1, Len(q) - 1) IN
           /\ r \in Seq(Guard!Places)
           /\ Len(q) \in Nat \ {0} /\ DOMAIN q = 1 .. Len(q)
           /\ DOMAIN r = 1 .. Len(q) - 1
           /\ \A i \in DOMAIN r : r[i] = q[i]
<1>1. Len(q) \in Nat \ {0} /\ DOMAIN q = 1 .. Len(q)
  BY EmptySeq, LenProperties
<1>2. \A i \in 1 .. Len(q) - 1 : q[i] \in Guard!Places
  BY <1>1, ElementOfSeq
<1> DEFINE r == SubSeq(q, 1, Len(q) - 1)
<1>3. r \in Seq(Guard!Places) /\ Len(r) = Len(q) - 1 /\ \A i \in 1 .. Len(q) - 1 : r[i] = q[i]
  BY <1>1, <1>2, SubSeqProperties
<1>4. DOMAIN r = 1 .. Len(r)
  BY <1>3, LenProperties
<1> QED BY <1>1, <1>3, <1>4

LEMMA CallPlace ==
  ASSUME NEW q \in Seq(Guard!Places)
  PROVE  LET r == Append(q, "check") IN
           /\ r \in Seq(Guard!Places)
           /\ Len(q) \in Nat /\ DOMAIN q = 1 .. Len(q)
           /\ DOMAIN r = 1 .. Len(q) + 1
           /\ \A i \in DOMAIN q : r[i] = q[i]
           /\ r[Len(q) + 1] = "check"
<1>1. "check" \in Guard!Places
  BY DEF Guard!Places
<1>2. Append(q, "check") \in Seq(Guard!Places)
  BY <1>1, AppendProperties
<1> QED BY <1>1, <1>2, AppendProperties, LenProperties

LEMMA TopOfCalls ==
  ASSUME Guard!TypeOK, NEW t \in Reporters, Guard!Top(t) # "none"
  PROVE  /\ calls[t] # <<>> /\ calls[t] \in Seq(Guard!Places)
         /\ Guard!Top(t) = calls[t][Len(calls[t])]
BY DEF Guard!TypeOK, Guard!Top

\* A thread's own calls are among those counted.
LEMMA OwnAreCounted ==
  ASSUME NEW all, IsFiniteSet(all), NEW t, NEW own, \A i \in own : <<t, i>> \in all
  PROVE  Cardinality(own) <= Cardinality(all) /\ Cardinality(own) \in Nat
<1> DEFINE f == [i \in own |-> <<t, i>>]
<1>1. f \in [own -> all]
  OBVIOUS
<1>2. \A i, j \in own : f[i] = f[j] => i = j
  OBVIOUS
<1>3. f \in Injection(own, all)
  <2> HIDE DEF f
  <2> QED BY <1>1, <1>2, Fun_IsInj
<1> QED BY <1>3, FS_Injection, FS_CardinalityType

\* The calls of a thread at some places are finitely many.
LEMMA OwnAreFinite ==
  Guard!TypeOK => \A t \in Reporters, places \in SUBSET Guard!Entered :
              IsFiniteSet(Guard!At(t, places)) /\ Cardinality(Guard!At(t, places)) \in Nat
<1> SUFFICES ASSUME Guard!TypeOK, NEW t \in Reporters, NEW places
             PROVE  IsFiniteSet(Guard!At(t, places)) /\ Cardinality(Guard!At(t, places)) \in Nat
  OBVIOUS
<1>1. calls[t] \in Seq(Guard!Places)
  BY DEF Guard!TypeOK
<1>2. DOMAIN calls[t] = 1 .. Len(calls[t]) /\ Len(calls[t]) \in Int
  BY <1>1, LenProperties
<1>3. IsFiniteSet(DOMAIN calls[t])
  BY <1>2, FS_Interval
<1> QED BY <1>3, FS_Subset, FS_CardinalityType DEF Guard!At

LEMMA GuardInit == Guard!Init => Guard!IInv
<1> SUFFICES ASSUME Guard!Init PROVE Guard!IInv
  OBVIOUS
<1>1. calls = [t \in Reporters |-> <<>>] /\ lastThread = NoThread /\ depth = 0
  BY DEF Guard!Init
<1>2. Guard!TypeOK
  BY <1>1, EmptySeq DEF Guard!TypeOK
<1>3. Guard!Counted = {}
  BY <1>1 DEF Guard!Counted
<1>4. \A t \in Reporters : Guard!At(t, {"mark", "lookup", "clear"}) = {}
  BY <1>1 DEF Guard!At
<1>5. Guard!RecursionIsBounded
  BY <1>4, GuardAssumption, FS_EmptySet, GuardCounts DEF Guard!RecursionIsBounded
<1>6. IsFiniteSet(Guard!Counted) /\ depth = Cardinality(Guard!Counted)
  BY <1>1, <1>3, FS_EmptySet
<1> QED BY <1>1, <1>2, <1>5, <1>6, GuardCounts DEF Guard!IInv

\* A step in which the calls of t become r.
LEMMA CallsOfOne ==
  ASSUME Guard!TypeOK, NEW t \in Reporters, NEW r, r \in Seq(Guard!Places),
         calls' = [calls EXCEPT ![t] = r]
  PROVE  /\ calls' \in [Reporters -> Seq(Guard!Places)]
         /\ calls'[t] = r /\ \A u \in Reporters \ {t} : calls'[u] = calls[u]
BY DEF Guard!TypeOK

\* A step that enters or leaves no call, and loses no mark.
LEMMA SameCount ==
  ASSUME Guard!IInv, NEW t \in Reporters, NEW r \in Seq(Guard!Places),
         calls' = [calls EXCEPT ![t] = r],
         lastThread' \in Reporters \cup {NoThread}, depth' = depth,
         \A i \in Nat : i \in DOMAIN r /\ r[i] \in Guard!Entered
                          <=> i \in DOMAIN calls[t] /\ calls[t][i] \in Guard!Entered,
         \A i \in DOMAIN r : r[i] \in {"mark", "lookup", "clear"}
           => i \in DOMAIN calls[t] /\ calls[t][i] \in {"mark", "lookup", "clear"},
         \A u \in Reporters : lastThread' = u => Guard!At(u, {"lookup", "clear"})' # {}
  PROVE  Guard!IInv'
<1>1. /\ calls' \in [Reporters -> Seq(Guard!Places)]
      /\ calls'[t] = r /\ \A u \in Reporters \ {t} : calls'[u] = calls[u]
  BY CallsOfOne, GuardCounts DEF Guard!IInv
<1>2. Guard!TypeOK'
  BY <1>1 DEF Guard!TypeOK, Guard!IInv
<1>3. Guard!Counted' = Guard!Counted
  BY <1>1 DEF Guard!Counted
<1>4. ASSUME NEW u \in Reporters
      PROVE  Cardinality(Guard!At(u, {"mark", "lookup", "clear"}))' < DepthLimit
  <2>1. Guard!At(u, {"mark", "lookup", "clear"})' \subseteq Guard!At(u, {"mark", "lookup", "clear"})
    BY <1>1 DEF Guard!At
  <2>2. Cardinality(Guard!At(u, {"mark", "lookup", "clear"})) < DepthLimit
    BY GuardCounts DEF Guard!IInv, Guard!RecursionIsBounded
  <2>3. IsFiniteSet(Guard!At(u, {"mark", "lookup", "clear"}))
    BY OwnAreFinite, GuardCounts DEF Guard!IInv, Guard!Entered
  <2>4. Cardinality(Guard!At(u, {"mark", "lookup", "clear"})')
          <= Cardinality(Guard!At(u, {"mark", "lookup", "clear"}))
    BY <2>1, <2>3, FS_Subset
  <2>5. /\ Cardinality(Guard!At(u, {"mark", "lookup", "clear"})') \in Nat
        /\ Cardinality(Guard!At(u, {"mark", "lookup", "clear"})) \in Nat
    BY <2>1, <2>3, FS_Subset, FS_CardinalityType
  <2>6. DepthLimit \in Nat
    BY GuardAssumption
  <2> HIDE DEF Guard!At
  <2> QED BY <2>2, <2>4, <2>5, <2>6
<1> QED BY <1>2, <1>3, <1>4, GuardCounts DEF Guard!IInv, Guard!RecursionIsBounded, Guard!TypeOK

\* What Goto, Return and a call within a call do to a thread's calls.
LEMMA GotoCalls ==
  ASSUME Guard!TypeOK, NEW t \in Reporters, Guard!Top(t) # "none", NEW place \in Guard!Places, Guard!Goto(t, place)
  PROVE  calls' = [calls EXCEPT ![t] = [calls[t] EXCEPT ![Len(calls[t])] = place]]
BY DEF Guard!Goto, Guard!TypeOK

\* The mark of a thread whose calls at "lookup" or "clear" stay there.
LEMMA MarkStays ==
  ASSUME Guard!IInv, NEW t \in Reporters, NEW r \in Seq(Guard!Places),
         calls' = [calls EXCEPT ![t] = r],
         lastThread' = lastThread,
         \A i \in DOMAIN calls[t] : calls[t][i] \in {"lookup", "clear"}
           => i \in DOMAIN r /\ r[i] \in {"lookup", "clear"}
  PROVE  \A u \in Reporters : lastThread' = u => Guard!At(u, {"lookup", "clear"})' # {}
<1>1. calls'[t] = r /\ \A u \in Reporters \ {t} : calls'[u] = calls[u]
  BY CallsOfOne, GuardCounts DEF Guard!IInv
<1>2. \A u \in Reporters : lastThread = u => Guard!At(u, {"lookup", "clear"}) # {}
  BY GuardAssumption, GuardCounts DEF Guard!IInv
<1> QED BY <1>1, <1>2 DEF Guard!At

\* A call moves on to a place that is counted like the one it leaves.
LEMMA GotoSame ==
  ASSUME Guard!IInv, NEW t \in Reporters, NEW place \in Guard!Places, Guard!Top(t) # "none",
         Guard!Goto(t, place), depth' = depth,
         Guard!Top(t) \in Guard!Entered <=> place \in Guard!Entered,
         place \in {"mark", "lookup", "clear"} => Guard!Top(t) \in {"mark", "lookup", "clear"},
         \/ lastThread' = NoThread
         \/ lastThread' = t /\ place \in {"lookup", "clear"}
         \/ /\ lastThread' = lastThread
            /\ Guard!Top(t) \in {"lookup", "clear"} => place \in {"lookup", "clear"}
  PROVE  Guard!IInv'
<1> DEFINE q == calls[t]
           r == [q EXCEPT ![Len(q)] = place]
<1>0. Guard!TypeOK /\ lastThread \in Reporters \cup {NoThread}
  BY GuardCounts DEF Guard!IInv, Guard!TypeOK
<1>1. q # <<>> /\ q \in Seq(Guard!Places) /\ Guard!Top(t) = q[Len(q)]
  BY <1>0, TopOfCalls
<1>2. calls' = [calls EXCEPT ![t] = r]
  BY <1>0, GotoCalls
<1>3. /\ r \in Seq(Guard!Places) /\ DOMAIN r = DOMAIN q
      /\ DOMAIN q = 1 .. Len(q) /\ Len(q) \in Nat \ {0}
      /\ \A i \in DOMAIN q : r[i] = IF i = Len(q) THEN place ELSE q[i]
  BY <1>1, GotoPlace
<1>4. calls'[t] = r
  BY <1>0, <1>2, <1>3, CallsOfOne
<1> HIDE DEF q, r
<1>5. \A u \in Reporters : lastThread' = u => Guard!At(u, {"lookup", "clear"})' # {}
  <2>1. CASE lastThread' = NoThread
    BY <2>1, GuardAssumption
  <2>2. CASE lastThread' = t /\ place \in {"lookup", "clear"}
    <3>1. Len(q) \in Guard!At(t, {"lookup", "clear"})'
      BY <1>3, <1>4, <2>2 DEF Guard!At
    <3> QED BY <2>2, <3>1
  <2>3. CASE /\ lastThread' = lastThread
             /\ Guard!Top(t) \in {"lookup", "clear"} => place \in {"lookup", "clear"}
    <3>1. \A i \in DOMAIN q : q[i] \in {"lookup", "clear"}
            => i \in DOMAIN r /\ r[i] \in {"lookup", "clear"}
      BY <1>1, <1>3, <2>3
    <3> QED BY <1>2, <1>3, <2>3, <3>1, MarkStays DEF q
  <2> QED BY <2>1, <2>2, <2>3
<1>6. lastThread' \in Reporters \cup {NoThread}
  BY <1>0
<1>7. \A i \in Nat : i \in DOMAIN r /\ r[i] \in Guard!Entered <=> i \in DOMAIN q /\ q[i] \in Guard!Entered
  BY <1>1, <1>3
<1>8. \A i \in DOMAIN r : r[i] \in {"mark", "lookup", "clear"}
        => i \in DOMAIN q /\ q[i] \in {"mark", "lookup", "clear"}
  BY <1>1, <1>3
<1> QED BY <1>2, <1>3, <1>5, <1>6, <1>7, <1>8, SameCount DEF q

\* A call that was not let in returns.
LEMMA TurnedAway ==
  ASSUME Guard!IInv, NEW t \in Reporters, Guard!Top(t) = "check", Guard!Return(t),
         UNCHANGED <<lastThread, depth>>
  PROVE  Guard!IInv'
<1> DEFINE q == calls[t]
           r == SubSeq(q, 1, Len(q) - 1)
<1>0. Guard!TypeOK /\ lastThread \in Reporters \cup {NoThread}
  BY GuardCounts DEF Guard!IInv, Guard!TypeOK
<1>1. q # <<>> /\ q \in Seq(Guard!Places) /\ q[Len(q)] = "check"
  BY <1>0, TopOfCalls
<1>2. calls' = [calls EXCEPT ![t] = r]
  BY <1>0 DEF Guard!Return, Guard!TypeOK
<1>3. /\ r \in Seq(Guard!Places) /\ DOMAIN r = 1 .. Len(q) - 1
      /\ DOMAIN q = 1 .. Len(q) /\ Len(q) \in Nat \ {0}
      /\ \A i \in DOMAIN r : r[i] = q[i]
  BY <1>1, ReturnPlace
<1> HIDE DEF q, r
<1>4. \A i \in DOMAIN q : q[i] \in Guard!Entered => i \in DOMAIN r /\ r[i] = q[i]
  BY <1>1, <1>3 DEF Guard!Entered
<1>5. \A u \in Reporters : lastThread' = u => Guard!At(u, {"lookup", "clear"})' # {}
  BY <1>2, <1>3, <1>4, MarkStays DEF q, Guard!Entered
<1>6. /\ \A i \in Nat : i \in DOMAIN r /\ r[i] \in Guard!Entered <=> i \in DOMAIN q /\ q[i] \in Guard!Entered
      /\ \A i \in DOMAIN r : i \in DOMAIN q /\ r[i] = q[i]
  BY <1>3, <1>4
<1>7. \A i \in DOMAIN r : r[i] \in {"mark", "lookup", "clear"}
        => i \in DOMAIN q /\ q[i] \in {"mark", "lookup", "clear"}
  BY <1>6
<1>8. lastThread' \in Reporters \cup {NoThread} /\ depth' = depth
  BY <1>0
<1> QED BY <1>2, <1>3, <1>5, <1>6, <1>7, <1>8, SameCount DEF q

\* A report within a report.
LEMMA CallsAgain ==
  ASSUME Guard!IInv, NEW t \in Reporters, Guard!LookupFails(t)
  PROVE  Guard!IInv'
<1> DEFINE q == calls[t]
           m == [q EXCEPT ![Len(q)] = "clear"]
           r == Append(m, "check")
<1>0. Guard!TypeOK /\ lastThread \in Reporters \cup {NoThread}
  BY GuardCounts DEF Guard!IInv, Guard!TypeOK
<1>1. q # <<>> /\ q \in Seq(Guard!Places) /\ q[Len(q)] = "lookup"
  BY <1>0, TopOfCalls DEF Guard!LookupFails
<1>2. calls' = [calls EXCEPT ![t] = r] /\ UNCHANGED <<lastThread, depth>>
  BY <1>0 DEF Guard!LookupFails, Guard!TypeOK
<1>3. /\ m \in Seq(Guard!Places) /\ DOMAIN m = DOMAIN q /\ Len(m) = Len(q)
      /\ DOMAIN q = 1 .. Len(q) /\ Len(q) \in Nat \ {0}
      /\ \A i \in DOMAIN q : m[i] = IF i = Len(q) THEN "clear" ELSE q[i]
  BY <1>1, GotoPlace DEF Guard!Places
<1> HIDE DEF m
<1>4. /\ r \in Seq(Guard!Places) /\ DOMAIN r = 1 .. Len(q) + 1
      /\ \A i \in DOMAIN q : r[i] = m[i]
      /\ r[Len(q) + 1] = "check"
  BY <1>3, CallPlace
<1> HIDE DEF q, r
<1>5. \A i \in DOMAIN q : /\ i \in DOMAIN r
                          /\ q[i] \in {"lookup", "clear"} => r[i] \in {"lookup", "clear"}
                          /\ q[i] \in Guard!Entered <=> r[i] \in Guard!Entered
                          /\ i # Len(q) => r[i] = q[i]
  BY <1>1, <1>3, <1>4 DEF Guard!Entered
<1>6. \A u \in Reporters : lastThread' = u => Guard!At(u, {"lookup", "clear"})' # {}
  BY <1>2, <1>4, <1>5, MarkStays DEF q
<1>7. \A i \in Nat : i \in DOMAIN r /\ r[i] \in Guard!Entered <=> i \in DOMAIN q /\ q[i] \in Guard!Entered
  BY <1>3, <1>4, <1>5 DEF Guard!Entered
<1>8. \A i \in DOMAIN r : r[i] \in {"mark", "lookup", "clear"}
        => i \in DOMAIN q /\ q[i] \in {"mark", "lookup", "clear"}
  BY <1>1, <1>3, <1>4, <1>5
<1> QED BY <1>0, <1>2, <1>4, <1>6, <1>7, <1>8, SameCount DEF q

\* SetLastError is called by a thread that is in no call of it.
LEMMA CallsFirst ==
  ASSUME Guard!IInv, NEW t \in Reporters, Guard!SetLastError(t)
  PROVE  Guard!IInv'
<1> DEFINE r == <<"check">>
<1>0. Guard!TypeOK /\ lastThread \in Reporters \cup {NoThread}
  BY GuardCounts DEF Guard!IInv, Guard!TypeOK
<1>1. r \in Seq(Guard!Places) /\ DOMAIN r = 1 .. 1 /\ r[1] = "check"
  BY DEF Guard!Places
<1>2. /\ calls' = [calls EXCEPT ![t] = r] /\ calls[t] = <<>> /\ DOMAIN calls[t] = {}
      /\ UNCHANGED <<lastThread, depth>>
  BY DEF Guard!SetLastError
<1> HIDE DEF r
<1>3. \A u \in Reporters : lastThread' = u => Guard!At(u, {"lookup", "clear"})' # {}
  BY <1>1, <1>2, MarkStays
<1>4. \A i \in DOMAIN r : r[i] \notin Guard!Entered /\ r[i] \notin {"mark", "lookup", "clear"}
  BY <1>1 DEF Guard!Entered
<1> QED BY <1>0, <1>1, <1>2, <1>3, <1>4, SameCount

\* A call is counted in: it goes on only while few enough are.
LEMMA CountedIn ==
  ASSUME Guard!IInv, NEW t \in Reporters, Guard!Enter(t)
  PROVE  Guard!IInv'
<1> DEFINE q == calls[t]
           place == IF depth + 1 < DepthLimit THEN "mark" ELSE "leave"
           r == [q EXCEPT ![Len(q)] = place]
<1>0. Guard!TypeOK /\ lastThread \in Reporters \cup {NoThread} /\ depth \in Nat
  BY GuardCounts DEF Guard!IInv, Guard!TypeOK
<1>1. q # <<>> /\ q \in Seq(Guard!Places) /\ q[Len(q)] = "enter" /\ Guard!Top(t) # "none"
  BY <1>0, TopOfCalls DEF Guard!Enter
<1>2. calls' = [calls EXCEPT ![t] = r] /\ lastThread' = lastThread /\ depth' = depth + 1
  <2>1. place \in Guard!Places /\ Guard!Goto(t, place) /\ lastThread' = lastThread /\ depth' = depth + 1
    BY DEF Guard!Enter, Guard!Places
  <2> HIDE DEF place
  <2> QED BY <1>0, <1>1, <2>1, GotoCalls
<1>3. /\ r \in Seq(Guard!Places) /\ DOMAIN r = DOMAIN q
      /\ DOMAIN q = 1 .. Len(q) /\ Len(q) \in Nat \ {0}
      /\ \A i \in DOMAIN q : r[i] = IF i = Len(q) THEN place ELSE q[i]
  <2>1. place \in Guard!Places
    BY DEF Guard!Places
  <2> HIDE DEF place
  <2> QED BY <1>1, <2>1, GotoPlace
<1> HIDE DEF r
<1>4. /\ calls' \in [Reporters -> Seq(Guard!Places)]
      /\ calls'[t] = r /\ \A u \in Reporters \ {t} : calls'[u] = calls[u]
  BY <1>0, <1>2, <1>3, CallsOfOne
<1>5. Guard!TypeOK'
  BY <1>0, <1>2, <1>4 DEF Guard!TypeOK
<1>6. place \in Guard!Entered /\ place \notin {"lookup", "clear"} /\ "enter" \notin Guard!Entered
  BY DEF Guard!Entered
<1>7. Guard!Counted' = Guard!Counted \cup {<<t, Len(q)>>} /\ <<t, Len(q)>> \notin Guard!Counted
  <2> HIDE DEF place, q
  <2>1. q \in Seq(Guard!Places) /\ Len(q) \in DOMAIN q /\ DOMAIN q \subseteq Nat
    BY <1>1, <1>3
  <2>2. \A i \in DOMAIN q : r[i] \in Guard!Entered <=> q[i] \in Guard!Entered \/ i = Len(q)
    BY <1>3, <1>6
  <2>3. \A u \in Reporters, i \in Nat :
          /\ <<u, i>> \in Guard!Counted <=> i \in DOMAIN calls[u] /\ calls[u][i] \in Guard!Entered
          /\ <<u, i>> \in Guard!Counted' <=> i \in DOMAIN calls'[u] /\ calls'[u][i] \in Guard!Entered
    BY DEF Guard!Counted
  <2>4. \A u \in Reporters, i \in Nat :
          <<u, i>> \in Guard!Counted' <=> <<u, i>> \in Guard!Counted \/ (u = t /\ i = Len(q))
    BY <1>3, <1>4, <2>1, <2>2, <2>3 DEF q
  <2>5. <<t, Len(q)>> \notin Guard!Counted
    BY <1>1, <1>6, <2>1, <2>3 DEF q
  <2>6. Guard!Counted \subseteq Reporters \X Nat /\ Guard!Counted' \subseteq Reporters \X Nat
    BY DEF Guard!Counted
  <2> QED BY <2>1, <2>4, <2>5, <2>6
<1>8. IsFiniteSet(Guard!Counted') /\ depth' = Cardinality(Guard!Counted')
  BY <1>0, <1>2, <1>7, FS_AddElement, GuardCounts DEF Guard!IInv
<1>9. \A u \in Reporters : lastThread' = u => Guard!At(u, {"lookup", "clear"})' # {}
  <2> HIDE DEF place
  <2> QED BY <1>1, <1>2, <1>3, <1>6, MarkStays
<1>10. ASSUME NEW u \in Reporters
       PROVE  Cardinality(Guard!At(u, {"mark", "lookup", "clear"}))' < DepthLimit
  <2> DEFINE M == {"mark", "lookup", "clear"}
  <2>0. Cardinality(Guard!At(u, M)) < DepthLimit
    BY GuardCounts DEF Guard!IInv, Guard!RecursionIsBounded
  <2>1. CASE u = t /\ place = "mark"
    <3>1. depth' < DepthLimit
      BY <1>2, <2>1
    <3>2. DOMAIN calls'[u] \subseteq Nat
      BY <1>3, <1>4, <2>1
    <3>3. \A i \in Guard!At(u, M)' : <<u, i>> \in Guard!Counted'
      BY <3>2 DEF Guard!At, Guard!Counted, Guard!Entered
    <3>4. /\ Cardinality(Guard!At(u, M)') <= Cardinality(Guard!Counted')
          /\ Cardinality(Guard!At(u, M)') \in Nat
      <4> HIDE DEF M
      <4> QED BY <1>8, <3>3, OwnAreCounted
    <3>5. depth' \in Nat /\ DepthLimit \in Nat
      BY <1>5, GuardAssumption DEF Guard!TypeOK
    <3>6. Cardinality(Guard!At(u, M)') < DepthLimit
      <4> HIDE DEF M
      <4> QED BY <1>8, <3>1, <3>4, <3>5
    <3> QED BY <3>6
  <2>2. CASE u # t \/ place = "leave"
    <3>1. Guard!At(u, M)' = Guard!At(u, M)
      <4>1. CASE u # t
        BY <1>4, <4>1 DEF Guard!At
      <4>2. CASE u = t /\ place = "leave"
        <5> HIDE DEF place
        <5> QED BY <1>1, <1>3, <1>4, <4>2 DEF Guard!At
      <4> QED BY <2>2, <4>1, <4>2
    <3> QED BY <2>0, <3>1
  <2> QED BY <2>1, <2>2
<1> QED BY <1>5, <1>8, <1>9, <1>10, GuardCounts DEF Guard!IInv, Guard!RecursionIsBounded, Guard!TypeOK

\* A call is counted out and returns.
LEMMA CountedOut ==
  ASSUME Guard!IInv, NEW t \in Reporters, Guard!Leave(t)
  PROVE  Guard!IInv'
<1> DEFINE q == calls[t]
           r == SubSeq(q, 1, Len(q) - 1)
<1>0. Guard!TypeOK /\ lastThread \in Reporters \cup {NoThread} /\ depth \in Nat
  BY GuardCounts DEF Guard!IInv, Guard!TypeOK
<1>1. q # <<>> /\ q \in Seq(Guard!Places) /\ q[Len(q)] = "leave"
  BY <1>0, TopOfCalls DEF Guard!Leave
<1>2. calls' = [calls EXCEPT ![t] = r] /\ lastThread' = lastThread /\ depth' = depth - 1
  BY <1>0 DEF Guard!Leave, Guard!Return, Guard!TypeOK
<1>3. /\ r \in Seq(Guard!Places) /\ DOMAIN r = 1 .. Len(q) - 1
      /\ DOMAIN q = 1 .. Len(q) /\ Len(q) \in Nat \ {0}
      /\ \A i \in DOMAIN r : r[i] = q[i]
  BY <1>1, ReturnPlace
<1> HIDE DEF r
<1>4. /\ calls' \in [Reporters -> Seq(Guard!Places)]
      /\ calls'[t] = r /\ \A u \in Reporters \ {t} : calls'[u] = calls[u]
  BY <1>0, <1>2, <1>3, CallsOfOne
<1>5. Guard!Counted' = Guard!Counted \ {<<t, Len(q)>>} /\ <<t, Len(q)>> \in Guard!Counted
  <2> HIDE DEF q
  <2>1. Len(q) \in DOMAIN q /\ DOMAIN q \subseteq Nat /\ q[Len(q)] \in Guard!Entered
    BY <1>1, <1>3 DEF Guard!Entered
  <2>2. \A i \in DOMAIN q : i # Len(q) => i \in DOMAIN r /\ r[i] = q[i]
    BY <1>3
  <2>3. \A u \in Reporters, i \in Nat :
          /\ <<u, i>> \in Guard!Counted <=> i \in DOMAIN calls[u] /\ calls[u][i] \in Guard!Entered
          /\ <<u, i>> \in Guard!Counted' <=> i \in DOMAIN calls'[u] /\ calls'[u][i] \in Guard!Entered
    BY DEF Guard!Counted
  <2>4. \A u \in Reporters, i \in Nat :
          <<u, i>> \in Guard!Counted' <=> <<u, i>> \in Guard!Counted /\ ~(u = t /\ i = Len(q))
    <3> SUFFICES ASSUME NEW u \in Reporters, NEW i \in Nat
                 PROVE  (i \in DOMAIN calls'[u] /\ calls'[u][i] \in Guard!Entered)
                          <=> /\ i \in DOMAIN calls[u] /\ calls[u][i] \in Guard!Entered
                              /\ ~(u = t /\ i = Len(q))
      BY <2>3
    <3>1. CASE u # t
      BY <1>4, <3>1
    <3>2. CASE u = t
      <4>1. i \in DOMAIN r <=> i \in DOMAIN q /\ i # Len(q)
        <5>1. /\ DOMAIN r = 1 .. Len(q) - 1 /\ DOMAIN q = 1 .. Len(q)
              /\ Len(q) \in Nat \ {0} /\ i \in Nat
          BY <1>3
        <5>2. i \in 1 .. Len(q) - 1 <=> i \in 1 .. Len(q) /\ i # Len(q)
          BY ONLY <5>1, AllButLast
        <5> QED BY ONLY <5>1, <5>2
      <4>2. i \in DOMAIN r => r[i] = q[i]
        BY <1>3
      <4>3. calls'[u] = r /\ calls[u] = q
        BY <1>4, <3>2 DEF q
      <4> QED BY <3>2, <4>1, <4>2, <4>3
    <3> QED BY <3>1, <3>2
  <2>5. <<t, Len(q)>> \in Guard!Counted
    BY <2>1, <2>3 DEF q
  <2>6. Guard!Counted \subseteq Reporters \X Nat /\ Guard!Counted' \subseteq Reporters \X Nat
    BY DEF Guard!Counted
  <2> QED BY <2>4, <2>5, <2>6
<1>6. /\ IsFiniteSet(Guard!Counted') /\ depth' = Cardinality(Guard!Counted')
      /\ Cardinality(Guard!Counted') \in Nat
  BY <1>0, <1>2, <1>5, FS_RemoveElement, FS_CardinalityType, GuardCounts DEF Guard!IInv
<1>7. Guard!TypeOK'
  BY <1>0, <1>2, <1>4, <1>6 DEF Guard!TypeOK
<1>8. \A u \in Reporters : lastThread' = u => Guard!At(u, {"lookup", "clear"})' # {}
  <2> HIDE DEF q
  <2>1. \A i \in DOMAIN q : q[i] \in {"lookup", "clear"}
          => i \in DOMAIN r /\ r[i] \in {"lookup", "clear"}
    BY <1>1, <1>3
  <2> QED BY <1>2, <1>3, <2>1, MarkStays DEF q
<1>9. ASSUME NEW u \in Reporters
      PROVE  Cardinality(Guard!At(u, {"mark", "lookup", "clear"}))' < DepthLimit
  <2>1. CASE u = t
    <3> HIDE DEF q
    <3>1. \A i \in DOMAIN q : q[i] \in {"mark", "lookup", "clear"}
            => i \in DOMAIN r /\ r[i] = q[i]
      BY <1>1, <1>3
    <3>2. \A i \in DOMAIN r : i \in DOMAIN q /\ r[i] = q[i]
      BY <1>3
    <3>3. Guard!At(t, {"mark", "lookup", "clear"})' = Guard!At(t, {"mark", "lookup", "clear"})
      BY <1>4, <3>1, <3>2 DEF Guard!At, q
    <3> QED BY <2>1, <3>3, GuardCounts DEF Guard!IInv, Guard!RecursionIsBounded
  <2>2. CASE u # t
    <3>1. Guard!At(u, {"mark", "lookup", "clear"})' = Guard!At(u, {"mark", "lookup", "clear"})
      BY <1>4, <2>2 DEF Guard!At
    <3> QED BY <3>1, GuardCounts DEF Guard!IInv, Guard!RecursionIsBounded
  <2> QED BY <2>1, <2>2
<1> QED BY <1>6, <1>7, <1>8, <1>9, GuardCounts DEF Guard!IInv, Guard!RecursionIsBounded, Guard!TypeOK

LEMMA GuardStep == Guard!IInv /\ [Guard!Next]_(Guard!vars) => Guard!IInv'
<1> SUFFICES ASSUME Guard!IInv, [Guard!Next]_(Guard!vars) PROVE Guard!IInv'
  OBVIOUS
<1>0. lastThread \in Reporters \cup {NoThread}
  BY GuardCounts DEF Guard!IInv, Guard!TypeOK
<1>1. ASSUME NEW t \in Reporters, Guard!SetLastError(t) PROVE Guard!IInv'
  BY <1>1, CallsFirst
<1>2. ASSUME NEW t \in Reporters, Guard!Check(t) PROVE Guard!IInv'
  BY <1>2, GotoSame, TurnedAway DEF Guard!Check, Guard!Places, Guard!Entered
<1>3. ASSUME NEW t \in Reporters, Guard!Enter(t) PROVE Guard!IInv'
  BY <1>3, CountedIn
<1>4. ASSUME NEW t \in Reporters, Guard!Mark(t) PROVE Guard!IInv'
  BY <1>4, GotoSame DEF Guard!Mark, Guard!Places, Guard!Entered
<1>5. ASSUME NEW t \in Reporters, Guard!Store(t) PROVE Guard!IInv'
  BY <1>5, GotoSame DEF Guard!Store, Guard!Places, Guard!Entered
<1>6. ASSUME NEW t \in Reporters, Guard!LookupFails(t) PROVE Guard!IInv'
  BY <1>6, CallsAgain
<1>7. ASSUME NEW t \in Reporters, Guard!Clear(t) PROVE Guard!IInv'
  BY <1>7, GotoSame DEF Guard!Clear, Guard!Places, Guard!Entered
<1>8. ASSUME NEW t \in Reporters, Guard!Leave(t) PROVE Guard!IInv'
  BY <1>8, CountedOut
<1>9. CASE UNCHANGED Guard!vars
  BY <1>9, GuardCounts DEF Guard!vars, Guard!IInv, Guard!TypeOK, Guard!Counted, Guard!At, Guard!RecursionIsBounded
<1> QED BY <1>1, <1>2, <1>3, <1>4, <1>5, <1>6, <1>7, <1>8, <1>9 DEF Guard!Next

LEMMA IInvRecovers == Guard!IInv => Guard!GuardRecovers
<1> SUFFICES ASSUME Guard!IInv, \A t \in Reporters : calls[t] = <<>>
             PROVE  lastThread = NoThread /\ depth = 0
  BY DEF Guard!GuardRecovers
<1>1. Guard!Counted = {}
  BY DEF Guard!Counted
<1>2. \A t \in Reporters : Guard!At(t, {"lookup", "clear"}) = {}
  BY DEF Guard!At
<1> QED BY <1>1, <1>2, FS_EmptySet, GuardCounts DEF Guard!IInv, Guard!TypeOK


\* A behaviour of the module is one of the guard.
LEMMA GuardHalf == MCSpec => Guard!Spec
<1>1. MCInit => Guard!Init
  BY DEF MCInit
<1>2. [MCNext]_<<vars, half, lastThread, depth, calls>> => [Guard!Next]_(Guard!vars)
  BY DEF MCNext, Guard!vars
<1> QED BY <1>1, <1>2, PTL DEF MCSpec, Guard!Spec

\* The counter is exact and a mark is always about to be cleared, however many
\* threads report at once and whichever of their reports fail.
THEOREM GuardInvariance == MCSpec => []Guard!IInv
BY GuardHalf, GuardInit, GuardStep, PTL DEF Guard!Spec

\* When nobody reports, no thread is muted and the counter is 0.
THEOREM GuardIsAsNew == MCSpec => []GuardRecovers
<1>1. Guard!IInv => GuardRecovers
  BY IInvRecovers DEF GuardRecovers
<1> QED BY <1>1, GuardInvariance, PTL

\* No thread has more calls of SetLastError on its stack than the limit allows.
THEOREM RecursionBounded == MCSpec => []RecursionIsBounded
<1>1. Guard!IInv => RecursionIsBounded
  BY GuardCounts DEF Guard!IInv, RecursionIsBounded
<1> QED BY <1>1, GuardInvariance, PTL
=============================================================================
