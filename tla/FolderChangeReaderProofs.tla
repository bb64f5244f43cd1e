---------------------- MODULE FolderChangeReaderProofs ----------------------
(***************************************************************************)
(* The folder change reader is safe for any number of threads in the pool  *)
(* and any changes: IInv is inductive, the safety properties follow from   *)
(* it, and every step keeps the contract with the client.                  *)
(***************************************************************************)
EXTENDS FolderChangeReader, TLAPS

\* The initial states satisfy the invariant.
LEMMA InitIInv == Init => IInv
<1> SUFFICES ASSUME Init PROVE IInv
  OBVIOUS
<1> USE OwnerAssumption DEF Init, Threads, StartIo
<1>1. TypeOK
  <2>1. pc \in [Threads -> OwnerPlaces \cup PoolPlaces]
    BY DEF OwnerPlaces, PoolPlaces
  <2>2. pc[Owner] \in OwnerPlaces /\ \A t \in Pool : pc[t] \in PoolPlaces
    BY DEF OwnerPlaces, PoolPlaces
  <2>3. m_tpIo \in BOOLEAN /\ freed \in BOOLEAN /\ broken \in BOOLEAN
    BY Zenon
  <2>4. packets \in Seq(Results) /\ result \in [Pool -> Results]
    BY DEF Results
  <2>5. QED
    BY <2>1, <2>2, <2>3, <2>4 DEF TypeOK
<1>2. Turn
  <2>1. Len(packets) <= 1
    OBVIOUS
  <2>2. QED
    BY <2>1 DEF Turn, HasTurn
<1>3. IOsCounted
  BY DEF IOsCounted
<1>4. Lock
  BY DEF Lock
<1>5. Teardown
  BY DEF Teardown, Running
<1>6. QED
  BY <1>1, <1>2, <1>3, <1>4, <1>5 DEF IInv

\* Every step keeps the invariant: the owner's steps, those of the file system,
\* then those of a thread t.
LEMMA StepIInv == IInv /\ [Next]_vars => IInv'
<1> SUFFICES ASSUME IInv, [Next]_vars PROVE IInv'
  OBVIOUS
<1> USE OwnerAssumption
<1> USE DEF Threads, IInv, TypeOK, Turn, IOsCounted, Lock, Teardown, HasTurn, Go,
            Running, StartIo, OwnerPlaces, PoolPlaces, Results, ioVars, ends
<1>1. CASE create_common
  <2>1. TypeOK'
    BY <1>1 DEF create_common
  <2>2. Turn'
    BY <1>1 DEF create_common
  <2>3. IOsCounted'
    BY <1>1 DEF create_common
  <2>4. Lock'
    BY <1>1 DEF create_common
  <2>5. Teardown'
    BY <1>1 DEF create_common
  <2>6. QED
    BY <2>1, <2>2, <2>3, <2>4, <2>5
<1>2. CASE reset
  <2>1. TypeOK'
    BY <1>2 DEF reset
  <2>2. Turn'
    BY <1>2 DEF reset
  <2>3. IOsCounted'
    BY <1>2 DEF reset
  <2>4. Lock'
    BY <1>2 DEF reset
  <2>5. Teardown'
    BY <1>2 DEF reset
  <2>6. QED
    BY <2>1, <2>2, <2>3, <2>4, <2>5
<1>3. CASE lock_exclusive
  <2>1. TypeOK'
    BY <1>3 DEF lock_exclusive
  <2>2. Turn'
    BY <1>3 DEF lock_exclusive
  <2>3. IOsCounted'
    BY <1>3 DEF lock_exclusive
  <2>4. Lock'
    <3>1. ~m_tpIo' /\ pc'[Owner] = "unlock"
      BY <1>3 DEF lock_exclusive
    <3>2. \A t \in Pool : pc'[t] = pc[t] /\ pc[t] \notin StartIo
      BY <1>3 DEF lock_exclusive, Shared
    <3>3. QED
      BY <3>1, <3>2
  <2>5. Teardown'
    BY <1>3 DEF lock_exclusive
  <2>6. QED
    BY <2>1, <2>2, <2>3, <2>4, <2>5
<1>4. CASE unlock
  <2>1. TypeOK'
    BY <1>4 DEF unlock
  <2>2. Turn'
    BY <1>4 DEF unlock
  <2>3. IOsCounted'
    BY <1>4 DEF unlock
  <2>4. Lock'
    BY <1>4 DEF unlock
  <2>5. Teardown'
    BY <1>4 DEF unlock
  <2>6. QED
    BY <2>1, <2>2, <2>3, <2>4, <2>5
<1>5. CASE CancelIoEx
  <2>1. TypeOK'
    BY <1>5 DEF CancelIoEx
  <2>2. Turn'
    BY <1>5 DEF CancelIoEx
  <2>3. IOsCounted'
    BY <1>5 DEF CancelIoEx
  <2>4. Lock'
    BY <1>5 DEF CancelIoEx
  <2>5. Teardown'
    BY <1>5 DEF CancelIoEx
  <2>6. QED
    BY <2>1, <2>2, <2>3, <2>4, <2>5
<1>6. CASE GetOverlappedResult
  <2>1. TypeOK'
    BY <1>6 DEF GetOverlappedResult
  <2>2. Turn'
    BY <1>6 DEF GetOverlappedResult
  <2>3. IOsCounted'
    BY <1>6 DEF GetOverlappedResult
  <2>4. Lock'
    BY <1>6 DEF GetOverlappedResult
  <2>5. Teardown'
    BY <1>6 DEF GetOverlappedResult
  <2>6. QED
    BY <2>1, <2>2, <2>3, <2>4, <2>5
<1>7. CASE WaitForCallbacks
  <2>1. TypeOK'
    BY <1>7 DEF WaitForCallbacks
  <2>2. Turn'
    BY <1>7 DEF WaitForCallbacks
  <2>3. IOsCounted'
    BY <1>7 DEF WaitForCallbacks
  <2>4. Lock'
    BY <1>7 DEF WaitForCallbacks
  <2>5. Teardown'
    BY <1>7 DEF WaitForCallbacks
  <2>6. QED
    BY <2>1, <2>2, <2>3, <2>4, <2>5
<1>8. CASE delete
  <2>1. TypeOK'
    BY <1>8 DEF delete
  <2>2. Turn'
    BY <1>8 DEF delete
  <2>3. IOsCounted'
    BY <1>8 DEF delete
  <2>4. Lock'
    BY <1>8 DEF delete
  <2>5. Teardown'
    BY <1>8 DEF delete
  <2>6. QED
    BY <2>1, <2>2, <2>3, <2>4, <2>5
<1>9. CASE ReadReturns
  <2>1. TypeOK'
    BY <1>9 DEF ReadReturns, Complete
  <2>2. Turn'
    BY <1>9 DEF ReadReturns, Complete
  <2>3. IOsCounted'
    <3>1. started = 1 /\ started' = started
      BY <1>9 DEF ReadReturns, Complete
    <3>2. packets' # <<>>
      BY <1>9 DEF ReadReturns, Complete
    <3>3. QED
      BY <3>1, <3>2
  <2>4. Lock'
    BY <1>9 DEF ReadReturns, Complete
  <2>5. Teardown'
    BY <1>9 DEF ReadReturns, Complete
  <2>6. QED
    BY <2>1, <2>2, <2>3, <2>4, <2>5
<1>10. CASE ReadIsCancelled
  <2>1. TypeOK'
    BY <1>10 DEF ReadIsCancelled, Complete
  <2>2. Turn'
    BY <1>10 DEF ReadIsCancelled, Complete
  <2>3. IOsCounted'
    BY <1>10 DEF ReadIsCancelled, Complete
  <2>4. Lock'
    BY <1>10 DEF ReadIsCancelled, Complete
  <2>5. Teardown'
    BY <1>10 DEF ReadIsCancelled, Complete
  <2>6. QED
    BY <2>1, <2>2, <2>3, <2>4, <2>5
<1>11. CASE ReadFails
  <2>1. TypeOK'
    BY <1>11 DEF ReadFails, Complete
  <2>2. Turn'
    BY <1>11 DEF ReadFails, Complete
  <2>3. IOsCounted'
    BY <1>11 DEF ReadFails, Complete
  <2>4. Lock'
    BY <1>11 DEF ReadFails, Complete
  <2>5. Teardown'
    BY <1>11 DEF ReadFails, Complete
  <2>6. QED
    BY <2>1, <2>2, <2>3, <2>4, <2>5
<1>12. ASSUME NEW c \in Changes, Change(c) PROVE IInv'
  <2>1. TypeOK'
    BY <1>12 DEF Change
  <2>2. Turn'
    BY <1>12 DEF Change
  <2>3. IOsCounted'
    BY <1>12 DEF Change
  <2>4. Lock'
    BY <1>12 DEF Change
  <2>5. Teardown'
    BY <1>12 DEF Change
  <2>6. QED
    BY <2>1, <2>2, <2>3, <2>4, <2>5
<1>13. ASSUME NEW t \in Threads, StartThreadpoolIo(t) PROVE IInv'
  <2>1. TypeOK'
    BY <1>13 DEF StartThreadpoolIo
  <2>2. Turn'
    BY <1>13 DEF StartThreadpoolIo
  <2>3. IOsCounted'
    BY <1>13 DEF StartThreadpoolIo
  <2>4. Lock'
    BY <1>13 DEF StartThreadpoolIo
  <2>5. Teardown'
    BY <1>13 DEF StartThreadpoolIo
  <2>6. QED
    BY <2>1, <2>2, <2>3, <2>4, <2>5
<1>14. ASSUME NEW t \in Threads, ReadDirectoryChangesW(t) PROVE IInv'
  <2>1. TypeOK'
    BY <1>14 DEF ReadDirectoryChangesW
  <2>2. Turn'
    BY <1>14 DEF ReadDirectoryChangesW
  <2>3. IOsCounted'
    BY <1>14 DEF ReadDirectoryChangesW
  <2>4. Lock'
    BY <1>14 DEF ReadDirectoryChangesW
  <2>5. Teardown'
    BY <1>14 DEF ReadDirectoryChangesW
  <2>6. QED
    BY <2>1, <2>2, <2>3, <2>4, <2>5
<1>15. ASSUME NEW t \in Threads, ReadIsRefused(t) PROVE IInv'
  <2>1. TypeOK'
    BY <1>15 DEF ReadIsRefused
  <2>2. Turn'
    BY <1>15 DEF ReadIsRefused
  <2>3. IOsCounted'
    BY <1>15 DEF ReadIsRefused
  <2>4. Lock'
    BY <1>15 DEF ReadIsRefused
  <2>5. Teardown'
    BY <1>15 DEF ReadIsRefused
  <2>6. QED
    BY <2>1, <2>2, <2>3, <2>4, <2>5
<1>16. ASSUME NEW t \in Threads, CancelThreadpoolIo(t) PROVE IInv'
  <2>1. TypeOK'
    BY <1>16 DEF CancelThreadpoolIo
  <2>2. Turn'
    BY <1>16 DEF CancelThreadpoolIo
  <2>3. IOsCounted'
    BY <1>16 DEF CancelThreadpoolIo
  <2>4. Lock'
    BY <1>16 DEF CancelThreadpoolIo
  <2>5. Teardown'
    BY <1>16 DEF CancelThreadpoolIo
  <2>6. QED
    BY <2>1, <2>2, <2>3, <2>4, <2>5
<1>17. ASSUME NEW t \in Pool, StartCallback(t) PROVE IInv'
  <2>1. TypeOK'
    BY <1>17 DEF StartCallback
  <2>2. Turn'
    BY <1>17 DEF StartCallback
  <2>3. IOsCounted'
    BY <1>17 DEF StartCallback
  <2>4. Lock'
    BY <1>17 DEF StartCallback
  <2>5. Teardown'
    BY <1>17 DEF StartCallback
  <2>6. QED
    BY <2>1, <2>2, <2>3, <2>4, <2>5
<1>18. ASSUME NEW t \in Pool, callback(t) PROVE IInv'
  <2>1. TypeOK'
    BY <1>18 DEF callback
  <2>2. Turn'
    BY <1>18 DEF callback
  <2>3. IOsCounted'
    BY <1>18 DEF callback
  <2>4. Lock'
    BY <1>18 DEF callback
  <2>5. Teardown'
    BY <1>18 DEF callback
  <2>6. QED
    BY <2>1, <2>2, <2>3, <2>4, <2>5
<1>19. ASSUME NEW t \in Pool, m_callback(t) PROVE IInv'
  <2>1. TypeOK'
    BY <1>19 DEF m_callback
  <2>2. Turn'
    BY <1>19 DEF m_callback
  <2>3. IOsCounted'
    BY <1>19 DEF m_callback
  <2>4. Lock'
    BY <1>19 DEF m_callback
  <2>5. Teardown'
    BY <1>19 DEF m_callback
  <2>6. QED
    BY <2>1, <2>2, <2>3, <2>4, <2>5
<1>20. ASSUME NEW t \in Pool, return(t) PROVE IInv'
  <2>1. TypeOK'
    BY <1>20 DEF return
  <2>2. Turn'
    BY <1>20 DEF return
  <2>3. IOsCounted'
    BY <1>20 DEF return
  <2>4. Lock'
    BY <1>20 DEF return
  <2>5. Teardown'
    BY <1>20 DEF return
  <2>6. QED
    BY <2>1, <2>2, <2>3, <2>4, <2>5
<1>21. ASSUME NEW t \in Pool, try_lock_shared(t) PROVE IInv'
  <2>1. TypeOK'
    BY <1>21 DEF try_lock_shared, Shared, Exclusive
  <2>2. Turn'
    BY <1>21 DEF try_lock_shared, Shared, Exclusive
  <2>3. IOsCounted'
    BY <1>21 DEF try_lock_shared, Shared, Exclusive
  <2>4. Lock'
    BY <1>21 DEF try_lock_shared, Shared, Exclusive
  <2>5. Teardown'
    BY <1>21 DEF try_lock_shared, Shared, Exclusive
  <2>6. QED
    BY <2>1, <2>2, <2>3, <2>4, <2>5
<1>22. ASSUME NEW t \in Pool, unlock_shared(t) PROVE IInv'
  <2>1. TypeOK'
    BY <1>22 DEF unlock_shared, Shared, Exclusive
  <2>2. Turn'
    BY <1>22 DEF unlock_shared, Shared, Exclusive
  <2>3. IOsCounted'
    BY <1>22 DEF unlock_shared, Shared, Exclusive
  <2>4. Lock'
    BY <1>22 DEF unlock_shared, Shared, Exclusive
  <2>5. Teardown'
    BY <1>22 DEF unlock_shared, Shared, Exclusive
  <2>6. QED
    BY <2>1, <2>2, <2>3, <2>4, <2>5
<1>23. CASE UNCHANGED vars
  BY <1>23 DEF vars
<1>24. QED
  BY <1>1, <1>2, <1>3, <1>4, <1>5, <1>6, <1>7, <1>8, <1>9, <1>10, <1>11, <1>12, <1>13, <1>14, <1>15, <1>16, <1>17, <1>18, <1>19, <1>20, <1>21, <1>22, <1>23
  DEF Next, OwnerSteps, StartIoSteps, CallbackSteps

\* The invariant holds in every reachable state.
THEOREM Invariance == Spec => []IInv
<1>1. QED
  BY InitIInv, StepIInv, PTL DEF Spec

\* What is deleted is not used any more, by the pool or by the file system.
THEOREM StateSafety == Spec => []NoUseAfterFree
<1>1. IInv => NoUseAfterFree
  BY DEF IInv, Teardown, NoUseAfterFree
<1>2. QED
  BY <1>1, Invariance, PTL

\* No read is pending while a callback goes through the buffer.
THEOREM BufferSafety == Spec => []BufferIsStable
<1>1. IInv => BufferIsStable
  BY DEF IInv, Turn, HasTurn, Threads, BufferIsStable
<1>2. QED
  BY <1>1, Invariance, PTL

\* The starts that the pool was told of and the completions agree, so that the
\* destructor does not wait for one that never comes.
THEOREM CountIsExact == Spec => []IOsCounted
<1>1. IInv => IOsCounted
  BY DEF IInv
<1>2. QED
  BY <1>1, Invariance, PTL

\* At first nobody is called and nothing has ended.
LEMMA InitContract == Init => Contract!Init
  BY OwnerAssumption DEF Init, Contract!Init, Threads

\* Every step is a step of the contract or leaves it alone.
LEMMA StepContract ==
  IInv /\ [Next]_vars
    => [Contract!Next]_<<{t \in Pool : pc[t] = "in_callback"}, freed>>
<1> DEFINE calling == {t \in Pool : pc[t] = "in_callback"}
<1> SUFFICES ASSUME IInv, [Next]_vars
             PROVE  Contract!Next \/ (calling' = calling /\ freed' = freed)
  OBVIOUS
<1> USE OwnerAssumption DEF IInv, TypeOK, Threads, Go, StartIo
<1>1. ASSUME NEW t \in Pool, m_callback(t) PROVE Contract!Next
  <2>1. calling = {} /\ calling' = {t}
    BY <1>1 DEF m_callback, Turn, HasTurn
  <2>2. ~freed /\ freed' = freed
    BY <1>1 DEF m_callback, Teardown, Running
  <2>3. QED
    BY <2>1, <2>2 DEF Contract!Next, Contract!Call
<1>2. ASSUME NEW t \in Pool, return(t) PROVE Contract!Next
  <2>1. calling = {t} /\ calling' = {}
    BY <1>2 DEF return, Turn, HasTurn
  <2>2. freed' = freed
    BY <1>2 DEF return, ends
  <2>3. QED
    BY <2>1, <2>2 DEF Contract!Next, Contract!Return
<1>3. CASE delete
  <2>1. calling = {} /\ calling' = calling
    BY <1>3 DEF delete, Teardown, Running
  <2>2. ~freed /\ freed' = TRUE
    BY <1>3 DEF delete, Teardown
  <2>3. QED
    BY <2>1, <2>2 DEF Contract!Next, Contract!End
<1>4. ASSUME freed' = freed,
             \A t \in Pool : pc'[t] = "in_callback" <=> pc[t] = "in_callback"
      PROVE  calling' = calling /\ freed' = freed
  BY <1>4
<1> HIDE DEF calling
<1> USE DEF ends, ioVars, OwnerPlaces, PoolPlaces
<1>5. CASE \/ create_common \/ reset \/ lock_exclusive \/ unlock \/ CancelIoEx
           \/ GetOverlappedResult \/ WaitForCallbacks
  BY <1>4, <1>5 DEF create_common, reset, lock_exclusive, unlock, CancelIoEx,
     GetOverlappedResult, WaitForCallbacks
<1>6. CASE ReadReturns \/ ReadIsCancelled \/ ReadFails \/ UNCHANGED vars
  BY <1>4, <1>6 DEF ReadReturns, ReadIsCancelled, ReadFails, Complete, vars
<1>7. ASSUME NEW c \in Changes, Change(c)
      PROVE  calling' = calling /\ freed' = freed
  BY <1>4, <1>7 DEF Change
<1>8. ASSUME NEW t \in Threads, StartIoSteps(t)
      PROVE  calling' = calling /\ freed' = freed
  BY <1>4, <1>8 DEF StartIoSteps, StartThreadpoolIo, ReadDirectoryChangesW,
     ReadIsRefused, CancelThreadpoolIo
<1>9. ASSUME NEW t \in Pool,
             StartCallback(t) \/ callback(t) \/ try_lock_shared(t) \/ unlock_shared(t)
      PROVE  calling' = calling /\ freed' = freed
  BY <1>4, <1>9 DEF StartCallback, callback, try_lock_shared, unlock_shared
<1>10. QED
  BY <1>1, <1>2, <1>3, <1>5, <1>6, <1>7, <1>8, <1>9
  DEF Next, OwnerSteps, CallbackSteps

\* The reader keeps the contract of all watchers, for any threads and changes.
THEOREM Implements == Spec => KeepsContract
<1>1. QED
  BY InitContract, StepContract, Invariance, PTL
  DEF Spec, KeepsContract, Contract!Spec
=============================================================================
