----------------------- MODULE FailureReportingProofs -----------------------
(* Conversions between error codes, and failures on their way up, for all    *)
(* codes, tables of Windows and depths of the stack.                         *)
EXTENDS FailureReporting, TLAPS

---------------------------------------------------------------------------
(* The conversions, for every code of 32 bits.                               *)

\* A failed NTSTATUS becomes a failed HRESULT, which has a Win32 error if its
\* facility is that of Win32 errors (NtStatusToHr).
THEOREM StatusToHrFails ==
  ASSUME NEW s \in Int32, Failed(s)
  PROVE  /\ NtStatusToHr(s) \in Int32
         /\ Failed(NtStatusToHr(s))
         /\ ~WithoutError(NtStatusToHr(s))
<1> USE DEF Int32, Failed, WithoutError, Facility, FACILITY_WIN32, Win32Code
<1>1. CASE s = STATUS_NO_MEMORY
  BY SMT, <1>1 DEF NtStatusToHr, E_OUTOFMEMORY
<1>2. CASE s # STATUS_NO_MEMORY /\ DosError(s) \notin {0, ERROR_MR_MID_NOT_FOUND}
  <2> DEFINE d == DosError(s)
  <2>1. d \in Errors /\ d > 0
    BY SMT, <1>2, DosAssumption DEF DosError, Errors, ERROR_MR_MID_NOT_FOUND
  <2>2. NtStatusToHr(s) = d - 2147024896
    BY SMT, <1>2, <2>1 DEF NtStatusToHr, HresultFromWin32, Errors
  <2> HIDE DEF d
  <2>3. QED BY SMT, <2>1, <2>2 DEF Errors
<1>3. CASE s # STATUS_NO_MEMORY /\ DosError(s) \in {0, ERROR_MR_MID_NOT_FOUND}
  <2>1. NtStatusToHr(s) = HresultFromNt(s)
    BY SMT, <1>3 DEF NtStatusToHr
  <2>2. QED
    BY SMT, <2>1 DEF HresultFromNt, HasNtBit, FACILITY_NT_BIT
<1>4. QED BY SMT, <1>1, <1>2, <1>3

LEMMA RowOfTable ==
  ASSUME NEW hr, HasStatus(hr)
  PROVE  \E row \in StatusTable : row[1] = hr /\ StatusOf(hr) = row[2]
BY Zenon DEF HasStatus, StatusOf

\* A failed HRESULT becomes a failed NTSTATUS, unless it is one whose Win32
\* error is none (HrToNtStatus).
THEOREM HrToStatusFails ==
  ASSUME NEW hr \in Int32, Failed(hr)
  PROVE  /\ HrToNtStatus(hr) \in Int32
         /\ ~WithoutError(hr) => Failed(HrToNtStatus(hr))
<1> USE DEF Int32, Failed, WithoutError, Facility, FACILITY_WIN32, Win32Code
<1>1. CASE HasStatus(hr)
  <2>1. PICK row \in StatusTable : row[1] = hr /\ HrToNtStatus(hr) = row[2]
    BY SMT, <1>1, RowOfTable DEF HrToNtStatus
  <2>2. hr < 0 BY SMT DEF Failed
  <2>3. row[2] \in Int32 /\ row[2] < 0
    BY SMT, <2>1, <2>2 DEF StatusTable, NtCode, ComCode, S_OK, E_FAIL, E_OUTOFMEMORY,
       STATUS_NO_MEMORY, UnhandledException
  <2>4. QED BY SMT, <2>1, <2>3
<1>2. CASE ~HasStatus(hr)
  <2>1. CASE HasNtBit(hr)
    <3>1. HrToNtStatus(hr) = hr - FACILITY_NT_BIT
      BY SMT, <1>2, <2>1 DEF HrToNtStatus
    <3>2. QED BY SMT, <2>1, <3>1 DEF HasNtBit, FACILITY_NT_BIT
  <2>2. CASE ~HasNtBit(hr) /\ Facility(hr) = FACILITY_WIN32
    <3>1. HrToNtStatus(hr) = StatusFromWin32(hr % 65536)
      BY SMT, <1>2, <2>2 DEF HrToNtStatus
    <3>2. hr % 65536 \in Errors BY SMT DEF Errors
    <3>3. QED BY SMT, <2>2, <3>1, <3>2 DEF StatusFromWin32, NtCode, Errors
  <2>3. CASE ~HasNtBit(hr) /\ Facility(hr) # FACILITY_WIN32
    <3>1. HrToNtStatus(hr) \in {hr, STATUS_INTERNAL_ERROR}
      BY SMT, <1>2, <2>3 DEF HrToNtStatus
    <3>2. QED BY SMT, <3>1 DEF STATUS_INTERNAL_ERROR, NtCode
  <2>4. QED BY SMT, <2>1, <2>2, <2>3
<1>3. QED BY SMT, <1>1, <1>2

\* A failed NTSTATUS for which Windows has no error comes back unchanged from
\* an HRESULT, if it does not carry the bit that HRESULTs mark it with and
\* the HRESULT has no NTSTATUS of its own (NtStatusToHr, HrToNtStatus).
THEOREM StatusComesBack ==
  ASSUME NEW s \in Int32, Failed(s), s # STATUS_NO_MEMORY,
         DosError(s) \in {0, ERROR_MR_MID_NOT_FOUND}, ~HasNtBit(s)
  PROVE  HrToNtStatus(NtStatusToHr(s)) = s
<1> DEFINE hr == NtStatusToHr(s)
<1>1. hr = s + FACILITY_NT_BIT
  BY SMT DEF NtStatusToHr, HresultFromNt
<1>2. hr \in Int /\ HasNtBit(hr)
  BY SMT, <1>1 DEF HasNtBit, FACILITY_NT_BIT, Int32
<1>3. ~HasStatus(hr)
  BY SMT, <1>2 DEF HasStatus, StatusTable, HasNtBit, FACILITY_NT_BIT, Win32Code, S_OK, E_FAIL, E_OUTOFMEMORY,
     ComCode, UnhandledException
<1>4. HrToNtStatus(hr) = hr - FACILITY_NT_BIT
  BY SMT, <1>2, <1>3 DEF HrToNtStatus
<1>5. QED BY SMT, <1>1, <1>4 DEF Int32, FACILITY_NT_BIT

---------------------------------------------------------------------------
(* The inductive invariant.                                                  *)

\* What an origin, the types it has been handed on as and the mode of the
\* build demand of a pair that stands for it further up.
Tells(p, o, types, mode) ==
  /\ Failed(p.hr)
  /\ WithoutError(p.hr) => WithoutError(o.code)
  /\ Failed(p.status) \/ WithoutError(o.code)
  /\ o.kind \notin {"unknown", "range", "invalid"} /\ "status" \notin types => Same(types, p.hr, OriginHr(o))
  /\ o.kind = "status" /\ "hr" \notin types /\ "win32" \notin types /\ mode = "plain" =>
       p.status = o.code

FaultTells ==
  at = "failed" =>
    /\ PairOf(fault) \in Pairs
    /\ Tells(PairOf(fault), origin, as, setting.mode)
    /\ fault.kind = "status" => Failed(fault.code)
    /\ fault.kind = "win32" => fault.code = Win32FromHr(PairOf(fault).hr)

Own == {"result", "platform", "winrt"}

ExceptionTells ==
  at = "throwing" =>
    /\ exc.type \in Own => Tells(exc.pair, origin, as, setting.mode)
    /\ exc.type \notin Own => exc.type \in Foreign /\ origin.kind = exc.type
    /\ exc.type = "winrt" => setting.mode = "cppwinrt"
    /\ exc.type = "platform" => setting.mode = "cx"

OriginFails == origin.kind = "status" => Failed(origin.code)

\* What a guard accepted stays acceptable.
Fits(g, st) ==
  g.type # "none" =>
    /\ g.supported # "None"
    /\ g.supported = "Thrown" => g.type \in {"result", "platform"}
    /\ g.supported = "Known" => g.type # "unknown" \/ st.mapper
    /\ g.supported = "Default" => g.type # "unknown" \/ st.mapper \/ ~st.failFastUnknown

IInv ==
  /\ TypeOK
  /\ FaultTells
  /\ ExceptionTells
  /\ OriginFails
  /\ FailureStaysFailure
  /\ Fits(guard, setting)

---------------------------------------------------------------------------
(* Pairs.                                                                    *)

LEMMA ErrorsAreCodes == Errors \subseteq Int32 /\ 0 \in Errors
BY SMT DEF Errors, Int32

\* The HRESULTs of the library's own are failures with an error.
LEMMA OwnCode ==
  /\ E_FAIL \in Int32 /\ Failed(E_FAIL) /\ ~WithoutError(E_FAIL)
  /\ E_BOUNDS \in Int32 /\ Failed(E_BOUNDS) /\ ~WithoutError(E_BOUNDS)
  /\ E_INVALIDARG \in Int32 /\ Failed(E_INVALIDARG) /\ ~WithoutError(E_INVALIDARG)
  /\ E_OUTOFMEMORY \in Int32 /\ Failed(E_OUTOFMEMORY) /\ ~WithoutError(E_OUTOFMEMORY)
  /\ UnhandledException \in Int32 /\ Failed(UnhandledException) /\ ~WithoutError(UnhandledException)
BY SMT DEF E_FAIL, E_BOUNDS, E_INVALIDARG, E_OUTOFMEMORY, UnhandledException, ComCode,
   Win32Code, Int32, Failed, WithoutError, Facility, FACILITY_WIN32

LEMMA ResultPair ==
  ASSUME NEW hr \in Int32, Failed(hr)
  PROVE  /\ FromResult(hr) \in Pairs
         /\ FromResult(hr).hr = hr
         /\ Failed(FromResult(hr).status) \/ WithoutError(hr)
BY SMT, HrToStatusFails DEF FromResult, Pairs

LEMMA StatusPair ==
  ASSUME NEW s \in Int32, Failed(s)
  PROVE  /\ FromStatus(s) \in Pairs
         /\ FromStatus(s).hr = NtStatusToHr(s)
         /\ FromStatus(s).status = s
         /\ Failed(FromStatus(s).hr)
         /\ ~WithoutError(FromStatus(s).hr)
BY SMT, StatusToHrFails DEF FromStatus, Pairs

LEMMA Success ==
  /\ S_OK \in Int32 /\ ~Failed(S_OK)
  /\ HrToNtStatus(S_OK) = 0
  /\ FromResult(S_OK) \in Pairs
<1>1. HasStatus(S_OK)
  BY SMT DEF HasStatus, StatusTable
<1>2. PICK row \in StatusTable : row[1] = S_OK /\ StatusOf(S_OK) = row[2]
  BY SMT, <1>1, RowOfTable
<1>3. row[2] = 0
  BY SMT, <1>2 DEF StatusTable, S_OK, NtCode, ComCode, Win32Code, E_FAIL, E_OUTOFMEMORY,
     STATUS_NO_MEMORY, UnhandledException
<1>4. HrToNtStatus(S_OK) = 0
  BY SMT, <1>1, <1>2, <1>3 DEF HrToNtStatus
<1>5. S_OK \in Int32 /\ ~Failed(S_OK) /\ 0 \in Int32
  BY SMT DEF S_OK, Int32, Failed
<1>6. QED BY SMT, <1>4, <1>5 DEF FromResult, Pairs

\* A Win32 error that is one becomes a failed HRESULT with that error.
LEMMA Win32Pair ==
  ASSUME NEW e \in Errors, e # 0
  PROVE  LET hr == HresultFromWin32(e)
         IN  hr \in Int32 /\ Failed(hr) /\ ~WithoutError(hr)
BY SMT DEF Errors, HresultFromWin32, Int32, Win32Code, Failed, WithoutError, Facility, FACILITY_WIN32

\* A Win32 error says as much as it does when it comes back as an HRESULT.
LEMMA Win32ComesBack ==
  ASSUME NEW h \in Int32, Failed(h)
  PROVE  LET c == Win32FromHr(h)
             hr == HresultFromWin32(c)
         IN  /\ c \in Int32
             /\ c = 0 => WithoutError(h)
             /\ c # 0 => hr \in Int32 /\ Failed(hr) /\ ~WithoutError(hr) /\ Win32FromHr(hr) = c
<1> USE DEF Int32, Failed, WithoutError, Facility, FACILITY_WIN32
<1>1. CASE Facility(h) = FACILITY_WIN32 /\ h % 65536 = 0
  BY SMT, <1>1 DEF Win32FromHr
<1>2. CASE Facility(h) = FACILITY_WIN32 /\ h % 65536 # 0
  <2> DEFINE c == h % 65536
  <2>1. c \in Int /\ 0 < c /\ c < 65536 /\ Win32FromHr(h) = c
    BY SMT, <1>2 DEF Win32FromHr
  <2> HIDE DEF c
  <2>2. HresultFromWin32(c) = c - 2147024896
    BY SMT, <2>1 DEF HresultFromWin32, Win32Code
  <2>3. ((c - 2147024896) \div 65536) % 8192 = 7 /\ (c - 2147024896) % 65536 = c
    BY SMT, <2>1
  <2>4. QED BY SMT, <2>1, <2>2, <2>3 DEF Win32FromHr
<1>3. CASE Facility(h) # FACILITY_WIN32
  <2>1. Win32FromHr(h) = h /\ h < 0
    BY SMT, <1>3 DEF Win32FromHr
  <2>2. HresultFromWin32(h) = h
    BY SMT, <2>1 DEF HresultFromWin32
  <2>3. QED BY SMT, <1>3, <2>1, <2>2
<1>4. QED BY SMT, <1>1, <1>2, <1>3

LEMMA SameSelf == \A types, a : Same(types, a, a)
BY Zenon DEF Same

LEMMA SameGrows ==
  ASSUME NEW types, NEW a, NEW b, Same(types, a, b), NEW type, type # "win32"
  PROVE  Same(types \cup {type}, a, b)
BY Zenon DEF Same

---------------------------------------------------------------------------
(* What the steps are made of.                                               *)

\* A report that does not end the process leaves the pair as it was given.
LEMMA LoggedKeeps ==
  ASSUME NEW type \in {"Return", "Exception"}, NEW pair, ~Ends(Logged(type, pair))
  PROVE  Logged(type, pair).pair = pair
<1> DEFINE left == IF setting.hook = "clears" THEN [pair EXCEPT !.hr = S_OK] ELSE pair
           info == [type |-> type,
                    pair |-> IF Failed(left.hr) THEN left ELSE [FromResult(E_UNEXPECTED) EXCEPT !.kind = left.kind],
                    leaked |-> ~Failed(left.hr) /\ type # "FailFast",
                    failFast |-> setting.hook = "failFast"]
<1>1. Logged(type, pair) = info
  BY SMT DEF Logged
<1>2. info.leaked = (~Failed(left.hr) /\ type # "FailFast")
  BY Zenon
<1>3. Failed(left.hr)
  BY Zenon, <1>1, <1>2 DEF Ends
<1>4. setting.hook # "clears"
  BY SMT, <1>3, Success
<1>5. QED BY SMT, <1>1, <1>3, <1>4

LEMMA LoggedPair ==
  ASSUME NEW type, NEW pair \in Pairs
  PROVE  Logged(type, pair).pair \in Pairs
<1>1. /\ FromResult(E_UNEXPECTED) \in Pairs
      /\ FromResult(Win32Code(ERROR_ASSERTION_FAILURE)) \in Pairs
  <2>1. /\ E_UNEXPECTED \in Int32 /\ Failed(E_UNEXPECTED)
        /\ Win32Code(ERROR_ASSERTION_FAILURE) \in Int32 /\ Failed(Win32Code(ERROR_ASSERTION_FAILURE))
    BY SMT DEF E_UNEXPECTED, ComCode, Win32Code, ERROR_ASSERTION_FAILURE, Int32, Failed
  <2>2. QED BY Zenon, <2>1, ResultPair
<1>2. QED BY SMT, <1>1, Success DEF Logged, Pairs

LEMMA ReportTypes ==
  ASSUME TypeOK, \E err \in Errs : Told(err)
  PROVE  lastError' \in Errors /\ failureId' \in Nat
BY SMT, FailureAssumption DEF TypeOK, Told

LEMMA DiesKeeps ==
  ASSUME IInv, Dies, lastError' \in Errors, failureId' \in Nat
  PROVE  IInv'
<1>1. at' = "dead" /\ UNCHANGED <<setting, depth, fault, exc, origin, as, guard>>
  BY SMT DEF Dies
<1>2. TypeOK' BY Zenon, <1>1 DEF IInv, TypeOK
<1>3. FaultTells' /\ ExceptionTells' /\ FailureStaysFailure'
  BY SMT, <1>1 DEF FaultTells, ExceptionTells, FailureStaysFailure
<1>4. OriginFails' /\ Fits(guard, setting)'
  BY Zenon, <1>1 DEF IInv, OriginFails, Fits
<1>5. QED BY Zenon, <1>2, <1>3, <1>4 DEF IInv

\* Handing on an HRESULT that tells of the origin.
LEMMA HandOnHr ==
  ASSUME IInv, depth > 0, NEW c \in Int32, Failed(c),
         WithoutError(c) => WithoutError(origin.code),
         origin.kind \notin {"unknown", "range", "invalid"} /\ "status" \notin as => Same(as, c, OriginHr(origin)),
         HandOn([kind |-> "hr", code |-> c]),
         lastError' \in Errors, failureId' \in Nat,
         Fits(guard', setting')
  PROVE  IInv'
<1> DEFINE f == [kind |-> "hr", code |-> c]
<1>1. /\ at' = "failed" /\ fault' = f /\ exc' = NoException
      /\ depth' = depth - 1 /\ as' = as \cup {"hr"} /\ UNCHANGED <<setting, origin>>
  BY SMT DEF HandOn, Fails
<1>2. TypeOK'
  <2>1. f \in [kind : Kinds, code : Int32] BY SMT DEF Kinds
  <2>2. NoException \in [type : {"none", "result", "platform", "winrt"} \cup Foreign, pair : Pairs, id : Nat]
    BY SMT, Success DEF NoException
  <2>3. depth' \in 0 .. Depth BY SMT, <1>1, FailureAssumption DEF IInv, TypeOK
  <2> HIDE DEF f
  <2>4. QED BY Zenon, <1>1, <2>1, <2>2, <2>3 DEF IInv, TypeOK, Kinds
<1>3. PairOf(fault)' = FromResult(c)
  BY SMT, <1>1 DEF PairOf
<1>4. FaultTells'
  <2> DEFINE pair == FromResult(c)
  <2>1. /\ pair.hr = c /\ Failed(pair.hr)
        /\ Failed(pair.status) \/ WithoutError(origin.code)
    BY Zenon, ResultPair
  <2>2. "hr" \in as' /\ ("status" \notin as' => "status" \notin as)
    BY Zenon, <1>1
  <2>3. Same(as, c, OriginHr(origin)) => Same(as', c, OriginHr(origin))
    <3>1. "hr" # "win32" BY SMT
    <3>2. QED BY Zenon, <1>1, <3>1, SameGrows
  <2> HIDE DEF pair
  <2>5. Tells(pair, origin, as', setting.mode)
    BY Zenon, <2>1, <2>2, <2>3 DEF Tells
  <2>6. QED BY SMT, <1>1, <1>3, <2>5, ResultPair DEF FaultTells, pair
<1>5. ExceptionTells' /\ FailureStaysFailure'
  BY SMT, <1>1 DEF ExceptionTells, FailureStaysFailure
<1>6. OriginFails'
  BY Zenon, <1>1 DEF IInv, OriginFails
<1>7. QED BY Zenon, <1>2, <1>4, <1>5, <1>6 DEF IInv

\* Handing on an NTSTATUS that tells of the origin, or the success that an
\* HRESULT without an error becomes.
LEMMA HandOnStatus ==
  ASSUME IInv, depth > 0, NEW c \in Int32,
         Failed(c) \/ WithoutError(origin.code),
         origin.kind = "status" /\ "hr" \notin as /\ "win32" \notin as /\ setting.mode = "plain" => c = origin.code,
         HandOn([kind |-> "status", code |-> c]),
         lastError' \in Errors, failureId' \in Nat, Fits(guard', setting')
  PROVE  IInv'
<1> DEFINE f == [kind |-> "status", code |-> c]
<1>1. /\ at' = IF Failed(c) THEN "failed" ELSE "lost"
      /\ fault' = f /\ exc' = NoException
      /\ depth' = depth - 1 /\ as' = as \cup {"status"} /\ UNCHANGED <<setting, origin>>
  BY SMT DEF HandOn, Fails
<1>2. TypeOK'
  <2>1. f \in [kind : Kinds, code : Int32] BY SMT DEF Kinds
  <2>2. NoException \in [type : {"none", "result", "platform", "winrt"} \cup Foreign, pair : Pairs, id : Nat]
    BY SMT, Success DEF NoException
  <2>3. depth' \in 0 .. Depth BY SMT, <1>1, FailureAssumption DEF IInv, TypeOK
  <2> HIDE DEF f
  <2>4. QED BY Zenon, <1>1, <2>1, <2>2, <2>3 DEF IInv, TypeOK, Kinds
<1>3. FaultTells'
  <2> SUFFICES ASSUME Failed(c)
      PROVE /\ PairOf(fault)' \in Pairs
            /\ Tells(PairOf(fault)', origin, as', setting.mode)
            /\ Failed(fault'.code)
    BY SMT, <1>1 DEF FaultTells
  <2> DEFINE pair == FromStatus(c)
  <2>1. /\ pair \in Pairs /\ pair.status = c
        /\ Failed(pair.hr) /\ ~WithoutError(pair.hr)
    BY Zenon, StatusPair
  <2>2. /\ "status" \in as' /\ ("hr" \notin as' => "hr" \notin as)
        /\ "win32" \notin as' => "win32" \notin as
    BY Zenon, <1>1
  <2>3. PairOf(fault)' = pair
    BY SMT, <1>1 DEF PairOf
  <2> HIDE DEF pair
  <2>4. Tells(pair, origin, as', setting.mode)
    BY Zenon, <2>1, <2>2 DEF Tells
  <2>5. QED BY SMT, <1>1, <2>1, <2>3, <2>4
<1>4. ExceptionTells' /\ FailureStaysFailure'
  BY SMT, <1>1 DEF ExceptionTells, FailureStaysFailure
<1>5. OriginFails'
  BY Zenon, <1>1 DEF IInv, OriginFails
<1>6. QED BY Zenon, <1>2, <1>3, <1>4, <1>5 DEF IInv

\* Handing on the Win32 error of an HRESULT that tells of the origin.
LEMMA HandOnWin32 ==
  ASSUME IInv, depth > 0, NEW h \in Int32, Failed(h),
         WithoutError(h) => WithoutError(origin.code),
         origin.kind \notin {"unknown", "range", "invalid"} /\ "status" \notin as => Same(as, h, OriginHr(origin)),
         HandOn([kind |-> "win32", code |-> Win32FromHr(h)]),
         lastError' \in Errors, failureId' \in Nat, Fits(guard', setting')
  PROVE  IInv'
<1> DEFINE c == Win32FromHr(h)
           f == [kind |-> "win32", code |-> c]
           hr == HresultFromWin32(c)
<1>1. /\ c \in Int32
      /\ c = 0 => WithoutError(origin.code)
      /\ c # 0 => hr \in Int32 /\ Failed(hr) /\ ~WithoutError(hr) /\ Win32FromHr(hr) = c
  BY Zenon, Win32ComesBack
<1> HIDE DEF hr
<1>2. /\ at' = IF c # 0 THEN "failed" ELSE "lost"
      /\ fault' = f /\ exc' = NoException
      /\ depth' = depth - 1 /\ as' = as \cup {"win32"} /\ UNCHANGED <<setting, origin>>
  BY SMT DEF HandOn, Fails
<1>3. PairOf(fault)' = FromResult(hr)
  BY SMT, <1>2 DEF PairOf, hr
<1>4. TypeOK'
  <2>1. f \in [kind : Kinds, code : Int32] BY SMT, <1>1 DEF Kinds
  <2>2. NoException \in [type : {"none", "result", "platform", "winrt"} \cup Foreign, pair : Pairs, id : Nat]
    BY SMT, Success DEF NoException
  <2>3. depth' \in 0 .. Depth BY SMT, <1>2, FailureAssumption DEF IInv, TypeOK
  <2>4. at' \in {"failed", "lost"} BY SMT, <1>2
  <2> HIDE DEF f
  <2>5. QED BY Zenon, <1>2, <2>1, <2>2, <2>3, <2>4 DEF IInv, TypeOK, Kinds
<1>5. FaultTells'
  <2> SUFFICES ASSUME c # 0
      PROVE /\ PairOf(fault)' \in Pairs
            /\ Tells(PairOf(fault)', origin, as', setting.mode)
            /\ c = Win32FromHr(PairOf(fault)'.hr)
    BY SMT, <1>2 DEF FaultTells
  <2> DEFINE pair == FromResult(hr)
  <2>1. /\ pair \in Pairs /\ pair.hr = hr
        /\ Failed(pair.status) \/ WithoutError(hr)
    BY Zenon, <1>1, ResultPair
  <2>2. "win32" \in as' /\ ("status" \notin as' => "status" \notin as)
    BY Zenon, <1>2
  <2>3. Same(as, h, OriginHr(origin)) => Same(as', hr, OriginHr(origin))
    BY Zenon, <1>1, <2>2 DEF Same
  <2> HIDE DEF pair
  <2>4. Tells(pair, origin, as', setting.mode)
    BY Zenon, <1>1, <2>1, <2>2, <2>3 DEF Tells
  <2>5. PairOf(fault)' = pair
    BY Zenon, <1>3 DEF pair
  <2>6. QED BY Zenon, <1>1, <2>1, <2>4, <2>5
<1>6. ExceptionTells'
  BY SMT, <1>2 DEF ExceptionTells
<1>7. FailureStaysFailure'
  <2>1. fault'.kind = "win32" BY SMT, <1>2
  <2>2. at' = "lost" => c = 0 BY SMT, <1>2
  <2>3. QED BY Zenon, <1>1, <1>2, <2>1, <2>2 DEF FailureStaysFailure
<1>8. OriginFails'
  BY Zenon, <1>2 DEF IInv, OriginFails
<1>9. QED BY Zenon, <1>4, <1>5, <1>6, <1>7, <1>8 DEF IInv

LEMMA HandledKeeps ==
  ASSUME IInv, Handled, lastError' \in Errors, failureId' \in Nat, Fits(guard', setting')
  PROVE  IInv'
<1>1. at' = "handled" /\ UNCHANGED <<setting, depth, fault, exc, origin, as>>
  BY SMT DEF Handled
<1>2. TypeOK' BY Zenon, <1>1 DEF IInv, TypeOK
<1>3. FaultTells' /\ ExceptionTells' /\ FailureStaysFailure'
  BY SMT, <1>1 DEF FaultTells, ExceptionTells, FailureStaysFailure
<1>4. OriginFails'
  BY Zenon, <1>1 DEF IInv, OriginFails
<1>5. QED BY Zenon, <1>2, <1>3, <1>4 DEF IInv

\* An exception that tells of the origin is thrown, from a macro or again.
LEMMA ThrowingKeeps ==
  ASSUME IInv, at' = "throwing", depth' \in 0 .. Depth, fault' \in {fault, NoFault},
         exc' \in [type : {"none", "result", "platform", "winrt"} \cup Foreign, pair : Pairs, id : Nat],
         ExceptionTells', origin' = origin, as' = as, setting' = setting, guard' = guard,
         lastError' \in Errors, failureId' \in Nat
  PROVE  IInv'
<1>1. NoFault \in [kind : Kinds, code : Int32]
  BY SMT, ErrorsAreCodes DEF NoFault, Kinds
<1>2. TypeOK' BY Zenon, <1>1 DEF IInv, TypeOK
<1>3. FaultTells' /\ FailureStaysFailure'
  BY SMT DEF FaultTells, FailureStaysFailure
<1>4. OriginFails' /\ Fits(guard, setting)'
  BY Zenon DEF IInv, OriginFails, Fits
<1>5. QED BY Zenon, <1>2, <1>3, <1>4 DEF IInv

---------------------------------------------------------------------------
(* What a catch block makes of the exception.                                *)

\* An HRESULT that tells of the origin, where nobody may ask for its NTSTATUS.
LEMMA ResultTells ==
  ASSUME NEW hr \in Int32, Failed(hr), NEW o, NEW types, NEW mode,
         WithoutError(hr) => WithoutError(o.code),
         o.kind \notin {"unknown", "range", "invalid"} /\ "status" \notin types => Same(types, hr, OriginHr(o)),
         o.kind # "status" \/ mode # "plain" \/ "hr" \in types \/ "win32" \in types
  PROVE  FromResult(hr) \in Pairs /\ Tells(FromResult(hr), o, types, mode)
<1> DEFINE pair == FromResult(hr)
<1>1. /\ pair \in Pairs /\ pair.hr = hr /\ Failed(pair.hr)
      /\ Failed(pair.status) \/ WithoutError(o.code)
  BY Zenon, ResultPair
<1> HIDE DEF pair
<1>2. Tells(pair, o, types, mode)
  BY Zenon, <1>1 DEF Tells
<1>3. QED BY Zenon, <1>1, <1>2 DEF pair

\* The library's own exceptions carry what they tell.
LEMMA CaughtOwn ==
  ASSUME IInv, at = "throwing", exc.type \in Own
  PROVE  LET pair == ResultFromCaughtExceptionInternal.pair
         IN  pair \in Pairs /\ Tells(pair, origin, as, setting.mode)
<1>1. /\ exc.pair \in Pairs /\ exc.pair.hr \in Int32
      /\ setting.mode \in {"plain", "cppwinrt", "cx"}
  BY SMT DEF IInv, TypeOK, Settings, Pairs
<1>2. /\ Tells(exc.pair, origin, as, setting.mode)
      /\ exc.type = "winrt" => setting.mode = "cppwinrt"
      /\ exc.type = "platform" => setting.mode = "cx"
  BY Zenon DEF IInv, ExceptionTells
<1>3. CASE setting.mode = "plain"
  <2>1. exc.type = "result" BY Zenon, <1>2, <1>3 DEF Own
  <2>2. ResultFromCaughtExceptionInternal.pair = exc.pair
    BY SMT, <1>3, <2>1 DEF ResultFromCaughtExceptionInternal
  <2>3. QED BY Zenon, <1>1, <1>2, <2>2
<1>4. CASE setting.mode # "plain"
  <2>1. ASSUME setting.mode = "cppwinrt"
        PROVE  ResultFromCaughtExceptionInternal.pair = FromResult(exc.pair.hr)
    <3>1. exc.type \in {"winrt", "result"}
      BY Zenon, <1>2, <2>1 DEF Own
    <3>2. ResultFromCaughtException_CppWinRt = exc.pair.hr
      BY SMT, <3>1 DEF ResultFromCaughtException_CppWinRt, PlainCode, Standard
    <3>3. QED BY SMT, <2>1, <3>2 DEF ResultFromCaughtExceptionInternal
  <2>2. ASSUME setting.mode = "cx"
        PROVE  ResultFromCaughtExceptionInternal.pair = FromResult(exc.pair.hr)
    <3>1. exc.type \in {"platform", "result"}
      BY Zenon, <1>2, <2>2 DEF Own
    <3>2. ResultFromCaughtException_WinRt = exc.pair.hr
      BY SMT, <3>1 DEF ResultFromCaughtException_WinRt, PlainCode, Standard
    <3>3. QED BY SMT, <2>2, <3>2 DEF ResultFromCaughtExceptionInternal
  <2>3. ResultFromCaughtExceptionInternal.pair = FromResult(exc.pair.hr)
    BY Zenon, <1>1, <1>4, <2>1, <2>2
  <2>4. QED BY Zenon, <1>1, <1>2, <1>4, <2>3, ResultTells DEF Tells
<1>5. QED BY Zenon, <1>3, <1>4

\* Of the others, only the unknown ones may be taken for no error.
LEMMA CaughtForeign ==
  ASSUME IInv, at = "throwing", exc.type \notin Own
  PROVE  LET pair == ResultFromCaughtExceptionInternal.pair
         IN  IF exc.type = "unknown" /\ ~setting.mapper THEN pair = FromResult(S_OK)
             ELSE pair \in Pairs /\ Tells(pair, origin, as, setting.mode)
<1>1. exc.type \in Foreign /\ origin.kind = exc.type
  BY Zenon DEF IInv, ExceptionTells
<1>2. PICK c : /\ ResultFromCaughtExceptionInternal.pair = FromResult(c)
               /\ c \in {PlainCode, ResultFromCaughtException_CppWinRt, ResultFromCaughtException_WinRt}
  BY SMT, <1>1 DEF ResultFromCaughtExceptionInternal, Foreign, Standard
<1>3. CASE exc.type = "alloc"
  <2>1. c = E_OUTOFMEMORY /\ OriginHr(origin) = E_OUTOFMEMORY
    BY SMT, <1>1, <1>2, <1>3 DEF PlainCode, ResultFromCaughtException_CppWinRt,
       ResultFromCaughtException_WinRt, OriginHr, Standard
  <2>2. QED BY Zenon, SameSelf, <1>1, <1>2, <1>3, <2>1, OwnCode, ResultTells
<1>4. CASE exc.type = "std"
  <2>1. c = UnhandledException /\ OriginHr(origin) = UnhandledException
    BY SMT, <1>1, <1>2, <1>4 DEF PlainCode, ResultFromCaughtException_CppWinRt,
       ResultFromCaughtException_WinRt, OriginHr, Standard
  <2>2. QED BY Zenon, SameSelf, <1>1, <1>2, <1>4, <2>1, OwnCode, ResultTells
<1>5. CASE exc.type \in {"range", "invalid"}
  <2>1. c \in {E_BOUNDS, E_INVALIDARG, UnhandledException}
    BY SMT, <1>2, <1>5 DEF PlainCode, ResultFromCaughtException_CppWinRt, ResultFromCaughtException_WinRt, Standard
  <2>2. QED BY Zenon, <1>1, <1>2, <1>5, <2>1, OwnCode, ResultTells
<1>6. CASE exc.type = "unknown" /\ setting.mapper
  <2>1. c = E_FAIL
    BY SMT, <1>2, <1>6 DEF PlainCode, ResultFromCaughtException_CppWinRt, ResultFromCaughtException_WinRt, Standard
  <2>2. QED BY Zenon, <1>1, <1>2, <1>6, <2>1, OwnCode, ResultTells
<1>7. CASE exc.type = "unknown" /\ ~setting.mapper
  <2>1. c = S_OK
    BY SMT, <1>2, <1>7 DEF PlainCode, ResultFromCaughtException_CppWinRt, ResultFromCaughtException_WinRt, Standard
  <2>2. QED BY Zenon, <1>2, <1>7, <2>1
<1>8. QED BY Zenon, <1>1, <1>3, <1>4, <1>5, <1>6, <1>7 DEF Foreign, Standard

LEMMA UnknownIsUnknown ==
  ASSUME IInv, at = "throwing", ~Known
  PROVE  exc.type = "unknown" /\ ~setting.mapper
<1>1. ~Tells(ResultFromCaughtExceptionInternal.pair, origin, as, setting.mode)
  BY Zenon DEF Known, Tells
<1>2. QED BY Zenon, <1>1, CaughtOwn, CaughtForeign

LEMMA UnmappedIsUnknown ==
  ASSUME IInv, at = "throwing", exc.type = "unknown", ~setting.mapper
  PROVE  ~Known
<1>1. exc.type \notin Own
  BY SMT DEF Own
<1>2. FromResult(S_OK).hr = S_OK
  BY SMT DEF FromResult
<1>3. ResultFromCaughtExceptionInternal.pair = FromResult(S_OK)
  BY Zenon, <1>1, CaughtForeign
<1>4. QED BY Zenon, <1>2, <1>3, Success DEF Known

LEMMA Normalized ==
  ResultFromCaughtExceptionInternal.normalized
    = (exc.type = IF setting.mode = "cx" THEN "platform" ELSE "result")
<1>1. CASE setting.mode = "cx"
  <2>1. ResultFromCaughtExceptionInternal =
          [pair |-> FromResult(ResultFromCaughtException_WinRt), normalized |-> exc.type = "platform"]
    BY SMT, <1>1 DEF ResultFromCaughtExceptionInternal
  <2>2. QED BY Zenon, <1>1, <2>1
<1>2. CASE setting.mode = "cppwinrt"
  <2>1. ResultFromCaughtExceptionInternal =
          [pair |-> FromResult(ResultFromCaughtException_CppWinRt), normalized |-> exc.type = "result"]
    BY SMT, <1>2 DEF ResultFromCaughtExceptionInternal
  <2>2. QED BY Zenon, <1>2, <2>1
<1>3. CASE setting.mode \notin {"cx", "cppwinrt"}
  <2>1. ResultFromCaughtExceptionInternal =
          [pair |-> IF exc.type = "result" THEN exc.pair ELSE FromResult(PlainCode),
           normalized |-> exc.type = "result"]
    BY SMT, <1>3 DEF ResultFromCaughtExceptionInternal
  <2>2. QED BY Zenon, <1>3, <2>1
<1>4. QED BY Zenon, <1>1, <1>2, <1>3

LEMMA UnhandledTells ==
  ASSUME IInv, at = "throwing", exc.type = "unknown"
  PROVE  /\ FromResult(UnhandledException) \in Pairs
         /\ Tells(FromResult(UnhandledException), origin, as, setting.mode)
<1>1. origin.kind = "unknown"
  BY SMT DEF IInv, ExceptionTells, Own
<1>2. QED BY Zenon, <1>1, OwnCode, ResultTells

LEMMA KnownTells ==
  ASSUME IInv, at = "throwing"
  PROVE  KnownPair \in Pairs /\ Tells(KnownPair, origin, as, setting.mode)
<1>1. CASE Known
  <2>1. KnownPair = ResultFromCaughtExceptionInternal.pair
    BY Zenon, <1>1 DEF KnownPair
  <2>2. ResultFromCaughtExceptionInternal.pair # FromResult(S_OK)
    <3>1. FromResult(S_OK).hr = S_OK
      BY SMT DEF FromResult
    <3>2. QED BY Zenon, <1>1, <3>1, Success DEF Known
  <2>3. QED BY Zenon, <2>1, <2>2, CaughtOwn, CaughtForeign
<1>2. CASE ~Known
  BY Zenon, <1>2, UnknownIsUnknown, UnhandledTells DEF KnownPair
<1>3. QED BY Zenon, <1>1, <1>2

\* The guard of a debug build knows the standard exceptions by their types.
LEMMA CaughtCodeTells ==
  ASSUME IInv, at = "throwing", NEW supported
  PROVE  LET c == CaughtCode(supported)
         IN  /\ c \in Int32 /\ Failed(c)
             /\ WithoutError(c) => WithoutError(origin.code)
             /\ origin.kind \notin {"unknown", "range", "invalid"} /\ "status" \notin as => Same(as, c, OriginHr(origin))
<1>1. CASE CaughtCode(supported) = KnownPair.hr
  <2>1. KnownPair.hr \in Int32
    BY SMT, KnownTells DEF Pairs
  <2>2. QED BY Zenon, <1>1, <2>1, KnownTells DEF Tells
<1>2. CASE exc.type \in Standard /\ CaughtCode(supported) = UnhandledException
  <2>1. origin.kind = exc.type
    BY SMT, <1>2 DEF IInv, ExceptionTells, Own, Standard
  <2>2. origin.kind = "std" => OriginHr(origin) = UnhandledException
    BY SMT DEF OriginHr
  <2>3. QED BY Zenon, SameSelf, <1>2, <2>1, <2>2, OwnCode DEF Standard
<1>3. CASE supported # "All" /\ exc.type \in Standard
  BY Zenon, <1>2, <1>3 DEF CaughtCode
<1>4. CASE ~(supported # "All" /\ exc.type \in Standard)
  <2>1. CaughtCode(supported) = KnownPair.hr
    BY SMT, <1>4 DEF CaughtCode
  <2>2. QED BY Zenon, <1>1, <2>1
<1>5. QED BY Zenon, <1>3, <1>4

\* A guard that lets an exception pass was asked to.
LEMMA AcceptedFits ==
  ASSUME IInv, at = "throwing", NEW supported \in Supported, Accepts(supported), UNCHANGED setting,
         ~Refused(supported) \/ Catches(supported)
  PROVE  Fits(guard', setting')
<1>1. guard'.supported = supported /\ guard'.type = exc.type
  BY SMT DEF Accepts
<1>2. CASE ~Refused(supported)
  <2>1. /\ supported # "None"
        /\ supported = "Known" => Known
        /\ supported = "Thrown" => ResultFromCaughtExceptionInternal.normalized
        /\ supported = "Default" => Known \/ ~setting.failFastUnknown
    BY Zenon, <1>2 DEF Refused
  <2>2. Known => exc.type # "unknown" \/ setting.mapper
    BY Zenon, UnmappedIsUnknown
  <2>3. ResultFromCaughtExceptionInternal.normalized => exc.type \in {"result", "platform"}
    BY Zenon, Normalized
  <2>4. QED BY Zenon, <1>1, <2>1, <2>2, <2>3 DEF Fits
<1>3. CASE Catches(supported)
  <2>1. supported # "None"
    BY SMT, <1>3 DEF Catches, Standard
  <2>2. supported = "Thrown" => exc.type \in {"result", "platform"}
    BY SMT, <1>3 DEF Catches, Standard
  <2>3. supported \in {"Known", "Default"} => Known \/ exc.type # "unknown"
    BY SMT, <1>3 DEF Catches, Standard
  <2>4. QED BY Zenon, <1>1, <2>1, <2>2, <2>3, UnmappedIsUnknown DEF Fits
<1>4. QED BY Zenon, <1>2, <1>3

LEMMA DefaultFits ==
  ASSUME IInv, at = "throwing", Accepts("Default"), UNCHANGED setting, ~Refused("Default")
  PROVE  Fits(guard', setting')
BY Zenon, AcceptedFits DEF Supported

\* A report of a catch block that goes on has not refused the exception.
LEMMA NotRefused ==
  ASSUME NEW type, NEW supported, ~Ends(CaughtInfo(type, supported))
  PROVE  ~Refused(supported)
<1>1. SUFFICES ASSUME Refused(supported) PROVE FALSE
  BY Zenon
<1>2. CaughtInfo(type, supported) = Logged("FailFast", KnownPair)
  BY Zenon, <1>1 DEF CaughtInfo
<1>3. Logged("FailFast", KnownPair).type = "FailFast"
  BY SMT DEF Logged
<1>4. QED BY Zenon, <1>2, <1>3 DEF Ends

---------------------------------------------------------------------------
(* The steps.                                                                *)

LEMMA InitHolds == Init => IInv
<1> SUFFICES ASSUME Init PROVE IInv BY Zenon
<1>1. NoFault \in [kind : Kinds, code : Int32]
  BY SMT, ErrorsAreCodes DEF NoFault, Kinds
<1>2. NoException \in [type : {"none", "result", "platform", "winrt"} \cup Foreign, pair : Pairs, id : Nat]
  BY SMT, Success DEF NoException
<1>3. depth \in 0 .. Depth
  BY SMT, FailureAssumption DEF Init
<1>4. 0 \in Errors /\ 0 \in Nat
  BY SMT, ErrorsAreCodes
<1>5. TypeOK
  BY Zenon, <1>1, <1>2, <1>3, <1>4 DEF Init, TypeOK
<1>6. FaultTells /\ ExceptionTells /\ OriginFails /\ FailureStaysFailure
  BY SMT DEF Init, FaultTells, ExceptionTells, OriginFails, FailureStaysFailure, NoFault
<1>7. Fits(guard, setting)
  BY SMT DEF Init, Fits
<1>8. QED BY Zenon, <1>5, <1>6, <1>7 DEF IInv

\* What a call fails with tells of itself.
LEMMA FreshFaultTells ==
  ASSUME TypeOK, at' = "failed", UNCHANGED <<setting, as>>,
         NEW f \in [kind : {"hr"}, code : Hrs] \cup [kind : {"win32", "bool"}, code : Errs]
                   \cup [kind : {"status"}, code : Statuses] \cup [kind : {"null"}, code : {0}],
         f.kind = "win32" => f.code # 0, fault' = f, origin' = f,
         lastError' = IF f.kind = "bool" THEN f.code ELSE lastError
  PROVE  FaultTells'
<1> DEFINE pair == PairOf(fault)'
<1>1. SUFFICES /\ pair \in Pairs
               /\ Tells(pair, f, as, setting.mode)
               /\ f.kind = "status" => Failed(f.code)
               /\ f.kind = "win32" => f.code = Win32FromHr(pair.hr)
  BY Zenon DEF FaultTells
<1> HIDE DEF pair
<1>2. CASE f.kind = "hr"
  <2>1. f.code \in Int32 /\ Failed(f.code)
    BY SMT, <1>2, FailureAssumption
  <2>2. pair = FromResult(f.code) /\ OriginHr(f) = f.code
    BY SMT, <1>2 DEF PairOf, OriginHr, pair
  <2>3. FromResult(f.code) \in Pairs /\ Tells(FromResult(f.code), f, as, setting.mode)
    BY Zenon, SameSelf, <1>2, <2>1, <2>2, ResultTells
  <2>4. QED BY Zenon, <1>2, <2>2, <2>3
<1>3. CASE f.kind = "win32"
  <2>1. f.code \in Errors /\ f.code # 0
    BY SMT, <1>3, FailureAssumption
  <2>2. pair = FromResult(HresultFromWin32(f.code)) /\ OriginHr(f) = HresultFromWin32(f.code)
    BY SMT, <1>3 DEF PairOf, OriginHr, pair
  <2> DEFINE hr == HresultFromWin32(f.code)
  <2>3. hr \in Int32 /\ Failed(hr) /\ ~WithoutError(hr)
    BY Zenon, <2>1, Win32Pair
  <2>6. Win32FromHr(hr) = f.code
    BY SMT, <2>1 DEF Errors, HresultFromWin32, Win32FromHr, Win32Code, Failed, Facility, FACILITY_WIN32
  <2> HIDE DEF hr
  <2>7. FromResult(hr).hr = hr
    BY SMT DEF FromResult
  <2>4. FromResult(hr) \in Pairs /\ Tells(FromResult(hr), f, as, setting.mode)
    BY Zenon, SameSelf, <1>3, <2>2, <2>3, ResultTells DEF hr
  <2>5. QED BY Zenon, <1>3, <2>2, <2>4, <2>6, <2>7 DEF hr
<1>4. CASE f.kind = "bool"
  <2> DEFINE e == GetLastErrorFail(f.code)
  <2>1. e \in Errors /\ e # 0
    <3>1. f.code \in Errors
      BY SMT, <1>4, FailureAssumption
    <3>2. QED BY SMT, <3>1 DEF GetLastErrorFail, ERROR_ASSERTION_FAILURE, Errors
  <2>2. pair = FromResult(HresultFromWin32(e)) /\ OriginHr(f) = HresultFromWin32(e)
    BY SMT, <1>4 DEF PairOf, OriginHr, pair
  <2> HIDE DEF e
  <2> DEFINE hr == HresultFromWin32(e)
  <2>3. hr \in Int32 /\ Failed(hr) /\ ~WithoutError(hr)
    BY Zenon, <2>1, Win32Pair
  <2> HIDE DEF hr
  <2>4. FromResult(hr) \in Pairs /\ Tells(FromResult(hr), f, as, setting.mode)
    BY Zenon, SameSelf, <1>4, <2>2, <2>3, ResultTells DEF hr
  <2>5. QED BY Zenon, <1>4, <2>2, <2>4 DEF hr
<1>5. CASE f.kind = "status"
  <2>1. f.code \in Int32 /\ Failed(f.code)
    BY SMT, <1>5, FailureAssumption
  <2>2. pair = FromStatus(f.code) /\ OriginHr(f) = NtStatusToHr(f.code)
    BY SMT, <1>5 DEF PairOf, OriginHr, pair
  <2>3. f.kind # "win32" BY SMT, <1>5
  <2>4. QED BY Zenon, SameSelf, <2>1, <2>2, <2>3, StatusPair DEF Tells
<1>6. CASE f.kind = "null"
  <2>1. pair = FromResult(E_OUTOFMEMORY) /\ OriginHr(f) = E_OUTOFMEMORY
    BY SMT, <1>6 DEF PairOf, OriginHr, pair
  <2>2. FromResult(E_OUTOFMEMORY) \in Pairs /\ Tells(FromResult(E_OUTOFMEMORY), f, as, setting.mode)
    BY Zenon, SameSelf, <1>6, <2>1, OwnCode, ResultTells
  <2>3. QED BY Zenon, <1>6, <2>1, <2>2
<1>7. f.kind \in {"hr", "win32", "bool", "status", "null"}
  BY SMT
<1>8. QED BY Zenon, <1>2, <1>3, <1>4, <1>5, <1>6, <1>7

LEMMA CallFailsKeeps == IInv /\ CallFails => IInv'
<1> SUFFICES ASSUME IInv, CallFails PROVE IInv' BY Zenon
<1>1. PICK f \in [kind : {"hr"}, code : Hrs] \cup [kind : {"win32", "bool"}, code : Errs]
                \cup [kind : {"status"}, code : Statuses] \cup [kind : {"null"}, code : {0}] :
        /\ f.kind = "win32" => f.code # 0
        /\ fault' = f
        /\ origin' = f
        /\ lastError' = IF f.kind = "bool" THEN f.code ELSE lastError
  BY Zenon DEF CallFails
<1>2. at' = "failed" /\ UNCHANGED <<setting, depth, exc, failureId, as, guard>>
  BY SMT DEF CallFails
<1>3. /\ f \in [kind : Kinds, code : Int32]
      /\ lastError' \in Errors
      /\ f.kind = "status" => Failed(f.code)
  BY SMT, <1>1, FailureAssumption, ErrorsAreCodes DEF Kinds, IInv, TypeOK
<1>4. TypeOK'
  BY Zenon, <1>1, <1>2, <1>3 DEF IInv, TypeOK
<1>5. FaultTells'
  BY Zenon, <1>1, <1>2, FreshFaultTells DEF IInv
<1>6. ExceptionTells' /\ FailureStaysFailure'
  BY SMT, <1>2 DEF ExceptionTells, FailureStaysFailure
<1>7. OriginFails' /\ Fits(guard, setting)'
  BY Zenon, <1>1, <1>2, <1>3 DEF IInv, OriginFails, Fits
<1>8. QED BY Zenon, <1>4, <1>5, <1>6, <1>7 DEF IInv

LEMMA ForeignThrowKeeps == IInv /\ ForeignThrow => IInv'
<1> SUFFICES ASSUME IInv, ForeignThrow PROVE IInv' BY Zenon
<1>1. PICK type \in Foreign :
        /\ exc' = [type |-> type, pair |-> FromResult(S_OK), id |-> 0]
        /\ origin' = [kind |-> type, code |-> 0]
  BY Zenon DEF ForeignThrow
<1>2. at' = "throwing" /\ UNCHANGED <<setting, depth, fault, lastError, failureId, as, guard>>
  BY SMT DEF ForeignThrow
<1>3. exc' \in [type : {"none", "result", "platform", "winrt"} \cup Foreign, pair : Pairs, id : Nat]
  BY SMT, <1>1, Success
<1>4. origin' \in [kind : Kinds, code : Int32]
  BY SMT, <1>1, ErrorsAreCodes DEF Kinds
<1>5. TypeOK'
  BY Zenon, <1>2, <1>3, <1>4 DEF IInv, TypeOK
<1>6. ExceptionTells' /\ OriginFails'
  <2>1. exc'.type = type /\ origin'.kind = type
    BY SMT, <1>1
  <2>2. type \notin Own /\ type # "status"
    BY SMT DEF Own, Foreign, Standard
  <2>3. QED BY Zenon, <2>1, <2>2 DEF ExceptionTells, OriginFails, Own
<1>7. FaultTells' /\ FailureStaysFailure'
  BY SMT, <1>2 DEF FaultTells, FailureStaysFailure
<1>8. Fits(guard, setting)'
  BY Zenon, <1>2 DEF IInv, Fits
<1>9. QED BY Zenon, <1>5, <1>6, <1>7, <1>8 DEF IInv

\* A new exception of the library's own or of C++/WinRT.
LEMMA OwnThrowKeeps ==
  ASSUME IInv, NEW hr \in Hrs, at' \in {"dead", "throwing"},
         UNCHANGED <<setting, depth, fault, as, guard>>,
         NEW type \in {"result", "winrt"}, type = "winrt" => setting.mode = "cppwinrt",
         NEW pair, at' = "throwing" => pair = FromResult(hr), pair \in Pairs, NEW id \in Nat,
         exc' = [type |-> type, pair |-> pair, id |-> id],
         origin' = [kind |-> "hr", code |-> hr],
         lastError' \in Errors, failureId' \in Nat
  PROVE  IInv'
<1>1. hr \in Int32 /\ Failed(hr)
  BY SMT, FailureAssumption
<1>2. exc' \in [type : {"none", "result", "platform", "winrt"} \cup Foreign, pair : Pairs, id : Nat]
  BY SMT
<1>3. origin' \in [kind : Kinds, code : Int32]
  BY SMT, <1>1 DEF Kinds
<1>4. TypeOK'
  BY Zenon, <1>2, <1>3 DEF IInv, TypeOK
<1>5. ExceptionTells'
  <2> SUFFICES ASSUME at' = "throwing" PROVE ExceptionTells'
    BY Zenon DEF ExceptionTells
  <2>1. origin'.kind = "hr" /\ origin'.code = hr /\ OriginHr(origin') = hr
    BY SMT DEF OriginHr
  <2>2. Tells(pair, origin', as', setting'.mode)
    BY Zenon, SameSelf, <1>1, <2>1, ResultTells
  <2>3. exc'.type = type /\ exc'.pair = pair /\ type \in Own /\ type # "platform"
    BY SMT DEF Own
  <2>4. QED BY Zenon, <2>2, <2>3 DEF ExceptionTells
<1>6. OriginFails'
  BY SMT DEF OriginFails
<1>7. FaultTells' /\ FailureStaysFailure'
  BY Zenon DEF FaultTells, FailureStaysFailure
<1>8. Fits(guard, setting)'
  BY Zenon DEF IInv, Fits
<1>9. QED BY Zenon, <1>4, <1>5, <1>6, <1>7, <1>8 DEF IInv

LEMMA WinrtThrowKeeps == IInv /\ winrt_throw_hresult => IInv'
<1> SUFFICES ASSUME IInv, winrt_throw_hresult PROVE IInv' BY Zenon
<1>1. PICK hr \in Hrs, err \in Errs :
        LET info == Logged("Log", FromResult(hr))
        IN  /\ Told(err)
            /\ origin' = [kind |-> "hr", code |-> hr]
            /\ exc' = [type |-> "winrt", pair |-> FromResult(hr), id |-> 0]
            /\ at' = IF Ends(info) THEN "dead" ELSE "throwing"
  BY Zenon DEF winrt_throw_hresult
<1>2. setting.mode = "cppwinrt" /\ UNCHANGED <<setting, depth, fault, as, guard>>
  BY SMT DEF winrt_throw_hresult
<1>3. lastError' \in Errors /\ failureId' \in Nat
  BY Zenon, <1>1, ReportTypes DEF IInv
<1>4. FromResult(hr) \in Pairs
  BY Zenon, FailureAssumption, ResultPair
<1>5. at' \in {"dead", "throwing"} /\ 0 \in Nat
  BY SMT, <1>1
<1>6. QED BY Zenon, <1>1, <1>2, <1>3, <1>4, <1>5, OwnThrowKeeps

LEMMA CustomThrowKeeps == IInv /\ ReportFailure_CustomException => IInv'
<1> SUFFICES ASSUME IInv, ReportFailure_CustomException PROVE IInv' BY Zenon
<1>1. PICK hr \in Hrs, err \in Errs :
        LET info == Logged("Exception", FromResult(hr))
        IN  /\ Told(err)
            /\ origin' = [kind |-> "hr", code |-> hr]
            /\ exc' = [type |-> "result", pair |-> info.pair, id |-> failureId + 1]
            /\ at' = IF Ends(info) THEN "dead" ELSE "throwing"
  BY Zenon DEF ReportFailure_CustomException
<1> DEFINE info == Logged("Exception", FromResult(hr))
<1>2. UNCHANGED <<setting, depth, fault, as, guard>>
  BY SMT DEF ReportFailure_CustomException
<1>3. lastError' \in Errors /\ failureId' \in Nat
  BY Zenon, <1>1, ReportTypes DEF IInv
<1>4. FromResult(hr) \in Pairs
  BY Zenon, FailureAssumption, ResultPair
<1>5. info.pair \in Pairs
  BY Zenon, <1>4, LoggedPair
<1>6. at' = "throwing" => info.pair = FromResult(hr)
  BY Zenon, <1>1, LoggedKeeps
<1>7. at' \in {"dead", "throwing"} /\ failureId + 1 \in Nat
  BY SMT, <1>1 DEF IInv, TypeOK
<1> HIDE DEF info
<1>8. exc' = [type |-> "result", pair |-> info.pair, id |-> failureId + 1]
  BY Zenon, <1>1 DEF info
<1>9. QED BY Zenon, <1>1, <1>2, <1>3, <1>4, <1>5, <1>6, <1>7, <1>8, OwnThrowKeeps

---------------------------------------------------------------------------
(* A failure in the hands of a function.                                     *)

LEMMA ReturnsKeep ==
  ASSUME IInv, at = "failed", depth > 0, lastError' \in Errors, failureId' \in Nat,
         HandOn([kind |-> "hr", code |-> PairOf(fault).hr]), UNCHANGED guard
  PROVE  IInv'
<1> DEFINE c == PairOf(fault).hr
<1>1. PairOf(fault) \in Pairs /\ Tells(PairOf(fault), origin, as, setting.mode)
  BY Zenon DEF IInv, FaultTells
<1>2. c \in Int32
  BY SMT, <1>1 DEF Pairs
<1>3. /\ Failed(c) /\ (WithoutError(c) => WithoutError(origin.code))
      /\ origin.kind \notin {"unknown", "range", "invalid"} /\ "status" \notin as => Same(as, c, OriginHr(origin))
  BY Zenon, <1>1 DEF Tells
<1>4. Fits(guard', setting')
  BY Zenon DEF IInv, HandOn, Fits
<1> HIDE DEF c
<1>5. HandOn([kind |-> "hr", code |-> c])
  BY Zenon DEF c
<1>6. QED BY Zenon, <1>2, <1>3, <1>4, <1>5, HandOnHr

LEMMA ReturnKeeps == IInv /\ RETURN => IInv'
<1> SUFFICES ASSUME IInv, RETURN PROVE IInv' BY Zenon
<1>1. lastError' \in Errors /\ failureId' \in Nat
  BY Zenon, ReportTypes DEF RETURN, IInv
<1>2. QED BY Zenon, <1>1, DiesKeeps, ReturnsKeep DEF RETURN

LEMMA ReturnExpectedKeeps == IInv /\ RETURN_EXPECTED => IInv'
<1> SUFFICES ASSUME IInv, RETURN_EXPECTED PROVE IInv' BY Zenon
<1>1. lastError' \in Errors /\ failureId' \in Nat
  BY Zenon DEF RETURN_EXPECTED, IInv, TypeOK
<1>2. QED BY Zenon, <1>1, ReturnsKeep DEF RETURN_EXPECTED

LEMMA ReturnStatusKeeps == IInv /\ NT_RETURN_NTSTATUS => IInv'
<1> SUFFICES ASSUME IInv, NT_RETURN_NTSTATUS PROVE IInv' BY Zenon
<1>1. lastError' \in Errors /\ failureId' \in Nat
  BY Zenon, ReportTypes DEF NT_RETURN_NTSTATUS, IInv
<1>2. ASSUME HandOn(fault), UNCHANGED guard PROVE IInv'
  <2>1. at = "failed" /\ depth > 0 /\ fault.kind = "status"
    BY Zenon DEF NT_RETURN_NTSTATUS
  <2>2. fault.code \in Int32 /\ fault = [kind |-> "status", code |-> fault.code]
    BY SMT, <2>1 DEF IInv, TypeOK
  <2>3. Failed(fault.code) /\ PairOf(fault).status = fault.code
    BY SMT, <2>1 DEF IInv, FaultTells, PairOf, FromStatus
  <2>4. origin.kind = "status" /\ "hr" \notin as /\ "win32" \notin as /\ setting.mode = "plain" => fault.code = origin.code
    BY Zenon, <2>1, <2>3 DEF IInv, FaultTells, Tells
  <2>5. HandOn([kind |-> "status", code |-> fault.code])
    BY Zenon, <1>2, <2>2
  <2>6. Fits(guard', setting')
    BY Zenon, <1>2 DEF IInv, HandOn, Fits
  <2>7. QED BY Zenon, <1>1, <2>1, <2>2, <2>3, <2>4, <2>5, <2>6, HandOnStatus
<1>3. QED BY Zenon, <1>1, <1>2, DiesKeeps DEF NT_RETURN_NTSTATUS

\* A Win32 error in the hands of a function is the one of its HRESULT.
LEMMA ReturnsWin32Keep ==
  ASSUME IInv, at = "failed", depth > 0, fault.kind \in {"win32", "bool"},
         lastError' \in Errors, failureId' \in Nat,
         HandOn([kind |-> "win32", code |-> Win32Of(fault)]), UNCHANGED guard
  PROVE  IInv'
<1> DEFINE h == PairOf(fault).hr
<1>1. /\ PairOf(fault) \in Pairs /\ Tells(PairOf(fault), origin, as, setting.mode)
      /\ fault.kind = "win32" => fault.code = Win32FromHr(PairOf(fault).hr)
  BY Zenon DEF IInv, FaultTells
<1>2. h \in Int32
  BY SMT, <1>1 DEF Pairs
<1>3. /\ Failed(h) /\ (WithoutError(h) => WithoutError(origin.code))
      /\ origin.kind \notin {"unknown", "range", "invalid"} /\ "status" \notin as => Same(as, h, OriginHr(origin))
  BY Zenon, <1>1 DEF Tells
<1>4. Fits(guard', setting')
  BY Zenon DEF IInv, HandOn, Fits
<1>5. Win32Of(fault) = Win32FromHr(h)
  BY Zenon, <1>1 DEF Win32Of
<1> HIDE DEF h
<1>6. HandOn([kind |-> "win32", code |-> Win32FromHr(h)])
  BY Zenon, <1>5
<1>7. QED BY Zenon, <1>2, <1>3, <1>4, <1>6, HandOnWin32

LEMMA ReturnWin32Keeps == IInv /\ WIN32_RETURN => IInv'
<1> SUFFICES ASSUME IInv, WIN32_RETURN PROVE IInv' BY Zenon
<1>1. lastError' \in Errors /\ failureId' \in Nat
  BY Zenon, ReportTypes DEF WIN32_RETURN, IInv
<1>2. QED BY Zenon, <1>1, DiesKeeps, ReturnsWin32Keep DEF WIN32_RETURN

LEMMA ReturnWin32ExpectedKeeps == IInv /\ WIN32_RETURN_EXPECTED => IInv'
<1> SUFFICES ASSUME IInv, WIN32_RETURN_EXPECTED PROVE IInv' BY Zenon
<1>1. lastError' \in Errors /\ failureId' \in Nat
  BY Zenon DEF WIN32_RETURN_EXPECTED, IInv, TypeOK
<1>2. QED BY Zenon, <1>1, ReturnsWin32Keep DEF WIN32_RETURN_EXPECTED

\* A new exception with a pair that tells of the origin, or the one of the
\* catch block again.
LEMMA ThrowsKeeps ==
  ASSUME IInv, depth' \in 0 .. Depth, lastError' \in Errors, failureId' \in Nat,
         NEW info, info.pair \in Pairs, Tells(info.pair, origin, as, setting.mode),
         NEW again, again => at = "throwing", Throws(info, again)
  PROVE  IInv'
<1> DEFINE type == IF setting.mode = "cx" THEN "platform" ELSE "result"
<1>1. /\ at' = "throwing" /\ fault' = NoFault
      /\ UNCHANGED <<setting, origin, as, guard>>
  BY SMT DEF Throws
<1>2. CASE again
  <2>1. exc' = exc BY Zenon, <1>2 DEF Throws
  <2>2. ExceptionTells' BY Zenon, <1>1, <1>2, <2>1 DEF IInv, ExceptionTells
  <2>3. QED BY Zenon, <1>1, <2>1, <2>2, ThrowingKeeps DEF IInv, TypeOK
<1>3. CASE ~again
  <2>1. exc' = [type |-> type, pair |-> info.pair, id |-> failureId + 1]
    BY Zenon, <1>3 DEF Throws
  <2>2. failureId + 1 \in Nat BY SMT DEF IInv, TypeOK
  <2>3. exc' \in [type : {"none", "result", "platform", "winrt"} \cup Foreign, pair : Pairs, id : Nat]
    BY SMT, <2>1, <2>2
  <2>4. /\ exc'.type \in {"platform", "result"} /\ exc'.pair = info.pair
        /\ exc'.type = "platform" => setting.mode = "cx"
    BY SMT, <2>1
  <2>5. ExceptionTells'
    BY Zenon, <1>1, <2>4 DEF ExceptionTells, Own
  <2>6. QED BY Zenon, <1>1, <2>3, <2>5, ThrowingKeeps
<1>4. QED BY Zenon, <1>2, <1>3

LEMMA ThrowKeeps == IInv /\ THROW => IInv'
<1> SUFFICES ASSUME IInv, THROW PROVE IInv' BY Zenon
<1> DEFINE info == Logged("Exception", PairOf(fault))
<1>1. lastError' \in Errors /\ failureId' \in Nat
  BY Zenon, ReportTypes DEF THROW, IInv
<1>2. PairOf(fault) \in Pairs /\ Tells(PairOf(fault), origin, as, setting.mode)
  BY Zenon DEF THROW, IInv, FaultTells
<1>3. ASSUME ~Ends(info), Throws(info, FALSE), UNCHANGED depth PROVE IInv'
  <2>1. info.pair = PairOf(fault) BY Zenon, <1>3, LoggedKeeps
  <2>2. depth' \in 0 .. Depth BY Zenon, <1>3 DEF IInv, TypeOK
  <2> HIDE DEF info
  <2>3. QED BY Zenon, <1>1, <1>2, <1>3, <2>1, <2>2, ThrowsKeeps
<1>4. QED BY Zenon, <1>1, <1>3, DiesKeeps DEF THROW

LEMMA LogKeeps == IInv /\ LOG => IInv'
<1> SUFFICES ASSUME IInv, LOG PROVE IInv' BY Zenon
<1>1. PICK err \in Errs : Told(IF fault.kind = "bool" THEN GetLastErrorFail(lastError) ELSE err)
  BY Zenon DEF LOG
<1>2. lastError' \in Errors /\ failureId' \in Nat
  BY SMT, <1>1, FailureAssumption DEF IInv, TypeOK, Told, GetLastErrorFail, ERROR_ASSERTION_FAILURE, Errors
<1>3. ASSUME Handled, UNCHANGED guard PROVE IInv'
  <2>1. Fits(guard', setting') BY Zenon, <1>3 DEF IInv, Handled, Fits
  <2>2. QED BY Zenon, <1>2, <1>3, <2>1, HandledKeeps
<1>4. QED BY Zenon, <1>2, <1>3, DiesKeeps DEF LOG

LEMMA FailFastKeeps == IInv /\ (FAIL_FAST \/ CATCH_FAIL_FAST) => IInv'
BY Zenon, ReportTypes, DiesKeeps DEF FAIL_FAST, CATCH_FAIL_FAST, IInv

---------------------------------------------------------------------------
(* An exception that reaches a function.                                     *)

LEMMA UnwindKeeps == IInv /\ Unwind => IInv'
<1> SUFFICES ASSUME IInv, Unwind PROVE IInv' BY Zenon
<1>1. at' = "throwing" /\ UNCHANGED <<setting, fault, exc, lastError, failureId, origin, as, guard>>
  BY Zenon DEF Unwind
<1>2. depth' \in 0 .. Depth
  BY SMT, FailureAssumption DEF Unwind, IInv, TypeOK
<1>3. ExceptionTells'
  BY Zenon, <1>1 DEF Unwind, IInv, ExceptionTells
<1>4. QED BY Zenon, <1>1, <1>2, <1>3, ThrowingKeeps DEF IInv, TypeOK

\* Handing on what was caught as an HRESULT.
LEMMA CaughtReturnsKeep ==
  ASSUME IInv, at = "throwing", depth > 0, lastError' \in Errors, failureId' \in Nat,
         HandOn([kind |-> "hr", code |-> KnownPair.hr]), Fits(guard', setting')
  PROVE  IInv'
<1> DEFINE c == KnownPair.hr
<1>1. c \in Int32
  BY SMT, KnownTells DEF Pairs
<1>2. /\ Failed(c) /\ (WithoutError(c) => WithoutError(origin.code))
      /\ origin.kind \notin {"unknown", "range", "invalid"} /\ "status" \notin as => Same(as, c, OriginHr(origin))
  BY Zenon, KnownTells DEF Tells
<1> HIDE DEF c
<1>3. HandOn([kind |-> "hr", code |-> c])
  BY Zenon DEF c
<1>4. QED BY Zenon, <1>1, <1>2, <1>3, HandOnHr

LEMMA CatchReturnKeeps == IInv /\ CATCH_RETURN => IInv'
<1> SUFFICES ASSUME IInv, CATCH_RETURN PROVE IInv' BY Zenon
<1>1. at = "throwing" /\ depth > 0 /\ lastError' \in Errors /\ failureId' \in Nat
  BY Zenon, ReportTypes DEF CATCH_RETURN, IInv
<1>2. ASSUME ~Ends(CaughtInfo("Return", "Default")),
             HandOn([kind |-> "hr", code |-> KnownPair.hr]), Accepts("Default")
      PROVE  IInv'
  <2>1. UNCHANGED setting BY Zenon, <1>2 DEF HandOn
  <2>2. QED BY Zenon, <1>1, <1>2, <2>1, NotRefused, DefaultFits, CaughtReturnsKeep
<1>3. QED BY Zenon, <1>1, <1>2, DiesKeeps DEF CATCH_RETURN

LEMMA CatchStatusKeeps == IInv /\ NT_CATCH_RETURN => IInv'
<1> SUFFICES ASSUME IInv, NT_CATCH_RETURN PROVE IInv' BY Zenon
<1>1. at = "throwing" /\ depth > 0 /\ lastError' \in Errors /\ failureId' \in Nat
  BY Zenon, ReportTypes DEF NT_CATCH_RETURN, IInv
<1>2. ASSUME ~Ends(CaughtInfo("Return", "Default")),
             HandOn([kind |-> "status", code |-> KnownPair.status]), Accepts("Default")
      PROVE  IInv'
  <2> DEFINE c == KnownPair.status
  <2>1. c \in Int32
    BY SMT, <1>1, KnownTells DEF Pairs
  <2>2. /\ Failed(c) \/ WithoutError(origin.code)
        /\ origin.kind = "status" /\ "hr" \notin as /\ "win32" \notin as /\ setting.mode = "plain" => c = origin.code
    BY Zenon, <1>1, KnownTells DEF Tells
  <2>3. Fits(guard', setting')
    <3>1. UNCHANGED setting BY Zenon, <1>2 DEF HandOn
    <3>2. QED BY Zenon, <1>1, <1>2, <3>1, NotRefused, DefaultFits
  <2> HIDE DEF c
  <2>4. HandOn([kind |-> "status", code |-> c])
    BY Zenon, <1>2 DEF c
  <2>5. QED BY Zenon, <1>1, <2>1, <2>2, <2>3, <2>4, HandOnStatus
<1>3. QED BY Zenon, <1>1, <1>2, DiesKeeps DEF NT_CATCH_RETURN

\* Handing on the Win32 error of what was caught.
LEMMA CaughtWin32Keeps ==
  ASSUME IInv, at = "throwing", depth > 0, lastError' \in Errors, failureId' \in Nat,
         HandOn([kind |-> "win32", code |-> Win32FromHr(KnownPair.hr)]), Fits(guard', setting')
  PROVE  IInv'
<1> DEFINE h == KnownPair.hr
<1>1. h \in Int32
  BY SMT, KnownTells DEF Pairs
<1>2. /\ Failed(h) /\ (WithoutError(h) => WithoutError(origin.code))
      /\ origin.kind \notin {"unknown", "range", "invalid"} /\ "status" \notin as => Same(as, h, OriginHr(origin))
  BY Zenon, KnownTells DEF Tells
<1> HIDE DEF h
<1>3. HandOn([kind |-> "win32", code |-> Win32FromHr(h)])
  BY Zenon DEF h
<1>4. QED BY Zenon, <1>1, <1>2, <1>3, HandOnWin32

LEMMA CatchWin32Keeps == IInv /\ WIN32_CATCH_RETURN => IInv'
<1> SUFFICES ASSUME IInv, WIN32_CATCH_RETURN PROVE IInv' BY Zenon
<1>1. at = "throwing" /\ depth > 0 /\ lastError' \in Errors /\ failureId' \in Nat
  BY Zenon, ReportTypes DEF WIN32_CATCH_RETURN, IInv
<1>2. ASSUME ~Ends(CaughtInfo("Return", "Default")),
             HandOn([kind |-> "win32", code |-> Win32FromHr(KnownPair.hr)]), Accepts("Default")
      PROVE  IInv'
  <2>1. UNCHANGED setting BY Zenon, <1>2 DEF HandOn
  <2>2. QED BY Zenon, <1>1, <1>2, <2>1, NotRefused, DefaultFits, CaughtWin32Keeps
<1>3. QED BY Zenon, <1>1, <1>2, DiesKeeps DEF WIN32_CATCH_RETURN

LEMMA CatchLogKeeps == IInv /\ CATCH_LOG => IInv'
<1> SUFFICES ASSUME IInv, CATCH_LOG PROVE IInv' BY Zenon
<1>1. at = "throwing" /\ lastError' \in Errors /\ failureId' \in Nat
  BY Zenon, ReportTypes DEF CATCH_LOG, IInv
<1>2. ASSUME ~Ends(CaughtInfo("Log", "Default")), Handled, Accepts("Default") PROVE IInv'
  <2>1. UNCHANGED setting BY Zenon, <1>2 DEF Handled
  <2>2. QED BY Zenon, <1>1, <1>2, <2>1, NotRefused, DefaultFits, HandledKeeps
<1>3. QED BY Zenon, <1>1, <1>2, DiesKeeps DEF CATCH_LOG

LEMMA NormalizedKeeps == IInv /\ CATCH_THROW_NORMALIZED => IInv'
<1> SUFFICES ASSUME IInv, CATCH_THROW_NORMALIZED PROVE IInv' BY Zenon
<1> DEFINE info == CaughtInfo("Exception", "Default")
           again == ResultFromCaughtExceptionInternal.normalized
<1>1. at = "throwing" /\ depth > 0 /\ lastError' \in Errors /\ failureId' \in Nat
  BY Zenon, ReportTypes DEF CATCH_THROW_NORMALIZED, IInv
<1>2. ASSUME ~Ends(info), Throws(info, again), depth' = depth - 1 PROVE IInv'
  <2>1. depth' \in 0 .. Depth
    BY SMT, <1>1, <1>2, FailureAssumption DEF IInv, TypeOK
  <2>2. ~Refused("Default") BY Zenon, <1>2, NotRefused
  <2>3. info = Logged("Exception", KnownPair) BY Zenon, <2>2 DEF CaughtInfo
  <2>4. info.pair = KnownPair BY Zenon, <1>2, <2>3, LoggedKeeps
  <2>5. info.pair \in Pairs /\ Tells(info.pair, origin, as, setting.mode)
    BY Zenon, <1>1, <2>4, KnownTells
  <2> HIDE DEF info, again
  <2>6. QED BY Zenon, <1>1, <1>2, <2>1, <2>5, ThrowsKeeps
<1>3. QED BY Zenon, <1>1, <1>2, DiesKeeps DEF CATCH_THROW_NORMALIZED

LEMMA CaughtExpectedKeeps == IInv /\ ResultFromCaughtException => IInv'
<1> SUFFICES ASSUME IInv, ResultFromCaughtException PROVE IInv' BY Zenon
<1>1. at = "throwing" /\ depth > 0
  BY Zenon DEF ResultFromCaughtException
<1>2. CASE ~Known /\ setting.failFastUnknown
  BY Zenon, <1>2, ReportTypes, DiesKeeps DEF ResultFromCaughtException, IInv
<1>3. CASE ~(~Known /\ setting.failFastUnknown)
  <2>1. /\ HandOn([kind |-> "hr", code |-> KnownPair.hr]) /\ Accepts("Default")
        /\ UNCHANGED <<lastError, failureId>>
    BY Zenon, <1>3 DEF ResultFromCaughtException
  <2>2. ~Refused("Default") BY Zenon, <1>3 DEF Refused
  <2>3. lastError' \in Errors /\ failureId' \in Nat
    BY Zenon, <2>1 DEF IInv, TypeOK
  <2>4. UNCHANGED setting BY Zenon, <2>1 DEF HandOn
  <2>5. QED BY Zenon, <1>1, <2>1, <2>2, <2>3, <2>4, DefaultFits, CaughtReturnsKeep
<1>4. QED BY Zenon, <1>2, <1>3

LEMMA CaughtExpectedWin32Keeps == IInv /\ Win32ErrorFromCaughtException => IInv'
<1> SUFFICES ASSUME IInv, Win32ErrorFromCaughtException PROVE IInv' BY Zenon
<1>1. at = "throwing" /\ depth > 0
  BY Zenon DEF Win32ErrorFromCaughtException
<1>2. CASE ~Known /\ setting.failFastUnknown
  BY Zenon, <1>2, ReportTypes, DiesKeeps DEF Win32ErrorFromCaughtException, IInv
<1>3. CASE ~(~Known /\ setting.failFastUnknown)
  <2>1. /\ HandOn([kind |-> "win32", code |-> Win32FromHr(KnownPair.hr)]) /\ Accepts("Default")
        /\ UNCHANGED <<lastError, failureId>>
    BY Zenon, <1>3 DEF Win32ErrorFromCaughtException
  <2>2. ~Refused("Default") BY Zenon, <1>3 DEF Refused
  <2>3. lastError' \in Errors /\ failureId' \in Nat
    BY Zenon, <2>1 DEF IInv, TypeOK
  <2>4. UNCHANGED setting BY Zenon, <2>1 DEF HandOn
  <2>5. QED BY Zenon, <1>1, <2>1, <2>2, <2>3, <2>4, DefaultFits, CaughtWin32Keeps
<1>4. QED BY Zenon, <1>2, <1>3

\* The NTSTATUS that a catch block hands on without a report.
LEMMA CaughtStatus ==
  ASSUME IInv, at = "throwing"
  PROVE  LET status == ResultFromCaughtExceptionInternal.pair.status
             c == IF Failed(status) THEN status ELSE HrToNtStatus(UnhandledException)
         IN  /\ c \in Int32 /\ Failed(c)
             /\ origin.kind = "status" /\ "hr" \notin as /\ "win32" \notin as /\ setting.mode = "plain" => c = origin.code
             /\ Failed(status) => ~Refused("Default")
<1> DEFINE pair == ResultFromCaughtExceptionInternal.pair
           c == IF Failed(pair.status) THEN pair.status ELSE HrToNtStatus(UnhandledException)
<1>1. \/ exc.type = "unknown" /\ ~setting.mapper /\ pair = FromResult(S_OK)
      \/ pair \in Pairs /\ Tells(pair, origin, as, setting.mode)
  BY Zenon, CaughtOwn, CaughtForeign
<1>2. HrToNtStatus(UnhandledException) \in Int32 /\ Failed(HrToNtStatus(UnhandledException))
  BY Zenon, OwnCode, HrToStatusFails
<1>3. origin.kind = "status" => Failed(origin.code)
  BY Zenon DEF IInv, OriginFails
<1>4. CASE exc.type = "unknown" /\ ~setting.mapper /\ pair = FromResult(S_OK)
  <2>1. origin.kind = "unknown"
    BY SMT, <1>4 DEF IInv, ExceptionTells, Own
  <2>2. pair.status = 0
    BY SMT, <1>4, Success DEF FromResult
  <2>3. ~Failed(pair.status)
    BY SMT, <2>2 DEF Failed
  <2> HIDE DEF pair
  <2>4. QED BY Zenon, <1>2, <2>1, <2>3 DEF pair
<1>5. CASE pair \in Pairs /\ Tells(pair, origin, as, setting.mode)
  <2>1. pair.status \in Int32
    BY SMT, <1>5 DEF Pairs
  <2>2. Known /\ ~Refused("Default")
    BY Zenon, <1>5 DEF Known, Tells, Refused
  <2>3. origin.kind = "status" /\ "hr" \notin as /\ "win32" \notin as /\ setting.mode = "plain" => pair.status = origin.code
    BY Zenon, <1>5 DEF Tells
  <2> HIDE DEF pair
  <2>4. QED BY Zenon, <1>2, <1>3, <2>1, <2>2, <2>3 DEF pair
<1>6. QED BY Zenon, <1>1, <1>4, <1>5

LEMMA CaughtStatusKeeps == IInv /\ StatusFromCaughtException => IInv'
<1> SUFFICES ASSUME IInv, StatusFromCaughtException PROVE IInv' BY Zenon
<1> DEFINE status == ResultFromCaughtExceptionInternal.pair.status
           c == IF Failed(status) THEN status ELSE HrToNtStatus(UnhandledException)
<1>1. at = "throwing" /\ depth > 0
  BY Zenon DEF StatusFromCaughtException
<1>2. CASE ~Failed(status) /\ setting.failFastUnknown
  BY Zenon, <1>2, ReportTypes, DiesKeeps DEF StatusFromCaughtException, IInv
<1>3. CASE ~(~Failed(status) /\ setting.failFastUnknown)
  <2>1. /\ HandOn([kind |-> "status", code |-> c]) /\ Accepts("Default")
        /\ UNCHANGED <<lastError, failureId>>
    BY Zenon, <1>3 DEF StatusFromCaughtException
  <2>2. ~Refused("Default")
    BY Zenon, <1>1, <1>3, CaughtStatus DEF Refused
  <2>3. lastError' \in Errors /\ failureId' \in Nat
    BY Zenon, <2>1 DEF IInv, TypeOK
  <2>4. UNCHANGED setting BY Zenon, <2>1 DEF HandOn
  <2>5. Fits(guard', setting')
    BY Zenon, <1>1, <2>1, <2>2, <2>4, DefaultFits
  <2>6. /\ c \in Int32 /\ Failed(c)
        /\ origin.kind = "status" /\ "hr" \notin as /\ "win32" \notin as /\ setting.mode = "plain" => c = origin.code
    BY Zenon, <1>1, CaughtStatus
  <2> HIDE DEF c
  <2>7. QED BY Zenon, <1>1, <2>1, <2>3, <2>5, <2>6, HandOnStatus
<1>4. QED BY Zenon, <1>2, <1>3

LEMMA GuardKeeps == IInv /\ ResultFromException => IInv'
<1> SUFFICES ASSUME IInv, ResultFromException PROVE IInv' BY Zenon
<1>1. PICK supported \in Supported :
        LET info == CaughtInfo("Log", supported)
        IN  /\ \E err \in Errs : Told(err)
            /\ IF Ends(info) THEN Dies
               ELSE HandOn([kind |-> "hr", code |-> KnownPair.hr]) /\ Accepts(supported)
  BY Zenon DEF ResultFromException
<1>2. at = "throwing" /\ depth > 0 /\ lastError' \in Errors /\ failureId' \in Nat
  BY Zenon, <1>1, ReportTypes DEF ResultFromException, IInv
<1>3. ASSUME ~Ends(CaughtInfo("Log", supported)),
             HandOn([kind |-> "hr", code |-> KnownPair.hr]), Accepts(supported)
      PROVE  IInv'
  <2>1. UNCHANGED setting BY Zenon, <1>3 DEF HandOn
  <2>2. QED BY Zenon, <1>2, <1>3, <2>1, NotRefused, AcceptedFits, CaughtReturnsKeep
<1>4. QED BY Zenon, <1>1, <1>2, <1>3, DiesKeeps

LEMMA DebugGuardKeeps == IInv /\ ResultFromExceptionDebug => IInv'
<1> SUFFICES ASSUME IInv, ResultFromExceptionDebug PROVE IInv' BY Zenon
<1>1. PICK supported \in Supported :
        IF ~Catches(supported)
        THEN Dies /\ UNCHANGED <<lastError, failureId>>
        ELSE LET info == Logged("Log", FromResult(CaughtCode(supported)))
             IN  /\ \E err \in Errs : Told(err)
                 /\ IF Ends(info) THEN Dies
                    ELSE HandOn([kind |-> "hr", code |-> CaughtCode(supported)]) /\ Accepts(supported)
  BY Zenon DEF ResultFromExceptionDebug
<1>2. at = "throwing" /\ depth > 0
  BY Zenon DEF ResultFromExceptionDebug
<1>3. lastError' \in Errors /\ failureId' \in Nat
  BY Zenon, <1>1, ReportTypes DEF IInv, TypeOK
<1>4. ASSUME Catches(supported), HandOn([kind |-> "hr", code |-> CaughtCode(supported)]),
             Accepts(supported)
      PROVE  IInv'
  <2>1. UNCHANGED setting BY Zenon, <1>4 DEF HandOn
  <2>2. Fits(guard', setting')
    BY Zenon, <1>2, <1>4, <2>1, AcceptedFits
  <2>3. QED BY Zenon, <1>2, <1>3, <1>4, <2>2, CaughtCodeTells, HandOnHr
<1>5. QED BY Zenon, <1>1, <1>3, <1>4, DiesKeeps

LEMMA StutterKeeps == IInv /\ UNCHANGED vars => IInv'
<1> SUFFICES ASSUME IInv, UNCHANGED vars PROVE IInv' BY Zenon
<1>1. /\ setting' = setting /\ depth' = depth /\ at' = at /\ fault' = fault /\ exc' = exc
      /\ lastError' = lastError /\ failureId' = failureId /\ origin' = origin /\ as' = as
      /\ guard' = guard
  BY SMT DEF vars
<1>2. TypeOK' BY Zenon, <1>1 DEF IInv, TypeOK
<1>3. PairOf(fault)' = PairOf(fault) BY Zenon, <1>1 DEF PairOf
<1>4. FaultTells' /\ ExceptionTells' /\ OriginFails' /\ FailureStaysFailure' /\ Fits(guard, setting)'
  BY Zenon, <1>1, <1>3 DEF IInv, FaultTells, ExceptionTells, OriginFails, FailureStaysFailure, Fits
<1>5. QED BY Zenon, <1>2, <1>4 DEF IInv

---------------------------------------------------------------------------
\* The inductive invariant: whatever stands for a failure, a code or an
\* exception, tells of its origin (ReportFailure_*, Catch blocks).
THEOREM Invariance == Spec => []IInv
<1>1. IInv /\ [Next]_vars => IInv'
  BY Zenon, CallFailsKeeps, ForeignThrowKeeps, WinrtThrowKeeps, CustomThrowKeeps, ReturnKeeps,
     ReturnExpectedKeeps, ReturnStatusKeeps, ReturnWin32Keeps, ReturnWin32ExpectedKeeps,
     CatchWin32Keeps, CaughtExpectedWin32Keeps, ThrowKeeps, LogKeeps, FailFastKeeps, UnwindKeeps,
     CatchReturnKeeps, CatchStatusKeeps, CatchLogKeeps, NormalizedKeeps, CaughtExpectedKeeps,
     CaughtStatusKeeps, GuardKeeps, DebugGuardKeeps, StutterKeeps DEF Next
<1>2. QED BY <1>1, InitHolds, PTL DEF Spec

\* Every variable keeps its type.
THEOREM TypeCorrect == Spec => []TypeOK
<1>1. IInv => TypeOK BY Zenon DEF IInv
<1>2. QED BY <1>1, Invariance, PTL

\* For all codes and all tables of Windows, no function is handed success for
\* a failure, but for an NTSTATUS or a Win32 error made of an HRESULT without one.
THEOREM FailuresStay == Spec => []FailureStaysFailure
<1>1. IInv => FailureStaysFailure BY Zenon DEF IInv
<1>2. QED BY <1>1, Invariance, PTL

\* For all codes and depths, a failure keeps its HRESULT and its NTSTATUS
\* as far as the types that it passed through can hold them.
THEOREM CodesSurvive == Spec => []CodeSurvives
<1>1. IInv => CodeSurvives
  <2> SUFFICES ASSUME IInv PROVE CodeSurvives BY Zenon
  <2>1. at = "failed" => Tells(PairOf(fault), origin, as, setting.mode)
    BY Zenon DEF IInv, FaultTells
  <2>2. at = "throwing" /\ exc.type \in {"result", "platform"} =>
          Tells(exc.pair, origin, as, setting.mode) /\ at # "failed"
    BY Zenon DEF IInv, ExceptionTells, Own
  <2>3. QED BY Zenon, <2>1, <2>2 DEF CodeSurvives, Tells
<1>2. QED BY <1>1, Invariance, PTL

\* No catch and no guard lets pass what it was not asked to accept.
THEOREM GuardsHonoured == Spec => []GuardsAreHonoured
<1>1. IInv => GuardsAreHonoured
  <2> SUFFICES ASSUME Fits(guard, setting), guard.type # "none" PROVE
        CASE guard.supported = "None" -> FALSE
          [] guard.supported = "Thrown" -> guard.type \in {"result", "platform"}
          [] guard.supported = "Known" -> Recognised(guard.type)
          [] guard.supported = "Default" -> Recognised(guard.type) \/ ~setting.failFastUnknown
          [] OTHER -> TRUE
    BY Zenon DEF IInv, GuardsAreHonoured
  <2>1. /\ guard.supported # "None"
        /\ guard.supported = "Thrown" => guard.type \in {"result", "platform"}
        /\ guard.supported = "Known" => Recognised(guard.type)
        /\ guard.supported = "Default" => Recognised(guard.type) \/ ~setting.failFastUnknown
    BY Zenon DEF Fits, Recognised
  <2>2. QED BY Zenon, <2>1
<1>2. QED BY <1>1, Invariance, PTL

\* An exception that needs no conversion is only ever thrown again.
THEOREM NeverWrapped == Spec => ThrownOnce
<1> DEFINE Keeps == at = "throwing" /\ at' = "throwing"
                    /\ exc.type = (IF setting.mode = "cx" THEN "platform" ELSE "result") => exc' = exc
<1>1. [Next]_vars => [Keeps]_vars
  <2> SUFFICES ASSUME Next, at = "throwing", at' = "throwing",
                      exc.type = (IF setting.mode = "cx" THEN "platform" ELSE "result")
               PROVE  exc' = exc
    BY Zenon
  <2>1. CASE Unwind BY Zenon, <2>1 DEF Unwind
  <2>2. CASE CATCH_THROW_NORMALIZED
    BY Zenon, <2>2, Normalized DEF CATCH_THROW_NORMALIZED, Throws, Dies
  <2>3. CASE CATCH_RETURN \/ NT_CATCH_RETURN \/ WIN32_CATCH_RETURN \/ CATCH_LOG \/ CATCH_FAIL_FAST
    BY Zenon, <2>3 DEF CATCH_RETURN, NT_CATCH_RETURN, WIN32_CATCH_RETURN, CATCH_LOG, CATCH_FAIL_FAST,
       HandOn, Handled, Dies
  <2>4. CASE ResultFromCaughtException \/ Win32ErrorFromCaughtException \/ StatusFromCaughtException
               \/ ResultFromException \/ ResultFromExceptionDebug
    BY Zenon, <2>4 DEF ResultFromCaughtException, Win32ErrorFromCaughtException, StatusFromCaughtException, ResultFromException,
       ResultFromExceptionDebug, HandOn, Dies
  <2>5. QED
    BY Zenon, <2>1, <2>2, <2>3, <2>4 DEF Next, CallFails, ForeignThrow, winrt_throw_hresult,
       ReportFailure_CustomException, RETURN, RETURN_EXPECTED, NT_RETURN_NTSTATUS,
       WIN32_RETURN, WIN32_RETURN_EXPECTED, THROW, LOG, FAIL_FAST
<1>2. QED BY <1>1, PTL DEF Spec, ThrownOnce
=============================================================================
