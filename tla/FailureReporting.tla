-------------------------- MODULE FailureReporting --------------------------
(***************************************************************************)
(* Failures on their way up a call stack (result_macros.h, with the parts  *)
(* of nt_result_macros.h, win32_result_macros.h and cppwinrt.h that take   *)
(* part): a call fails with an HRESULT, a Win32 error, an NTSTATUS or a    *)
(* foreign exception, and each function above uses one of the macros       *)
(* RETURN_*, NT_RETURN_*, WIN32_RETURN_*, THROW_*, LOG_*, FAIL_FAST_*,     *)
(* CATCH_* or an exception guard.  One thread; what the functions do       *)
(* besides is left open.                                                   *)
(***************************************************************************)
EXTENDS ErrorCodes

CONSTANTS Hrs,        \* HRESULTs that calls fail with
          Errs,       \* what the last error may be, 0 among them
          Statuses,   \* NTSTATUSes that calls fail with
          Depth       \* bound: functions between the failure and the outermost

ASSUME FailureAssumption ==
    /\ \A c \in Hrs \cup Statuses : c \in Int32 /\ Failed(c)
    /\ Errs \subseteq Errors /\ 0 \in Errs
    /\ Depth \in Nat

VARIABLES setting,    \* what the process and the build have set up; never changes
          depth,      \* functions that are left above this one
          at,         \* what the thread does
          fault,      \* the failure that the current function has in its hands
          exc,        \* the exception in flight or in the catch block
          lastError,  \* the last error of the thread
          failureId,  \* how many failures have been reported
          origin,     \* what failed, for the properties
          as,         \* the types it has been handed on as, for the properties
          guard       \* what the last catch accepts and what it caught, for the properties

vars == <<setting, depth, at, fault, exc, lastError, failureId, origin, as, guard>>

\* Setup: C++/WinRT or C++/CX; unknown exceptions fail fast; the failure
\* hook wants nothing, a fail fast, or clears the code; the callback for
\* custom exceptions knows the unknown type.
Settings ==
    [mode : {"plain", "cppwinrt", "cx"}, failFastUnknown : BOOLEAN,
     hook : {"none", "failFast", "clears"}, mapper : BOOLEAN]

NoFault == [kind |-> "none", code |-> 0]
NoException == [type |-> "none", pair |-> FromResult(S_OK), id |-> 0]
\* Exceptions of the standard library, std::bad_alloc apart: std::out_of_range,
\* std::invalid_argument and any other.
Standard == {"range", "invalid", "std"}
Foreign == {"alloc", "unknown"} \cup Standard

Init ==
    /\ setting \in Settings
    /\ depth = Depth
    /\ at = "running"
    /\ fault = NoFault
    /\ exc = NoException
    /\ lastError = 0
    /\ failureId = 0
    /\ origin = NoFault
    /\ as = {}
    /\ guard = [supported |-> "Default", type |-> "none"]

-----------------------------------------------------------------------------
\* Mutant: a last error of none is believed.
GetLastErrorFail_Believed(err) ==
    err

\* What a macro makes of the failure in its hands.  The last error may turn
\* out to be none: the API did not set it, or a later call cleared it.
GetLastErrorFail(err) ==
    IF err = 0 THEN ERROR_ASSERTION_FAILURE ELSE err

PairOf(f) ==
    CASE f.kind = "hr" -> FromResult(f.code)
      [] f.kind = "null" -> FromResult(E_OUTOFMEMORY)
      [] f.kind = "win32" -> FromResult(HresultFromWin32(f.code))
      [] f.kind = "bool" -> FromResult(HresultFromWin32(GetLastErrorFail(lastError)))
      [] f.kind = "status" -> FromStatus(f.code)

\* The FailureInfo that the hooks have seen and may have changed.  "leaked"
\* is the success in it that stops the process at once.
Logged(type, pair) ==
    LET given == IF type = "Log" /\ ~Failed(pair.hr)
                 THEN [FromResult(Win32Code(ERROR_ASSERTION_FAILURE)) EXCEPT !.kind = pair.kind]
                 ELSE pair
        cleared == setting.hook = "clears"
        left == IF cleared THEN [given EXCEPT !.hr = S_OK] ELSE given
    IN  [type |-> type,
         pair |-> IF Failed(left.hr) THEN left ELSE [FromResult(E_UNEXPECTED) EXCEPT !.kind = left.kind],
         leaked |-> ~Failed(left.hr) /\ type # "FailFast",
         failFast |-> setting.hook = "failFast"]

\* The process ends in the report.
Ends(info) == info.leaked \/ info.failFast \/ info.type = "FailFast"

\* Reporting, with the callbacks and what they do to the last error.
Told(err) ==
    /\ failureId' = failureId + 1
    /\ lastError' = err

\* The process ends; the failure stays with it.
Dies ==
    /\ at' = "dead"
    /\ UNCHANGED <<setting, depth, fault, exc, origin, as, guard>>

\* A Win32 error is one if it is not zero, the other codes if negative.
Fails(f) == IF f.kind = "win32" THEN f.code # 0 ELSE Failed(f.code)

\* The function returns the failure to its caller, who takes it for one
\* only if its code says so.
HandOn(f) ==
    /\ depth' = depth - 1
    /\ at' = IF Fails(f) THEN "failed" ELSE "lost"
    /\ fault' = f
    /\ exc' = NoException
    /\ as' = as \cup {f.kind}
    /\ UNCHANGED <<setting, origin>>

\* The function has dealt with the failure and goes on.
Handled ==
    /\ at' = "handled"
    /\ UNCHANGED <<setting, depth, fault, exc, origin, as>>

\* Mutant: what is caught is always wrapped anew.
Throws_Wraps(info, mayRethrow) ==
    /\ at' = "throwing"
    /\ exc' = [type |-> IF setting.mode = "cx" THEN "platform" ELSE "result",
               pair |-> info.pair, id |-> failureId + 1]
    /\ fault' = NoFault
    /\ UNCHANGED <<setting, origin, as, guard>>

\* ReportFailure_NoReturn: a Platform::Exception for C++/CX, the exception
\* of the catch block again where it needs no conversion, a ResultException
\* otherwise.
Throws(info, mayRethrow) ==
    /\ at' = "throwing"
    /\ exc' = IF mayRethrow THEN exc
              ELSE [type |-> IF setting.mode = "cx" THEN "platform" ELSE "result",
                    pair |-> info.pair, id |-> failureId + 1]
    /\ fault' = NoFault
    /\ UNCHANGED <<setting, origin, as, guard>>

-----------------------------------------------------------------------------
\* Something fails below.  A function that returns FALSE leaves its reason
\* in the last error, or forgets to.
CallFails ==
    /\ at = "running"
    /\ \E f \in [kind : {"hr"}, code : Hrs] \cup [kind : {"win32", "bool"}, code : Errs]
                \cup [kind : {"status"}, code : Statuses] \cup [kind : {"null"}, code : {0}] :
          /\ f.kind = "win32" => f.code # 0
          /\ fault' = f
          /\ origin' = f
          /\ lastError' = IF f.kind = "bool" THEN f.code ELSE lastError
    /\ at' = "failed"
    /\ UNCHANGED <<setting, depth, exc, failureId, as, guard>>

\* Something below throws an exception that is none of the library's.
ForeignThrow ==
    /\ at = "running"
    /\ \E type \in Foreign :
          /\ exc' = [type |-> type, pair |-> FromResult(S_OK), id |-> 0]
          /\ origin' = [kind |-> type, code |-> 0]
    /\ at' = "throwing"
    /\ UNCHANGED <<setting, depth, fault, lastError, failureId, as, guard>>

\* C++/WinRT reports what it is about to throw to its handler.
winrt_throw_hresult ==
    /\ at = "running"
    /\ setting.mode = "cppwinrt"
    /\ \E hr \in Hrs, err \in Errs :
          LET info == Logged("Log", FromResult(hr))
          IN  /\ Told(err)
              /\ origin' = [kind |-> "hr", code |-> hr]
              /\ exc' = [type |-> "winrt", pair |-> FromResult(hr), id |-> 0]
              /\ at' = IF Ends(info) THEN "dead" ELSE "throwing"
    /\ UNCHANGED <<setting, depth, fault, as, guard>>

\* THROW_EXCEPTION: an exception of the caller's own, derived from ResultException.
ReportFailure_CustomException ==
    /\ at = "running"
    /\ \E hr \in Hrs, err \in Errs :
          LET info == Logged("Exception", FromResult(hr))
          IN  /\ Told(err)
              /\ origin' = [kind |-> "hr", code |-> hr]
              /\ exc' = [type |-> "result", pair |-> info.pair, id |-> failureId + 1]
              /\ at' = IF Ends(info) THEN "dead" ELSE "throwing"
    /\ UNCHANGED <<setting, depth, fault, as, guard>>

-----------------------------------------------------------------------------
\* The macros for a failure in the hands of a function.
RETURN ==
    /\ at = "failed" /\ depth > 0
    /\ LET info == Logged("Return", PairOf(fault))
       IN  /\ \E err \in Errs : Told(err)
           /\ IF Ends(info) THEN Dies
              ELSE HandOn([kind |-> "hr", code |-> PairOf(fault).hr]) /\ UNCHANGED guard

\* RETURN_IF_*_EXPECTED: nobody is told.
RETURN_EXPECTED ==
    /\ at = "failed" /\ depth > 0
    /\ HandOn([kind |-> "hr", code |-> PairOf(fault).hr])
    /\ UNCHANGED <<lastError, failureId, guard>>

NT_RETURN_NTSTATUS ==
    /\ at = "failed" /\ depth > 0
    /\ fault.kind = "status"
    /\ LET info == Logged("Return", PairOf(fault))
       IN  /\ \E err \in Errs : Told(err)
           /\ IF Ends(info) THEN Dies ELSE HandOn(fault) /\ UNCHANGED guard

\* The last error, turned into an HRESULT for the report, and back.
Win32Of(f) == IF f.kind = "win32" THEN f.code ELSE Win32FromHr(PairOf(f).hr)

WIN32_RETURN ==
    /\ at = "failed" /\ depth > 0
    /\ fault.kind \in {"win32", "bool"}
    /\ LET info == Logged("Return", PairOf(fault))
       IN  /\ \E err \in Errs : Told(err)
           /\ IF Ends(info) THEN Dies
              ELSE HandOn([kind |-> "win32", code |-> Win32Of(fault)]) /\ UNCHANGED guard

WIN32_RETURN_EXPECTED ==
    /\ at = "failed" /\ depth > 0
    /\ fault.kind \in {"win32", "bool"}
    /\ HandOn([kind |-> "win32", code |-> Win32Of(fault)])
    /\ UNCHANGED <<lastError, failureId, guard>>

THROW ==
    /\ at = "failed"
    /\ LET info == Logged("Exception", PairOf(fault))
       IN  /\ \E err \in Errs : Told(err)
           /\ IF Ends(info) THEN Dies ELSE Throws(info, FALSE) /\ UNCHANGED depth

\* The last error is put back behind the callbacks where it is the failure.
LOG ==
    /\ at = "failed"
    /\ LET info == Logged("Log", PairOf(fault))
       IN  /\ \E err \in Errs :
                 Told(IF fault.kind = "bool" THEN GetLastErrorFail(lastError) ELSE err)
           /\ IF Ends(info) THEN Dies ELSE Handled /\ UNCHANGED guard

FAIL_FAST ==
    /\ at = "failed"
    /\ \E err \in Errs : Told(err)
    /\ Dies

-----------------------------------------------------------------------------
\* What each recogniser makes of the exception in the catch block; success
\* says that it does not know it.
PlainCode ==
    CASE exc.type = "result" -> exc.pair.hr
      [] exc.type = "alloc" -> E_OUTOFMEMORY
      [] exc.type \in Standard -> UnhandledException
      [] OTHER -> IF setting.mapper THEN E_FAIL ELSE S_OK

ResultFromCaughtException_CppWinRt ==
    CASE exc.type = "winrt" -> exc.pair.hr
      [] exc.type = "range" -> E_BOUNDS
      [] exc.type = "invalid" -> E_INVALIDARG
      [] OTHER -> PlainCode

ResultFromCaughtException_WinRt ==
    IF exc.type = "platform" THEN exc.pair.hr ELSE PlainCode

\* Mutant: only the HRESULT is taken from a ResultException.
ResultFromCaughtExceptionInternal_HrOnly ==
    CASE setting.mode = "cppwinrt" -> [pair |-> FromResult(ResultFromCaughtException_CppWinRt),
                                       normalized |-> exc.type = "result"]
      [] setting.mode = "cx" -> [pair |-> FromResult(ResultFromCaughtException_WinRt),
                                 normalized |-> exc.type = "platform"]
      [] OTHER -> [pair |-> FromResult(PlainCode), normalized |-> exc.type = "result"]

\* The failure, and whether throwing it needs no conversion.
ResultFromCaughtExceptionInternal ==
    CASE setting.mode = "cppwinrt" -> [pair |-> FromResult(ResultFromCaughtException_CppWinRt),
                                       normalized |-> exc.type = "result"]
      [] setting.mode = "cx" -> [pair |-> FromResult(ResultFromCaughtException_WinRt),
                                 normalized |-> exc.type = "platform"]
      [] OTHER -> [pair |-> IF exc.type = "result" THEN exc.pair ELSE FromResult(PlainCode),
                   normalized |-> exc.type = "result"]

Known == Failed(ResultFromCaughtExceptionInternal.pair.hr)

KnownPair == IF Known THEN ResultFromCaughtExceptionInternal.pair ELSE FromResult(UnhandledException)

\* Mutant: any known exception passes where only those thrown by the library may.
Refused_ThrownAsKnown(supported) ==
    \/ supported = "None"
    \/ supported \in {"Known", "Thrown"} /\ ~Known
    \/ supported = "Default" /\ ~Known /\ setting.failFastUnknown

\* The exceptions that a catch fails fast for instead of reporting them.
Refused(supported) ==
    \/ supported = "None"
    \/ supported = "Known" /\ ~Known
    \/ supported = "Thrown" /\ ~ResultFromCaughtExceptionInternal.normalized
    \/ supported = "Default" /\ ~Known /\ setting.failFastUnknown

\* ReportFailure_CaughtExceptionCommon: what is reported of the exception.
CaughtInfo(type, supported) ==
    Logged(IF Refused(supported) THEN "FailFast" ELSE type, KnownPair)

Accepts(supported) == guard' = [supported |-> supported, type |-> exc.type]

-----------------------------------------------------------------------------
\* What a function does with an exception that reaches it.
Unwind ==
    /\ at = "throwing" /\ depth > 0
    /\ depth' = depth - 1
    /\ UNCHANGED <<setting, at, fault, exc, lastError, failureId, origin, as, guard>>

CATCH_RETURN ==
    /\ at = "throwing" /\ depth > 0
    /\ LET info == CaughtInfo("Return", "Default")
       IN  /\ \E err \in Errs : Told(err)
           /\ IF Ends(info) THEN Dies
              ELSE HandOn([kind |-> "hr", code |-> KnownPair.hr]) /\ Accepts("Default")

NT_CATCH_RETURN ==
    /\ at = "throwing" /\ depth > 0
    /\ LET info == CaughtInfo("Return", "Default")
       IN  /\ \E err \in Errs : Told(err)
           /\ IF Ends(info) THEN Dies
              ELSE HandOn([kind |-> "status", code |-> KnownPair.status]) /\ Accepts("Default")

WIN32_CATCH_RETURN ==
    /\ at = "throwing" /\ depth > 0
    /\ LET info == CaughtInfo("Return", "Default")
       IN  /\ \E err \in Errs : Told(err)
           /\ IF Ends(info) THEN Dies
              ELSE /\ HandOn([kind |-> "win32", code |-> Win32FromHr(KnownPair.hr)])
                   /\ Accepts("Default")

CATCH_LOG ==
    /\ at = "throwing"
    /\ LET info == CaughtInfo("Log", "Default")
       IN  /\ \E err \in Errs : Told(err)
           /\ IF Ends(info) THEN Dies ELSE Handled /\ Accepts("Default")

CATCH_FAIL_FAST ==
    /\ at = "throwing"
    /\ \E err \in Errs : Told(err)
    /\ Dies

CATCH_THROW_NORMALIZED ==
    /\ at = "throwing" /\ depth > 0
    /\ LET info == CaughtInfo("Exception", "Default")
       IN  /\ \E err \in Errs : Told(err)
           /\ IF Ends(info) THEN Dies
              ELSE /\ Throws(info, ResultFromCaughtExceptionInternal.normalized)
                   /\ depth' = depth - 1

\* CATCH_RETURN_EXPECTED: nobody is told, unless the exception is unknown.
ResultFromCaughtException ==
    /\ at = "throwing" /\ depth > 0
    /\ IF ~Known /\ setting.failFastUnknown
       THEN /\ \E err \in Errs : Told(err)
            /\ Dies
       ELSE /\ HandOn([kind |-> "hr", code |-> KnownPair.hr])
            /\ Accepts("Default")
            /\ UNCHANGED <<lastError, failureId>>

Win32ErrorFromCaughtException ==
    /\ at = "throwing" /\ depth > 0
    /\ IF ~Known /\ setting.failFastUnknown
       THEN /\ \E err \in Errs : Told(err)
            /\ Dies
       ELSE /\ HandOn([kind |-> "win32", code |-> Win32FromHr(KnownPair.hr)])
            /\ Accepts("Default")
            /\ UNCHANGED <<lastError, failureId>>

\* The same for an NTSTATUS, which decides whether the exception is known.
StatusFromCaughtException ==
    /\ at = "throwing" /\ depth > 0
    /\ LET status == ResultFromCaughtExceptionInternal.pair.status
       IN  IF ~Failed(status) /\ setting.failFastUnknown
           THEN /\ \E err \in Errs : Told(err)
                /\ Dies
           ELSE /\ HandOn([kind |-> "status",
                           code |-> IF Failed(status) THEN status ELSE HrToNtStatus(UnhandledException)])
                /\ Accepts("Default")
                /\ UNCHANGED <<lastError, failureId>>

-----------------------------------------------------------------------------
\* The exception guards.  In a release build the guard catches everything
\* and refuses some of it.
Supported == {"Default", "Known", "All", "None", "Thrown", "ThrownOrAlloc"}

ResultFromException ==
    /\ at = "throwing" /\ depth > 0
    /\ \E supported \in Supported :
          LET info == CaughtInfo("Log", supported)
          IN  /\ \E err \in Errs : Told(err)
              /\ IF Ends(info) THEN Dies
                 ELSE HandOn([kind |-> "hr", code |-> KnownPair.hr]) /\ Accepts(supported)

\* ResultFromKnownExceptions: the exceptions that the guard of a debug build
\* catches, and what it makes of them.
Catches(supported) ==
    LET thrown == {"result"} \cup IF setting.mode = "cx" THEN {"platform"} ELSE {}
        cppwinrt == setting.mode = "cppwinrt" /\ Known
    IN  CASE supported = "None" -> FALSE
          [] supported = "All" -> TRUE
          [] supported = "Thrown" -> exc.type \in thrown
          [] supported = "ThrownOrAlloc" -> exc.type \in thrown \cup {"alloc"}
          [] OTHER -> exc.type \in thrown \cup {"alloc"} \cup Standard \/ cppwinrt

CaughtCode(supported) ==
    IF supported # "All" /\ exc.type \in Standard THEN UnhandledException
    ELSE KnownPair.hr

\* The guard of a debug build ends the process where the exception is
\* thrown if it will not catch it.
ResultFromExceptionDebug ==
    /\ at = "throwing" /\ depth > 0
    /\ \E supported \in Supported :
          IF ~Catches(supported)
          THEN /\ Dies
               /\ UNCHANGED <<lastError, failureId>>
          ELSE LET info == Logged("Log", FromResult(CaughtCode(supported)))
               IN  /\ \E err \in Errs : Told(err)
                   /\ IF Ends(info) THEN Dies
                      ELSE HandOn([kind |-> "hr", code |-> CaughtCode(supported)]) /\ Accepts(supported)

Next ==
    \/ CallFails \/ ForeignThrow \/ winrt_throw_hresult \/ ReportFailure_CustomException
    \/ RETURN \/ RETURN_EXPECTED \/ NT_RETURN_NTSTATUS \/ WIN32_RETURN \/ WIN32_RETURN_EXPECTED
    \/ THROW \/ LOG \/ FAIL_FAST
    \/ Unwind \/ CATCH_RETURN \/ NT_CATCH_RETURN \/ WIN32_CATCH_RETURN \/ CATCH_LOG
    \/ CATCH_FAIL_FAST \/ CATCH_THROW_NORMALIZED \/ ResultFromCaughtException
    \/ Win32ErrorFromCaughtException \/ StatusFromCaughtException
    \/ ResultFromException \/ ResultFromExceptionDebug

Spec == Init /\ [][Next]_vars

-----------------------------------------------------------------------------
Kinds == {"none", "hr", "win32", "bool", "status", "null"} \cup Foreign
Pairs == [hr : Int32, status : Int32, kind : {"HResult", "NtStatus"}]

TypeOK ==
    /\ setting \in Settings
    /\ depth \in 0 .. Depth
    /\ at \in {"running", "failed", "throwing", "handled", "lost", "dead"}
    /\ fault \in [kind : Kinds, code : Int32]
    /\ exc \in [type : {"none", "result", "platform", "winrt"} \cup Foreign, pair : Pairs, id : Nat]
    /\ lastError \in Errors
    /\ failureId \in Nat
    /\ origin \in [kind : Kinds, code : Int32]
    /\ as \subseteq Kinds

\* A failed HRESULT whose Win32 error is none, such as 0x80070000.
WithoutError(hr) == Facility(hr) = FACILITY_WIN32 /\ hr % 65536 = 0

\* A failure stays one on its way up: no function is handed success for it,
\* whichever macros the functions below used and whatever was thrown.  The
\* one exception is an HRESULT whose Win32 error is none: its NTSTATUS and
\* its Win32 error are success (ReportFailure_*, HrToNtStatus,
\* __WIN32_FROM_HRESULT).
FailureStaysFailure ==
    at = "lost" => fault.kind \in {"status", "win32"} /\ WithoutError(origin.code)

\* The HRESULT that a failure had at its origin.
OriginHr(o) ==
    CASE o.kind = "hr" -> o.code
      [] o.kind = "win32" -> HresultFromWin32(o.code)
      [] o.kind = "bool" -> HresultFromWin32(GetLastErrorFail(o.code))
      [] o.kind = "status" -> NtStatusToHr(o.code)
      [] o.kind \in {"null", "alloc"} -> E_OUTOFMEMORY
      [] o.kind = "std" -> UnhandledException

\* A Win32 error has no room for what surrounds it in an HRESULT.
Same(types, a, b) ==
    IF "win32" \in types THEN Win32FromHr(a) = Win32FromHr(b) ELSE a = b

\* The code survives being returned, thrown, caught, normalised and thrown
\* again: every function sees the HRESULT of the origin as long as nobody
\* squeezed it through an NTSTATUS, up to the Win32 error if it was one on
\* the way; and, without the C++/WinRT and C++/CX recognisers, the NTSTATUS
\* of the origin as long as nobody returned it as anything else
\* (ReportFailure_CaughtExceptionCommon, ResultStatus).
CodeSurvives ==
    LET seen == IF at = "failed" THEN PairOf(fault) ELSE exc.pair
    IN  at = "failed" \/ (at = "throwing" /\ exc.type \in {"result", "platform"}) =>
            /\ origin.kind \notin {"unknown", "range", "invalid"} /\ "status" \notin as =>
                   Same(as, seen.hr, OriginHr(origin))
            /\ origin.kind = "status" /\ "hr" \notin as /\ "win32" \notin as /\ setting.mode = "plain" =>
                   seen.status = origin.code

\* A catch lets pass only what it was asked to accept: nothing, what the
\* library throws, what it knows, or by default what it knows unless the
\* process tolerates unknown exceptions; everything else has ended the
\* process (SupportedExceptions).  Nothing is said of ThrownOrAlloc, which
\* the guard of a release build does not tell from All.
Recognised(type) == type # "unknown" \/ setting.mapper

GuardsAreHonoured ==
    at \in {"failed", "handled"} /\ guard.type # "none" =>
        CASE guard.supported = "None" -> FALSE
          [] guard.supported = "Thrown" -> guard.type \in {"result", "platform"}
          [] guard.supported = "Known" -> Recognised(guard.type)
          [] guard.supported = "Default" -> Recognised(guard.type) \/ ~setting.failFastUnknown
          [] OTHER -> TRUE

\* An exception that needs no conversion is thrown again as it is, with the
\* FailureInfo of its origin, however often it is caught and normalised; it
\* is never wrapped anew (MayRethrow).
ThrownOnce ==
    [][at = "throwing" /\ at' = "throwing"
       /\ exc.type = (IF setting.mode = "cx" THEN "platform" ELSE "result") => exc' = exc]_vars

=============================================================================
